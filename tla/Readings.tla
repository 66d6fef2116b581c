------------------------------ MODULE Readings ------------------------------
(***************************************************************************)
(* What the requests of the session return: the reading of records and     *)
(* archives of src/src/smadata2plus.cpp on top of Smadata2plus, which      *)
(* brings the answers.  The content of an answer is an input, chosen when  *)
(* the answer is read; an archive is cut into as many chunks as its first  *)
(* packet announces.  The requests are those made in time and before an    *)
(* answer was left over: after that, packets of several archives may mix.  *)
(*                                                                         *)
(* Packets hold whole records and entries, trackers number from 1 as far   *)
(* as pvlib_dc has room (0 is a record of no tracker), and an inverter     *)
(* marks a missing value with the bit pattern its conversion tests for.    *)
(* Times are in hours.  Names and versions are numbers here (0 is the empty *)
(* text), and the texts of events are left out.                            *)
(***************************************************************************)
EXTENDS Smadata2plus, SequencesExt

CONSTANTS
    Invalid,            \* PVLIB_INVALID_S32, _U32, _S64, _U64
    NoReading,          \* no call has stored anything yet
    Trackers,           \* size of the arrays of pvlib_dc
    MaxRecords,         \* per object, the records its buffer holds
    BUF_LEN,            \* size of the packet buffer of an archive, 512
    Ranges,             \* the pairs <<from, to>> the application asks for
    Contents(_),        \* what the answer to a request may hold
    Chunks(_, _)        \* what an archive of n packets may hold

ASSUME TimelyReadings == Timely /\ ~RequestsGoOn
ASSUME TrackersAssumption == Trackers \in Nat \ {0}
ASSUME ObjectsAssumption ==
    /\ Records \subseteq {"ac", "dc", "stats", "info"} /\ Status = "status"
    /\ Archive \subseteq {"day", "events"}
ASSUME RoomAssumption == BUF_LEN \in Nat /\ \A obj \in Records : MaxRecords[obj] \in Nat

VARIABLES
    range,              \* from and to of the request
    content,            \* what the inverter answered
    reading             \* what the call stored for the application

readVars == <<vars, range, content, reading>>

\* The records of an answer, those of readInverterInfo(), and the entries of an
\* archive.
Record == [cnt : Nat, idx : STRING, value : Int \cup {Invalid}]
Attribute == [attribute : Nat \ {0}, selected : BOOLEAN]
InfoRecord == [idx : STRING, value : Nat, attributes : Seq(Attribute)]
Entry == [time : Nat, value : Int \cup {Invalid}]

\* There is no tracker that pvlib_dc has no room for.
ASSUME ContentsAssumption ==
    /\ \A obj \in Records \ {"info"} : Contents(obj) \subseteq Seq(Record)
    /\ "dc" \in Records => \A c \in Contents("dc"), i \in 1 .. MaxRecords["dc"] :
                              i <= Len(c) => c[i].cnt <= Trackers
    /\ "info" \in Records => Contents("info") \subseteq Seq(InfoRecord)
    /\ Contents(Status) \subseteq Seq(Attribute)

HEADER == 12
END == 16777214         \* 0xfffffe, the end of enums
DAY == 24
GAP == 48               \* hours between two totals that are no day yield

-----------------------------------------------------------------------------
(* Records: one packet.                                                    *)

parseChannelRecords(recs, obj) == SubSeq(recs, 1, Min({Len(recs), MaxRecords[obj]}))

\* To volts and hertz in thousandths; powers, currents and counters as they are.
Factor(idx) == IF idx \in {"voltage", "frequency"} THEN 10 ELSE 1

convert(idx, value) == IF value = Invalid THEN Invalid ELSE value * Factor(idx)

\* pvlib_ac and pvlib_stats as functions of <<quantity, phase>>.
AcField == {<<q, p>> : q \in {"power", "voltage", "current"}, p \in 1 .. 3}
               \cup {<<"totalPower", 0>>, <<"frequency", 0>>}
StatsField == {"totalYield", "dayYield", "operationTime", "feedInTime"} \X {0}
FieldOf(obj) == IF obj = "ac" THEN AcField ELSE StatsField

\* pvlib_init_ac(), pvlib_init_stats().
InitFields(obj) == [f \in FieldOf(obj) |-> Invalid]

\* Mutant: a missing value leaves the value before it.
StoreField_Keep(out, r) ==
    LET f == <<r.idx, r.cnt>>
    IN  IF f \in DOMAIN out /\ r.value # Invalid
          THEN [out EXCEPT ![f] = convert(r.idx, r.value)] ELSE out

StoreField(out, r) ==
    LET f == <<r.idx, r.cnt>>
    IN  IF f \in DOMAIN out THEN [out EXCEPT ![f] = convert(r.idx, r.value)] ELSE out

readFields(obj, recs) == FoldLeft(StoreField, InitFields(obj), recs)

InitDc ==
    LET none == [t \in 1 .. Trackers |-> Invalid]
    IN  [power |-> none, voltage |-> none, current |-> none, trackerNum |-> 0]

\* Mutant: the number of trackers is that of the last record.
StoreDc_Last(dc, r) ==
    IF r.cnt < 1
      THEN dc
      ELSE LET counted == [dc EXCEPT !.trackerNum = r.cnt]
           IN  IF r.idx \in {"power", "voltage", "current"}
                 THEN [counted EXCEPT ![r.idx][r.cnt] = convert(r.idx, r.value)]
                 ELSE counted

\* One record of readDc(); the number of the tracker counts whatever it is about.
StoreDc(dc, r) ==
    IF r.cnt < 1
      THEN dc
      ELSE LET counted == [dc EXCEPT !.trackerNum = Max({@, r.cnt})]
           IN  IF r.idx \in {"power", "voltage", "current"}
                 THEN [counted EXCEPT ![r.idx][r.cnt] = convert(r.idx, r.value)]
                 ELSE counted

\* The sum over the trackers with a valid power, if there is one.
totalPower(dc) ==
    LET valid == {t \in 1 .. dc.trackerNum : dc.power[t] # Invalid}
    IN  IF valid = {} THEN Invalid ELSE MapThenSumSet(LAMBDA t : dc.power[t], valid)

readDc(recs) ==
    LET dc == FoldLeft(StoreDc, InitDc, recs)
    IN  [power |-> dc.power, voltage |-> dc.voltage, current |-> dc.current,
         trackerNum |-> dc.trackerNum, totalPower |-> totalPower(dc)]

\* Mutant: what follows the end of enums counts.
parseAttributes_All(data) == SelectSeq(data, LAMBDA a : a.attribute # END)

\* The attributes before the end of enums.
parseAttributes(data) ==
    LET ends == {i \in 1 .. Len(data) : data[i].attribute = END} \cup {Len(data) + 1}
    IN  SubSeq(data, 1, Min(ends) - 1)

StatusOf(number) ==
    CASE number = 307 -> "OK"
      [] number = 35 -> "ERROR"
      [] number = 303 -> "OFF"
      [] number = 455 -> "WARNING"
      [] OTHER -> "UNKNOWN"

\* The last attribute that is selected, none if there is no such one.
TakeSelected(last, a) == IF a.selected THEN a.attribute ELSE last
selectedOf(data, none) == FoldLeft(TakeSelected, none, parseAttributes(data))

\* readStatus(): its record holds a list of attributes.
readStatus(data) ==
    LET number == selectedOf(data, 0) IN [number |-> number, status |-> StatusOf(number)]

InitInfo == [name |-> 0, type |-> 0, firmware_version |-> 0]

\* One record of readInverterInfo(); a firmware version with a digit above 9 is
\* ignored (0 is the empty text).
StoreInfo(info, r) ==
    CASE r.idx = "name" -> [info EXCEPT !.name = r.value]
      [] r.idx = "type" -> [info EXCEPT !.type = selectedOf(r.attributes, @)]
      [] r.idx = "version" /\ r.value <= 9 -> [info EXCEPT !.firmware_version = r.value]
      [] OTHER -> info

readInverterInfo(recs) == FoldLeft(StoreInfo, InitInfo, recs)

\* What the request for an object makes of the content of its answer.
RecordsReading(obj, c) ==
    CASE obj = "dc" -> readDc(parseChannelRecords(c, obj))
      [] obj = Status -> readStatus(c)
      [] obj = "info" -> readInverterInfo(parseChannelRecords(c, obj))
      [] OTHER -> readFields(obj, parseChannelRecords(c, obj))

-----------------------------------------------------------------------------
(* Archives: several packets.                                              *)

EntryLen(obj) == IF obj = "day" THEN 12 ELSE 48

\* Mutant: `to` is not tested.
Wanted_From(e) == range[1] <= e.time /\ (op.obj = "day" => e.value # Invalid)

\* The filter of readTotalDayData() and readEventData(): an inverter may return
\* its whole history.
Wanted(e) ==
    /\ range[1] <= e.time /\ e.time <= range[2]
    /\ op.obj = "day" => e.value # Invalid

\* An inverter sends an archive in the order of time and the totals at the end of
\* the days.  Its packets fit into the buffer and hold the entries their header
\* announces, at least one: one that is too short for a header, or announces
\* none, is a failed read (ReadFails).
ASSUME ChunksAssumption ==
    \A obj \in Archive, n \in 1 .. MaxFragments : \A c \in Chunks(obj, n) :
        /\ c \in Seq(Seq(Entry)) /\ Len(c) = n
        /\ \A i \in 1 .. n : Len(c[i]) > 0 /\ HEADER + EntryLen(obj) * Len(c[i]) <= BUF_LEN
        /\ \A i, j \in 1 .. n : \A k \in 1 .. Len(c[i]), l \in 1 .. Len(c[j]) :
              i < j \/ (i = j /\ k < l) => c[i][k].time < c[j][l].time
        /\ obj = "day" => \A i \in 1 .. n : \A k \in 1 .. Len(c[i]) : c[i][k].time % DAY = 0

\* Mutant: an entry must end before the last byte of the packet.
Fitting_Strict(len, obj) == IF len <= HEADER THEN 0 ELSE (len - HEADER - 1) \div EntryLen(obj)

\* The entries that end within len bytes.
Fitting(len, obj) == IF len < HEADER THEN 0 ELSE (len - HEADER) \div EntryLen(obj)

TakeEntry(entries, e) == IF Wanted(e) THEN Append(entries, e) ELSE entries

\* One packet: Smadata2plus::read() stores min(packet.len, length) in packet.len, which
\* nobody sets to the size of the buffer again, and the loop takes as many
\* entries as the header announces and packet.len holds.
TakePacket(acc, chunk) ==
    LET len == Min({acc.len, HEADER + EntryLen(op.obj) * Len(chunk)})
        taken == SubSeq(chunk, 1, Min({Len(chunk), Fitting(len, op.obj)}))
    IN  [len |-> len, entries |-> FoldLeft(TakeEntry, acc.entries, taken)]

\* The entries of the packets read, each with its chunk of the archive.
Gathered(parts_, chunks) ==
    FoldLeft(TakePacket, [len |-> BUF_LEN, entries |-> <<>>],
             [i \in 1 .. Len(parts_) |-> chunks[Len(chunks) - parts_[i].num]]).entries

\* Mutant: a gap of exactly two days counts as one day.
NextYield_Gap(data, yields, i) ==
    IF data[i].time - data[i - 1].time > GAP
      THEN yields
      ELSE Append(yields, [time |-> data[i].time, value |-> data[i].value - data[i - 1].value])

\* One turn of the loop of readDayYield().
NextYield(data, yields, i) ==
    IF data[i].time - data[i - 1].time >= GAP
      THEN yields
      ELSE Append(yields, [time |-> data[i].time, value |-> data[i].value - data[i - 1].value])

\* With fewer than two totals the call returns 0 and leaves the pointer of
\* the application as it is.
readDayYield(data) ==
    IF Len(data) < 2
      THEN [allocated |-> FALSE, values |-> <<>>]
      ELSE [allocated |-> TRUE,
            values |-> FoldLeft(LAMBDA yields, i : NextYield(data, yields, i), <<>>,
                                [i \in 1 .. Len(data) - 1 |-> i + 1])]

\* The text of an event is left out.
readEvents(data) == [allocated |-> TRUE, values |-> data]

ArchiveReading(data) == IF op.obj = "day" THEN readDayYield(data) ELSE readEvents(data)

-----------------------------------------------------------------------------
(* The session, with what its requests read.                               *)

ReadInit == Init /\ range = <<0, 0>> /\ content = <<>> /\ reading = NoReading

\* A call with its out-parameters; only archives have a range.
ReadRequest(id, obj) ==
    /\ Request(id, obj)
    /\ range' \in (IF obj \in Archive THEN Ranges ELSE {<<0, 0>>})
    /\ content' = <<>> /\ reading' = NoReading

ReadRecords ==
    /\ RecordAnswer
    /\ UNCHANGED range
    /\ IF result' # result
         THEN /\ content' \in Contents(op.obj)
              /\ reading' = RecordsReading(op.obj, content')
         ELSE UNCHANGED <<content, reading>>

ReadArchive ==
    /\ ArchiveAnswer
    /\ UNCHANGED range
    /\ IF result' # result
         THEN /\ content' \in Chunks(op.obj, result'.parts[1].num + 1)
              /\ reading' = ArchiveReading(Gathered(result'.parts, content'))
         ELSE UNCHANGED <<content, reading>>

\* Every other step of the session; in time means that nothing is lost.
SessionStep ==
    /\ \/ Connect \/ Reconnect \/ disconnect \/ ConnectStep \/ ReadFails
       \/ requestChannel \/ requestArchiveData
       \/ \E s \in Serial : Arrive(s)
    /\ UNCHANGED <<range, content, reading>>

ReadNext ==
    \/ SessionStep \/ ReadRecords \/ ReadArchive
    \/ \E id \in Serial, obj \in Object : ReadRequest(id, obj)

ReadSpec == ReadInit /\ [][ReadNext]_readVars

\* As FairSpec of Smadata2plus: calls keep running and answers arrive.
ReadFairSpec ==
    /\ ReadSpec
    /\ WF_vars(Step)
    /\ \A s \in Serial : WF_vars(Arrive(s))

-----------------------------------------------------------------------------
(* Properties.                                                             *)

Answered(obj) == reading # NoReading /\ op.obj = obj

\* The records readAc() and the others look at, and the last one of a field.
Looked == parseChannelRecords(content, op.obj)
Latest(idx, cnt_) ==
    LET about == {i \in 1 .. Len(Looked) : Looked[i].idx = idx /\ Looked[i].cnt = cnt_}
    IN  IF about = {} THEN Invalid ELSE convert(idx, Looked[Max(about)].value)

\* Whatever records an answer holds and in whatever order, a value is that of
\* the last record about it, and without one it is marked invalid.
SpotValuesAreLatest ==
    /\ \A obj \in Records \cap {"ac", "stats"} : Answered(obj) =>
          \A f \in FieldOf(obj) : reading[f] = Latest(f[1], f[2])
    /\ Answered("dc") =>
          \A q \in {"power", "voltage", "current"}, t \in 1 .. Trackers :
              reading[q][t] = Latest(q, t)

\* The total power is the sum of the powers of all trackers that report one,
\* also when trackers report out of order or a tracker between them is silent;
\* with none it is invalid, not 0.
TotalPowerIsSum ==
    Answered("dc") =>
        LET valid == {t \in 1 .. Trackers : Latest("power", t) # Invalid}
        IN  reading.totalPower = IF valid = {} THEN Invalid
                                 ELSE MapThenSumSet(LAMBDA t : Latest("power", t), valid)

\* What a list of attributes selects: the last one selected before its end.
Selection(list, none) ==
    LET listed == {i \in 1 .. Len(list) : \A j \in 1 .. i : list[j].attribute # END}
        selected == {i \in listed : list[i].selected}
    IN  IF selected = {} THEN none ELSE list[Max(selected)].attribute

\* The status is the attribute that is selected in the list before its end,
\* unknown if none is, and so is the type of the inverter; what the record holds
\* behind the end does not count, nor does a record the array has no room for.
AttributesAreSelected ==
    /\ Answered(Status) => reading.number = Selection(content, 0)
    /\ Answered("info") =>
          LET types == {i \in 1 .. Len(Looked) :
                           Looked[i].idx = "type" /\ Selection(Looked[i].attributes, 0) # 0}
          IN  reading.type = IF types = {} THEN 0
                             ELSE Selection(Looked[Max(types)].attributes, 0)

\* All entries the inverter sent, in the order sent.
Sent == FlattenSeq(content)

\* Every yield is the difference of two totals a day apart: a day whose total
\* is missing, outside of the range or cut off does not add its yield to the
\* next day.
YieldsAreDaily ==
    Answered("day") =>
        \A k \in 1 .. Len(reading.values) :
            \E i, j \in 1 .. Len(Sent) :
                /\ Sent[i].value # Invalid /\ Sent[j].value # Invalid
                /\ Sent[j].time = Sent[i].time + DAY
                /\ Sent[j].time = reading.values[k].time
                /\ Sent[j].value - Sent[i].value = reading.values[k].value

\* packet.len only ever shrinks: no packet is longer than one before it.
NoPacketGrows ==
    \A i, j \in 1 .. Len(content) : i < j => Len(content[i]) >= Len(content[j])

\* As long as no packet is longer than one before it, nothing of an archive is
\* lost: every event of the range is returned, and the yield of every day of it
\* with a total the day before.
ArchiveIsWhole ==
    reading # NoReading /\ op.obj \in Archive /\ NoPacketGrows =>
        \A j \in 1 .. Len(Sent) :
            /\ Wanted(Sent[j])
            /\ op.obj = "day" =>
                  \E i \in 1 .. Len(Sent) :
                      Wanted(Sent[i]) /\ Sent[j].time = Sent[i].time + DAY
            => \E k \in 1 .. Len(reading.values) : reading.values[k].time = Sent[j].time

\* However an archive is cut into packets, it comes back in the order of
\* time, no entry twice and none outside of the range asked for.
ArchiveInOrder ==
    reading # NoReading /\ op.obj \in Archive =>
        /\ \A k \in 1 .. Len(reading.values) :
              range[1] <= reading.values[k].time /\ reading.values[k].time <= range[2]
        /\ \A k \in 2 .. Len(reading.values) :
              reading.values[k - 1].time < reading.values[k].time

\* "archive values. Need to be freed after use." (pvlib.h): after a call that
\* did not fail there is something the application can free.
ArchiveCanBeFreed ==
    reading # NoReading /\ op.obj \in Archive => reading.allocated
=============================================================================
