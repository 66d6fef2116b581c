---------------------------- MODULE Readings_proofs ----------------------------
(***************************************************************************)
(* Reading the answers does not disturb the session: what is proved of     *)
(* Smadata2plus holds of the program that reads records and archives too.  *)
(* And whatever an answer holds, the application gets what Readings         *)
(* promises: the loops over records, attributes, packets, entries and      *)
(* totals are folds, each followed step by step (FoldExists of             *)
(* Sequence_lemmas), and what a call has stored stays until the next        *)
(* request.                                                                *)
(***************************************************************************)
EXTENDS Readings, Timely_proofs

\* Whatever an answer holds, reading it makes the session do what it does, or
\* nothing.
LEMMA ReadStep == [ReadNext]_readVars => [Next]_vars
<1> SUFFICES ASSUME [ReadNext]_readVars PROVE [Next]_vars
  OBVIOUS
<1> USE DEF Next, ApiCall, Step, RequestStep
<1>1. CASE SessionStep
  BY <1>1 DEF SessionStep
<1>2. CASE ReadRecords
  BY <1>2 DEF ReadRecords
<1>3. CASE ReadArchive
  BY <1>3 DEF ReadArchive
<1>4. ASSUME NEW id \in Serial, NEW obj \in Object, ReadRequest(id, obj)
      PROVE  [Next]_vars
  BY <1>4 DEF ReadRequest
<1>5. CASE UNCHANGED readVars
  BY <1>5 DEF readVars
<1> QED
  BY <1>1, <1>2, <1>3, <1>4, <1>5 DEF ReadNext

\* The program that reads is the session: the out-parameters of a call never
\* decide what the next step of the protocol is.
THEOREM ReadingIsSession == ReadSpec => Spec
<1>1. ReadInit => Init
  BY DEF ReadInit
<1> QED
  BY <1>1, ReadStep, PTL DEF ReadSpec, Spec

\* Reading leaves the promises of the session intact with a plant that answers in
\* time: the list of devices is complete, no device is missing, and until several
\* inverters answered a query of which the code reads one answer what is decoded
\* came from the inverter that was asked, about what it was asked, with packets
\* that count down to 0.
THEOREM DecodedAnswersAreWhole ==
    ASSUME TimelyPlant
    PROVE  ReadSpec => [](PlantComplete /\ NeverCrashes /\ AnswersAreAsked /\ ArchiveComplete)
BY ReadingIsSession, PlantIsComplete, SessionSurvives, ResultsAreAsked, ArchivesAreComplete, PTL

-----------------------------------------------------------------------------
(* The loops over the records of an answer.                                *)

\* The larger of two numbers.
LEMMA MaxOfTwo ==
    ASSUME NEW a \in Int, NEW b \in Int
    PROVE  Max({a, b}) = IF a <= b THEN b ELSE a
<1>1. \E x \in {a, b} : \A y \in {a, b} : x >= y
  <2>1. CASE a <= b BY <2>1
  <2>2. CASE b <= a BY <2>2
  <2> QED BY <2>1, <2>2
<1>2. Max({a, b}) \in {a, b} /\ \A y \in {a, b} : Max({a, b}) >= y
  BY <1>1 DEF Max
<1> QED
  BY <1>2

\* readAc() and readStats() store record after record.
LEMMA FieldsFolded ==
    ASSUME NEW obj, NEW recs \in Seq(Record)
    PROVE  \E acc : /\ acc[0] = InitFields(obj) /\ readFields(obj, recs) = acc[Len(recs)]
                    /\ \A k \in 1 .. Len(recs) : acc[k] = StoreField(acc[k - 1], recs[k])
<1> DEFINE n == Len(recs)
           base == InitFields(obj)
           W == {Invalid} \cup {convert(recs[i].idx, recs[i].value) : i \in 1 .. n}
           V == [FieldOf(obj) -> W]
           step == [i \in 1 .. n |-> [v \in V |-> StoreField(v, recs[i])]]
           Is(g) == g = [s \in SUBSET DOMAIN recs |->
                            IF s = {} THEN base ELSE StoreField(g[s \ {Max(s)}], recs[Max(s)])]
<1>0. n \in Nat /\ DOMAIN recs = 1 .. n
  BY LenProperties
<1>1. base \in V
  BY DEF InitFields
<1>2. ASSUME NEW i \in 1 .. n, NEW v \in V PROVE StoreField(v, recs[i]) \in V
  <2>1. convert(recs[i].idx, recs[i].value) \in W
    OBVIOUS
  <2> HIDE DEF W
  <2> QED
    BY <2>1 DEF StoreField
<1>3. step \in [1 .. n -> [V -> V]]
  <2> HIDE DEF V
  <2> QED
    BY <1>2
<1> HIDE DEF V, base, n
<1>4. \E it : Is(it)
  <2> HIDE DEF step
  <2>1. PICK it \in [SUBSET (1 .. n) -> V] : IsFold(it, n, base, step)
    BY <1>0, <1>1, <1>3, FoldExists
  <2>2. ASSUME NEW s \in SUBSET (1 .. n), s # {}
        PROVE  step[Max(s)][it[s \ {Max(s)}]] = StoreField(it[s \ {Max(s)}], recs[Max(s)])
    <3>1. Max(s) \in 1 .. n /\ s \ {Max(s)} \in SUBSET (1 .. n)
      BY <1>0, <2>2, MaxOfPart
    <3> QED
      BY <3>1 DEF step
  <2>3. it = [s \in SUBSET (1 .. n) |->
                 IF s = {} THEN base ELSE StoreField(it[s \ {Max(s)}], recs[Max(s)])]
    BY <2>1, <2>2 DEF IsFold
  <2> QED
    BY <1>0, <2>3
<1> DEFINE g == CHOOSE g : Is(g)
<1>5. readFields(obj, recs) = g[1 .. n]
  BY <1>0 DEF readFields, FoldLeft, MapThenFoldSet, base
<1>6. \A s \in SUBSET (1 .. n) :
          g[s] = IF s = {} THEN base ELSE StoreField(g[s \ {Max(s)}], recs[Max(s)])
  <2>1. Is(g)
    <3> HIDE DEF Is
    <3> QED
      BY <1>4
  <2> HIDE DEF g
  <2> QED
    BY <1>0, <2>1
<1> DEFINE acc == [k \in 0 .. n |-> g[1 .. k]]
<1> HIDE DEF g
<1>7. acc[0] = base /\ acc[n] = g[1 .. n]
  <2>1. 1 .. 0 = {} /\ 0 \in 0 .. n /\ n \in 0 .. n
    BY <1>0
  <2> QED
    BY <1>6, <2>1
<1>8. ASSUME NEW k \in 1 .. n PROVE acc[k] = StoreField(acc[k - 1], recs[k])
  <2>1. /\ Max(1 .. k) = k /\ (1 .. k) \ {k} = 1 .. k - 1 /\ 1 .. k # {}
        /\ 1 .. k \in SUBSET (1 .. n) /\ k - 1 \in 0 .. n /\ k \in 0 .. n
    BY <1>0, MaxOfPrefix
  <2> QED
    BY <1>6, <2>1
<1> HIDE DEF acc
<1> QED
  BY <1>5, <1>7, <1>8 DEF base, n

\* And so does readDc().
LEMMA DcFolded ==
    ASSUME NEW recs \in Seq(Record)
    PROVE  \E acc : /\ acc[0] = InitDc /\ FoldLeft(StoreDc, InitDc, recs) = acc[Len(recs)]
                    /\ \A k \in 1 .. Len(recs) : acc[k] = StoreDc(acc[k - 1], recs[k])
<1> DEFINE n == Len(recs)
           base == InitDc
           W == {Invalid} \cup {convert(recs[i].idx, recs[i].value) : i \in 1 .. n}
           Values == [1 .. Trackers -> W]
           V == [power : Values, voltage : Values, current : Values, trackerNum : Int]
           step == [i \in 1 .. n |-> [v \in V |-> StoreDc(v, recs[i])]]
           Is(g) == g = [s \in SUBSET DOMAIN recs |->
                            IF s = {} THEN base ELSE StoreDc(g[s \ {Max(s)}], recs[Max(s)])]
<1>0. n \in Nat /\ DOMAIN recs = 1 .. n
  BY LenProperties
<1>1. base \in V
  BY DEF InitDc
<1>2. ASSUME NEW i \in 1 .. n, NEW v \in V PROVE StoreDc(v, recs[i]) \in V
  <2>1. convert(recs[i].idx, recs[i].value) \in W /\ recs[i] \in Record
    BY <1>0, ElementOfSeq
  <2> DEFINE r == recs[i]
             x == convert(r.idx, r.value)
             counted == [v EXCEPT !.trackerNum = Max({@, r.cnt})]
  <2>2. r.cnt \in Int /\ x \in W
    BY <2>1 DEF Record
  <2>3. Max({v.trackerNum, r.cnt}) \in Int
    BY <2>2, MaxOfTwo
  <2>4. counted \in V
    BY <2>3
  <2>5. counted.power \in Values /\ counted.voltage \in Values /\ counted.current \in Values
    BY <2>4
  <2> HIDE DEF W
  <2>6. ASSUME NEW f \in Values, NEW c PROVE [f EXCEPT ![c] = x] \in Values
    BY <2>2
  <2> HIDE DEF Values, counted, x
  <2>7. [counted EXCEPT !["power"][r.cnt] = x] \in V
    BY <2>4, <2>5, <2>6
  <2>8. [counted EXCEPT !["voltage"][r.cnt] = x] \in V
    BY <2>4, <2>5, <2>6
  <2>9. [counted EXCEPT !["current"][r.cnt] = x] \in V
    BY <2>4, <2>5, <2>6
  <2> QED
    BY <2>4, <2>7, <2>8, <2>9 DEF StoreDc, counted, x
<1>3. step \in [1 .. n -> [V -> V]]
  <2> HIDE DEF V
  <2> QED
    BY <1>2
<1> HIDE DEF V, base, n
<1>4. \E it : Is(it)
  <2> HIDE DEF step
  <2>1. PICK it \in [SUBSET (1 .. n) -> V] : IsFold(it, n, base, step)
    BY <1>0, <1>1, <1>3, FoldExists
  <2>2. ASSUME NEW s \in SUBSET (1 .. n), s # {}
        PROVE  step[Max(s)][it[s \ {Max(s)}]] = StoreDc(it[s \ {Max(s)}], recs[Max(s)])
    <3>1. Max(s) \in 1 .. n /\ s \ {Max(s)} \in SUBSET (1 .. n)
      BY <1>0, <2>2, MaxOfPart
    <3> QED
      BY <3>1 DEF step
  <2>3. it = [s \in SUBSET (1 .. n) |->
                 IF s = {} THEN base ELSE StoreDc(it[s \ {Max(s)}], recs[Max(s)])]
    BY <2>1, <2>2 DEF IsFold
  <2> QED
    BY <1>0, <2>3
<1> DEFINE g == CHOOSE g : Is(g)
<1>5. FoldLeft(StoreDc, InitDc, recs) = g[1 .. n]
  BY <1>0 DEF FoldLeft, MapThenFoldSet, base
<1>6. \A s \in SUBSET (1 .. n) :
          g[s] = IF s = {} THEN base ELSE StoreDc(g[s \ {Max(s)}], recs[Max(s)])
  <2>1. Is(g)
    <3> HIDE DEF Is
    <3> QED
      BY <1>4
  <2> HIDE DEF g
  <2> QED
    BY <1>0, <2>1
<1> DEFINE acc == [k \in 0 .. n |-> g[1 .. k]]
<1> HIDE DEF g
<1>7. acc[0] = base /\ acc[n] = g[1 .. n]
  <2>1. 1 .. 0 = {} /\ 0 \in 0 .. n /\ n \in 0 .. n
    BY <1>0
  <2> QED
    BY <1>6, <2>1
<1>8. ASSUME NEW k \in 1 .. n PROVE acc[k] = StoreDc(acc[k - 1], recs[k])
  <2>1. /\ Max(1 .. k) = k /\ (1 .. k) \ {k} = 1 .. k - 1 /\ 1 .. k # {}
        /\ 1 .. k \in SUBSET (1 .. n) /\ k - 1 \in 0 .. n /\ k \in 0 .. n
    BY <1>0, MaxOfPrefix
  <2> QED
    BY <1>6, <2>1
<1> HIDE DEF acc
<1> QED
  BY <1>5, <1>7, <1>8 DEF base, n

-----------------------------------------------------------------------------
(* Records.                                                                *)

\* The last of the first k records about a quantity.
About(recs, k, idx, num) == {i \in 1 .. k : recs[i].idx = idx /\ recs[i].cnt = num}
LatestIn(recs, k, idx, num) ==
    LET about == About(recs, k, idx, num)
    IN  IF about = {} THEN Invalid ELSE convert(idx, recs[Max(about)].value)

\* Of no record there is a last one.
LEMMA LatestOfNone == ASSUME NEW recs, NEW idx, NEW num PROVE LatestIn(recs, 0, idx, num) = Invalid
<1>1. About(recs, 0, idx, num) = {}
  BY DEF About
<1> QED
  BY <1>1 DEF LatestIn

\* One more record is the last one about its quantity.
LEMMA LatestOfOneMore ==
    ASSUME NEW recs, NEW k \in Nat \ {0}, NEW idx, NEW num
    PROVE  LatestIn(recs, k, idx, num) =
               IF recs[k].idx = idx /\ recs[k].cnt = num
                 THEN convert(idx, recs[k].value) ELSE LatestIn(recs, k - 1, idx, num)
<1> DEFINE now == About(recs, k, idx, num)
           before == About(recs, k - 1, idx, num)
<1>1. CASE recs[k].idx = idx /\ recs[k].cnt = num
  <2>1. now \in SUBSET (1 .. k) /\ k \in now
    BY <1>1 DEF About
  <2> HIDE DEF now
  <2>2. Max(now) \in now /\ k <= Max(now)
    BY <2>1, MaxOfPart
  <2>3. Max(now) = k
    <3> DEFINE last == Max(now)
    <3>1. last \in 1 .. k /\ k <= last
      BY <2>1, <2>2
    <3> HIDE DEF last
    <3>2. last = k
      BY <3>1
    <3> QED
      BY <3>2 DEF last
  <2> QED
    BY <1>1, <2>1, <2>3 DEF LatestIn, now
<1>2. CASE ~(recs[k].idx = idx /\ recs[k].cnt = num)
  <2>1. now = before
    BY <1>2 DEF About
  <2> QED
    BY <1>2, <2>1 DEF LatestIn
<1> QED
  BY <1>1, <1>2

\* Every field of pvlib_ac and pvlib_stats is that of the last record about it.
LEMMA FieldsAreLatest ==
    ASSUME NEW obj, NEW recs \in Seq(Record)
    PROVE  readFields(obj, recs)
               = [f \in FieldOf(obj) |-> LatestIn(recs, Len(recs), f[1], f[2])]
<1>1. PICK acc : /\ acc[0] = InitFields(obj) /\ readFields(obj, recs) = acc[Len(recs)]
                 /\ \A k \in 1 .. Len(recs) : acc[k] = StoreField(acc[k - 1], recs[k])
  BY FieldsFolded
<1> DEFINE Fields(k) == [f \in FieldOf(obj) |-> LatestIn(recs, k, f[1], f[2])]
           S == {k \in 0 .. Len(recs) : acc[k] = Fields(k)}
<1>2. Len(recs) \in Nat
  BY LenProperties
<1>3. 0 \in S
  BY <1>1, <1>2, LatestOfNone DEF InitFields
<1>4. ASSUME NEW n \in 0 .. Len(recs) - 1, n \in S PROVE n + 1 \in S
  <2> DEFINE r == recs[n + 1]
             g == <<r.idx, r.cnt>>
  <2>1. n + 1 \in 1 .. Len(recs) /\ (n + 1) - 1 = n /\ n + 1 \in Nat \ {0}
    BY <1>2
  <2>2. acc[n + 1] = StoreField(Fields(n), r)
    BY <1>1, <1>4, <2>1
  <2>3. ASSUME NEW f \in FieldOf(obj)
        PROVE  Fields(n + 1)[f] = IF f = g THEN convert(r.idx, r.value) ELSE Fields(n)[f]
    <3>1. f = <<f[1], f[2]>>
      BY DEF FieldOf, AcField, StatsField
    <3>2. f = g <=> r.idx = f[1] /\ r.cnt = f[2]
      BY <3>1
    <3> QED
      BY <2>1, <3>2, LatestOfOneMore
  <2>4. StoreField(Fields(n), r) = Fields(n + 1)
    BY <2>3 DEF StoreField
  <2> QED
    BY <2>1, <2>2, <2>4
<1>5. Len(recs) \in S
  <2> HIDE DEF S
  <2>1. 0 .. Len(recs) \subseteq S
    BY <1>2, <1>3, <1>4, UpToBySteps
  <2> QED
    BY <1>2, <2>1
<1> QED
  BY <1>1, <1>5

\* What readDc() has stored after the first k records: a row of the trackers per
\* quantity, and the number of trackers.
Row(recs, k, idx) == [t \in 1 .. Trackers |-> LatestIn(recs, k, idx, t)]
Stored(recs, k, num) ==
    [power |-> Row(recs, k, "power"), voltage |-> Row(recs, k, "voltage"),
     current |-> Row(recs, k, "current"), trackerNum |-> num]

\* pvlib_dc, and a record stored in one row of it.
DcOf(p, v, c, num) == [power |-> p, voltage |-> v, current |-> c, trackerNum |-> num]
PutIn(row, t, x) == [row EXCEPT ![t] = x]
Put(dc, idx, t, x) == [dc EXCEPT ![idx][t] = x]

\* Storing into one row leaves the others.
LEMMA OneTracker ==
    ASSUME NEW p, NEW v, NEW c, NEW num, NEW t, NEW x
    PROVE  /\ Put(DcOf(p, v, c, num), "power", t, x) = DcOf(PutIn(p, t, x), v, c, num)
           /\ Put(DcOf(p, v, c, num), "voltage", t, x) = DcOf(p, PutIn(v, t, x), c, num)
           /\ Put(DcOf(p, v, c, num), "current", t, x) = DcOf(p, v, PutIn(c, t, x), num)
<1>1. Put(DcOf(p, v, c, num), "power", t, x) = DcOf(PutIn(p, t, x), v, c, num)
  BY DEF DcOf, Put, PutIn
<1>2. Put(DcOf(p, v, c, num), "voltage", t, x) = DcOf(p, PutIn(v, t, x), c, num)
  BY DEF DcOf, Put, PutIn
<1>3. Put(DcOf(p, v, c, num), "current", t, x) = DcOf(p, v, PutIn(c, t, x), num)
  BY DEF DcOf, Put, PutIn
<1> QED
  BY <1>1, <1>2, <1>3

\* One more record changes one tracker in the row of its quantity.
LEMMA RowOfOneMore ==
    ASSUME NEW recs \in Seq(Record), NEW k \in 1 .. Len(recs), NEW idx
    PROVE  Row(recs, k, idx) = IF recs[k].idx = idx
                                 THEN PutIn(Row(recs, k - 1, idx), recs[k].cnt,
                                            convert(recs[k].idx, recs[k].value))
                                 ELSE Row(recs, k - 1, idx)
<1>1. k \in Nat \ {0}
  BY LenProperties
<1>2. ASSUME NEW t \in 1 .. Trackers
      PROVE  LatestIn(recs, k, idx, t) = IF recs[k].idx = idx /\ recs[k].cnt = t
                                           THEN convert(idx, recs[k].value)
                                           ELSE LatestIn(recs, k - 1, idx, t)
  BY <1>1, LatestOfOneMore
<1> QED
  BY <1>2 DEF Row, PutIn

\* The rows of pvlib_dc are those of the last records, and the number of
\* trackers is not below that of any record.
LEMMA DcAreLatest ==
    ASSUME NEW recs \in Seq(Record), \A i \in 1 .. Len(recs) : recs[i].cnt <= Trackers
    PROVE  \E num \in 0 .. Trackers :
               /\ \A i \in 1 .. Len(recs) : recs[i].cnt <= num
               /\ FoldLeft(StoreDc, InitDc, recs) = Stored(recs, Len(recs), num)
<1>1. PICK acc : /\ acc[0] = InitDc /\ FoldLeft(StoreDc, InitDc, recs) = acc[Len(recs)]
                 /\ \A k \in 1 .. Len(recs) : acc[k] = StoreDc(acc[k - 1], recs[k])
  BY DcFolded
<1> DEFINE Is(k, num) == (\A i \in 1 .. k : recs[i].cnt <= num) /\ acc[k] = Stored(recs, k, num)
           S == {k \in 0 .. Len(recs) : \E num \in 0 .. Trackers : Is(k, num)}
<1>2. Len(recs) \in Nat /\ Trackers \in Nat \ {0}
  BY LenProperties, TrackersAssumption
<1>3. 0 \in S
  <2>1. acc[0] = Stored(recs, 0, 0)
    BY <1>1, LatestOfNone DEF InitDc, Stored, Row
  <2>2. Is(0, 0)
    BY <2>1
  <2> HIDE DEF Is
  <2> QED
    BY <1>2, <2>2
<1>4. ASSUME NEW n \in 0 .. Len(recs) - 1, n \in S PROVE n + 1 \in S
  <2> DEFINE k == n + 1
             r == recs[k]
             x == convert(r.idx, r.value)
  <2>1. k \in 1 .. Len(recs) /\ k - 1 = n /\ k \in 0 .. Len(recs)
    BY <1>2
  <2>2. r \in Record /\ r.cnt \in 0 .. Trackers
    <3>1. r \in Record
      BY <2>1, ElementOfSeq
    <3> QED
      BY <2>1, <3>1, <1>2 DEF Record
  <2>3. PICK num \in 0 .. Trackers : Is(n, num)
    <3> HIDE DEF Is
    <3> QED
      BY <1>4
  <2> DEFINE more == Max({num, r.cnt})
  <2>4. more \in 0 .. Trackers /\ more >= num /\ more >= r.cnt
    <3> DEFINE cnt_ == r.cnt
    <3>1. num \in Int /\ cnt_ \in Int /\ cnt_ \in 0 .. Trackers
      BY <2>2
    <3> HIDE DEF cnt_
    <3>2. Max({num, cnt_}) = IF num <= cnt_ THEN cnt_ ELSE num
      BY <3>1, MaxOfTwo
    <3> QED
      BY <3>1, <3>2 DEF cnt_
  <2>5. acc[k] = StoreDc(Stored(recs, n, num), r)
    BY <1>1, <2>1, <2>3
  <2>6. ASSUME NEW idx
        PROVE  Row(recs, k, idx) = IF r.idx = idx THEN PutIn(Row(recs, n, idx), r.cnt, x)
                                   ELSE Row(recs, n, idx)
    BY <2>1, RowOfOneMore
  <2>7. ASSUME NEW bound \in 0 .. Trackers, bound >= num, bound >= r.cnt
        PROVE  \A i \in 1 .. k : recs[i].cnt <= bound
    <3> SUFFICES ASSUME NEW i \in 1 .. k PROVE recs[i].cnt <= bound
      OBVIOUS
    <3>1. CASE i = k
      BY <2>7, <3>1
    <3>2. CASE i # k
      <4>1. i \in 1 .. n /\ i \in 1 .. Len(recs)
        BY <2>1, <3>2
      <4>2. recs[i] \in Record /\ recs[i].cnt <= num
        BY <2>3, <4>1, ElementOfSeq
      <4> DEFINE c == recs[i].cnt
      <4>3. c \in Nat /\ c <= num
        BY <4>2 DEF Record
      <4> HIDE DEF c
      <4>4. c <= bound
        BY <2>7, <4>3
      <4> QED
        BY <4>4 DEF c
    <3> QED
      BY <3>1, <3>2
  <2>8. CASE r.cnt < 1
    <3>1. r.cnt = 0 /\ r.cnt <= num
      BY <2>2, <2>8
    <3>2. ASSUME NEW idx PROVE Row(recs, k, idx) = Row(recs, n, idx)
      <4>1. PutIn(Row(recs, n, idx), r.cnt, x) = Row(recs, n, idx)
        <5> HIDE DEF x, r
        <5>1. r.cnt \notin 1 .. Trackers
          BY <3>1
        <5> QED
          BY <5>1 DEF Row, PutIn
      <4> QED
        BY <2>6, <4>1
    <3>3. acc[k] = Stored(recs, k, num)
      BY <2>5, <2>8, <3>2 DEF StoreDc, Stored
    <3>4. Is(k, num)
      BY <2>7, <3>1, <3>3
    <3> HIDE DEF Is
    <3> QED
      BY <2>1, <3>4
  <2>9. CASE ~(r.cnt < 1)
    <3> DEFINE counted == Stored(recs, n, more)
    <3>1. [Stored(recs, n, num) EXCEPT !.trackerNum = Max({@, r.cnt})] = counted
      BY DEF Stored
    <3>2. acc[k] = IF r.idx \in {"power", "voltage", "current"}
                     THEN Put(counted, r.idx, r.cnt, x) ELSE counted
      <4> HIDE DEF x
      <4> QED
        BY <2>5, <2>9, <3>1 DEF StoreDc, x, Put
    <3> HIDE DEF x, more, r
    <3>6. /\ counted = DcOf(Row(recs, n, "power"), Row(recs, n, "voltage"),
                            Row(recs, n, "current"), more)
          /\ Stored(recs, k, more) = DcOf(Row(recs, k, "power"), Row(recs, k, "voltage"),
                                          Row(recs, k, "current"), more)
      BY DEF Stored, DcOf
    <3> HIDE DEF counted
    <3>3. acc[k] = Stored(recs, k, more)
      <4>1. CASE r.idx = "power"
        <5>1. acc[k] = Put(counted, "power", r.cnt, x)
          BY <3>2, <4>1
        <5>2. acc[k] = DcOf(PutIn(Row(recs, n, "power"), r.cnt, x),
                            Row(recs, n, "voltage"),
                            Row(recs, n, "current"), more)
          BY <3>6, <5>1, OneTracker
        <5> QED
          BY <2>6, <3>6, <4>1, <5>2
      <4>2. CASE r.idx = "voltage"
        <5>1. acc[k] = Put(counted, "voltage", r.cnt, x)
          BY <3>2, <4>2
        <5>2. acc[k] = DcOf(Row(recs, n, "power"),
                            PutIn(Row(recs, n, "voltage"), r.cnt, x),
                            Row(recs, n, "current"), more)
          BY <3>6, <5>1, OneTracker
        <5> QED
          BY <2>6, <3>6, <4>2, <5>2
      <4>3. CASE r.idx = "current"
        <5>1. acc[k] = Put(counted, "current", r.cnt, x)
          BY <3>2, <4>3
        <5>2. acc[k] = DcOf(Row(recs, n, "power"),
                            Row(recs, n, "voltage"),
                            PutIn(Row(recs, n, "current"), r.cnt, x), more)
          BY <3>6, <5>1, OneTracker
        <5> QED
          BY <2>6, <3>6, <4>3, <5>2
      <4>4. CASE r.idx \notin {"power", "voltage", "current"}
        <5>1. \A idx \in {"power", "voltage", "current"} : Row(recs, k, idx) = Row(recs, n, idx)
          BY <2>6, <4>4
        <5> QED
          BY <3>2, <3>6, <4>4, <5>1
      <4> QED
        BY <4>1, <4>2, <4>3, <4>4
    <3>4. Is(k, more)
      BY <2>4, <2>7, <3>3
    <3> HIDE DEF Is
    <3> QED
      BY <2>1, <2>4, <3>4
  <2> QED
    BY <2>8, <2>9
<1>5. Len(recs) \in S
  <2> HIDE DEF S
  <2>1. 0 .. Len(recs) \subseteq S
    BY <1>2, <1>3, <1>4, UpToBySteps
  <2> QED
    BY <1>2, <2>1
<1> QED
  BY <1>1, <1>5

\* A record about a tracker is counted, so the powers that are valid are those of
\* the trackers up to the number stored.
LEMMA ValidAreCounted ==
    ASSUME NEW recs \in Seq(Record), NEW num \in 0 .. Trackers,
           \A i \in 1 .. Len(recs) : recs[i].cnt <= num
    PROVE  LET power == Row(recs, Len(recs), "power")
           IN  {t \in 1 .. num : power[t] # Invalid} = {t \in 1 .. Trackers : power[t] # Invalid}
<1> DEFINE power == Row(recs, Len(recs), "power")
<1>1. Len(recs) \in Nat /\ Trackers \in Nat \ {0}
  BY LenProperties, TrackersAssumption
<1>2. ASSUME NEW t \in 1 .. Trackers, power[t] # Invalid PROVE t \in 1 .. num
  <2> DEFINE about == About(recs, Len(recs), "power", t)
  <2>1. power[t] = LatestIn(recs, Len(recs), "power", t)
    BY DEF Row
  <2>2. about # {}
    BY <1>2, <2>1 DEF LatestIn
  <2>3. PICK i \in 1 .. Len(recs) : recs[i].cnt = t
    BY <2>2 DEF About
  <2>4. t <= num
    BY <2>3
  <2> QED
    BY <2>4
<1>3. \A t \in 1 .. num : t \in 1 .. Trackers
  BY <1>1
<1> HIDE DEF power
<1>4. {t \in 1 .. num : power[t] # Invalid} = {t \in 1 .. Trackers : power[t] # Invalid}
  BY <1>2, <1>3
<1> QED
  BY <1>4 DEF power

\* The sum of the values of a row over a set of trackers.
RowSum(row, S) == MapThenSumSet(LAMBDA t : row[t], S)
SumOfValid(row) ==
    LET valid == {t \in 1 .. Trackers : row[t] # Invalid}
    IN  IF valid = {} THEN Invalid ELSE RowSum(row, valid)

\* What readDc() returns: the rows of the last records, and the sum of the powers.
LEMMA DcRead ==
    ASSUME NEW recs \in Seq(Record), \A i \in 1 .. Len(recs) : recs[i].cnt <= Trackers
    PROVE  /\ \A q \in {"power", "voltage", "current"} :
                  readDc(recs)[q] = Row(recs, Len(recs), q)
           /\ readDc(recs).totalPower = SumOfValid(Row(recs, Len(recs), "power"))
<1> DEFINE dc == FoldLeft(StoreDc, InitDc, recs)
           power == Row(recs, Len(recs), "power")
<1>1. PICK num \in 0 .. Trackers : /\ \A i \in 1 .. Len(recs) : recs[i].cnt <= num
                                   /\ dc = Stored(recs, Len(recs), num)
  BY DcAreLatest
<1> HIDE DEF dc
<1>3. /\ dc.trackerNum = num
      /\ \A q \in {"power", "voltage", "current"} : dc[q] = Row(recs, Len(recs), q)
  BY <1>1 DEF Stored
<1>4. /\ \A q \in {"power", "voltage", "current"} : readDc(recs)[q] = dc[q]
      /\ readDc(recs).totalPower = totalPower(dc)
  BY DEF readDc, dc
<1>5. totalPower(dc) = SumOfValid(power)
  <2>1. totalPower(dc) = IF {t \in 1 .. dc.trackerNum : dc.power[t] # Invalid} = {} THEN Invalid
                         ELSE RowSum(dc.power, {t \in 1 .. dc.trackerNum : dc.power[t] # Invalid})
    BY DEF totalPower, RowSum
  <2>2. dc.power = power
    BY <1>3
  <2>3. {t \in 1 .. num : power[t] # Invalid} = {t \in 1 .. Trackers : power[t] # Invalid}
    BY <1>1, ValidAreCounted
  <2> HIDE DEF power
  <2> QED
    BY <1>3, <2>1, <2>2, <2>3 DEF SumOfValid
<1> QED
  BY <1>3, <1>4, <1>5

-----------------------------------------------------------------------------
(* Attributes.                                                             *)

\* The least number of a set has all others above it.
LEMMA MinOfNumbers ==
    ASSUME NEW s \in SUBSET Nat, s # {}
    PROVE  Min(s) \in s /\ \A i \in s : Min(s) <= i
<1>1. \E x \in s : \A y \in s : x <= y
  BY LeastNumber
<1> QED
  BY <1>1 DEF Min

\* The loop over the attributes of a list.
SelectedByLoop(list, none) ==
    \E acc : /\ acc[0] = none /\ FoldLeft(TakeSelected, none, list) = acc[Len(list)]
             /\ \A k \in 1 .. Len(list) : acc[k] = TakeSelected(acc[k - 1], list[k])

\* The attribute selected is that of the loop over the list.
LEMMA SelectedFolded ==
    ASSUME NEW list \in Seq(Attribute), NEW none \in Nat
    PROVE  SelectedByLoop(list, none)
<1> DEFINE n == Len(list)
           base == none
           V == Nat
           step == [i \in 1 .. n |-> [v \in V |-> TakeSelected(v, list[i])]]
           Is(g) == g = [s \in SUBSET DOMAIN list |->
                            IF s = {} THEN base ELSE TakeSelected(g[s \ {Max(s)}], list[Max(s)])]
<1>0. n \in Nat /\ DOMAIN list = 1 .. n
  BY LenProperties
<1>1. base \in V
  OBVIOUS
<1>2. ASSUME NEW i \in 1 .. n, NEW v \in V PROVE TakeSelected(v, list[i]) \in V
  <2>1. list[i] \in Attribute
    BY <1>0, ElementOfSeq
  <2> QED
    BY <2>1 DEF Attribute, TakeSelected
<1>3. step \in [1 .. n -> [V -> V]]
  <2> HIDE DEF V
  <2> QED
    BY <1>2
<1> HIDE DEF V, base, n
<1>4. \E it : Is(it)
  <2> HIDE DEF step
  <2>1. PICK it \in [SUBSET (1 .. n) -> V] : IsFold(it, n, base, step)
    BY <1>0, <1>1, <1>3, FoldExists
  <2>2. ASSUME NEW s \in SUBSET (1 .. n), s # {}
        PROVE  step[Max(s)][it[s \ {Max(s)}]] = TakeSelected(it[s \ {Max(s)}], list[Max(s)])
    <3>1. Max(s) \in 1 .. n /\ s \ {Max(s)} \in SUBSET (1 .. n)
      BY <1>0, <2>2, MaxOfPart
    <3> QED
      BY <3>1 DEF step
  <2>3. it = [s \in SUBSET (1 .. n) |->
                 IF s = {} THEN base ELSE TakeSelected(it[s \ {Max(s)}], list[Max(s)])]
    BY <2>1, <2>2 DEF IsFold
  <2> QED
    BY <1>0, <2>3
<1> DEFINE g == CHOOSE g : Is(g)
<1>5. FoldLeft(TakeSelected, none, list) = g[1 .. n]
  BY <1>0 DEF FoldLeft, MapThenFoldSet, base
<1>6. \A s \in SUBSET (1 .. n) :
          g[s] = IF s = {} THEN base ELSE TakeSelected(g[s \ {Max(s)}], list[Max(s)])
  <2>1. Is(g)
    <3> HIDE DEF Is
    <3> QED
      BY <1>4
  <2> HIDE DEF g
  <2> QED
    BY <1>0, <2>1
<1> DEFINE acc == [k \in 0 .. n |-> g[1 .. k]]
<1> HIDE DEF g
<1>7. acc[0] = base /\ acc[n] = g[1 .. n]
  <2>1. 1 .. 0 = {} /\ 0 \in 0 .. n /\ n \in 0 .. n
    BY <1>0
  <2> QED
    BY <1>6, <2>1
<1>8. ASSUME NEW k \in 1 .. n PROVE acc[k] = TakeSelected(acc[k - 1], list[k])
  <2>1. /\ Max(1 .. k) = k /\ (1 .. k) \ {k} = 1 .. k - 1 /\ 1 .. k # {}
        /\ 1 .. k \in SUBSET (1 .. n) /\ k - 1 \in 0 .. n /\ k \in 0 .. n
    BY <1>0, MaxOfPrefix
  <2> QED
    BY <1>6, <2>1
<1> HIDE DEF acc
<1> QED
  BY <1>5, <1>7, <1>8 DEF base, n, SelectedByLoop

\* The attributes selected in a list.
Chosen(list, k) == {i \in 1 .. k : list[i].selected}
ChosenOf(list, k, none) ==
    LET chosen == Chosen(list, k)
    IN  IF chosen = {} THEN none ELSE list[Max(chosen)].attribute

\* The loop ends with the last attribute that is selected.
LEMMA LastIsSelected ==
    ASSUME NEW list \in Seq(Attribute), NEW none \in Nat
    PROVE  FoldLeft(TakeSelected, none, list)
               = ChosenOf(list, Len(list), none)
<1>1. PICK acc : /\ acc[0] = none
                 /\ FoldLeft(TakeSelected, none, list)
                        = acc[Len(list)]
                 /\ \A k \in 1 .. Len(list) :
                        acc[k] = TakeSelected(acc[k - 1], list[k])
  <2>1. SelectedByLoop(list, none)
    BY SelectedFolded
  <2> QED
    BY <2>1 DEF SelectedByLoop
<1> DEFINE S == {k \in 0 .. Len(list) : acc[k] = ChosenOf(list, k, none)}
<1>2. Len(list) \in Nat
  BY LenProperties
<1>3. 0 \in S
  <2>1. Chosen(list, 0) = {}
    BY DEF Chosen
  <2> QED
    BY <1>1, <1>2, <2>1 DEF ChosenOf
<1>4. ASSUME NEW n \in 0 .. Len(list) - 1, n \in S PROVE n + 1 \in S
  <2> DEFINE k == n + 1
             now == Chosen(list, k)
  <2>1. k \in 1 .. Len(list) /\ k - 1 = n /\ k \in 0 .. Len(list) /\ k \in Nat
    BY <1>2
  <2>2. CASE list[k].selected
    <3>1. now \in SUBSET (1 .. k) /\ k \in now
      BY <2>1, <2>2 DEF Chosen
    <3> HIDE DEF now
    <3>2. Max(now) \in now /\ k <= Max(now)
      BY <2>1, <3>1, MaxOfPart
    <3> DEFINE last == Max(now)
    <3>3. last \in 1 .. k /\ k <= last
      BY <3>1, <3>2
    <3> HIDE DEF last
    <3>4. last = k
      BY <2>1, <3>3
    <3>5. ChosenOf(list, k, none) = list[k].attribute
      BY <3>1, <3>4 DEF ChosenOf, now, last
    <3> QED
      BY <1>1, <2>1, <2>2, <3>5 DEF TakeSelected
  <2>3. CASE ~list[k].selected
    <3>1. now = Chosen(list, n)
      BY <2>1, <2>3 DEF Chosen
    <3>2. ChosenOf(list, k, none) = ChosenOf(list, n, none)
      BY <3>1 DEF ChosenOf
    <3> QED
      BY <1>1, <1>4, <2>1, <2>3, <3>2 DEF TakeSelected
  <2> QED
    BY <2>2, <2>3
<1>5. Len(list) \in S
  <2> HIDE DEF S
  <2>1. 0 .. Len(list) \subseteq S
    BY <1>2, <1>3, <1>4, UpToBySteps
  <2> QED
    BY <1>2, <2>1
<1> QED
  BY <1>1, <1>5

\* The attributes a list selects are those before the end of enums.
LEMMA SelectionIsSelected ==
    ASSUME NEW data \in Seq(Attribute), NEW none \in Nat
    PROVE  /\ selectedOf(data, none) = Selection(data, none)
           /\ Selection(data, none) \in Nat
           /\ \/ Selection(data, 0) = 0 /\ Selection(data, none) = none
              \/ Selection(data, 0) # 0 /\ Selection(data, none) = Selection(data, 0)
<1> DEFINE ends == {i \in 1 .. Len(data) : data[i].attribute = END} \cup {Len(data) + 1}
           m == Min(ends) - 1
           list == SubSeq(data, 1, m)
           listed == {i \in 1 .. Len(data) : \A j \in 1 .. i : data[j].attribute # END}
           selected == {i \in listed : data[i].selected}
<1>1. Len(data) \in Nat
  BY LenProperties
<1>2. /\ m \in 0 .. Len(data) /\ \A i \in 1 .. m : data[i].attribute # END
      /\ m < Len(data) => data[m + 1].attribute = END
  <2>1. ends \in SUBSET Nat /\ ends # {} /\ \A i \in ends : i \in 1 .. Len(data) + 1
    BY <1>1
  <2> DEFINE least == Min(ends)
  <2>2. least \in ends /\ (\A i \in ends : least <= i) /\ Len(data) + 1 \in ends
    <3> HIDE DEF ends
    <3>1. least \in ends /\ \A i \in ends : least <= i
      BY <2>1, MinOfNumbers
    <3> QED
      BY <3>1 DEF ends
  <2>3. least \in 1 .. Len(data) + 1
    BY <2>1, <2>2
  <2> HIDE DEF least
  <2>4. \A i \in 1 .. least - 1 : data[i].attribute # END
    BY <1>1, <2>2, <2>3
  <2>5. least < Len(data) + 1 => data[least].attribute = END
    BY <1>1, <2>2, <2>3
  <2>6. least - 1 < Len(data) => data[(least - 1) + 1].attribute = END
    BY <1>1, <2>3, <2>5
  <2> QED
    BY <1>1, <2>3, <2>4, <2>6 DEF least
<1>3. parseAttributes(data) = list
  BY DEF parseAttributes
<1> HIDE DEF m
<1>4. list \in Seq(Attribute) /\ Len(list) = m /\ \A i \in 1 .. m : list[i] = data[i]
  <2>1. \A i \in 1 .. m : i \in 1 .. Len(data)
    BY <1>1, <1>2
  <2>2. SubSeq(data, 1, m) = [i \in 1 .. m |-> data[i]]
    BY <1>1, <1>2
  <2>3. \A i \in 1 .. m : data[i] \in Attribute
    BY <2>1, ElementOfSeq
  <2> QED
    BY <1>1, <1>2, <2>2, <2>3
<1> HIDE DEF list
<1>5. selectedOf(data, none) = ChosenOf(list, m, none)
  BY <1>3, <1>4, LastIsSelected DEF selectedOf
<1>6. listed = 1 .. m
  <2>1. ASSUME NEW i \in 1 .. m PROVE i \in listed
    BY <1>1, <1>2
  <2>2. ASSUME NEW i \in listed PROVE i \in 1 .. m
    <3>1. CASE i <= m
      BY <1>1, <1>2, <3>1
    <3>2. CASE m < i
      <4>1. m + 1 \in 1 .. i /\ m < Len(data)
        BY <1>1, <1>2, <3>2
      <4> QED
        BY <1>2, <4>1
    <3> QED
      BY <1>1, <1>2, <3>1, <3>2
  <2> QED
    BY <2>1, <2>2
<1>7. selected = Chosen(list, m)
  BY <1>4, <1>6 DEF Chosen
<1>8. ASSUME NEW other PROVE Selection(data, other) = ChosenOf(list, m, other)
  <2>1. Selection(data, other) = IF selected = {} THEN other ELSE data[Max(selected)].attribute
    BY DEF Selection
  <2>2. selected # {} => Max(selected) \in 1 .. m
    <3>1. selected \in SUBSET (1 .. m) /\ m \in Nat
      BY <1>1, <1>2, <1>6
    <3> HIDE DEF selected
    <3> QED
      BY <3>1, MaxOfPart
  <2> HIDE DEF selected
  <2> QED
    BY <1>4, <1>7, <2>1, <2>2 DEF ChosenOf
<1>9. Chosen(list, m) # {} => ChosenOf(list, m, 0) \in Nat \ {0}
  <2> SUFFICES ASSUME Chosen(list, m) # {} PROVE ChosenOf(list, m, 0) \in Nat \ {0}
    OBVIOUS
  <2> DEFINE c == Chosen(list, m)
  <2>1. c \in SUBSET (1 .. m) /\ m \in Nat
    BY <1>1, <1>2 DEF Chosen
  <2> HIDE DEF c
  <2>2. Max(c) \in 1 .. m
    <3>1. c # {}
      BY DEF c
    <3> QED
      BY <2>1, <3>1, MaxOfPart
  <2>3. list[Max(c)] \in Attribute
    BY <1>4, <2>2, ElementOfSeq
  <2> QED
    BY <2>3 DEF c, ChosenOf, Attribute
<1>10. Chosen(list, m) = {} => ChosenOf(list, m, none) = none /\ ChosenOf(list, m, 0) = 0
  BY DEF ChosenOf
<1>11. Chosen(list, m) # {} => ChosenOf(list, m, none) = ChosenOf(list, m, 0)
  BY DEF ChosenOf
<1> QED
  BY <1>5, <1>8, <1>9, <1>10, <1>11

\* readInverterInfo() stores record after record.
LEMMA InfoFolded ==
    ASSUME NEW recs \in Seq(InfoRecord)
    PROVE  \E acc : /\ acc[0] = InitInfo /\ readInverterInfo(recs) = acc[Len(recs)]
                    /\ \A k \in 1 .. Len(recs) : acc[k] = StoreInfo(acc[k - 1], recs[k])
<1> DEFINE n == Len(recs)
           base == InitInfo
           V == [name : Nat, type : Nat, firmware_version : Nat]
           step == [i \in 1 .. n |-> [v \in V |-> StoreInfo(v, recs[i])]]
           Is(g) == g = [s \in SUBSET DOMAIN recs |->
                            IF s = {} THEN base ELSE StoreInfo(g[s \ {Max(s)}], recs[Max(s)])]
<1>0. n \in Nat /\ DOMAIN recs = 1 .. n
  BY LenProperties
<1>1. base \in V
  BY DEF InitInfo
<1>2. ASSUME NEW i \in 1 .. n, NEW v \in V PROVE StoreInfo(v, recs[i]) \in V
  <2> DEFINE r == recs[i]
  <2>1. r \in InfoRecord
    BY <1>0, ElementOfSeq
  <2>2. r.value \in Nat /\ r.attributes \in Seq(Attribute) /\ v.type \in Nat
    BY <2>1 DEF InfoRecord
  <2> DEFINE type == selectedOf(r.attributes, v.type)
  <2>3. type \in Nat
    BY <2>2, SelectionIsSelected
  <2>4. StoreInfo(v, r) \in {v, [v EXCEPT !.name = r.value], [v EXCEPT !.type = type],
                             [v EXCEPT !.firmware_version = r.value]}
    BY DEF StoreInfo
  <2> HIDE DEF type, r
  <2>5. /\ [v EXCEPT !.name = r.value] \in V /\ [v EXCEPT !.type = type] \in V
        /\ [v EXCEPT !.firmware_version = r.value] \in V
    BY <2>2, <2>3
  <2>6. StoreInfo(v, r) \in V
    BY <2>4, <2>5
  <2> QED
    BY <2>6 DEF r
<1>3. step \in [1 .. n -> [V -> V]]
  <2> HIDE DEF V
  <2> QED
    BY <1>2
<1> HIDE DEF V, base, n
<1>4. \E it : Is(it)
  <2> HIDE DEF step
  <2>1. PICK it \in [SUBSET (1 .. n) -> V] : IsFold(it, n, base, step)
    BY <1>0, <1>1, <1>3, FoldExists
  <2>2. ASSUME NEW s \in SUBSET (1 .. n), s # {}
        PROVE  step[Max(s)][it[s \ {Max(s)}]] = StoreInfo(it[s \ {Max(s)}], recs[Max(s)])
    <3>1. Max(s) \in 1 .. n /\ s \ {Max(s)} \in SUBSET (1 .. n)
      BY <1>0, <2>2, MaxOfPart
    <3> QED
      BY <3>1 DEF step
  <2>3. it = [s \in SUBSET (1 .. n) |->
                 IF s = {} THEN base ELSE StoreInfo(it[s \ {Max(s)}], recs[Max(s)])]
    BY <2>1, <2>2 DEF IsFold
  <2> QED
    BY <1>0, <2>3
<1> DEFINE g == CHOOSE g : Is(g)
<1>5. readInverterInfo(recs) = g[1 .. n]
  BY <1>0 DEF readInverterInfo, FoldLeft, MapThenFoldSet, base
<1>6. \A s \in SUBSET (1 .. n) :
          g[s] = IF s = {} THEN base ELSE StoreInfo(g[s \ {Max(s)}], recs[Max(s)])
  <2>1. Is(g)
    <3> HIDE DEF Is
    <3> QED
      BY <1>4
  <2> HIDE DEF g
  <2> QED
    BY <1>0, <2>1
<1> DEFINE acc == [k \in 0 .. n |-> g[1 .. k]]
<1> HIDE DEF g
<1>7. acc[0] = base /\ acc[n] = g[1 .. n]
  <2>1. 1 .. 0 = {} /\ 0 \in 0 .. n /\ n \in 0 .. n
    BY <1>0
  <2> QED
    BY <1>6, <2>1
<1>8. ASSUME NEW k \in 1 .. n PROVE acc[k] = StoreInfo(acc[k - 1], recs[k])
  <2>1. /\ Max(1 .. k) = k /\ (1 .. k) \ {k} = 1 .. k - 1 /\ 1 .. k # {}
        /\ 1 .. k \in SUBSET (1 .. n) /\ k - 1 \in 0 .. n /\ k \in 0 .. n
    BY <1>0, MaxOfPrefix
  <2> QED
    BY <1>6, <2>1
<1> HIDE DEF acc
<1> QED
  BY <1>5, <1>7, <1>8 DEF base, n

\* The last of the first k records that selects a type.
Types(recs, k) ==
    {i \in 1 .. k : recs[i].idx = "type" /\ Selection(recs[i].attributes, 0) # 0}
TypeOf(recs, k) ==
    LET types == Types(recs, k)
    IN  IF types = {} THEN 0 ELSE Selection(recs[Max(types)].attributes, 0)

\* One more record that selects a type is the last such one.
LEMMA TypeOfOneMore ==
    ASSUME NEW recs, NEW k \in Nat \ {0}
    PROVE  TypeOf(recs, k) =
               IF recs[k].idx = "type" /\ Selection(recs[k].attributes, 0) # 0
                 THEN Selection(recs[k].attributes, 0) ELSE TypeOf(recs, k - 1)
<1> DEFINE now == Types(recs, k)
<1>1. CASE recs[k].idx = "type" /\ Selection(recs[k].attributes, 0) # 0
  <2>1. now \in SUBSET (1 .. k) /\ k \in now
    BY <1>1 DEF Types
  <2> HIDE DEF now
  <2>2. Max(now) \in now /\ k <= Max(now)
    BY <2>1, MaxOfPart
  <2>3. Max(now) = k
    <3> DEFINE last == Max(now)
    <3>1. last \in 1 .. k /\ k <= last
      BY <2>1, <2>2
    <3> HIDE DEF last
    <3>2. last = k
      BY <3>1
    <3> QED
      BY <3>2 DEF last
  <2> QED
    BY <1>1, <2>1, <2>3 DEF TypeOf, now
<1>2. CASE ~(recs[k].idx = "type" /\ Selection(recs[k].attributes, 0) # 0)
  <2>1. now = Types(recs, k - 1)
    BY <1>2 DEF Types
  <2> QED
    BY <1>2, <2>1 DEF TypeOf
<1> QED
  BY <1>1, <1>2

\* The type of the inverter is that of the last record that selects one.
LEMMA TypeIsSelected ==
    ASSUME NEW recs \in Seq(InfoRecord)
    PROVE  readInverterInfo(recs).type = TypeOf(recs, Len(recs))
<1>1. PICK acc : /\ acc[0] = InitInfo /\ readInverterInfo(recs) = acc[Len(recs)]
                 /\ \A k \in 1 .. Len(recs) : acc[k] = StoreInfo(acc[k - 1], recs[k])
  BY InfoFolded
<1> DEFINE V == [name : Nat, type : Nat, firmware_version : Nat]
           S == {k \in 0 .. Len(recs) : acc[k] \in V /\ acc[k].type = TypeOf(recs, k)}
<1>2. Len(recs) \in Nat
  BY LenProperties
<1>3. 0 \in S
  <2>1. Types(recs, 0) = {}
    BY DEF Types
  <2> QED
    BY <1>1, <1>2, <2>1 DEF TypeOf, InitInfo
<1>4. ASSUME NEW n \in 0 .. Len(recs) - 1, n \in S PROVE n + 1 \in S
  <2> DEFINE k == n + 1
             r == recs[k]
             v == acc[n]
             type == selectedOf(r.attributes, v.type)
  <2>1. k \in 1 .. Len(recs) /\ k - 1 = n /\ k \in 0 .. Len(recs) /\ k \in Nat \ {0}
    BY <1>2
  <2>2. r \in InfoRecord
    BY <2>1, ElementOfSeq
  <2>3. r.value \in Nat /\ r.attributes \in Seq(Attribute) /\ v \in V /\ v.type = TypeOf(recs, n)
    BY <1>4, <2>2 DEF InfoRecord
  <2>4. /\ type \in Nat
        /\ \/ Selection(r.attributes, 0) = 0 /\ type = v.type
           \/ Selection(r.attributes, 0) # 0 /\ type = Selection(r.attributes, 0)
    <3>1. v.type \in Nat
      BY <2>3
    <3> HIDE DEF v, r
    <3> QED
      BY <2>3, <3>1, SelectionIsSelected
  <2>5. acc[k] = StoreInfo(v, r)
    BY <1>1, <2>1
  <2> HIDE DEF v, k
  <2>6. CASE r.idx = "type"
    <3>1. acc[k] = [v EXCEPT !.type = type]
      BY <2>5, <2>6 DEF StoreInfo
    <3> HIDE DEF type, r
    <3>2. acc[k] \in V /\ acc[k].type = type
      BY <2>3, <2>4, <3>1
    <3>3. TypeOf(recs, k) = type
      BY <2>1, <2>3, <2>4, <2>6, TypeOfOneMore DEF r
    <3> QED
      BY <2>1, <3>2, <3>3 DEF k
  <2>7. CASE r.idx # "type"
    <3> HIDE DEF type
    <3>1. acc[k] \in {v, [v EXCEPT !.name = r.value], [v EXCEPT !.firmware_version = r.value]}
      BY <2>5, <2>7 DEF StoreInfo
    <3>2. acc[k] \in V /\ acc[k].type = v.type
      <4> HIDE DEF r
      <4> QED
        BY <2>3, <3>1
    <3>3. TypeOf(recs, k) = TypeOf(recs, n)
      BY <2>1, <2>7, TypeOfOneMore
    <3> QED
      BY <2>1, <2>3, <3>2, <3>3 DEF k
  <2> QED
    BY <2>6, <2>7
<1>5. Len(recs) \in S
  <2> HIDE DEF S
  <2>1. 0 .. Len(recs) \subseteq S
    BY <1>2, <1>3, <1>4, UpToBySteps
  <2> QED
    BY <1>2, <2>1
<1> QED
  BY <1>1, <1>5

-----------------------------------------------------------------------------
(* What a request for records returns.                                     *)

\* What the application gets for the content of an answer.
LatestOf(obj, c, idx, num) ==
    LatestIn(parseChannelRecords(c, obj), Len(parseChannelRecords(c, obj)), idx, num)
SpotFor(obj, c, r) ==
    /\ obj \in {"ac", "stats"} => \A f \in FieldOf(obj) : r[f] = LatestOf(obj, c, f[1], f[2])
    /\ obj = "dc" =>
          /\ \A q \in {"power", "voltage", "current"} :
                r[q] = Row(parseChannelRecords(c, obj), Len(parseChannelRecords(c, obj)), q)
          /\ r.totalPower = SumOfValid(r.power)
    /\ obj = "status" => r.number = Selection(c, 0)
    /\ obj = "info" =>
          r.type = TypeOf(parseChannelRecords(c, obj), Len(parseChannelRecords(c, obj)))

\* The records that are looked at are those that fit into the buffer.
LEMMA LookedAt ==
    ASSUME NEW obj \in Records, NEW V, NEW c \in Seq(V)
    PROVE  LET recs == parseChannelRecords(c, obj)
           IN  /\ recs \in Seq(V) /\ Len(recs) <= Len(c) /\ Len(recs) <= MaxRecords[obj]
               /\ \A i \in 1 .. Len(recs) : i \in 1 .. Len(c) /\ recs[i] = c[i]
<1> DEFINE room == MaxRecords[obj]
           len == Len(c)
           n == Min({len, room})
<1>1. room \in Nat /\ len \in Nat
  BY LenProperties, RoomAssumption
<1>2. n \in 0 .. len /\ n <= room
  <2> HIDE DEF room, len
  <2>1. {len, room} \in SUBSET Nat /\ {len, room} # {}
    BY <1>1
  <2>2. n \in {len, room} /\ \A i \in {len, room} : n <= i
    BY <2>1, MinOfNumbers
  <2> QED
    BY <1>1, <2>2
<1>3. parseChannelRecords(c, obj) = SubSeq(c, 1, n)
  BY DEF parseChannelRecords
<1> HIDE DEF n
<1>4. SubSeq(c, 1, n) = [i \in 1 .. n |-> c[i]]
  BY <1>1, <1>2
<1>5. \A i \in 1 .. n : i \in 1 .. Len(c) /\ c[i] \in V
  BY <1>1, <1>2, ElementOfSeq
<1>6. SubSeq(c, 1, n) \in Seq(V) /\ Len(SubSeq(c, 1, n)) = n
  BY <1>1, <1>2, <1>4, <1>5
<1> QED
  BY <1>2, <1>3, <1>4, <1>5, <1>6

\* What the call makes of the content of an answer is what is promised.
LEMMA SpotIsRead ==
    ASSUME NEW obj \in Records \cup {Status}, NEW c \in Contents(obj)
    PROVE  SpotFor(obj, c, RecordsReading(obj, c))
<1> DEFINE recs == parseChannelRecords(c, obj)
<1>1. CASE obj = Status
  <2>1. c \in Seq(Attribute) /\ obj = "status"
    BY <1>1, ContentsAssumption, ObjectsAssumption
  <2>2. RecordsReading(obj, c) = readStatus(c)
    BY <1>1, <2>1 DEF RecordsReading
  <2>3. readStatus(c).number = Selection(c, 0)
    BY <2>1, SelectionIsSelected DEF readStatus
  <2> QED
    BY <2>1, <2>2, <2>3 DEF SpotFor
<1>2. CASE obj = "info"
  <2>1. obj \in Records /\ c \in Seq(InfoRecord)
    BY <1>2, ContentsAssumption, ObjectsAssumption
  <2>2. recs \in Seq(InfoRecord)
    BY <2>1, LookedAt
  <2>3. RecordsReading(obj, c) = readInverterInfo(recs)
    BY <1>2, ObjectsAssumption DEF RecordsReading
  <2> HIDE DEF recs
  <2>4. readInverterInfo(recs).type = TypeOf(recs, Len(recs))
    BY <2>2, TypeIsSelected
  <2> QED
    BY <1>2, <2>3, <2>4 DEF SpotFor, recs
<1>3. CASE obj = "dc"
  <2>1. obj \in Records \ {"info"} /\ c \in Seq(Record)
    BY <1>3, ContentsAssumption, ObjectsAssumption
  <2>2. /\ recs \in Seq(Record) /\ Len(recs) <= Len(c) /\ Len(recs) <= MaxRecords[obj]
        /\ \A i \in 1 .. Len(recs) : i \in 1 .. Len(c) /\ recs[i] = c[i]
    BY <2>1, LookedAt
  <2> HIDE DEF recs
  <2>3. \A i \in 1 .. Len(recs) : recs[i].cnt <= Trackers
    <3> DEFINE room == MaxRecords[obj]
               n == Len(recs)
               len == Len(c)
    <3>1. room \in Nat /\ n \in Nat /\ len \in Nat /\ n <= room /\ n <= len
      BY <2>1, <2>2, RoomAssumption, LenProperties
    <3>2. \A i \in 1 .. room : i <= len => c[i].cnt <= Trackers
      BY <1>3, <2>1, ContentsAssumption
    <3> HIDE DEF room, n, len
    <3>3. \A i \in 1 .. n : i \in 1 .. room /\ i <= len
      BY <3>1
    <3>4. \A i \in 1 .. n : c[i].cnt <= Trackers
      BY <3>2, <3>3
    <3> QED
      BY <2>2, <3>4 DEF n
  <2>4. RecordsReading(obj, c) = readDc(recs)
    BY <1>3, ObjectsAssumption DEF RecordsReading, recs
  <2>5. /\ \A q \in {"power", "voltage", "current"} :
                readDc(recs)[q] = Row(recs, Len(recs), q)
        /\ readDc(recs).totalPower = SumOfValid(Row(recs, Len(recs), "power"))
    BY <2>2, <2>3, DcRead
  <2>6. readDc(recs).totalPower = SumOfValid(readDc(recs).power)
    BY <2>5
  <2> QED
    BY <1>3, <2>4, <2>5, <2>6 DEF SpotFor, recs
<1>4. CASE obj \in {"ac", "stats"}
  <2>1. obj \in Records \ {"info"} /\ c \in Seq(Record)
    BY <1>4, ContentsAssumption, ObjectsAssumption
  <2>2. recs \in Seq(Record)
    BY <2>1, LookedAt
  <2>3. RecordsReading(obj, c) = readFields(obj, recs)
    BY <1>4, ObjectsAssumption DEF RecordsReading
  <2> HIDE DEF recs
  <2>4. readFields(obj, recs) = [f \in FieldOf(obj) |-> LatestIn(recs, Len(recs), f[1], f[2])]
    BY <2>2, FieldsAreLatest
  <2> QED
    BY <1>4, <2>3, <2>4 DEF SpotFor, LatestOf, recs
<1> QED
  BY <1>1, <1>2, <1>3, <1>4, ObjectsAssumption

\* A reading is stored when a request for records or for an archive ends, and
\* until then there is none.
RequestInv ==
    /\ pc \in {"records", "recordRead"} => op.obj \in Records \cup {Status} /\ reading = NoReading
    /\ pc \in {"archive", "archiveRead"} => op.obj \in Archive /\ reading = NoReading
SpotInv == reading # NoReading => SpotFor(op.obj, content, reading)

\* The other steps of the session begin no request.
LEMMA OtherSteps ==
    ASSUME SessionStep
    PROVE  /\ UNCHANGED <<op, range, content, reading>>
           /\ pc' \in {"records", "recordRead"} => pc \in {"records", "recordRead"}
           /\ pc' \in {"archive", "archiveRead"} => pc \in {"archive", "archiveRead"}
<1> USE DEF Passed, Failed, sessionVars, requestVars, networkVars
<1>1. CASE Connect \/ Reconnect \/ disconnect
  BY <1>1 DEF SessionStep, Connect, Reconnect, disconnect
<1>2. CASE ConnectStep
  <2>1. CASE logout \/ discoverDevices \/ addDevice \/ Discovered
    BY <2>1 DEF SessionStep, logout, discoverDevices, addDevice, Discovered
  <2>2. CASE sendPassword \/ AuthAnswer \/ Authenticated
    BY <2>2 DEF SessionStep, sendPassword, AuthAnswer, Authenticated
  <2>3. CASE SyncQuery \/ SyncAnswer
    BY <2>3 DEF SessionStep, SyncQuery, SyncAnswer, ReadFailed, AttemptOf, GiveUpOf
  <2>4. CASE SyncAck \/ SyncSet \/ SyncAdjust
    BY <2>4 DEF SessionStep, SyncAck, SyncSet, SyncAdjust
  <2> QED
    BY <1>2, <2>1, <2>2, <2>3, <2>4 DEF ConnectStep
<1>3. CASE ReadFails
  <2>1. /\ UNCHANGED op /\ pc \in ReadPc
        /\ pc' \in {AttemptOf(pc), GiveUpOf(pc)}
    BY <1>3 DEF ReadFails, ReadFailed
  <2>2. pc' \in {"records", "recordRead"} => pc = "recordRead"
    BY <2>1 DEF ReadPc, AttemptOf, GiveUpOf
  <2>3. pc' \in {"archive", "archiveRead"} => pc = "archiveRead"
    BY <2>1 DEF ReadPc, AttemptOf, GiveUpOf
  <2> QED
    BY <1>3, <2>1, <2>2, <2>3 DEF SessionStep
<1>4. CASE requestChannel
  BY <1>4 DEF SessionStep, requestChannel
<1>5. CASE requestArchiveData
  BY <1>5 DEF SessionStep, requestArchiveData
<1>6. CASE \E s \in Serial : Arrive(s)
  BY <1>6 DEF SessionStep, Arrive
<1> QED
  BY <1>1, <1>2, <1>3, <1>4, <1>5, <1>6 DEF SessionStep

\* What an answer to a request for records changes.
LEMMA RecordsAreStored ==
    ASSUME ReadRecords
    PROVE  /\ UNCHANGED <<op, range>> /\ pc = "recordRead"
           /\ pc' \notin {"archive", "archiveRead"}
           /\ \/ pc' = "connected" /\ content' \in Contents(op.obj)
                 /\ reading' = RecordsReading(op.obj, content')
              \/ pc' \in {"records", "connected"} /\ UNCHANGED <<content, reading>>
<1>1. pc = "recordRead" /\ UNCHANGED op
  BY DEF ReadRecords, RecordAnswer
<1>2. pc' \in {"records", "connected"}
  BY <1>1 DEF ReadRecords, RecordAnswer, ReadFailed, Failed, Passed, AttemptOf, GiveUpOf
<1>3. CASE answer.kind = op.obj
  <2>1. pc' = "connected"
    BY <1>3 DEF ReadRecords, RecordAnswer, Passed
  <2> QED
    BY <1>1, <2>1 DEF ReadRecords
<1>4. CASE answer.kind # op.obj
  <2>1. result' = result
    BY <1>4 DEF ReadRecords, RecordAnswer
  <2> QED
    BY <1>1, <1>2, <2>1 DEF ReadRecords
<1> QED
  BY <1>3, <1>4

\* What a packet of an archive changes.
LEMMA ArchivesAreStored ==
    ASSUME ReadArchive
    PROVE  /\ UNCHANGED <<op, range>> /\ pc = "archiveRead"
           /\ pc' \notin {"records", "recordRead"}
           /\ \/ /\ pc' = "connected" /\ answer.kind = op.obj
                 /\ content' \in Chunks(op.obj, result'.parts[1].num + 1)
                 /\ reading' = ArchiveReading(Gathered(result'.parts, content'))
              \/ UNCHANGED <<content, reading>>
<1>1. pc = "archiveRead" /\ UNCHANGED op
  BY DEF ReadArchive, ArchiveAnswer
<1>2. pc' \in {"archive", "archiveRead", "connected"}
  BY <1>1 DEF ReadArchive, ArchiveAnswer, ReadFailed, Failed, Passed, AttemptOf, GiveUpOf
<1>3. CASE answer.kind = op.obj /\ ~(answer.num > 0)
  <2>1. pc' = "connected"
    BY <1>3 DEF ReadArchive, ArchiveAnswer, Passed
  <2> QED
    BY <1>1, <1>3, <2>1 DEF ReadArchive
<1>4. CASE answer.kind # op.obj \/ answer.num > 0
  <2>1. result' = result
    BY <1>4 DEF ReadArchive, ArchiveAnswer
  <2> QED
    BY <1>1, <1>2, <2>1 DEF ReadArchive
<1> QED
  BY <1>3, <1>4

\* A request begins without a reading.
LEMMA RequestStarts ==
    ASSUME NEW id \in Serial, NEW obj \in Object, ReadRequest(id, obj)
    PROVE  /\ op'.obj = obj /\ reading' = NoReading
           /\ pc' = IF obj \in Archive THEN "archive" ELSE "records"
BY DEF ReadRequest, Request, Passed

\* A request for records reads records, one for an archive packets.
LEMMA RequestInvariant == ReadSpec => []RequestInv
<1>1. ReadInit => RequestInv
  BY DEF ReadInit, Init, RequestInv
<1>2. RequestInv /\ [ReadNext]_readVars => RequestInv'
  <2> SUFFICES ASSUME RequestInv, [ReadNext]_readVars PROVE RequestInv'
    OBVIOUS
  <2>1. CASE SessionStep
    <3>1. /\ op' = op /\ reading' = reading
          /\ pc' \in {"records", "recordRead"} => pc \in {"records", "recordRead"}
          /\ pc' \in {"archive", "archiveRead"} => pc \in {"archive", "archiveRead"}
      BY <2>1, OtherSteps
    <3> QED
      BY <3>1 DEF RequestInv
  <2>2. CASE ReadRecords
    <3>1. pc = "recordRead" /\ op' = op /\ pc' \notin {"archive", "archiveRead"}
          /\ (pc' = "connected" \/ (pc' = "records" /\ reading' = reading))
      BY <2>2, RecordsAreStored
    <3> QED
      BY <3>1 DEF RequestInv
  <2>3. CASE ReadArchive
    <3>1. pc = "archiveRead" /\ op' = op /\ pc' \notin {"records", "recordRead"}
          /\ (pc' = "connected" \/ reading' = reading)
      BY <2>3, ArchivesAreStored
    <3> QED
      BY <3>1 DEF RequestInv
  <2>4. ASSUME NEW id \in Serial, NEW obj \in Object, ReadRequest(id, obj)
        PROVE  RequestInv'
    <3>1. /\ op'.obj = obj /\ reading' = NoReading
          /\ pc' = IF obj \in Archive THEN "archive" ELSE "records"
      BY <2>4, RequestStarts
    <3>2. obj \in Archive \/ obj \in Records \cup {Status}
      BY DEF Object
    <3> QED
      BY <3>1, <3>2 DEF RequestInv
  <2>5. CASE UNCHANGED readVars
    BY <2>5 DEF RequestInv, readVars, vars
  <2> QED
    BY <2>1, <2>2, <2>3, <2>4, <2>5 DEF ReadNext
<1> QED
  BY <1>1, <1>2, PTL DEF ReadSpec

\* What is stored stays what is promised until the next request.
LEMMA SpotInvariant == ReadSpec => []SpotInv
<1>1. ReadInit => SpotInv
  BY DEF ReadInit, SpotInv
<1>2. RequestInv /\ SpotInv /\ [ReadNext]_readVars => SpotInv'
  <2> SUFFICES ASSUME RequestInv, SpotInv, [ReadNext]_readVars PROVE SpotInv'
    OBVIOUS
  <2>1. CASE SessionStep
    <3>1. op' = op /\ reading' = reading /\ content' = content
      BY <2>1, OtherSteps
    <3> QED
      BY <3>1 DEF SpotInv
  <2>2. CASE ReadRecords
    <3>1. op' = op /\ op.obj \in Records \cup {Status}
      BY <2>2, RecordsAreStored DEF RequestInv
    <3>2. CASE content' \in Contents(op.obj) /\ reading' = RecordsReading(op.obj, content')
      <4>1. \A c \in Contents(op.obj) : SpotFor(op.obj, c, RecordsReading(op.obj, c))
        BY <3>1, SpotIsRead
      <4> QED
        BY <3>1, <3>2, <4>1 DEF SpotInv
    <3>3. CASE reading' = reading /\ content' = content
      BY <3>1, <3>3 DEF SpotInv
    <3> QED
      BY <2>2, <3>2, <3>3, RecordsAreStored
  <2>3. CASE ReadArchive
    <3>1. op' = op /\ op.obj \in Archive
      BY <2>3, ArchivesAreStored DEF RequestInv
    <3>2. op'.obj \in {"day", "events"}
      BY <3>1, ObjectsAssumption
    <3> QED
      BY <3>2 DEF SpotInv, SpotFor
  <2>4. ASSUME NEW id \in Serial, NEW obj \in Object, ReadRequest(id, obj)
        PROVE  SpotInv'
    BY <2>4, RequestStarts DEF SpotInv
  <2>5. CASE UNCHANGED readVars
    BY <2>5 DEF SpotInv, readVars, vars
  <2> QED
    BY <2>1, <2>2, <2>3, <2>4, <2>5 DEF ReadNext
<1> QED
  BY <1>1, <1>2, RequestInvariant, PTL DEF ReadSpec

\* Whatever records an answer holds and in whatever order, a value is that of
\* the last record about it, and without one it is marked invalid: for every
\* content of an answer, with more records than the array has room for too.
THEOREM SpotValues == ReadSpec => []SpotValuesAreLatest
<1>1. SpotInv => SpotValuesAreLatest
  <2> SUFFICES ASSUME SpotInv PROVE SpotValuesAreLatest
    OBVIOUS
  <2>1. ASSUME NEW idx, NEW num PROVE Latest(idx, num) = LatestOf(op.obj, content, idx, num)
    BY DEF Latest, Looked, LatestOf, LatestIn, About
  <2>2. ASSUME NEW obj \in Records \cap {"ac", "stats"}, Answered(obj), NEW f \in FieldOf(obj)
        PROVE  reading[f] = Latest(f[1], f[2])
    BY <2>1, <2>2 DEF SpotInv, SpotFor, Answered
  <2>3. ASSUME Answered("dc"), NEW q \in {"power", "voltage", "current"}, NEW t \in 1 .. Trackers
        PROVE  reading[q][t] = Latest(q, t)
    <3>1. reading[q] = Row(parseChannelRecords(content, op.obj),
                           Len(parseChannelRecords(content, op.obj)), q)
      BY <2>3 DEF SpotInv, SpotFor, Answered
    <3>2. reading[q][t] = LatestOf(op.obj, content, q, t)
      BY <3>1 DEF Row, LatestOf
    <3> QED
      BY <2>1, <3>2
  <2> QED
    BY <2>2, <2>3 DEF SpotValuesAreLatest
<1> QED
  BY <1>1, SpotInvariant, PTL

\* Two sums of the same terms are the same.
LEMMA SumOfLatest ==
    ASSUME NEW row, NEW S \in SUBSET (1 .. Trackers),
           \A t \in 1 .. Trackers : row[t] = Latest("power", t)
    PROVE  RowSum(row, S) = MapThenSumSet(LAMBDA t : Latest("power", t), S)
<1> DEFINE I(it) == it = [s \in SUBSET S |->
                             IF s = {} THEN 0
                             ELSE row[CHOOSE x \in s : TRUE] + it[s \ {CHOOSE x \in s : TRUE}]]
           J(it) == it = [s \in SUBSET S |->
                             IF s = {} THEN 0
                             ELSE Latest("power", CHOOSE x \in s : TRUE)
                                      + it[s \ {CHOOSE x \in s : TRUE}]]
<1>1. RowSum(row, S) = (CHOOSE it : I(it))[S]
  BY DEF RowSum, MapThenSumSet, MapThenFoldSet
<1>2. MapThenSumSet(LAMBDA t : Latest("power", t), S) = (CHOOSE it : J(it))[S]
  BY DEF MapThenSumSet, MapThenFoldSet
<1>3. ASSUME NEW it PROVE I(it) <=> J(it)
  <2>1. ASSUME NEW s \in SUBSET S, s # {}
        PROVE  row[CHOOSE x \in s : TRUE] = Latest("power", CHOOSE x \in s : TRUE)
    BY <2>1
  <2> QED
    BY <2>1
<1> HIDE DEF I, J
<1> QED
  BY <1>1, <1>2, <1>3

\* The total power is the sum of the powers of all trackers that report one, for
\* every number of trackers and every order of their records.
THEOREM TotalPower == ReadSpec => []TotalPowerIsSum
<1>1. SpotInv => TotalPowerIsSum
  <2> SUFFICES ASSUME SpotInv, Answered("dc")
               PROVE  LET valid == {t \in 1 .. Trackers : Latest("power", t) # Invalid}
                      IN  reading.totalPower
                              = IF valid = {} THEN Invalid
                                ELSE MapThenSumSet(LAMBDA t : Latest("power", t), valid)
    BY DEF TotalPowerIsSum
  <2> DEFINE row == reading.power
             valid == {t \in 1 .. Trackers : row[t] # Invalid}
  <2>1. /\ row = Row(parseChannelRecords(content, op.obj),
                     Len(parseChannelRecords(content, op.obj)), "power")
        /\ reading.totalPower = SumOfValid(row)
    BY DEF SpotInv, SpotFor, Answered
  <2>2. \A t \in 1 .. Trackers : row[t] = Latest("power", t)
    <3>1. ASSUME NEW t \in 1 .. Trackers PROVE row[t] = Latest("power", t)
      BY <2>1 DEF Row, Latest, Looked, LatestIn, About
    <3> QED
      BY <3>1
  <2> HIDE DEF row
  <2>3. {t \in 1 .. Trackers : Latest("power", t) # Invalid} = valid
    BY <2>2
  <2>4. RowSum(row, valid) = MapThenSumSet(LAMBDA t : Latest("power", t), valid)
    BY <2>2, SumOfLatest
  <2>5. reading.totalPower = IF valid = {} THEN Invalid ELSE RowSum(row, valid)
    BY <2>1 DEF SumOfValid
  <2> HIDE DEF valid
  <2> QED
    BY <2>3, <2>4, <2>5
<1> QED
  BY <1>1, SpotInvariant, PTL

\* The status and the type of the inverter are the attributes selected before
\* the end of enums, for every list of attributes.
THEOREM SelectedAttributes == ReadSpec => []AttributesAreSelected
<1>1. SpotInv => AttributesAreSelected
  <2> SUFFICES ASSUME SpotInv PROVE AttributesAreSelected
    OBVIOUS
  <2>1. Answered(Status) => reading.number = Selection(content, 0)
    BY ObjectsAssumption DEF SpotInv, SpotFor, Answered
  <2>2. ASSUME Answered("info") PROVE reading.type = TypeOf(Looked, Len(Looked))
    BY <2>2 DEF SpotInv, SpotFor, Answered, Looked
  <2> QED
    BY <2>1, <2>2 DEF AttributesAreSelected, TypeOf, Types
<1> QED
  BY <1>1, SpotInvariant, PTL

-----------------------------------------------------------------------------
(* What a request for an archive returns.                                  *)

\* The entries of a sequence, and their order.
Elems(s) == {s[i] : i \in 1 .. Len(s)}
Sorted(s) == \A i, j \in 1 .. Len(s) : i < j => s[i].time < s[j].time

\* The loop over the entries of a packet takes one after the other.
TakenByLoop(before, taken) ==
    \E acc : /\ acc[0] = before /\ FoldLeft(TakeEntry, before, taken) = acc[Len(taken)]
             /\ \A k \in 1 .. Len(taken) : acc[k] = TakeEntry(acc[k - 1], taken[k])

\* What the loop leaves is reached entry by entry.
LEMMA EntriesFolded ==
    ASSUME NEW before \in Seq(Entry), NEW taken \in Seq(Entry)
    PROVE  TakenByLoop(before, taken)
<1> DEFINE n == Len(taken)
           base == before
           V == Seq(Entry)
           step == [i \in 1 .. n |-> [v \in V |-> TakeEntry(v, taken[i])]]
           Is(g) == g = [s \in SUBSET DOMAIN taken |->
                            IF s = {} THEN base ELSE TakeEntry(g[s \ {Max(s)}], taken[Max(s)])]
<1>0. n \in Nat /\ DOMAIN taken = 1 .. n
  BY LenProperties
<1>1. base \in V
  OBVIOUS
<1>2. ASSUME NEW i \in 1 .. n, NEW v \in V PROVE TakeEntry(v, taken[i]) \in V
  <2>1. taken[i] \in Entry
    BY <1>0, ElementOfSeq
  <2> QED
    BY <2>1, AppendProperties DEF TakeEntry
<1>3. step \in [1 .. n -> [V -> V]]
  <2> HIDE DEF V
  <2> QED
    BY <1>2
<1> HIDE DEF V, base, n
<1>4. \E it : Is(it)
  <2> HIDE DEF step
  <2>1. PICK it \in [SUBSET (1 .. n) -> V] : IsFold(it, n, base, step)
    BY <1>0, <1>1, <1>3, FoldExists
  <2>2. ASSUME NEW s \in SUBSET (1 .. n), s # {}
        PROVE  step[Max(s)][it[s \ {Max(s)}]] = TakeEntry(it[s \ {Max(s)}], taken[Max(s)])
    <3>1. Max(s) \in 1 .. n /\ s \ {Max(s)} \in SUBSET (1 .. n)
      BY <1>0, <2>2, MaxOfPart
    <3> QED
      BY <3>1 DEF step
  <2>3. it = [s \in SUBSET (1 .. n) |->
                 IF s = {} THEN base ELSE TakeEntry(it[s \ {Max(s)}], taken[Max(s)])]
    BY <2>1, <2>2 DEF IsFold
  <2> QED
    BY <1>0, <2>3
<1> DEFINE g == CHOOSE g : Is(g)
<1>5. FoldLeft(TakeEntry, before, taken) = g[1 .. n]
  BY <1>0 DEF FoldLeft, MapThenFoldSet, base
<1>6. \A s \in SUBSET (1 .. n) :
          g[s] = IF s = {} THEN base ELSE TakeEntry(g[s \ {Max(s)}], taken[Max(s)])
  <2>1. Is(g)
    <3> HIDE DEF Is
    <3> QED
      BY <1>4
  <2> HIDE DEF g
  <2> QED
    BY <1>0, <2>1
<1> DEFINE acc == [k \in 0 .. n |-> g[1 .. k]]
<1> HIDE DEF g
<1>7. acc[0] = base /\ acc[n] = g[1 .. n]
  <2>1. 1 .. 0 = {} /\ 0 \in 0 .. n /\ n \in 0 .. n
    BY <1>0
  <2> QED
    BY <1>6, <2>1
<1>8. ASSUME NEW k \in 1 .. n PROVE acc[k] = TakeEntry(acc[k - 1], taken[k])
  <2>1. /\ Max(1 .. k) = k /\ (1 .. k) \ {k} = 1 .. k - 1 /\ 1 .. k # {}
        /\ 1 .. k \in SUBSET (1 .. n) /\ k - 1 \in 0 .. n /\ k \in 0 .. n
    BY <1>0, MaxOfPrefix
  <2> QED
    BY <1>6, <2>1
<1> HIDE DEF acc
<1> QED
  BY <1>5, <1>7, <1>8 DEF base, n, TakenByLoop

\* An entry appended to earlier ones.
LEMMA EntryAppended ==
    ASSUME NEW s \in Seq(Entry), NEW e \in Entry, Sorted(s), \A x \in Elems(s) : x.time < e.time
    PROVE  /\ Append(s, e) \in Seq(Entry) /\ Sorted(Append(s, e))
           /\ Elems(Append(s, e)) = Elems(s) \cup {e}
<1> DEFINE t == Append(s, e)
           n == Len(s)
<1>1. n \in Nat
  BY LenProperties
<1>2. t \in Seq(Entry) /\ Len(t) = n + 1 /\ t[n + 1] = e /\ \A i \in 1 .. n : t[i] = s[i]
  BY AppendProperties
<1>3. \A i \in 1 .. n : s[i] \in Elems(s)
  BY DEF Elems
<1>4. \A i, j \in 1 .. n : i < j => s[i].time < s[j].time
  BY DEF Sorted
<1> HIDE DEF t
<1>5. Sorted(t)
  <2> SUFFICES ASSUME NEW i \in 1 .. n + 1, NEW j \in 1 .. n + 1, i < j
               PROVE  t[i].time < t[j].time
    BY <1>2 DEF Sorted
  <2>1. i \in 1 .. n
    BY <1>1
  <2>2. CASE j = n + 1
    BY <1>2, <1>3, <2>1, <2>2
  <2>3. CASE j # n + 1
    <3>1. j \in 1 .. n
      BY <1>1, <2>3
    <3> QED
      BY <1>2, <1>4, <2>1, <3>1
  <2> QED
    BY <2>2, <2>3
<1>6. Elems(t) = Elems(s) \cup {e}
  <2>1. 1 .. n + 1 = (1 .. n) \cup {n + 1}
    BY <1>1
  <2>2. Elems(t) = {t[i] : i \in 1 .. n + 1}
    BY <1>2 DEF Elems
  <2>3. ASSUME NEW x \in Elems(t) PROVE x \in Elems(s) \cup {e}
    BY <1>2, <1>3, <2>1, <2>2
  <2>4. ASSUME NEW x \in Elems(s) PROVE x \in Elems(t)
    <3>1. PICK i \in 1 .. n : x = s[i]
      BY DEF Elems
    <3> QED
      BY <1>2, <2>1, <2>2, <3>1
  <2>5. e \in Elems(t)
    BY <1>2, <2>1, <2>2
  <2> QED
    BY <2>3, <2>4, <2>5
<1> QED
  BY <1>2, <1>5, <1>6 DEF t

\* What the loop over a packet that is later than the entries before leaves:
\* those entries and the wanted ones of the packet, in the order of time.
LEMMA EntriesAreTaken ==
    ASSUME NEW before \in Seq(Entry), NEW taken \in Seq(Entry), Sorted(before), Sorted(taken),
           \A x \in Elems(before), y \in Elems(taken) : x.time < y.time
    PROVE  LET after == FoldLeft(TakeEntry, before, taken)
           IN  /\ after \in Seq(Entry) /\ Sorted(after)
               /\ Elems(after) = Elems(before) \cup {e \in Elems(taken) : Wanted(e)}
<1>1. PICK acc : /\ acc[0] = before /\ FoldLeft(TakeEntry, before, taken) = acc[Len(taken)]
                 /\ \A k \in 1 .. Len(taken) : acc[k] = TakeEntry(acc[k - 1], taken[k])
  <2>1. TakenByLoop(before, taken)
    BY EntriesFolded
  <2> QED
    BY <2>1 DEF TakenByLoop
<1> DEFINE n == Len(taken)
           Some(k) == {taken[i] : i \in 1 .. k}
           Is(k, s) == /\ s \in Seq(Entry) /\ Sorted(s)
                       /\ Elems(s) = Elems(before) \cup {e \in Some(k) : Wanted(e)}
           S == {k \in 0 .. n : Is(k, acc[k])}
<1>2. n \in Nat
  BY LenProperties
<1>3. 0 \in S
  <2>1. Some(0) = {} /\ 0 \in 0 .. n
    BY <1>2
  <2> HIDE DEF Some
  <2> QED
    BY <1>1, <2>1
<1>4. ASSUME NEW m \in 0 .. n - 1, m \in S PROVE m + 1 \in S
  <2> DEFINE k == m + 1
             s == acc[m]
             e == taken[k]
  <2>1. /\ k \in 1 .. n /\ k - 1 = m /\ k \in 0 .. n /\ 1 .. k = (1 .. m) \cup {k}
        /\ \A i \in 1 .. m : i \in 1 .. n /\ i < k
    BY <1>2
  <2>2. e \in Entry /\ e \in Elems(taken)
    BY <2>1, ElementOfSeq DEF Elems
  <2>3. acc[k] = TakeEntry(s, e)
    BY <1>1, <2>1
  <2>4. Is(m, s)
    BY <1>4
  <2>5. Some(k) = Some(m) \cup {e}
    BY <2>1
  <2>6. \A x \in Elems(s) : x.time < e.time
    <3>1. \A x \in Elems(before) : x.time < e.time
      BY <2>2
    <3>2. \A i \in 1 .. m : taken[i].time < taken[k].time
      BY <2>1 DEF Sorted
    <3>3. \A x \in Some(m) : x.time < e.time
      BY <3>2
    <3> QED
      BY <2>4, <3>1, <3>3
  <2> HIDE DEF e, s, Some, k
  <2>7. CASE Wanted(e)
    <3>1. acc[k] = Append(s, e)
      BY <2>3, <2>7 DEF TakeEntry
    <3>2. /\ Append(s, e) \in Seq(Entry) /\ Sorted(Append(s, e))
          /\ Elems(Append(s, e)) = Elems(s) \cup {e}
      BY <2>2, <2>4, <2>6, EntryAppended
    <3>3. Elems(acc[k]) = Elems(before) \cup {x \in Some(k) : Wanted(x)}
      BY <2>4, <2>5, <2>7, <3>1, <3>2
    <3> QED
      BY <2>1, <3>1, <3>2, <3>3 DEF k
  <2>8. CASE ~Wanted(e)
    <3>1. acc[k] = s
      BY <2>3, <2>8 DEF TakeEntry
    <3>2. {x \in Some(k) : Wanted(x)} = {x \in Some(m) : Wanted(x)}
      BY <2>5, <2>8
    <3> QED
      BY <2>1, <2>4, <3>1, <3>2 DEF k
  <2> QED
    BY <2>7, <2>8
<1>5. n \in S
  <2> HIDE DEF S
  <2>1. 0 .. n \subseteq S
    BY <1>2, <1>3, <1>4, UpToBySteps
  <2> QED
    BY <1>2, <2>1
<1>6. Some(n) = Elems(taken)
  BY DEF Elems
<1> QED
  BY <1>1, <1>5, <1>6

\* Whatever their times, what a loop over entries leaves are entries.
LEMMA TakenAreEntries ==
    ASSUME NEW before \in Seq(Entry), NEW taken \in Seq(Entry)
    PROVE  FoldLeft(TakeEntry, before, taken) \in Seq(Entry)
<1>1. PICK acc : /\ acc[0] = before /\ FoldLeft(TakeEntry, before, taken) = acc[Len(taken)]
                 /\ \A k \in 1 .. Len(taken) : acc[k] = TakeEntry(acc[k - 1], taken[k])
  <2>1. TakenByLoop(before, taken)
    BY EntriesFolded
  <2> QED
    BY <2>1 DEF TakenByLoop
<1> DEFINE n == Len(taken)
           S == {k \in 0 .. n : acc[k] \in Seq(Entry)}
<1>2. n \in Nat
  BY LenProperties
<1>3. 0 \in S
  BY <1>1, <1>2
<1>4. ASSUME NEW m \in 0 .. n - 1, m \in S PROVE m + 1 \in S
  <2>1. m + 1 \in 1 .. n /\ (m + 1) - 1 = m /\ m + 1 \in 0 .. n
    BY <1>2
  <2>2. taken[m + 1] \in Entry /\ acc[m + 1] = TakeEntry(acc[m], taken[m + 1])
    BY <1>1, <2>1, ElementOfSeq
  <2>3. acc[m + 1] \in Seq(Entry)
    BY <1>4, <2>2, AppendProperties DEF TakeEntry
  <2> QED
    BY <2>1, <2>3
<1>5. n \in S
  <2> HIDE DEF S
  <2>1. 0 .. n \subseteq S
    BY <1>2, <1>3, <1>4, UpToBySteps
  <2> QED
    BY <1>2, <2>1
<1> QED
  BY <1>1, <1>5

\* The smaller of two numbers.
LEMMA MinOfTwo ==
    ASSUME NEW a \in Int, NEW b \in Int
    PROVE  Min({a, b}) = IF a <= b THEN a ELSE b
<1>1. \E x \in {a, b} : \A y \in {a, b} : x <= y
  <2>1. CASE a <= b BY <2>1
  <2>2. CASE b <= a BY <2>2
  <2> QED BY <2>1, <2>2
<1>2. Min({a, b}) \in {a, b} /\ \A y \in {a, b} : Min({a, b}) <= y
  BY <1>1 DEF Min
<1> QED
  BY <1>2

\* The bytes of a packet of n entries.
Bytes(obj, n) == HEADER + EntryLen(obj) * n

\* All entries of a packet fit into what its length holds.
LEMMA AllFit ==
    ASSUME NEW obj, NEW len \in Int, NEW n \in Nat
    PROVE  /\ Bytes(obj, n) \in Nat /\ Fitting(len, obj) \in Nat
           /\ len = Bytes(obj, n) => Fitting(len, obj) = n
           /\ \A m \in Nat : n >= m => Bytes(obj, n) >= Bytes(obj, m)
<1>1. CASE obj = "day"
  BY <1>1 DEF Bytes, Fitting, HEADER, EntryLen
<1>2. CASE obj # "day"
  BY <1>2 DEF Bytes, Fitting, HEADER, EntryLen
<1> QED
  BY <1>1, <1>2

\* Of a packet the first entries are taken, and all of them unless packet.len
\* has shrunk below it.
LEMMA PacketIsTaken ==
    ASSUME NEW acc \in [len : Int, entries : Seq(Entry)], NEW chunk \in Seq(Entry)
    PROVE  LET after == TakePacket(acc, chunk)
               full == Bytes(op.obj, Len(chunk))
           IN  /\ after.len = IF acc.len <= full THEN acc.len ELSE full
               /\ after \in [len : Int, entries : Seq(Entry)]
               /\ \E taken \in Seq(Entry) :
                      /\ after.entries = FoldLeft(TakeEntry, acc.entries, taken)
                      /\ Len(taken) <= Len(chunk)
                      /\ \A i \in 1 .. Len(taken) : taken[i] = chunk[i]
                      /\ full <= acc.len => taken = chunk
<1> DEFINE size == Len(chunk)
           full == Bytes(op.obj, size)
           len == Min({acc.len, full})
           fit == Fitting(len, op.obj)
           m == Min({size, fit})
           taken == SubSeq(chunk, 1, m)
<1>1. size \in Nat /\ acc.len \in Int /\ acc.entries \in Seq(Entry)
  BY LenProperties
<1> HIDE DEF size
<1>2. full \in Nat
  BY <1>1, AllFit
<1>3. len = (IF acc.len <= full THEN acc.len ELSE full) /\ len \in Int
  <2> HIDE DEF full
  <2> QED
    BY <1>1, <1>2, MinOfTwo
<1>4. fit \in Nat /\ (len = full => fit = size)
  <2> HIDE DEF len
  <2> QED
    BY <1>1, <1>3, AllFit
<1>5. m \in 0 .. size /\ (len = full => m = size)
  <2> HIDE DEF len, fit, full
  <2>1. m = IF size <= fit THEN size ELSE fit
    BY <1>1, <1>4, MinOfTwo
  <2> QED
    BY <1>1, <1>4, <2>1
<1> HIDE DEF m, fit
<1>6. /\ taken \in Seq(Entry) /\ Len(taken) = m /\ \A i \in 1 .. m : taken[i] = chunk[i]
      /\ m = size => taken = chunk
  <2>1. taken = [i \in 1 .. m |-> chunk[i]]
    BY <1>1, <1>5 DEF size
  <2>2. \A i \in 1 .. m : chunk[i] \in Entry
    BY <1>1, <1>5, ElementOfSeq DEF size
  <2>3. taken \in Seq(Entry) /\ Len(taken) = m /\ \A i \in 1 .. m : taken[i] = chunk[i]
    BY <1>1, <1>5, <2>1, <2>2
  <2>4. chunk = [i \in 1 .. size |-> chunk[i]]
    BY DEF size
  <2> QED
    BY <2>1, <2>3, <2>4
<1> HIDE DEF taken
<1>7. TakePacket(acc, chunk) = [len |-> len, entries |-> FoldLeft(TakeEntry, acc.entries, taken)]
  BY DEF TakePacket, taken, m, fit, size, Bytes
<1> DEFINE left == FoldLeft(TakeEntry, acc.entries, taken)
<1>8. left \in Seq(Entry)
  BY <1>1, <1>6, TakenAreEntries
<1> HIDE DEF left, len
<1>9. TakePacket(acc, chunk) = [len |-> len, entries |-> left]
  BY <1>7 DEF left
<1>10. full <= acc.len => len = full
  BY <1>1, <1>2, <1>3
<1> QED
  BY <1>1, <1>3, <1>5, <1>6, <1>8, <1>9, <1>10 DEF left, size

\* The packets of an archive are read one after the other.
NothingTaken == [len |-> BUF_LEN, entries |-> <<>>]
ReadByLoop(chunks) ==
    \E acc : /\ acc[0] = NothingTaken
             /\ FoldLeft(TakePacket, NothingTaken, chunks) = acc[Len(chunks)]
             /\ \A k \in 1 .. Len(chunks) : acc[k] = TakePacket(acc[k - 1], chunks[k])

\* What is left of an archive is reached packet by packet.
LEMMA PacketsFolded ==
    ASSUME NEW chunks \in Seq(Seq(Entry))
    PROVE  ReadByLoop(chunks)
<1> DEFINE n == Len(chunks)
           base == NothingTaken
           V == [len : Int, entries : Seq(Entry)]
           step == [i \in 1 .. n |-> [v \in V |-> TakePacket(v, chunks[i])]]
           Is(g) == g = [s \in SUBSET DOMAIN chunks |->
                            IF s = {} THEN base ELSE TakePacket(g[s \ {Max(s)}], chunks[Max(s)])]
<1>0. n \in Nat /\ DOMAIN chunks = 1 .. n
  BY LenProperties
<1>1. base \in V
  BY RoomAssumption, EmptySeq DEF NothingTaken
<1>2. ASSUME NEW i \in 1 .. n, NEW v \in V PROVE TakePacket(v, chunks[i]) \in V
  <2>1. chunks[i] \in Seq(Entry)
    BY <1>0, ElementOfSeq
  <2> QED
    BY <2>1, PacketIsTaken
<1>3. step \in [1 .. n -> [V -> V]]
  <2> HIDE DEF V
  <2> QED
    BY <1>2
<1> HIDE DEF V, base, n
<1>4. \E it : Is(it)
  <2> HIDE DEF step
  <2>1. PICK it \in [SUBSET (1 .. n) -> V] : IsFold(it, n, base, step)
    BY <1>0, <1>1, <1>3, FoldExists
  <2>2. ASSUME NEW s \in SUBSET (1 .. n), s # {}
        PROVE  step[Max(s)][it[s \ {Max(s)}]] = TakePacket(it[s \ {Max(s)}], chunks[Max(s)])
    <3>1. Max(s) \in 1 .. n /\ s \ {Max(s)} \in SUBSET (1 .. n)
      BY <1>0, <2>2, MaxOfPart
    <3> QED
      BY <3>1 DEF step
  <2>3. it = [s \in SUBSET (1 .. n) |->
                 IF s = {} THEN base ELSE TakePacket(it[s \ {Max(s)}], chunks[Max(s)])]
    BY <2>1, <2>2 DEF IsFold
  <2> QED
    BY <1>0, <2>3
<1> DEFINE g == CHOOSE g : Is(g)
<1>5. FoldLeft(TakePacket, NothingTaken, chunks) = g[1 .. n]
  BY <1>0 DEF FoldLeft, MapThenFoldSet, base
<1>6. \A s \in SUBSET (1 .. n) :
          g[s] = IF s = {} THEN base ELSE TakePacket(g[s \ {Max(s)}], chunks[Max(s)])
  <2>1. Is(g)
    <3> HIDE DEF Is
    <3> QED
      BY <1>4
  <2> HIDE DEF g
  <2> QED
    BY <1>0, <2>1
<1> DEFINE acc == [k \in 0 .. n |-> g[1 .. k]]
<1> HIDE DEF g
<1>7. acc[0] = base /\ acc[n] = g[1 .. n]
  <2>1. 1 .. 0 = {} /\ 0 \in 0 .. n /\ n \in 0 .. n
    BY <1>0
  <2> QED
    BY <1>6, <2>1
<1>8. ASSUME NEW k \in 1 .. n PROVE acc[k] = TakePacket(acc[k - 1], chunks[k])
  <2>1. /\ Max(1 .. k) = k /\ (1 .. k) \ {k} = 1 .. k - 1 /\ 1 .. k # {}
        /\ 1 .. k \in SUBSET (1 .. n) /\ k - 1 \in 0 .. n /\ k \in 0 .. n
    <3>1. /\ 1 .. k \in SUBSET (1 .. n) /\ k - 1 \in 0 .. n /\ k \in 0 .. n /\ n \in Nat
      BY <1>0
    <3> QED
      BY <3>1, MaxOfPrefix
  <2> QED
    BY <1>6, <2>1
<1> HIDE DEF acc
<1> QED
  BY <1>5, <1>7, <1>8 DEF base, n, ReadByLoop

\* The entries of an archive, and what is assumed of its packets.
AllOf(c) == UNION {Elems(c[i]) : i \in 1 .. Len(c)}
InOrder(c) ==
    /\ \A i \in 1 .. Len(c) : Sorted(c[i])
    /\ \A i, j \in 1 .. Len(c) : i < j => \A x \in Elems(c[i]), y \in Elems(c[j]) : x.time < y.time
NoneGrows(c) == \A i, j \in 1 .. Len(c) : i < j => Len(c[i]) >= Len(c[j])

\* What is left of an archive is in the order of time, of the entries asked for,
\* and all of them unless a packet is longer than one before it.
LEMMA ArchiveIsTaken ==
    ASSUME NEW c \in Seq(Seq(Entry)), InOrder(c),
           \A i \in 1 .. Len(c) : Bytes(op.obj, Len(c[i])) <= BUF_LEN
    PROVE  LET data == FoldLeft(TakePacket, NothingTaken, c).entries
           IN  /\ data \in Seq(Entry) /\ Sorted(data)
               /\ \A e \in Elems(data) : e \in AllOf(c) /\ Wanted(e)
               /\ NoneGrows(c) => \A e \in AllOf(c) : Wanted(e) => e \in Elems(data)
<1>1. PICK acc : /\ acc[0] = NothingTaken /\ FoldLeft(TakePacket, NothingTaken, c) = acc[Len(c)]
                 /\ \A k \in 1 .. Len(c) : acc[k] = TakePacket(acc[k - 1], c[k])
  <2>1. ReadByLoop(c)
    BY PacketsFolded
  <2> QED
    BY <2>1 DEF ReadByLoop
<1> DEFINE n == Len(c)
           Upto(k) == UNION {Elems(c[i]) : i \in 1 .. k}
           V == [len : Int, entries : Seq(Entry)]
           Part(k, s) == /\ Sorted(s)
                         /\ \A e \in Elems(s) : e \in Upto(k) /\ Wanted(e)
           Room(k, len) == NoneGrows(c) => \A j \in k + 1 .. n : Bytes(op.obj, Len(c[j])) <= len
           All(k, s) == NoneGrows(c) => \A e \in Upto(k) : Wanted(e) => e \in Elems(s)
           Is(k) == /\ acc[k] \in V /\ Part(k, acc[k].entries)
                    /\ Room(k, acc[k].len) /\ All(k, acc[k].entries)
           S == {k \in 0 .. n : Is(k)}
<1>2. n \in Nat
  BY LenProperties
<1>3. 0 \in S
  <2>1. acc[0] \in V /\ acc[0].len = BUF_LEN /\ acc[0].entries = <<>>
    BY <1>1, RoomAssumption, EmptySeq DEF NothingTaken
  <2>2. Part(0, <<>>)
    BY DEF Sorted, Elems
  <2>3. Room(0, BUF_LEN)
    BY <1>2
  <2>4. All(0, <<>>)
    OBVIOUS
  <2> HIDE DEF Part, Room, All
  <2>5. Is(0)
    BY <2>1, <2>2, <2>3, <2>4
  <2> HIDE DEF Is
  <2> QED
    BY <1>2, <2>5
<1>4. ASSUME NEW m \in 0 .. n - 1, m \in S PROVE m + 1 \in S
  <2> DEFINE k == m + 1
             a == acc[m]
             chunk == c[k]
             after == acc[k]
  <2>1. /\ k \in 1 .. n /\ k - 1 = m /\ k \in 0 .. n /\ 1 .. k = (1 .. m) \cup {k}
        /\ \A i \in 1 .. m : i \in 1 .. n /\ i < k
    BY <1>2
  <2>2. Is(m)
    BY <1>4
  <2>3. chunk \in Seq(Entry)
    BY <2>1, ElementOfSeq
  <2>4. after = TakePacket(a, chunk) /\ a \in V /\ a.entries \in Seq(Entry)
    BY <1>1, <2>1, <2>2
  <2> DEFINE full == Bytes(op.obj, Len(chunk))
  <2>5. /\ after.len = IF a.len <= full THEN a.len ELSE full
        /\ after \in V
    <3> HIDE DEF after, a, chunk
    <3> QED
      BY <2>3, <2>4, PacketIsTaken
  <2>6. PICK taken \in Seq(Entry) :
            /\ after.entries = FoldLeft(TakeEntry, a.entries, taken)
            /\ Len(taken) <= Len(chunk)
            /\ \A i \in 1 .. Len(taken) : taken[i] = chunk[i]
            /\ full <= a.len => taken = chunk
    <3> HIDE DEF after, a, chunk
    <3> QED
      BY <2>3, <2>4, PacketIsTaken
  <2>7. Upto(k) = Upto(m) \cup Elems(chunk)
    BY <2>1
  <2> HIDE DEF Upto
  <2>8. Sorted(taken) /\ Elems(taken) \subseteq Elems(chunk)
    <3> DEFINE size == Len(taken)
               len == Len(chunk)
    <3>1. size \in Nat /\ len \in Nat /\ size <= len
      BY <2>3, <2>6, LenProperties
    <3> HIDE DEF size, len
    <3>2. \A i \in 1 .. size : i \in 1 .. len
      BY <3>1
    <3>3. Sorted(chunk)
      BY <2>1 DEF InOrder
    <3> HIDE DEF chunk
    <3>4. \A i, j \in 1 .. size : i < j => taken[i].time < taken[j].time
      BY <2>6, <3>2, <3>3 DEF Sorted, size, len
    <3>5. \A i \in 1 .. size : taken[i] \in Elems(chunk)
      BY <2>6, <3>2 DEF Elems, size, len
    <3> QED
      BY <3>4, <3>5 DEF Sorted, Elems, size
  <2>9. \A x \in Elems(a.entries), y \in Elems(taken) : x.time < y.time
    <3>1. \A x \in Upto(m), y \in Elems(chunk) : x.time < y.time
      BY <2>1 DEF InOrder, Upto
    <3> QED
      BY <2>2, <2>8, <3>1
  <2>10. /\ Sorted(after.entries)
         /\ Elems(after.entries) = Elems(a.entries) \cup {e \in Elems(taken) : Wanted(e)}
    <3> HIDE DEF after, a
    <3> DEFINE before == a.entries
    <3>1. before \in Seq(Entry) /\ Sorted(before)
      BY <2>2, <2>4 DEF a
    <3>2. after.entries = FoldLeft(TakeEntry, before, taken)
      BY <2>6
    <3>3. \A x \in Elems(before), y \in Elems(taken) : x.time < y.time
      BY <2>9
    <3> HIDE DEF before
    <3>4. /\ Sorted(FoldLeft(TakeEntry, before, taken))
          /\ Elems(FoldLeft(TakeEntry, before, taken))
                 = Elems(before) \cup {e \in Elems(taken) : Wanted(e)}
      BY <2>6, <2>8, <3>1, <3>3, EntriesAreTaken
    <3> QED
      BY <3>2, <3>4 DEF before
  <2>11. Part(k, after.entries)
    BY <2>2, <2>7, <2>8, <2>10
  <2>12. NoneGrows(c) => full <= a.len
    BY <2>1, <2>2
  <2>13. All(k, after.entries)
    BY <2>2, <2>6, <2>7, <2>10, <2>12
  <2>14. Room(k, after.len)
    <3> SUFFICES ASSUME NoneGrows(c), NEW j \in k + 1 .. n
                 PROVE  Bytes(op.obj, Len(c[j])) <= after.len
      OBVIOUS
    <3> DEFINE rest == Len(c[j])
               len == Len(chunk)
    <3>1. j \in 1 .. n /\ k < j /\ j \in m + 1 .. n
      BY <1>2, <2>1
    <3>2. rest \in Nat /\ len \in Nat /\ len >= rest
      <4>1. c[j] \in Seq(Entry)
        BY <3>1, ElementOfSeq
      <4>2. len >= rest
        BY <2>1, <3>1 DEF NoneGrows
      <4> QED
        BY <2>3, <4>1, <4>2, LenProperties
    <3>3. Bytes(op.obj, rest) <= a.len
      BY <2>2, <3>1
    <3> DEFINE need == Bytes(op.obj, rest)
               have == Bytes(op.obj, len)
               old == a.len
               new == after.len
    <3>4. need \in Nat /\ have \in Nat /\ have >= need /\ old \in Int
      <4> HIDE DEF rest, len, a
      <4> QED
        BY <2>4, <3>2, AllFit
    <3>5. new = (IF old <= have THEN old ELSE have) /\ need <= old
      BY <2>5, <3>3
    <3> HIDE DEF need, have, old, new
    <3>6. need <= new
      BY <3>4, <3>5
    <3> QED
      BY <3>6 DEF need, new
  <2> HIDE DEF Part, All, Room, after
  <2>15. Is(k)
    BY <2>5, <2>11, <2>13, <2>14 DEF after
  <2> HIDE DEF Is
  <2> QED
    BY <2>1, <2>15
<1>5. Is(n)
  <2>1. n \in S
    <3> HIDE DEF S
    <3>1. 0 .. n \subseteq S
      BY <1>2, <1>3, <1>4, UpToBySteps
    <3>2. n \in 0 .. n
      BY <1>2
    <3> QED
      BY <3>1, <3>2
  <2> HIDE DEF Is
  <2> QED
    BY <2>1
<1>6. Upto(n) = AllOf(c)
  BY DEF AllOf
<1> HIDE DEF Upto
<1> QED
  BY <1>1, <1>5, <1>6

\* The turns of readDayYield(), and the yield of one turn.
YieldsOver(data, turns) == FoldLeft(LAMBDA yields, i : NextYield(data, yields, i), <<>>, turns)
YieldAt(data, i) == [time |-> data[i].time, value |-> data[i].value - data[i - 1].value]
Close(data, i) == data[i].time - data[i - 1].time < GAP

\* One turn adds the yield of its day, or nothing after a gap.
LEMMA OneTurn ==
    ASSUME NEW data \in Seq(Entry), \A i \in 1 .. Len(data) : data[i].value \in Int,
           NEW yields \in Seq(Entry), NEW i \in 2 .. Len(data)
    PROVE  /\ NextYield(data, yields, i) = IF Close(data, i) THEN Append(yields, YieldAt(data, i))
                                           ELSE yields
           /\ YieldAt(data, i) \in Entry /\ NextYield(data, yields, i) \in Seq(Entry)
<1>1. i \in 1 .. Len(data) /\ i - 1 \in 1 .. Len(data)
  BY LenProperties
<1>2. data[i] \in Entry /\ data[i - 1] \in Entry
  BY <1>1, ElementOfSeq
<1> DEFINE a == data[i].time
           b == data[i - 1].time
           x == data[i].value
           y == data[i - 1].value
<1>3. a \in Nat /\ b \in Nat /\ x \in Int /\ y \in Int
  BY <1>1, <1>2 DEF Entry
<1>4. YieldAt(data, i) = [time |-> a, value |-> x - y]
  BY DEF YieldAt
<1> HIDE DEF x, y
<1>5. YieldAt(data, i) \in Entry
  BY <1>3, <1>4 DEF Entry
<1>6. NextYield(data, yields, i) = IF a - b >= GAP THEN yields ELSE Append(yields, YieldAt(data, i))
  BY <1>4 DEF NextYield, x, y
<1>7. Close(data, i) <=> ~(a - b >= GAP)
  <2>1. Close(data, i) <=> a - b < GAP
    BY DEF Close
  <2> HIDE DEF a, b
  <2> QED
    BY <1>3, <2>1 DEF GAP
<1> HIDE DEF a, b
<1>8. NextYield(data, yields, i) = IF Close(data, i) THEN Append(yields, YieldAt(data, i))
                                   ELSE yields
  BY <1>6, <1>7
<1> QED
  BY <1>5, <1>8, AppendProperties

\* readDayYield() does one turn after the other.
TurnByTurn(data, turns) ==
    \E acc : /\ acc[0] = <<>> /\ YieldsOver(data, turns) = acc[Len(turns)]
             /\ \A k \in 1 .. Len(turns) : acc[k] = NextYield(data, acc[k - 1], turns[k])

\* The yields are reached turn by turn.
LEMMA TurnsFolded ==
    ASSUME NEW data \in Seq(Entry), \A i \in 1 .. Len(data) : data[i].value \in Int,
           NEW turns \in Seq(2 .. Len(data))
    PROVE  TurnByTurn(data, turns)
<1> DEFINE n == Len(turns)
           base == <<>>
           V == Seq(Entry)
           step == [i \in 1 .. n |-> [v \in V |-> NextYield(data, v, turns[i])]]
           Is(g) == g = [s \in SUBSET DOMAIN turns |->
                            IF s = {} THEN base
                            ELSE NextYield(data, g[s \ {Max(s)}], turns[Max(s)])]
<1>0. n \in Nat /\ DOMAIN turns = 1 .. n
  BY LenProperties
<1>1. base \in V
  BY EmptySeq
<1>2. ASSUME NEW i \in 1 .. n, NEW v \in V PROVE NextYield(data, v, turns[i]) \in V
  <2>1. turns[i] \in 2 .. Len(data)
    BY <1>0, ElementOfSeq
  <2> QED
    BY <2>1, OneTurn
<1>3. step \in [1 .. n -> [V -> V]]
  <2> HIDE DEF V
  <2> QED
    BY <1>2
<1> HIDE DEF V, base, n
<1>4. \E it : Is(it)
  <2> HIDE DEF step
  <2>1. PICK it \in [SUBSET (1 .. n) -> V] : IsFold(it, n, base, step)
    BY <1>0, <1>1, <1>3, FoldExists
  <2>2. ASSUME NEW s \in SUBSET (1 .. n), s # {}
        PROVE  step[Max(s)][it[s \ {Max(s)}]] = NextYield(data, it[s \ {Max(s)}], turns[Max(s)])
    <3>1. Max(s) \in 1 .. n /\ s \ {Max(s)} \in SUBSET (1 .. n)
      BY <1>0, <2>2, MaxOfPart
    <3> QED
      BY <3>1 DEF step
  <2>3. it = [s \in SUBSET (1 .. n) |->
                 IF s = {} THEN base ELSE NextYield(data, it[s \ {Max(s)}], turns[Max(s)])]
    BY <2>1, <2>2 DEF IsFold
  <2> QED
    BY <1>0, <2>3
<1> DEFINE g == CHOOSE g : Is(g)
<1>5. YieldsOver(data, turns) = g[1 .. n]
  BY <1>0 DEF YieldsOver, FoldLeft, MapThenFoldSet, base
<1>6. \A s \in SUBSET (1 .. n) :
          g[s] = IF s = {} THEN base ELSE NextYield(data, g[s \ {Max(s)}], turns[Max(s)])
  <2>1. Is(g)
    <3> HIDE DEF Is
    <3> QED
      BY <1>4
  <2> HIDE DEF g
  <2> QED
    BY <1>0, <2>1
<1> DEFINE acc == [k \in 0 .. n |-> g[1 .. k]]
<1> HIDE DEF g
<1>7. acc[0] = base /\ acc[n] = g[1 .. n]
  <2>1. 1 .. 0 = {} /\ 0 \in 0 .. n /\ n \in 0 .. n
    BY <1>0
  <2> QED
    BY <1>6, <2>1
<1>8. ASSUME NEW k \in 1 .. n PROVE acc[k] = NextYield(data, acc[k - 1], turns[k])
  <2>1. /\ Max(1 .. k) = k /\ (1 .. k) \ {k} = 1 .. k - 1 /\ 1 .. k # {}
        /\ 1 .. k \in SUBSET (1 .. n) /\ k - 1 \in 0 .. n /\ k \in 0 .. n
    <3>1. /\ 1 .. k \in SUBSET (1 .. n) /\ k - 1 \in 0 .. n /\ k \in 0 .. n /\ n \in Nat
      BY <1>0
    <3> QED
      BY <3>1, MaxOfPrefix
  <2> QED
    BY <1>6, <2>1
<1> HIDE DEF acc
<1> QED
  BY <1>5, <1>7, <1>8 DEF base, n, TurnByTurn

\* The yields are those of the totals that follow another one closely, in the
\* order of time.
LEMMA YieldsAreTaken ==
    ASSUME NEW data \in Seq(Entry), Sorted(data), \A i \in 1 .. Len(data) : data[i].value \in Int
    PROVE  LET yields == YieldsOver(data, [i \in 1 .. Len(data) - 1 |-> i + 1])
           IN  /\ Sorted(yields)
               /\ \A x \in Elems(yields) :
                     \E i \in 2 .. Len(data) : Close(data, i) /\ x = YieldAt(data, i)
               /\ \A i \in 2 .. Len(data) : Close(data, i) => YieldAt(data, i) \in Elems(yields)
<1> DEFINE len == Len(data)
           turns == [i \in 1 .. len - 1 |-> i + 1]
           n == Len(turns)
<1>1. len \in Nat
  BY LenProperties
<1>2. /\ turns \in Seq(2 .. len) /\ n \in Nat /\ n = (IF len = 0 THEN 0 ELSE len - 1)
      /\ \A k \in 1 .. n : turns[k] = k + 1
  <2> DEFINE last == IF len = 0 THEN 0 ELSE len - 1
  <2>1. last \in Nat /\ 1 .. len - 1 = 1 .. last
    BY <1>1
  <2> HIDE DEF len
  <2>2. \A i \in 1 .. last : i + 1 \in 2 .. len
    BY <1>1
  <2> HIDE DEF last
  <2>3. turns = [i \in 1 .. last |-> i + 1]
    BY <2>1
  <2> HIDE DEF turns
  <2>4. turns \in Seq(2 .. len) /\ Len(turns) = last /\ \A k \in 1 .. last : turns[k] = k + 1
    BY <2>1, <2>2, <2>3
  <2> QED
    BY <2>1, <2>4 DEF last
<1> HIDE DEF turns
<1>3. PICK acc : /\ acc[0] = <<>> /\ YieldsOver(data, turns) = acc[n]
                 /\ \A k \in 1 .. n : acc[k] = NextYield(data, acc[k - 1], turns[k])
  <2>1. TurnByTurn(data, turns)
    BY <1>2, TurnsFolded
  <2> QED
    BY <2>1 DEF TurnByTurn
<1> HIDE DEF n
<1> DEFINE Is(k, s) == /\ s \in Seq(Entry) /\ Sorted(s)
                       /\ \A x \in Elems(s) :
                             \E i \in 2 .. k + 1 : Close(data, i) /\ x = YieldAt(data, i)
                       /\ \A i \in 2 .. k + 1 : Close(data, i) => YieldAt(data, i) \in Elems(s)
           S == {k \in 0 .. n : Is(k, acc[k])}
<1>4. 0 \in S
  <2>1. Is(0, <<>>)
    BY EmptySeq DEF Elems, Sorted
  <2> HIDE DEF Is
  <2> QED
    BY <1>2, <1>3, <2>1
<1>5. ASSUME NEW m \in 0 .. n - 1, m \in S PROVE m + 1 \in S
  <2> DEFINE k == m + 1
             j == m + 2
             s == acc[m]
             y == YieldAt(data, j)
  <2>1. /\ k \in 1 .. n /\ k - 1 = m /\ k \in 0 .. n
        /\ j = k + 1 /\ j \in 2 .. len /\ j \in 1 .. len
        /\ 2 .. k + 1 = (2 .. m + 1) \cup {j} /\ \A i \in 2 .. m + 1 : i \in 1 .. len /\ i < j
    <3> HIDE DEF len
    <3> QED
      BY <1>1, <1>2
  <2>2. Is(m, s)
    BY <1>5
  <2>3. acc[k] = NextYield(data, s, j)
    BY <1>2, <1>3, <2>1
  <2>4. s \in Seq(Entry)
    BY <2>2
  <2>5. acc[k] = (IF Close(data, j) THEN Append(s, y) ELSE s) /\ y \in Entry
    <3> HIDE DEF s
    <3> QED
      BY <2>1, <2>3, <2>4, OneTurn
  <2>6. \A x \in Elems(s) : x.time < y.time
    <3>1. \A i \in 2 .. m + 1 : data[i].time < data[j].time
      BY <2>1 DEF Sorted
    <3>2. \A i \in 2 .. m + 1 : YieldAt(data, i).time < y.time
      BY <3>1 DEF YieldAt
    <3> QED
      BY <2>2, <3>2
  <2> HIDE DEF y, s, k, j
  <2>7. CASE Close(data, j)
    <3>1. /\ Append(s, y) \in Seq(Entry) /\ Sorted(Append(s, y))
          /\ Elems(Append(s, y)) = Elems(s) \cup {y}
      BY <2>2, <2>5, <2>6, EntryAppended
    <3>2. \A x \in Elems(acc[k]) : \E i \in 2 .. k + 1 : Close(data, i) /\ x = YieldAt(data, i)
      BY <2>1, <2>2, <2>5, <2>7, <3>1 DEF y
    <3>3. \A i \in 2 .. k + 1 : Close(data, i) => YieldAt(data, i) \in Elems(acc[k])
      BY <2>1, <2>2, <2>5, <2>7, <3>1 DEF y
    <3> QED
      BY <2>1, <2>5, <2>7, <3>1, <3>2, <3>3 DEF k
  <2>8. CASE ~Close(data, j)
    <3>1. \A x \in Elems(s) : \E i \in 2 .. k + 1 : Close(data, i) /\ x = YieldAt(data, i)
      BY <2>1, <2>2
    <3>2. \A i \in 2 .. k + 1 : Close(data, i) => YieldAt(data, i) \in Elems(s)
      BY <2>1, <2>2, <2>8
    <3> QED
      BY <2>1, <2>2, <2>5, <2>8, <3>1, <3>2 DEF k
  <2> QED
    BY <2>7, <2>8
<1>6. Is(n, acc[n])
  <2>1. n \in S
    <3> HIDE DEF S
    <3>1. 0 .. n \subseteq S
      BY <1>2, <1>4, <1>5, UpToBySteps
    <3>2. n \in 0 .. n
      BY <1>2
    <3> QED
      BY <3>1, <3>2
  <2> HIDE DEF Is
  <2> QED
    BY <2>1
<1>7. 2 .. n + 1 = 2 .. len
  <2> HIDE DEF len
  <2> QED
    BY <1>1, <1>2
<1>8. YieldsOver(data, turns) = acc[n]
  BY <1>3
<1> DEFINE yields == acc[n]
<1>9. /\ Sorted(yields)
      /\ \A x \in Elems(yields) : \E i \in 2 .. len : Close(data, i) /\ x = YieldAt(data, i)
      /\ \A i \in 2 .. len : Close(data, i) => YieldAt(data, i) \in Elems(yields)
  BY <1>6, <1>7
<1> QED
  BY <1>8, <1>9 DEF turns

\* What is promised of the answer to a request for an archive.
WantedIn(obj, rng, e) ==
    /\ rng[1] <= e.time /\ e.time <= rng[2]
    /\ obj = "day" => e.value # Invalid
DailyFor(c, values) ==
    \A k \in 1 .. Len(values) :
        \E e, f \in AllOf(c) :
            /\ e.value # Invalid /\ f.value # Invalid
            /\ f.time = e.time + DAY /\ f.time = values[k].time
            /\ f.value - e.value = values[k].value
WholeFor(obj, rng, c, values) ==
    NoneGrows(c) =>
        \A f \in AllOf(c) :
            /\ WantedIn(obj, rng, f)
            /\ obj = "day" => \E e \in AllOf(c) : WantedIn(obj, rng, e) /\ f.time = e.time + DAY
            => \E k \in 1 .. Len(values) : values[k].time = f.time
InRange(rng, values) ==
    \A k \in 1 .. Len(values) : rng[1] <= values[k].time /\ values[k].time <= rng[2]
ArchiveFor(obj, rng, c, r) ==
    /\ c \in Seq(Seq(Entry)) /\ Len(c) # 0
    /\ InRange(rng, r.values) /\ Sorted(r.values)
    /\ obj = "day" => DailyFor(c, r.values)
    /\ WholeFor(obj, rng, c, r.values)

\* What an inverter sends of an archive.
LEMMA ChunksAreInOrder ==
    ASSUME NEW obj \in Archive, NEW n \in 1 .. MaxFragments, NEW c \in Chunks(obj, n)
    PROVE  /\ c \in Seq(Seq(Entry)) /\ Len(c) = n /\ InOrder(c)
           /\ \A i \in 1 .. Len(c) : Bytes(obj, Len(c[i])) <= BUF_LEN
           /\ obj = "day" => \A e \in AllOf(c) : e.time % DAY = 0
<1>1. /\ c \in Seq(Seq(Entry)) /\ Len(c) = n
      /\ \A i \in 1 .. n : HEADER + EntryLen(obj) * Len(c[i]) <= BUF_LEN
      /\ \A i, j \in 1 .. n : \A k \in 1 .. Len(c[i]), l \in 1 .. Len(c[j]) :
            i < j \/ (i = j /\ k < l) => c[i][k].time < c[j][l].time
      /\ obj = "day" => \A i \in 1 .. n : \A k \in 1 .. Len(c[i]) : c[i][k].time % DAY = 0
  BY ChunksAssumption
<1>2. \A i \in 1 .. n : Sorted(c[i])
  BY <1>1 DEF Sorted
<1>3. \A i, j \in 1 .. n : i < j => \A x \in Elems(c[i]), y \in Elems(c[j]) : x.time < y.time
  BY <1>1 DEF Elems
<1>4. obj = "day" => \A e \in AllOf(c) : e.time % DAY = 0
  BY <1>1 DEF AllOf, Elems
<1> QED
  BY <1>1, <1>2, <1>3, <1>4 DEF InOrder, Bytes

\* What the application gets of an archive is what is promised.
LEMMA ArchiveIsRead ==
    ASSUME op.obj \in Archive, NEW n \in 1 .. MaxFragments, NEW c \in Chunks(op.obj, n)
    PROVE  ArchiveFor(op.obj, range, c,
                      ArchiveReading(FoldLeft(TakePacket, NothingTaken, c).entries))
<1> DEFINE data == FoldLeft(TakePacket, NothingTaken, c).entries
           len == Len(data)
<1>1. PICK obj \in Archive : obj = op.obj
  OBVIOUS
<1>2. /\ c \in Seq(Seq(Entry)) /\ Len(c) = n /\ InOrder(c)
      /\ \A i \in 1 .. Len(c) : Bytes(obj, Len(c[i])) <= BUF_LEN
      /\ obj = "day" => \A e \in AllOf(c) : e.time % DAY = 0
  <2>1. c \in Chunks(obj, n)
    BY <1>1
  <2> QED
    BY <2>1, ChunksAreInOrder
<1>3. Len(c) # 0
  BY <1>2
<1>4. /\ data \in Seq(Entry) /\ Sorted(data)
      /\ \A e \in Elems(data) : e \in AllOf(c) /\ Wanted(e)
      /\ NoneGrows(c) => \A e \in AllOf(c) : Wanted(e) => e \in Elems(data)
  <2>1. \A i \in 1 .. Len(c) : Bytes(op.obj, Len(c[i])) <= BUF_LEN
    BY <1>1, <1>2
  <2> QED
    BY <1>2, <2>1, ArchiveIsTaken
<1> HIDE DEF data
<1>5. \A e : Wanted(e) <=> WantedIn(obj, range, e)
  BY <1>1 DEF Wanted, WantedIn
<1>6. CASE obj = "events"
  <2>1. ArchiveReading(data).values = data
    BY <1>1, <1>6 DEF ArchiveReading, readEvents
  <2>2. InRange(range, data)
    <3>1. \A k \in 1 .. len : Wanted(data[k])
      BY <1>4 DEF Elems
    <3> QED
      BY <3>1 DEF InRange, Wanted
  <2>3. WholeFor(obj, range, c, data)
    BY <1>4, <1>5 DEF WholeFor, Elems
  <2>4. ArchiveFor(obj, range, c, ArchiveReading(data))
    BY <1>2, <1>3, <1>4, <1>6, <2>1, <2>2, <2>3 DEF ArchiveFor
  <2> QED
    BY <1>1, <2>4 DEF data
<1>7. CASE obj = "day"
  <2> DEFINE yields == ArchiveReading(data).values
             t(i) == data[i].time
  <2>1. len \in Nat
    BY <1>4, LenProperties
  <2>2. \A i \in 1 .. len : /\ data[i] \in AllOf(c) /\ Wanted(data[i]) /\ data[i].value # Invalid
                            /\ data[i].value \in Int /\ t(i) \in Nat /\ t(i) % DAY = 0
    <3> SUFFICES ASSUME NEW i \in 1 .. len
                 PROVE  /\ data[i] \in AllOf(c) /\ Wanted(data[i]) /\ data[i].value # Invalid
                        /\ data[i].value \in Int /\ t(i) \in Nat /\ t(i) % DAY = 0
      OBVIOUS
    <3>1. data[i] \in AllOf(c) /\ Wanted(data[i])
      BY <1>4 DEF Elems
    <3>2. data[i] \in Entry
      BY <1>4, ElementOfSeq
    <3>3. data[i].value # Invalid
      BY <1>5, <1>7, <3>1 DEF WantedIn
    <3> QED
      BY <1>2, <1>7, <3>1, <3>2, <3>3 DEF Entry
  <2>3. /\ Sorted(yields)
        /\ \A x \in Elems(yields) : \E i \in 2 .. len : Close(data, i) /\ x = YieldAt(data, i)
        /\ \A i \in 2 .. len : Close(data, i) => YieldAt(data, i) \in Elems(yields)
    <3>1. ArchiveReading(data) = readDayYield(data)
      BY <1>1, <1>7 DEF ArchiveReading
    <3>2. CASE len < 2
      <4>1. yields = <<>>
        BY <3>1, <3>2 DEF readDayYield
      <4> HIDE DEF len
      <4>2. 2 .. len = {}
        BY <2>1, <3>2
      <4> HIDE DEF yields
      <4> QED
        BY <4>1, <4>2 DEF Sorted, Elems
    <3>3. CASE ~(len < 2)
      <4> DEFINE all == YieldsOver(data, [i \in 1 .. Len(data) - 1 |-> i + 1])
      <4>3. readDayYield(data) = IF Len(data) < 2 THEN [allocated |-> FALSE, values |-> <<>>]
                                 ELSE [allocated |-> TRUE, values |-> all]
        BY DEF readDayYield, YieldsOver
      <4> HIDE DEF all
      <4>1. yields = all
        BY <3>1, <3>3, <4>3 DEF yields
      <4> HIDE DEF yields
      <4> USE DEF all
      <4>2. \A i \in 1 .. Len(data) : data[i].value \in Int
        BY <2>2
      <4> QED
        BY <1>4, <4>1, <4>2, YieldsAreTaken
    <3> QED
      BY <3>2, <3>3
  <2> HIDE DEF yields
  <2>4. \A i \in 2 .. len : i \in 1 .. len /\ i - 1 \in 1 .. len /\ i - 1 < i
    <3> HIDE DEF len
    <3> QED
      BY <2>1
  <2>5. \A i, j \in 1 .. len : i < j => t(i) < t(j)
    BY <1>4 DEF Sorted
  <2>6. ASSUME NEW k \in 1 .. Len(yields)
        PROVE  \E i \in 2 .. len : Close(data, i) /\ yields[k] = YieldAt(data, i)
    <3>1. yields[k] \in Elems(yields)
      BY DEF Elems
    <3> QED
      BY <2>3, <3>1
  <2>7. InRange(range, yields)
    <3> SUFFICES ASSUME NEW k \in 1 .. Len(yields)
                 PROVE  range[1] <= yields[k].time /\ yields[k].time <= range[2]
      BY DEF InRange
    <3>1. PICK i \in 2 .. len : yields[k] = YieldAt(data, i)
      BY <2>6
    <3>2. yields[k].time = data[i].time /\ Wanted(data[i])
      BY <2>2, <2>4, <3>1 DEF YieldAt
    <3> QED
      BY <3>2 DEF Wanted
  <2>8. DailyFor(c, yields)
    <3> SUFFICES ASSUME NEW k \in 1 .. Len(yields)
                 PROVE  \E e, f \in AllOf(c) :
                            /\ e.value # Invalid /\ f.value # Invalid
                            /\ f.time = e.time + DAY /\ f.time = yields[k].time
                            /\ f.value - e.value = yields[k].value
      BY DEF DailyFor
    <3>1. PICK i \in 2 .. len : Close(data, i) /\ yields[k] = YieldAt(data, i)
      BY <2>6
    <3> DEFINE a == data[i].time
               b == data[i - 1].time
    <3>2. a \in Nat /\ b \in Nat /\ b < a /\ a - b < GAP /\ a % DAY = 0 /\ b % DAY = 0
      BY <2>2, <2>4, <2>5, <3>1 DEF Close
    <3> HIDE DEF a, b
    <3>3. a = b + DAY
      BY <3>2 DEF GAP, DAY
    <3>4. yields[k].time = data[i].time /\ yields[k].value = data[i].value - data[i - 1].value
      BY <3>1 DEF YieldAt
    <3>5. /\ data[i] \in AllOf(c) /\ data[i - 1] \in AllOf(c)
          /\ data[i].value # Invalid /\ data[i - 1].value # Invalid
      BY <2>2, <2>4
    <3> QED
      BY <3>3, <3>4, <3>5 DEF a, b
  <2>9. WholeFor(obj, range, c, yields)
    <3> SUFFICES ASSUME NoneGrows(c), NEW f \in AllOf(c), NEW e \in AllOf(c),
                        WantedIn(obj, range, f), WantedIn(obj, range, e), f.time = e.time + DAY
                 PROVE  \E k \in 1 .. Len(yields) : yields[k].time = f.time
      BY <1>7 DEF WholeFor
    <3>1. f \in Elems(data) /\ e \in Elems(data)
      BY <1>4, <1>5
    <3>2. PICK j \in 1 .. len, i \in 1 .. len : f = data[j] /\ e = data[i]
      BY <3>1 DEF Elems
    <3>3. t(j) = t(i) + DAY /\ t(i) \in Nat /\ t(j) \in Nat
      BY <2>2, <3>2
    <3>4. i < j
      <4> DEFINE a == t(i)
                 b == t(j)
      <4>1. (j < i => b < a) /\ (j = i => b = a)
        BY <2>5
      <4>2. b = a + DAY /\ a \in Nat
        BY <3>3
      <4> HIDE DEF a, b, len
      <4> QED
        BY <2>1, <4>1, <4>2 DEF DAY
    <3>5. j \in 2 .. len /\ (i = j - 1 \/ i < j - 1)
      <4> HIDE DEF len
      <4> QED
        BY <2>1, <3>4
    <3>6. Close(data, j)
      <4> DEFINE a == t(i)
                 b == t(j)
                 m == t(j - 1)
      <4>1. m \in Nat /\ (a = m \/ a < m)
        BY <2>2, <2>4, <2>5, <3>5
      <4>2. b = a + DAY /\ a \in Nat
        BY <3>3
      <4>3. Close(data, j) <=> b - m < GAP
        BY DEF Close
      <4> HIDE DEF a, b, m
      <4> QED
        BY <4>1, <4>2, <4>3 DEF DAY, GAP
    <3>7. YieldAt(data, j) \in Elems(yields)
      BY <2>3, <3>5, <3>6
    <3>8. PICK k \in 1 .. Len(yields) : yields[k] = YieldAt(data, j)
      BY <3>7 DEF Elems
    <3>9. yields[k].time = f.time
      BY <3>2, <3>8 DEF YieldAt
    <3> QED
      BY <3>9
  <2>10. ArchiveFor(obj, range, c, ArchiveReading(data))
    BY <1>2, <1>3, <2>3, <2>7, <2>8, <2>9 DEF ArchiveFor, yields
  <2> QED
    BY <1>1, <2>10 DEF data
<1>8. obj \in {"day", "events"}
  BY ObjectsAssumption
<1> QED
  BY <1>6, <1>7, <1>8 DEF data

\* The entries of two sequences.
LEMMA ElemsOfConcat ==
    ASSUME NEW s \in Seq(Entry), NEW t \in Seq(Entry)
    PROVE  s \o t \in Seq(Entry) /\ Elems(s \o t) = Elems(s) \cup Elems(t)
<1> DEFINE a == Len(s)
           b == Len(t)
           st == s \o t
<1>1. a \in Nat /\ b \in Nat
  BY LenProperties
<1>2. /\ st \in Seq(Entry) /\ Len(st) = a + b
      /\ \A i \in 1 .. a + b : st[i] = IF i <= a THEN s[i] ELSE t[i - a]
  BY ConcatProperties
<1> HIDE DEF st, a, b
<1>3. /\ Elems(st) = {st[i] : i \in 1 .. a + b}
      /\ Elems(s) = {s[i] : i \in 1 .. a} /\ Elems(t) = {t[i] : i \in 1 .. b}
  BY <1>2 DEF Elems, a, b
<1>4. ASSUME NEW i \in 1 .. a + b PROVE st[i] \in Elems(s) \cup Elems(t)
  <2>1. CASE i <= a
    BY <1>1, <1>2, <1>3, <2>1
  <2>2. CASE ~(i <= a)
    <3>1. i - a \in 1 .. b
      BY <1>1, <2>2
    <3> QED
      BY <1>1, <1>2, <1>3, <2>2, <3>1
  <2> QED
    BY <2>1, <2>2
<1>5. ASSUME NEW i \in 1 .. a PROVE s[i] \in Elems(st)
  <2>1. i \in 1 .. a + b /\ i <= a
    BY <1>1
  <2>2. st[i] = s[i]
    BY <1>2, <2>1
  <2> QED
    BY <1>3, <2>1, <2>2
<1>6. ASSUME NEW i \in 1 .. b PROVE t[i] \in Elems(st)
  <2>1. i + a \in 1 .. a + b /\ ~(i + a <= a) /\ (i + a) - a = i
    BY <1>1
  <2>2. st[i + a] = t[i]
    BY <1>2, <2>1
  <2> QED
    BY <1>3, <2>1, <2>2
<1>7. Elems(st) \subseteq Elems(s) \cup Elems(t)
  BY <1>3, <1>4
<1>8. Elems(s) \subseteq Elems(st) /\ Elems(t) \subseteq Elems(st)
  BY <1>3, <1>5, <1>6
<1> QED
  BY <1>2, <1>7, <1>8 DEF st

\* What was sent is the entries of all packets.
LEMMA SentIsAll ==
    ASSUME NEW c \in Seq(Seq(Entry)), Len(c) # 0
    PROVE  Elems(FlattenSeq(c)) = AllOf(c)
<1> DEFINE n == Len(c)
           Upto(k) == UNION {Elems(c[i]) : i \in 1 .. k}
<1>1. n \in Nat \ {0}
  BY LenProperties
<1>2. PICK f : /\ f[1] = c[1] /\ FlattenSeq(c) = f[n]
               /\ \A i \in 2 .. n : f[i] = f[i - 1] \o c[i]
  BY <1>1, FlattenSeqByPrefix
<1> HIDE DEF n
<1>3. \A i \in 1 .. n : c[i] \in Seq(Entry)
  BY ElementOfSeq DEF n
<1> DEFINE Is(k) == f[k] \in Seq(Entry) /\ Elems(f[k]) = Upto(k)
           S == {k \in 0 .. n - 1 : Is(k + 1)}
<1>4. 0 \in S
  <2>1. 1 .. 1 = {1} /\ 1 \in 1 .. n /\ 0 \in 0 .. n - 1 /\ 0 + 1 = 1
    BY <1>1
  <2>2. Upto(1) = Elems(c[1])
    BY <2>1
  <2> HIDE DEF Upto
  <2>3. Is(1)
    BY <1>2, <1>3, <2>1, <2>2
  <2> HIDE DEF Is
  <2> QED
    BY <2>1, <2>3
<1>5. ASSUME NEW m \in 0 .. (n - 1) - 1, m \in S PROVE m + 1 \in S
  <2> DEFINE k == m + 2
  <2>1. k \in 2 .. n /\ k \in 1 .. n /\ k - 1 = m + 1 /\ (m + 1) + 1 = k /\ m + 1 \in 0 .. n - 1
        /\ 1 .. k = (1 .. m + 1) \cup {k}
    BY <1>1
  <2>2. Is(m + 1)
    BY <1>5
  <2>3. f[k] = f[m + 1] \o c[k] /\ c[k] \in Seq(Entry)
    BY <1>2, <1>3, <2>1
  <2>4. f[k] \in Seq(Entry) /\ Elems(f[k]) = Elems(f[m + 1]) \cup Elems(c[k])
    BY <2>2, <2>3, ElemsOfConcat
  <2>5. Upto(k) = Upto(m + 1) \cup Elems(c[k])
    BY <2>1
  <2> HIDE DEF Upto, k
  <2>6. Is(k)
    BY <2>2, <2>4, <2>5
  <2> HIDE DEF Is
  <2> QED
    BY <2>1, <2>6
<1>6. Is(n)
  <2>1. n - 1 \in S
    <3>1. n - 1 \in Nat /\ n - 1 \in 0 .. n - 1
      BY <1>1
    <3> HIDE DEF S
    <3>2. 0 .. n - 1 \subseteq S
      BY <1>4, <1>5, <3>1, UpToBySteps
    <3> QED
      BY <3>1, <3>2
  <2>2. (n - 1) + 1 = n
    BY <1>1
  <2> HIDE DEF Is
  <2> QED
    BY <2>1, <2>2
<1> QED
  BY <1>2, <1>6 DEF AllOf, n

\* The packets of a complete archive count down, so they are gathered in the
\* order sent.
LEMMA GatheredInOrder ==
    ASSUME NEW ps \in Seq(Answer), NEW c \in Seq(Seq(Entry)), Len(c) = Len(ps),
           \A i \in 1 .. Len(ps) : ps[i].num = Len(ps) - i
    PROVE  Gathered(ps, c) = FoldLeft(TakePacket, NothingTaken, c).entries
<1> DEFINE n == Len(ps)
           part == [i \in 1 .. n |-> c[Len(c) - ps[i].num]]
<1>1. n \in Nat /\ Len(c) = n
  BY LenProperties
<1>2. Gathered(ps, c) = FoldLeft(TakePacket, NothingTaken, part).entries
  BY DEF Gathered, NothingTaken
<1>3. part = c
  <2>1. ASSUME NEW i \in 1 .. n PROVE Len(c) - ps[i].num = i
    <3>1. n - (n - i) = i
      <4> HIDE DEF n
      <4> QED
        BY <1>1
    <3> QED
      BY <1>1, <3>1
  <2>2. part = [i \in 1 .. n |-> c[i]]
    BY <2>1
  <2>3. c = [i \in 1 .. Len(c) |-> c[i]]
    OBVIOUS
  <2> HIDE DEF n, part
  <2> QED
    BY <1>1, <2>2, <2>3
<1> QED
  BY <1>2, <1>3

\* Reading keeps the types of the session.
LEMMA ReadTypes == ReadSpec => []TypeOK
BY ReadingIsSession, SessionTypes, PTL

\* What is stored of an archive is what is promised.
ArchiveInv ==
    reading # NoReading /\ op.obj \in Archive => ArchiveFor(op.obj, range, content, reading)

\* No archive is asked for once an answer was left over.
EarlyInv == pc \in {"archive", "archiveRead"} => ~leftover

LEMMA EarlyArchives == ReadSpec => []EarlyInv
<1>1. ReadInit => EarlyInv
  BY DEF ReadInit, Init, EarlyInv
<1>2. TypeInv /\ EarlyInv /\ [ReadNext]_readVars => EarlyInv'
  <2> SUFFICES ASSUME TypeInv, EarlyInv, [ReadNext]_readVars, pc' \in {"archive", "archiveRead"}
               PROVE  ~leftover'
    BY DEF EarlyInv
  <2>1. CASE pc \in {"archive", "archiveRead"}
    BY <2>1, ReadStep, LeftoverStep DEF EarlyInv
  <2>2. CASE pc \notin {"archive", "archiveRead"}
    <3>1. PICK id \in Serial, obj \in Object : ReadRequest(id, obj)
      <4>1. ~ReadArchive /\ ~UNCHANGED readVars
        BY <2>2, ArchivesAreStored DEF readVars, vars
      <4>2. ~SessionStep /\ ~ReadRecords
        BY <2>2, OtherSteps, RecordsAreStored
      <4> QED
        BY <4>1, <4>2 DEF ReadNext
    <3> QED
      BY <3>1, TimelyReadings DEF ReadRequest, Request, sessionVars
  <2> QED
    BY <2>1, <2>2
<1>3. ReadInit => TypeInv
  BY TypeInit DEF ReadInit
<1>4. TypeInv /\ [ReadNext]_readVars => TypeInv'
  BY ReadStep, TypeStep
<1> QED
  BY <1>1, <1>2, <1>3, <1>4, PTL DEF ReadSpec

\* When the last packet has come the archive is decoded from all of them.
LEMMA ArchiveStored ==
    ASSUME TypeOK, ReadArchive, EarlyInv, ArchiveComplete', op.obj \in Archive, answer.kind = op.obj,
           pc' = "connected", content' \in Chunks(op.obj, result'.parts[1].num + 1),
           reading' = ArchiveReading(Gathered(result'.parts, content'))
    PROVE  ArchiveFor(op.obj, range, content', reading')
<1>1. inbox # <<>> /\ inbox \in Seq(Answer) /\ parts \in Seq(Answer) /\ pc = "archiveRead"
  BY DEF TypeOK, ReadArchive, ArchiveAnswer, Read
<1>2. answer \in Answer
  BY <1>1, HeadTailProperties DEF answer
<1>3. result' = [op |-> op, parts |-> Append(parts, answer)]
  <2>1. answer.kind = op.obj /\ pc' # pc
    BY <1>1
  <2> QED
    BY <2>1 DEF ReadArchive, ArchiveAnswer
<1>4. PICK ps : ps = Append(parts, answer)
  OBVIOUS
<1>5. PICK c : c = content'
  OBVIOUS
<1>6. ps \in Seq(Answer) /\ Len(ps) \in Nat \ {0} /\ result'.parts = ps /\ result'.op.obj = op.obj
  BY <1>1, <1>2, <1>3, <1>4, AppendProperties, LenProperties
<1>7. \A i \in 1 .. Len(ps) : ps[i].num = Len(ps) - i
  <2>1. ~leftover'
    BY <1>1 DEF EarlyInv, ReadArchive, ArchiveAnswer, sessionVars
  <2> QED
    BY <1>6, <2>1 DEF ArchiveComplete
<1>8. Len(ps) \in 1 .. MaxFragments /\ ps[1].num + 1 = Len(ps)
  <2> DEFINE n == Len(ps)
             m == ps[1].num
  <2>1. 1 \in 1 .. n /\ n \in Nat
    BY <1>6
  <2>2. ps[1] \in Answer
    BY <1>6, <2>1, ElementOfSeq
  <2>3. m \in 0 .. MaxFragments - 1 /\ m = n - 1
    BY <1>7, <2>1, <2>2 DEF Answer
  <2>4. MaxFragments \in Nat
    BY BoundsAssumption
  <2> HIDE DEF n, m
  <2>5. n \in 1 .. MaxFragments /\ m + 1 = n
    BY <2>1, <2>3, <2>4
  <2> QED
    BY <2>5 DEF n, m
<1>9. c \in Chunks(op.obj, Len(ps))
  BY <1>5, <1>6, <1>8
<1>10. c \in Seq(Seq(Entry)) /\ Len(c) = Len(ps)
  <2>1. PICK obj \in Archive : obj = op.obj
    OBVIOUS
  <2> QED
    BY <1>8, <1>9, <2>1, ChunksAreInOrder
<1>11. Gathered(ps, c) = FoldLeft(TakePacket, NothingTaken, c).entries
  BY <1>6, <1>7, <1>10, GatheredInOrder
<1>12. ArchiveFor(op.obj, range, c, ArchiveReading(Gathered(ps, c)))
  BY <1>8, <1>9, <1>11, ArchiveIsRead
<1>13. reading' = ArchiveReading(Gathered(ps, c))
  BY <1>5, <1>6
<1> QED
  BY <1>5, <1>12, <1>13

\* What is stored of an archive stays what is promised until the next request.
LEMMA ArchiveInvariant == ASSUME TimelyPlant PROVE ReadSpec => []ArchiveInv
<1>1. ReadInit => ArchiveInv
  BY DEF ReadInit, ArchiveInv
<1>2. /\ TypeOK /\ EarlyInv /\ ArchiveComplete' /\ RequestInv /\ ArchiveInv
      /\ [ReadNext]_readVars
      => ArchiveInv'
  <2> SUFFICES ASSUME TypeOK, EarlyInv, ArchiveComplete', RequestInv, ArchiveInv,
                      [ReadNext]_readVars
               PROVE  ArchiveInv'
    OBVIOUS
  <2>1. CASE SessionStep
    <3>1. op' = op /\ range' = range /\ reading' = reading /\ content' = content
      BY <2>1, OtherSteps
    <3> QED
      BY <3>1 DEF ArchiveInv
  <2>2. CASE ReadRecords
    <3>1. op' = op /\ op.obj \in Records \cup {Status}
      BY <2>2, RecordsAreStored DEF RequestInv
    <3>2. op'.obj \notin Archive
      BY <3>1, ObjectsAssumption
    <3> QED
      BY <3>2 DEF ArchiveInv
  <2>3. CASE ReadArchive
    <3>1. op' = op /\ range' = range /\ op.obj \in Archive
      BY <2>3, ArchivesAreStored DEF RequestInv
    <3>2. CASE /\ pc' = "connected" /\ answer.kind = op.obj
               /\ content' \in Chunks(op.obj, result'.parts[1].num + 1)
               /\ reading' = ArchiveReading(Gathered(result'.parts, content'))
      <4>1. ArchiveFor(op.obj, range, content', reading')
        BY <2>3, <3>1, <3>2, ArchiveStored
      <4> QED
        BY <3>1, <4>1 DEF ArchiveInv
    <3>3. CASE UNCHANGED <<content, reading>>
      BY <3>1, <3>3 DEF ArchiveInv
    <3> QED
      BY <2>3, <3>2, <3>3, ArchivesAreStored
  <2>4. ASSUME NEW id \in Serial, NEW obj \in Object, ReadRequest(id, obj)
        PROVE  ArchiveInv'
    BY <2>4, RequestStarts DEF ArchiveInv
  <2>5. CASE UNCHANGED readVars
    BY <2>5 DEF ArchiveInv, readVars, vars
  <2> QED
    BY <2>1, <2>2, <2>3, <2>4, <2>5 DEF ReadNext
<1>3. ReadSpec => []ArchiveComplete
  BY ReadingIsSession, ArchivesAreComplete, PTL
<1> QED
  BY <1>1, <1>2, <1>3, ReadTypes, EarlyArchives, RequestInvariant, PTL DEF ReadSpec

\* What was sent, entry by entry.
LEMMA SentEntries ==
    ASSUME ArchiveFor(op.obj, range, content, reading)
    PROVE  /\ \A e \in AllOf(content) : \E i \in 1 .. Len(Sent) : Sent[i] = e
           /\ \A i \in 1 .. Len(Sent) : Sent[i] \in AllOf(content)
<1>1. PICK c : c = content
  OBVIOUS
<1>2. c \in Seq(Seq(Entry)) /\ Len(c) # 0
  BY <1>1 DEF ArchiveFor
<1>3. Elems(FlattenSeq(c)) = AllOf(c)
  BY <1>2, SentIsAll
<1>4. Sent = FlattenSeq(c)
  BY <1>1 DEF Sent
<1> QED
  BY <1>1, <1>3, <1>4 DEF Elems

\* Every yield is the difference of two totals a day apart, however the totals
\* are cut into packets, limited to a range, missing or cut off.
THEOREM DailyYields == ASSUME TimelyPlant PROVE ReadSpec => []YieldsAreDaily
<1>1. TypeOK /\ ArchiveInv => YieldsAreDaily
  <2> SUFFICES ASSUME TypeOK, ArchiveInv, Answered("day"), NEW k \in 1 .. Len(reading.values)
               PROVE  \E i, j \in 1 .. Len(Sent) :
                          /\ Sent[i].value # Invalid /\ Sent[j].value # Invalid
                          /\ Sent[j].time = Sent[i].time + DAY
                          /\ Sent[j].time = reading.values[k].time
                          /\ Sent[j].value - Sent[i].value = reading.values[k].value
    BY DEF YieldsAreDaily
  <2>0. op.obj = "day" /\ op.obj \in Archive
    <3>1. op.obj = "day" /\ op \in Op \cup {NoOp}
      BY DEF Answered, TypeOK
    <3>2. op.obj \in Records \cup {Status} \cup Archive
      BY <3>1 DEF Op, NoOp, Object
    <3> QED
      BY <3>1, <3>2, ObjectsAssumption
  <2>1. ArchiveFor(op.obj, range, content, reading)
    BY <2>0 DEF ArchiveInv, Answered
  <2>2. PICK e \in AllOf(content), f \in AllOf(content) :
            /\ e.value # Invalid /\ f.value # Invalid
            /\ f.time = e.time + DAY /\ f.time = reading.values[k].time
            /\ f.value - e.value = reading.values[k].value
    BY <2>1 DEF ArchiveFor, DailyFor, Answered
  <2>3. PICK i \in 1 .. Len(Sent), j \in 1 .. Len(Sent) : Sent[i] = e /\ Sent[j] = f
    BY <2>1, SentEntries
  <2> QED
    BY <2>2, <2>3
<1> QED
  BY <1>1, ArchiveInvariant, ReadTypes, PTL

\* Nothing of an archive is lost as long as no packet is longer than one before
\* it, whatever its length and whatever range is asked for.
THEOREM WholeArchives == ASSUME TimelyPlant PROVE ReadSpec => []ArchiveIsWhole
<1>1. ArchiveInv => ArchiveIsWhole
  <2> SUFFICES ASSUME ArchiveInv, reading # NoReading, op.obj \in Archive, NoPacketGrows,
                      NEW j \in 1 .. Len(Sent), Wanted(Sent[j]),
                      op.obj = "day" =>
                          \E i \in 1 .. Len(Sent) :
                              Wanted(Sent[i]) /\ Sent[j].time = Sent[i].time + DAY
               PROVE  \E k \in 1 .. Len(reading.values) : reading.values[k].time = Sent[j].time
    BY DEF ArchiveIsWhole
  <2>1. ArchiveFor(op.obj, range, content, reading)
    BY DEF ArchiveInv
  <2>2. NoneGrows(content)
    BY DEF NoPacketGrows, NoneGrows
  <2>3. \A i \in 1 .. Len(Sent) : Sent[i] \in AllOf(content)
    BY <2>1, SentEntries
  <2>4. \A e : Wanted(e) <=> WantedIn(op.obj, range, e)
    BY DEF Wanted, WantedIn
  <2>5. op.obj = "day" => \E e \in AllOf(content) :
                              WantedIn(op.obj, range, e) /\ Sent[j].time = e.time + DAY
    BY <2>3, <2>4
  <2> QED
    BY <2>1, <2>2, <2>3, <2>4, <2>5 DEF ArchiveFor, WholeFor
<1> QED
  BY <1>1, ArchiveInvariant, PTL

\* However an archive is cut into packets, it comes back in the order of time, no
\* entry twice and none outside of the range asked for.
THEOREM OrderedArchives == ASSUME TimelyPlant PROVE ReadSpec => []ArchiveInOrder
<1>1. ArchiveInv => ArchiveInOrder
  <2> SUFFICES ASSUME ArchiveInv, reading # NoReading, op.obj \in Archive
               PROVE  /\ \A k \in 1 .. Len(reading.values) :
                            /\ range[1] <= reading.values[k].time
                            /\ reading.values[k].time <= range[2]
                      /\ \A k \in 2 .. Len(reading.values) :
                            reading.values[k - 1].time < reading.values[k].time
    BY DEF ArchiveInOrder
  <2>1. InRange(range, reading.values) /\ Sorted(reading.values)
    BY DEF ArchiveInv, ArchiveFor
  <2> DEFINE values == reading.values
             n == Len(values)
  <2>2. ASSUME NEW k \in 2 .. n PROVE values[k - 1].time < values[k].time
    <3> HIDE DEF values
    <3>1. n \in Nat => k - 1 \in 1 .. n /\ k \in 1 .. n /\ k - 1 < k
      OBVIOUS
    <3> QED
      BY <2>1, <3>1 DEF Sorted, values
  <2> QED
    BY <2>1, <2>2 DEF InRange
<1> QED
  BY <1>1, ArchiveInvariant, PTL
================================================================================
