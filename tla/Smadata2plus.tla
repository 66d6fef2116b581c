---------------------------- MODULE Smadata2plus ----------------------------
(***************************************************************************)
(* The session of pvlib with the inverters of a plant                      *)
(* (src/src/smadata2plus.cpp): logout, discovery, authentication and time  *)
(* synchronisation of connect(), then the requests of the application,     *)
(* each with its retries and its transaction.                              *)
(*                                                                         *)
(* The link below is the mailbox of FrameWindow: answers wait in `inbox`,  *)
(* a full mailbox drops the oldest, and a read finds an answer or fails.   *)
(* Of Smabluetooth it keeps whether a connect() would find its state reset *)
(* and its thread joinable.  The inverters are external: each answers its  *)
(* requests in order, at any time.  With Timely they answer before a read  *)
(* gives up, their frames are valid and every write goes out; without it   *)
(* answers come late, damaged or never.  Several inverters may answer a    *)
(* query to all of which the code reads one answer; the others are left    *)
(* over for the requests that follow.  The password is not empty.          *)
(***************************************************************************)
EXTENDS Integers, Sequences, FiniteSets

CONSTANTS
    Serial,             \* the inverters
    Records,            \* objects read with readRecords() from one inverter
    Status,             \* the object readStatus() asks all inverters for
    Archive,            \* objects read with requestArchiveData()
    NUM_RETRIES,
    CNTR_START,         \* TRANSACTION_CNTR_START, 0x8000
    CNTR_MAX,           \* 0xffff
    DeviceNums,         \* what Smabluetooth::getDeviceNum() may return
    Timely,             \* the inverters answer in time
    MailboxSize,        \* MAX_PACKETS_SIZE of the link
    MaxOwed,            \* bound: answers an inverter has still to send
    MaxFragments,       \* bound: packets of one archive answer
    MaxSessions,        \* bound: calls of connect() that get a link
    RequestsGoOn        \* bound: requests after an answer was left over

ASSUME CounterAssumption ==
    CNTR_START \in Nat \ {0} /\ CNTR_MAX \in Nat /\ CNTR_START < CNTR_MAX
ASSUME RetriesAssumption == NUM_RETRIES \in Nat
ASSUME NumsAssumption == DeviceNums \subseteq Int
ASSUME BoundsAssumption ==
    /\ MailboxSize \in Nat \ {0} /\ MaxOwed \in Nat /\ MaxSessions \in Nat
    /\ MaxFragments \in Nat \ {0}
ASSUME TimelyAssumption == Timely \in BOOLEAN /\ RequestsGoOn \in BOOLEAN
ASSUME ObjectAssumption ==
    (Records \cup {Status} \cup Archive) \cap {"discover", "auth", "time"} = {}

VARIABLES
    pc,                 \* what the application thread does in this class
    cnt,                \* retries of the current request
    deviceNum,          \* number of devices discoverDevices() waits for
    got,                \* answers read by the current attempt
    devices,            \* the vector of known inverters
    transaction_active,
    transaction_cntr,
    tag,                \* counter the last transaction was sent with
    op,                 \* the request of the application
    parts,              \* packets gathered by the current archive attempt
    result,             \* what the last request returned: its answers
    sessions,           \* calls of connect() that got a link
    link,               \* of Smabluetooth: "new", "up", or "joined" and not reset
    leftover,           \* history: several answered a query for one answer
    owed,               \* per inverter, the answers it will send
    inbox               \* answers that wait in the mailbox of the link

transactionVars == <<transaction_active, transaction_cntr, tag>>
requestVars == <<op, parts, result>>
networkVars == <<owed, inbox>>
sessionVars == <<deviceNum, devices, sessions, link, leftover>>
vars == <<pc, cnt, deviceNum, got, devices, transaction_active, transaction_cntr, tag,
          op, parts, result, sessions, link, leftover, owed, inbox>>

Object == Records \cup {Status} \cup Archive
Kind == {"discover", "auth", "time"} \cup Object
Answer == [src : Serial, kind : Kind, num : 0 .. MaxFragments - 1]
Device == [serial : Serial, authenticated : BOOLEAN]
Op == [id : Serial, obj : Object]
NoOp == [id |-> "none", obj |-> "none"]
NoResult == [op |-> NoOp, parts |-> <<>>]

\* Where a Transaction begins.
BeginPc == {"logout", "discover", "auth", "sync", "syncSet", "syncAdjust", "archive"}
ReadPc == {"discoverRead", "authRead", "syncRead", "recordRead", "archiveRead"}
Pc == BeginPc \cup ReadPc \cup {"idle", "syncAck", "connected", "records", "crashed", "aborted"}

Init ==
    /\ pc = "idle" /\ cnt = 0
    /\ deviceNum = 0 /\ got = 0
    /\ devices = <<>>
    /\ transaction_active = FALSE
    /\ transaction_cntr = CNTR_START
    /\ tag = 0
    /\ op = NoOp /\ parts = <<>> /\ result = NoResult
    /\ sessions = 0 /\ link = "new" /\ leftover = FALSE
    /\ owed = [s \in Serial |-> <<>>]
    /\ inbox = <<>>

-----------------------------------------------------------------------------
(* The network: external.                                                  *)

\* Each inverter of `to` owes the answers what[s] to the request just sent.
Asked(to, what) ==
    owed' = [s \in Serial |->
                IF s \in to /\ Len(owed[s]) + Len(what[s]) <= MaxOwed
                  THEN owed[s] \o what[s]
                  ELSE owed[s]]

\* n packets of an answer, numbered down to 0.
Packets(kind, n) ==
    [s \in Serial |-> [i \in 1 .. n |-> [src |-> s, kind |-> kind, num |-> n - i]]]

\* Who answers a query to all of which the code reads one answer.  A query for
\* the status is sent by the requestChannel() that discovery uses, which every
\* inverter answers.
Answering(kind) == {S \in SUBSET Serial : S # {} /\ (Timely /\ kind = Status => S = Serial)}

\* Such a query.
AskAll(kind) ==
    \E S \in Answering(kind) :
        /\ Asked(S, Packets(kind, 1))
        /\ leftover' = (leftover \/ Cardinality(S) > 1)

Arrive(s) ==
    /\ owed[s] # <<>>
    /\ owed' = [owed EXCEPT ![s] = Tail(@)]
    /\ inbox' = Append(IF Len(inbox) >= MailboxSize THEN Tail(inbox) ELSE inbox,
                       Head(owed[s]))
    /\ UNCHANGED <<pc, cnt, got, sessionVars, transactionVars, requestVars>>

Lose(s) ==
    /\ ~Timely
    /\ owed[s] # <<>>
    /\ owed' = [owed EXCEPT ![s] = Tail(@)]
    /\ UNCHANGED <<pc, cnt, got, sessionVars, transactionVars, requestVars, inbox>>

-----------------------------------------------------------------------------
(* Transactions and retries.                                               *)

\* Mutant: the counter sticks at its end.
inc_transaction_cntr_Stuck(c) == IF c < CNTR_START THEN CNTR_START ELSE IF c = CNTR_MAX THEN c ELSE c + 1

inc_transaction_cntr(c) == IF c < CNTR_START \/ c = CNTR_MAX THEN CNTR_START ELSE c + 1

\* Transaction t(this), and t.begin().
Begin ==
    /\ transaction_active' = TRUE
    /\ tag' = transaction_cntr
    /\ UNCHANGED transaction_cntr

End ==
    /\ transaction_active' = FALSE
    /\ transaction_cntr' = inc_transaction_cntr(transaction_cntr)
    /\ UNCHANGED tag

\* A transaction of a single write, or one whose write fails.
BeginEnd ==
    /\ transaction_active' = FALSE
    /\ tag' = transaction_cntr
    /\ transaction_cntr' = inc_transaction_cntr(transaction_cntr)

\* Mutant: a failed attempt leaves its transaction open.
LeaveScope_Open == UNCHANGED transactionVars

\* ~Transaction(), on every way out of its scope.
LeaveScope == IF transaction_active THEN End ELSE UNCHANGED transactionVars

\* Mutant: one retry more.
Failed_OneMore(again, giveUp) ==
    IF cnt > NUM_RETRIES + 1
      THEN pc' = giveUp /\ cnt' = 0
      ELSE pc' = again /\ cnt' = cnt + 1

\* Mutant: the retries are not counted.
Failed_Forever(again, giveUp) ==
    IF cnt > NUM_RETRIES
      THEN pc' = giveUp /\ cnt' = 0
      ELSE pc' = again /\ UNCHANGED cnt

\* The attempt failed: the loop sleeps and tries again, or gives up.
Failed(again, giveUp) ==
    IF cnt > NUM_RETRIES
      THEN pc' = giveUp /\ cnt' = 0
      ELSE pc' = again /\ cnt' = cnt + 1

Passed(next) == pc' = next /\ cnt' = 0

WriteFails == ~Timely

\* Where the attempt that reads at a pc starts again, and where it gives up.
AttemptOf(at) ==
    CASE at = "discoverRead" -> "discover"
      [] at = "authRead" -> "auth"
      [] at = "syncRead" -> "sync"
      [] at = "recordRead" -> "records"
      [] at = "archiveRead" -> "archive"

GiveUpOf(at) == IF at \in {"recordRead", "archiveRead"} THEN "connected" ELSE "idle"

ReadFailed == LeaveScope /\ Failed(AttemptOf(pc), GiveUpOf(pc))

\* The answer read() returns, taken out of the mailbox.
Read == inbox # <<>> /\ inbox' = Tail(inbox) /\ UNCHANGED owed
answer == Head(inbox)

\* A read without an answer.  In time that is one nobody owes an answer to;
\* else it also fails while an answer waits, which stays there (the link is in
\* error, the wait ended as it came) or is spoilt (a damaged frame, an answer
\* whose length, header or records are refused).
ReadFails ==
    /\ pc \in ReadPc
    /\ pc = "discoverRead" => got < deviceNum
    /\ pc = "authRead" => got < Len(devices)
    /\ Timely => inbox = <<>> /\ \A s \in Serial : owed[s] = <<>>
    /\ UNCHANGED networkVars \/ (~Timely /\ Read)
    /\ ReadFailed
    /\ got' = 0 /\ parts' = <<>>
    /\ UNCHANGED <<sessionVars, op, result>>

-----------------------------------------------------------------------------
(* connect().                                                              *)

\* Smabluetooth::connect(), whose disconnect() does nothing: it gets a link, or
\* everything is as it was.  The devices of an earlier session and the frames
\* in the mailbox stay.
Connect ==
    /\ pc = "idle" /\ link = "new"
    /\ sessions < MaxSessions
    /\ sessions' = sessions + 1 /\ link' = "up"
    /\ deviceNum' \in DeviceNums
    /\ Passed("logout")
    /\ UNCHANGED <<got, devices, leftover, transactionVars, requestVars, networkVars>>

\* connect() where the state of the link is that of an earlier connection: its
\* disconnect() joins the thread, if it still can, and the wait for a new list
\* of devices times out, which resets the state.
Reconnect ==
    /\ pc \in {"idle", "connected"}
    /\ \/ link = "up" /\ link' = "new" /\ Passed("idle")
       \/ link = "joined" /\ UNCHANGED link /\ Passed("aborted")
    /\ UNCHANGED <<got, deviceNum, devices, sessions, leftover, transactionVars, requestVars,
                   networkVars>>

\* logout() is not retried and gets no answer.
logout ==
    /\ pc = "logout"
    /\ BeginEnd
    /\ Passed("discover") \/ (WriteFails /\ Passed("idle"))
    /\ UNCHANGED <<got, sessionVars, requestVars, networkVars>>

discoverDevices ==
    /\ pc = "discover"
    /\ \/ /\ Begin
          /\ Asked(Serial, Packets("discover", 1))
          /\ pc' = "discoverRead" /\ UNCHANGED cnt
       \/ WriteFails /\ BeginEnd /\ Failed("discover", "idle") /\ UNCHANGED owed
    /\ UNCHANGED <<got, sessionVars, requestVars, inbox>>

\* Whatever comes is a device; none is looked for in the list first.
addDevice ==
    /\ pc = "discoverRead"
    /\ got < deviceNum
    /\ Read
    /\ devices' = Append(devices, [serial |-> answer.src, authenticated |-> FALSE])
    /\ got' = got + 1
    /\ UNCHANGED <<pc, cnt, deviceNum, sessions, link, leftover, transactionVars, requestVars>>

\* Mutant: discovery ends one device early.
Discovered_Early ==
    /\ pc = "discoverRead"
    /\ got + 1 >= deviceNum
    /\ LeaveScope
    /\ Passed("auth")
    /\ got' = 0
    /\ UNCHANGED <<sessionVars, requestVars, networkVars>>

Discovered ==
    /\ pc = "discoverRead"
    /\ got >= deviceNum
    /\ LeaveScope
    /\ Passed("auth")
    /\ got' = 0
    /\ UNCHANGED <<sessionVars, requestVars, networkVars>>

sendPassword ==
    /\ pc = "auth"
    /\ \/ /\ Begin
          /\ Asked(Serial, Packets("auth", 1))
          /\ pc' = "authRead" /\ UNCHANGED cnt
       \/ WriteFails /\ BeginEnd /\ Failed("auth", "idle") /\ UNCHANGED owed
    /\ UNCHANGED <<got, sessionVars, requestVars, inbox>>

\* Mutant: the last entry is not looked at.
getDevice_NotLast(serial) ==
    LET found == {i \in 1 .. Len(devices) - 1 : devices[i].serial = serial}
    IN  IF found = {} THEN 0 ELSE CHOOSE i \in found : \A j \in found : i <= j

\* getDevice(): the first entry of the list with this serial, 0 if there is none.
getDevice(serial) ==
    LET found == {i \in 1 .. Len(devices) : devices[i].serial = serial}
    IN  IF found = {} THEN 0 ELSE CHOOSE i \in found : \A j \in found : i <= j

\* One answer of authenticate(): neither its kind nor the password in it is
\* acted on, and an unknown serial dereferences a null pointer.
AuthAnswer ==
    /\ pc = "authRead"
    /\ got < Len(devices)
    /\ Read
    /\ IF getDevice(answer.src) = 0
         THEN pc' = "crashed" /\ UNCHANGED <<devices, got>>
         ELSE /\ devices' = [devices EXCEPT ![getDevice(answer.src)].authenticated = TRUE]
              /\ got' = got + 1
              /\ UNCHANGED pc
    /\ UNCHANGED <<cnt, deviceNum, sessions, link, leftover, transactionVars, requestVars>>

\* Mutant: one answer more than there are devices is waited for.
Authenticated_OneMore ==
    /\ pc = "authRead"
    /\ got > Len(devices)
    /\ LeaveScope
    /\ Passed("sync")
    /\ got' = 0
    /\ UNCHANGED <<sessionVars, requestVars, networkVars>>

\* The end of authenticate(); a single device gets ackAuth().
Authenticated ==
    /\ pc = "authRead"
    /\ got >= Len(devices)
    /\ LeaveScope
    /\ \/ Passed("sync")
       \/ Len(devices) = 1 /\ WriteFails /\ Failed("auth", "idle")
    /\ got' = 0
    /\ UNCHANGED <<sessionVars, requestVars, networkVars>>

\* Mutant: the transaction of the query is not ended.
SyncQuery_NoEnd ==
    /\ pc = "sync"
    /\ Begin
    /\ AskAll("time")
    /\ pc' = "syncRead" /\ UNCHANGED cnt
    /\ UNCHANGED <<got, deviceNum, devices, sessions, link, requestVars, inbox>>

\* syncTime(): the query for the time, whose transaction ends before the read.
SyncQuery ==
    /\ pc = "sync"
    /\ BeginEnd
    /\ \/ AskAll("time") /\ pc' = "syncRead" /\ UNCHANGED cnt
       \/ WriteFails /\ Failed("sync", "idle") /\ UNCHANGED <<owed, leftover>>
    /\ UNCHANGED <<got, deviceNum, devices, sessions, link, requestVars, inbox>>

\* Only the length of the answer is tested: that of another kind may do.
SyncAnswer ==
    /\ pc = "syncRead"
    /\ Read
    /\ \/ pc' = "syncAck" /\ UNCHANGED <<cnt, transactionVars>>
       \/ answer.kind # "time" /\ ReadFailed
    /\ UNCHANGED <<got, sessionVars, requestVars>>

\* The acknowledgement to devices[0], which an empty list does not have.
SyncAck ==
    /\ pc = "syncAck"
    /\ IF devices = <<>>
         THEN pc' = "crashed" /\ UNCHANGED cnt
         ELSE \/ pc' = "syncSet" /\ UNCHANGED cnt
              \/ WriteFails /\ Failed("sync", "idle")
    /\ UNCHANGED <<got, sessionVars, transactionVars, requestVars, networkVars>>

\* The time is set as it was; a small deviation asks for one more message.
SyncSet ==
    /\ pc = "syncSet"
    /\ BeginEnd
    /\ \/ pc' = "syncAdjust" /\ UNCHANGED cnt
       \/ Passed("connected")
       \/ WriteFails /\ Failed("sync", "idle")
    /\ UNCHANGED <<got, sessionVars, requestVars, networkVars>>

SyncAdjust ==
    /\ pc = "syncAdjust"
    /\ BeginEnd
    /\ Passed("connected") \/ (WriteFails /\ Failed("sync", "idle"))
    /\ UNCHANGED <<got, sessionVars, requestVars, networkVars>>

\* Smabluetooth::disconnect() joins the thread and leaves the state as it is:
\* another one would join it again, which throws.
disconnect ==
    /\ pc \in {"idle", "connected"} /\ link # "new"
    /\ link' = "joined"
    /\ Passed(IF link = "up" THEN "idle" ELSE "aborted")
    /\ UNCHANGED <<got, deviceNum, devices, sessions, leftover, transactionVars, requestVars,
                   networkVars>>

-----------------------------------------------------------------------------
(* Requests of the application.                                            *)

\* readAc, readDc, readStats, readInverterInfo, readStatus, or readDayYield
\* and readEvents.
Request(id, obj) ==
    /\ pc = "connected"
    /\ leftover => RequestsGoOn
    /\ op' = [id |-> id, obj |-> obj]
    /\ result' = NoResult
    /\ Passed(IF obj \in Archive THEN "archive" ELSE "records")
    /\ UNCHANGED <<got, sessionVars, transactionVars, parts, networkVars>>

\* findDevice(): a request to an inverter that is not in the list is not sent.
Known(id) == \E i \in 1 .. Len(devices) : devices[i].serial = id

\* Mutant: every request goes to all inverters.
requestChannel_All ==
    /\ pc = "records"
    /\ Asked(Serial, Packets(op.obj, 1))
    /\ pc' = "recordRead" /\ UNCHANGED cnt
    /\ UNCHANGED <<got, sessionVars, transactionVars, requestVars, inbox>>

\* requestChannel() of readRecords(), outside of any transaction.  The request
\* for the status goes to all inverters, whatever the id.
requestChannel ==
    /\ pc = "records"
    /\ \/ /\ op.obj = Status
          /\ AskAll(Status)
          /\ pc' = "recordRead" /\ UNCHANGED cnt
       \/ /\ op.obj # Status /\ Known(op.id)
          /\ Asked({op.id}, Packets(op.obj, 1))
          /\ pc' = "recordRead" /\ UNCHANGED <<cnt, leftover>>
       \/ /\ WriteFails \/ (op.obj # Status /\ ~Known(op.id))
          /\ Failed("records", "connected")
          /\ UNCHANGED <<owed, leftover>>
    /\ UNCHANGED <<got, deviceNum, devices, sessions, link, transactionVars, requestVars, inbox>>

\* Of an answer only the object is compared with the request.
RecordAnswer ==
    /\ pc = "recordRead"
    /\ Read
    /\ IF answer.kind = op.obj
         THEN /\ Passed("connected")
              /\ result' = [op |-> op, parts |-> <<answer>>]
              /\ UNCHANGED transactionVars
         ELSE ReadFailed /\ UNCHANGED result
    /\ UNCHANGED <<got, sessionVars, op, parts>>

requestArchiveData ==
    /\ pc = "archive"
    /\ \/ /\ Known(op.id)
          /\ Begin
          /\ \E n \in 1 .. MaxFragments : Asked({op.id}, Packets(op.obj, n))
          /\ pc' = "archiveRead" /\ UNCHANGED cnt
       \/ /\ WriteFails \/ ~Known(op.id)
          /\ BeginEnd /\ Failed("archive", "connected")
          /\ UNCHANGED owed
    /\ UNCHANGED <<got, sessionVars, requestVars, inbox>>

\* Mutant: packet number 1 is taken for the last.
ArchiveAnswer_Short ==
    /\ pc = "archiveRead"
    /\ Read
    /\ LeaveScope /\ Passed("connected")
    /\ parts' = <<>>
    /\ result' = [op |-> op, parts |-> Append(parts, answer)]
    /\ UNCHANGED <<got, sessionVars, op>>

\* A packet of the archive: packet number 0 is the last.
ArchiveAnswer ==
    /\ pc = "archiveRead"
    /\ Read
    /\ IF answer.kind # op.obj
         THEN ReadFailed /\ parts' = <<>> /\ UNCHANGED result
         ELSE IF answer.num > 0
           THEN /\ parts' = Append(parts, answer)
                /\ UNCHANGED <<pc, cnt, transactionVars, result>>
           ELSE /\ LeaveScope /\ Passed("connected")
                /\ parts' = <<>>
                /\ result' = [op |-> op, parts |-> Append(parts, answer)]
    /\ UNCHANGED <<got, sessionVars, op>>

ConnectStep ==
    \/ logout \/ discoverDevices \/ addDevice \/ Discovered
    \/ sendPassword \/ AuthAnswer \/ Authenticated
    \/ SyncQuery \/ SyncAnswer \/ SyncAck \/ SyncSet \/ SyncAdjust

RequestStep == requestChannel \/ RecordAnswer \/ requestArchiveData \/ ArchiveAnswer

ApiCall ==
    \/ Connect \/ Reconnect \/ disconnect
    \/ \E id \in Serial, obj \in Object : Request(id, obj)

Step == ConnectStep \/ RequestStep \/ ReadFails

Next == ApiCall \/ Step \/ \E s \in Serial : Arrive(s) \/ Lose(s)

Spec == Init /\ [][Next]_vars

\* A call keeps running: writes return, reads return or time out.  An answer
\* on its way arrives, unless it is lost.
FairSpec ==
    /\ Spec
    /\ WF_vars(Step)
    /\ \A s \in Serial : WF_vars(Arrive(s) \/ Lose(s))

-----------------------------------------------------------------------------
(* Properties.                                                             *)

\* Every variable has its type; the counter keeps to its range and no attempt
\* is repeated more often than the loops allow.
TypeOK ==
    /\ pc \in Pc
    /\ cnt \in 0 .. NUM_RETRIES + 1
    /\ deviceNum \in DeviceNums \cup {0} /\ got \in Nat
    /\ devices \in Seq(Device)
    /\ transaction_active \in BOOLEAN
    /\ transaction_cntr \in CNTR_START .. CNTR_MAX
    /\ tag \in 0 .. CNTR_MAX
    /\ op \in Op \cup {NoOp}
    /\ parts \in Seq(Answer)
    /\ result.op \in Op \cup {NoOp} /\ result.parts \in Seq(Answer)
    /\ sessions \in 0 .. MaxSessions
    /\ link \in {"new", "up", "joined"} /\ leftover \in BOOLEAN
    /\ owed \in [Serial -> Seq(Answer)]
    /\ inbox \in Seq(Answer) /\ Len(inbox) <= MailboxSize

\* "assert(sma->transaction_active == false)" (smadata2plus.cpp:191, 201): on
\* every path, failed attempts and the three writes of syncTime() included, the
\* transaction before has ended when the next one begins.
TransactionsDoNotNest == pc \in BeginPc => ~transaction_active

\* Outside a read of a transaction none is left open: the application never
\* gets control back with transaction_active set.
TransactionsEnd ==
    pc \notin {"discoverRead", "authRead", "archiveRead", "crashed"} => ~transaction_active

\* A transaction is sent with another counter than the transaction before it,
\* also when the counter wraps and when the attempt before it failed.
FreshCounter == pc \in BeginPc => transaction_cntr # tag

\* A transaction is open exactly inside its reads, its counter is the one it was
\* sent with, and outside of it the counter has moved on.
TransactionInv ==
    /\ pc \in Pc
    /\ pc # "crashed" => (transaction_active <=> pc \in {"discoverRead", "authRead", "archiveRead"})
    /\ transaction_active \in BOOLEAN
    /\ transaction_cntr \in CNTR_START .. CNTR_MAX
    /\ transaction_active <=> transaction_cntr = tag

\* Every call returns (or ends the program), whatever is late or lost.
Returned == pc \in {"idle", "connected", "crashed", "aborted"}
CallsReturn == ~Returned ~> Returned

\* Past discovery every inverter is in the list once; past authentication each
\* has been marked authenticated.
PlantComplete ==
    pc \notin {"idle", "aborted", "logout", "discover", "discoverRead"} =>
        /\ Len(devices) = Cardinality(Serial)
        /\ \A s \in Serial : Known(s)
        /\ pc \notin {"auth", "authRead"} =>
              \A i \in 1 .. Len(devices) : devices[i].authenticated

\* No call dereferences a missing device.
NeverCrashes == pc # "crashed"

\* What a request for one inverter returns came from that inverter and is of
\* the object asked for, until several inverters answered a query of which the
\* code reads one answer.
AnswersAreAsked ==
    ~leftover /\ result.op.obj # Status =>
        \A i \in 1 .. Len(result.parts) :
            /\ result.parts[i].src = result.op.id
            /\ result.parts[i].kind = result.op.obj

\* "string inverterr id" (pvlib.h:341): the values a request for one inverter
\* returns are those of that inverter, whatever was asked before.
AnswersOfInverter ==
    result.op.obj # Status =>
        \A i \in 1 .. Len(result.parts) : result.parts[i].src = result.op.id

\* "Get status from inverter", "@param id inverter id" (pvlib.h:355, 358): the
\* status of an inverter comes from that inverter.
StatusIsOfInverter ==
    result.op.obj = Status =>
        \A i \in 1 .. Len(result.parts) : result.parts[i].src = result.op.id

\* The packets of an archive count down to 0 without gap or repeat, until
\* several inverters answered a query of which the code reads one answer.
ArchiveComplete ==
    ~leftover /\ result.op.obj \in Archive =>
        \A i \in 1 .. Len(result.parts) : result.parts[i].num = Len(result.parts) - i

\* Connecting succeeds.
ConnectSucceeds == pc = "logout" ~> pc = "connected"

\* "Find all devices in net and extract serial and mac." (smadata2plus.cpp:578),
\* "@return number of string inverter." (pvlib.h:312): no inverter is twice in
\* the list that inverterNum() counts.
NoDuplicateDevices ==
    \A i, j \in 1 .. Len(devices) : devices[i].serial = devices[j].serial => i = j
=============================================================================
