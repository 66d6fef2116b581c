------------------------- MODULE Smadata2plus_proofs -------------------------
(***************************************************************************)
(* Proofs about the transactions, the retries and the data of the session, *)
(* for every plant, every range of the counter, every number of retries    *)
(* and every network.                                                      *)
(***************************************************************************)
EXTENDS Smadata2plus, Sequence_lemmas

OpenPc == {"discoverRead", "authRead", "archiveRead"}

\* Where a call continues without a transaction.
ClosedPc == Pc \ (OpenPc \cup {"crashed"})

\* The counter always moves, and stays in its range, also where it wraps.
LEMMA CounterMoves ==
    ASSUME NEW c \in CNTR_START .. CNTR_MAX
    PROVE  /\ inc_transaction_cntr(c) \in CNTR_START .. CNTR_MAX
           /\ inc_transaction_cntr(c) # c
  BY CounterAssumption DEF inc_transaction_cntr

\* A transaction that begins where none is open leaves it open.
LEMMA BeginStep ==
    ASSUME TransactionInv, Begin, pc' \in OpenPc
    PROVE  TransactionInv'
  BY DEF TransactionInv, Begin, OpenPc, Pc, BeginPc, ReadPc

\* A transaction of a single write leaves none open.
LEMMA BeginEndStep ==
    ASSUME TransactionInv, BeginEnd, pc' \in ClosedPc
    PROVE  TransactionInv'
<1>1. /\ transaction_cntr' \in CNTR_START .. CNTR_MAX
      /\ transaction_cntr' # tag'
  BY CounterMoves DEF TransactionInv, BeginEnd
<1> QED
  BY <1>1 DEF TransactionInv, BeginEnd, ClosedPc, OpenPc

\* ~Transaction() leaves none open, whether end() was called before or not.
LEMMA LeaveScopeStep ==
    ASSUME TransactionInv, LeaveScope, pc' \in ClosedPc
    PROVE  TransactionInv'
<1>1. CASE transaction_active
  <2>1. transaction_cntr' \in CNTR_START .. CNTR_MAX /\ transaction_cntr' # tag'
    BY <1>1, CounterMoves DEF TransactionInv, LeaveScope, End
  <2> QED
    BY <1>1, <2>1 DEF TransactionInv, LeaveScope, End, ClosedPc, OpenPc
<1>2. CASE ~transaction_active
  BY <1>2 DEF TransactionInv, LeaveScope, transactionVars, ClosedPc, OpenPc
<1> QED
  BY <1>1, <1>2

\* A step that leaves the transaction alone keeps inside or outside of it.
LEMMA OtherStep ==
    ASSUME TransactionInv, UNCHANGED transactionVars,
           \/ pc' = pc
           \/ pc' = "crashed"
           \/ pc \in ClosedPc /\ pc' \in ClosedPc
    PROVE  TransactionInv'
  BY DEF TransactionInv, transactionVars, ClosedPc, OpenPc, Pc

\* A failed read starts its attempt again or gives up, outside of a transaction.
LEMMA ReadFailedStep ==
    ASSUME TransactionInv, ReadFailed, pc \in ReadPc
    PROVE  TransactionInv'
<1>1. pc' \in ClosedPc
  BY DEF ReadFailed, Failed, AttemptOf, GiveUpOf, ReadPc, ClosedPc, OpenPc, Pc, BeginPc
<1> QED
  BY <1>1, LeaveScopeStep DEF ReadFailed

\* The transaction invariant is preserved by every step of the session.
LEMMA TransactionInvariant == Spec => []TransactionInv
<1>1. Init => TransactionInv
  <2> SUFFICES ASSUME Init PROVE TransactionInv
    OBVIOUS
  <2>1. transaction_cntr \in CNTR_START .. CNTR_MAX /\ transaction_cntr # tag
    BY CounterAssumption DEF Init
  <2>2. transaction_active = FALSE /\ pc = "idle"
    BY DEF Init
  <2>3. pc \in Pc /\ pc \notin {"discoverRead", "authRead", "archiveRead"}
    BY <2>2 DEF Pc
  <2> QED
    BY <2>1, <2>2, <2>3 DEF TransactionInv
<1>2. TransactionInv /\ [Next]_vars => TransactionInv'
  <2> SUFFICES ASSUME TransactionInv, [Next]_vars PROVE TransactionInv'
    OBVIOUS
  <2> USE DEF Passed, Failed, ClosedPc, OpenPc, Pc, BeginPc, ReadPc
  <2>1. CASE Connect
    BY <2>1, OtherStep DEF Connect
  <2>2. CASE disconnect \/ Reconnect
    BY <2>2, OtherStep DEF disconnect, Reconnect
  <2>3. CASE \E id \in Serial, obj \in Object : Request(id, obj)
    BY <2>3, OtherStep DEF Request
  <2>4. CASE logout
    BY <2>4, BeginEndStep DEF logout
  <2>5. CASE discoverDevices
    BY <2>5, BeginStep, BeginEndStep DEF discoverDevices
  <2>6. CASE addDevice
    BY <2>6, OtherStep DEF addDevice
  <2>7. CASE Discovered
    BY <2>7, LeaveScopeStep DEF Discovered
  <2>8. CASE sendPassword
    BY <2>8, BeginStep, BeginEndStep DEF sendPassword
  <2>9. CASE AuthAnswer
    BY <2>9, OtherStep DEF AuthAnswer
  <2>10. CASE Authenticated
    BY <2>10, LeaveScopeStep DEF Authenticated
  <2>11. CASE SyncQuery
    BY <2>11, BeginEndStep DEF SyncQuery
  <2>12. CASE SyncAnswer
    BY <2>12, OtherStep, ReadFailedStep DEF SyncAnswer
  <2>13. CASE SyncAck
    BY <2>13, OtherStep DEF SyncAck
  <2>14. CASE SyncSet
    BY <2>14, BeginEndStep DEF SyncSet
  <2>15. CASE SyncAdjust
    BY <2>15, BeginEndStep DEF SyncAdjust
  <2>16. CASE requestChannel
    BY <2>16, OtherStep DEF requestChannel
  <2>17. CASE RecordAnswer
    BY <2>17, OtherStep, ReadFailedStep DEF RecordAnswer
  <2>18. CASE requestArchiveData
    BY <2>18, BeginStep, BeginEndStep DEF requestArchiveData
  <2>19. CASE ArchiveAnswer
    BY <2>19, OtherStep, LeaveScopeStep, ReadFailedStep DEF ArchiveAnswer
  <2>20. CASE ReadFails
    BY <2>20, ReadFailedStep DEF ReadFails
  <2>21. CASE \E s \in Serial : Arrive(s) \/ Lose(s)
    BY <2>21, OtherStep DEF Arrive, Lose
  <2>22. CASE UNCHANGED vars
    BY <2>22, OtherStep DEF vars, transactionVars
  <2> QED
    BY <2>1, <2>2, <2>3, <2>4, <2>5, <2>6, <2>7, <2>8, <2>9, <2>10, <2>11, <2>12,
       <2>13, <2>14, <2>15, <2>16, <2>17, <2>18, <2>19, <2>20, <2>21, <2>22
    DEF Next, ApiCall, Step, ConnectStep, RequestStep
<1> QED
  BY <1>1, <1>2, PTL DEF Spec

\* The assertion of Transaction() and begin() never fails.
THEOREM NoNesting == Spec => []TransactionsDoNotNest
<1>1. TransactionInv => TransactionsDoNotNest
  BY DEF TransactionInv, TransactionsDoNotNest, BeginPc
<1> QED
  BY <1>1, TransactionInvariant, PTL

\* On every way back to the application the transaction has ended.
THEOREM AllEnd == Spec => []TransactionsEnd
<1>1. TransactionInv => TransactionsEnd
  BY DEF TransactionInv, TransactionsEnd
<1> QED
  BY <1>1, TransactionInvariant, PTL

\* Two transactions in a row never share a counter, also across the wrap.
THEOREM CountersDiffer == Spec => []FreshCounter
<1>1. TransactionInv => FreshCounter
  BY DEF TransactionInv, FreshCounter, BeginPc
<1> QED
  BY <1>1, TransactionInvariant, PTL

-----------------------------------------------------------------------------
(* Types.                                                                  *)

\* While a request runs it is known what was asked for.
RequestPc == {"records", "recordRead", "archive", "archiveRead"}
TypeInv ==
    /\ TypeOK
    /\ pc \in RequestPc => op \in Op

\* getDevice() finds an entry of the list, that of the serial, or 0.
LEMMA DeviceFound ==
    ASSUME devices \in Seq(Device), NEW serial
    PROVE  \/ getDevice(serial) = 0
           \/ /\ getDevice(serial) \in 1 .. Len(devices)
              /\ devices[getDevice(serial)].serial = serial
<1> DEFINE found == {i \in 1 .. Len(devices) : devices[i].serial = serial}
<1>1. found \in SUBSET Nat
  BY LenProperties
<1>2. CASE found = {}
  BY <1>2 DEF getDevice
<1>3. CASE found # {}
  <2>1. \E i \in found : \A j \in found : i <= j
    <3> HIDE DEF found
    <3> QED
      BY <1>1, <1>3, LeastNumber
  <2>2. getDevice(serial) = CHOOSE i \in found : \A j \in found : i <= j
    BY <1>3 DEF getDevice
  <2>3. getDevice(serial) \in found
    <3> HIDE DEF found
    <3> QED
      BY <2>1, <2>2
  <2> QED
    BY <2>3
<1> QED
  BY <1>2, <1>3

\* What read() takes out of the mailbox is an answer.
LEMMA ReadType ==
    ASSUME TypeOK, Read
    PROVE  /\ answer \in Answer
           /\ inbox' \in Seq(Answer) /\ Len(inbox') <= MailboxSize
           /\ UNCHANGED owed
<1>1. inbox \in Seq(Answer) /\ inbox # <<>> /\ Len(inbox) <= MailboxSize
  BY DEF TypeOK, Read
<1>2. /\ Head(inbox) \in Answer /\ Tail(inbox) \in Seq(Answer)
      /\ Len(Tail(inbox)) = Len(inbox) - 1 /\ Len(inbox) \in Nat
  BY <1>1, HeadTailProperties, LenProperties
<1>3. MailboxSize \in Nat
  BY BoundsAssumption
<1> QED
  BY <1>1, <1>2, <1>3 DEF Read, answer

\* A request makes the inverters owe answers and nothing else.
LEMMA AskedType ==
    ASSUME TypeOK, NEW to, NEW kind \in Kind, NEW n \in 1 .. MaxFragments,
           Asked(to, Packets(kind, n))
    PROVE  owed' \in [Serial -> Seq(Answer)]
<1>1. MaxFragments \in Nat
  BY BoundsAssumption
<1>2. ASSUME NEW s \in Serial PROVE Packets(kind, n)[s] \in Seq(Answer)
  <2> DEFINE e(i) == [src |-> s, kind |-> kind, num |-> n - i]
  <2>1. \A i \in 1 .. n : e(i) \in Answer
    BY <1>1 DEF Answer
  <2>2. n \in Nat
    BY <1>1
  <2> HIDE DEF e
  <2>3. [i \in 1 .. n |-> e(i)] \in Seq(Answer)
    BY <2>1, <2>2, IsASeq
  <2> QED
    BY <2>3 DEF Packets, e
<1>3. ASSUME NEW s \in Serial PROVE owed[s] \in Seq(Answer)
  BY DEF TypeOK
<1>4. ASSUME NEW s \in Serial PROVE owed[s] \o Packets(kind, n)[s] \in Seq(Answer)
  BY <1>2, <1>3, ConcatProperties
<1> QED
  BY <1>3, <1>4 DEF Asked

\* So does a query to all.
LEMMA AskAllType ==
    ASSUME TypeOK, NEW kind \in Kind, AskAll(kind)
    PROVE  owed' \in [Serial -> Seq(Answer)] /\ leftover' \in BOOLEAN
<1>1. 1 \in 1 .. MaxFragments
  BY BoundsAssumption
<1> QED
  BY <1>1, AskedType DEF AskAll, TypeOK

\* The variables of the transaction keep their types whatever it does.
LEMMA TransactionType ==
    ASSUME TypeOK, Begin \/ BeginEnd \/ LeaveScope \/ UNCHANGED transactionVars
    PROVE  /\ transaction_active' \in BOOLEAN
           /\ transaction_cntr' \in CNTR_START .. CNTR_MAX
           /\ tag' \in 0 .. CNTR_MAX
<1>1. /\ transaction_cntr \in CNTR_START .. CNTR_MAX /\ tag \in 0 .. CNTR_MAX
      /\ transaction_active \in BOOLEAN
  BY DEF TypeOK
<1>2. transaction_cntr \in 0 .. CNTR_MAX
  BY <1>1, CounterAssumption
<1>3. inc_transaction_cntr(transaction_cntr) \in CNTR_START .. CNTR_MAX
  BY <1>1, CounterMoves
<1> QED
  BY <1>1, <1>2, <1>3 DEF Begin, BeginEnd, LeaveScope, End, transactionVars

\* No attempt is repeated more than NUM_RETRIES + 1 times.
LEMMA FailedType ==
    ASSUME TypeOK, NEW again, NEW giveUp, Failed(again, giveUp)
    PROVE  cnt' \in 0 .. NUM_RETRIES + 1 /\ pc' \in {again, giveUp}
  BY RetriesAssumption DEF TypeOK, Failed

\* A failed read goes back to where its attempt begins, or leaves the call.
LEMMA ReadFailedType ==
    ASSUME TypeInv, ReadFailed, pc \in ReadPc
    PROVE  /\ cnt' \in 0 .. NUM_RETRIES + 1 /\ pc' \in Pc
           /\ pc' \in RequestPc => op \in Op
           /\ transaction_active' \in BOOLEAN
           /\ transaction_cntr' \in CNTR_START .. CNTR_MAX
           /\ tag' \in 0 .. CNTR_MAX
<1>1. cnt' \in 0 .. NUM_RETRIES + 1 /\ pc' \in {AttemptOf(pc), GiveUpOf(pc)}
  BY FailedType DEF ReadFailed, TypeInv
<1>2. AttemptOf(pc) \in Pc /\ GiveUpOf(pc) \in Pc
  BY DEF AttemptOf, GiveUpOf, Pc, BeginPc, ReadPc
<1>3. pc' \in RequestPc => pc \in RequestPc
  BY <1>1 DEF AttemptOf, GiveUpOf, RequestPc, ReadPc
<1> QED
  BY <1>1, <1>2, <1>3, TransactionType DEF ReadFailed, TypeInv

\* The types hold at the begin.
LEMMA TypeInit == Init => TypeInv
<1> SUFFICES ASSUME Init PROVE TypeInv
  OBVIOUS
<1>1. /\ <<>> \in Seq(Device) /\ <<>> \in Seq(Answer) /\ Len(<<>>) = 0
  BY EmptySeq
<1>2. owed \in [Serial -> Seq(Answer)]
  BY <1>1 DEF Init
<1>3. /\ transaction_cntr \in CNTR_START .. CNTR_MAX /\ tag \in 0 .. CNTR_MAX
      /\ cnt \in 0 .. NUM_RETRIES + 1 /\ sessions \in 0 .. MaxSessions
      /\ Len(inbox) <= MailboxSize
  BY <1>1, CounterAssumption, RetriesAssumption, BoundsAssumption DEF Init
<1>4. pc \in Pc /\ pc \notin RequestPc
  BY DEF Init, Pc, RequestPc
<1> QED
  BY <1>1, <1>2, <1>3, <1>4 DEF Init, TypeInv, TypeOK, NoResult

\* The steps of connect() keep the types.
LEMMA ConnectTypes == ASSUME TypeInv, ConnectStep PROVE TypeInv'
<1>0. TypeOK
  BY DEF TypeInv
<1>a. /\ 0 \in 0 .. NUM_RETRIES + 1
      /\ {"discover", "time", "auth"} \subseteq Kind
      /\ 1 \in 1 .. MaxFragments
  BY <1>0, RetriesAssumption, BoundsAssumption DEF TypeOK, Kind
<1> USE DEF Passed, sessionVars, requestVars, networkVars, RequestPc, Pc, BeginPc, ReadPc
<1>1. CASE logout
  BY <1>0, <1>1, <1>a, TransactionType DEF logout, TypeInv, TypeOK
<1>2. CASE discoverDevices
  <2>1. owed' \in [Serial -> Seq(Answer)]
    BY <1>0, <1>2, <1>a, AskedType DEF discoverDevices, TypeOK
  <2>2. cnt' \in 0 .. NUM_RETRIES + 1 /\ pc' \in {"discoverRead", "discover", "idle"}
    BY <1>0, <1>2, FailedType DEF discoverDevices, TypeOK
  <2> QED
    BY <1>0, <1>2, <2>1, <2>2, TransactionType DEF discoverDevices, TypeInv, TypeOK
<1>3. CASE addDevice
  <2>1. answer \in Answer /\ devices \in Seq(Device) /\ got \in Nat
    BY <1>0, <1>3, ReadType DEF addDevice, TypeOK
  <2>2. [serial |-> answer.src, authenticated |-> FALSE] \in Device
    BY <2>1 DEF Answer, Device
  <2>3. devices' \in Seq(Device)
    BY <1>3, <2>1, <2>2, AppendProperties DEF addDevice
  <2>4. inbox' \in Seq(Answer) /\ Len(inbox') <= MailboxSize /\ UNCHANGED owed
    BY <1>0, <1>3, ReadType DEF addDevice
  <2> QED
    BY <1>0, <1>3, <2>1, <2>3, <2>4 DEF addDevice, TypeInv, TypeOK, transactionVars
<1>4. CASE Discovered
  BY <1>0, <1>4, <1>a, TransactionType DEF Discovered, TypeInv, TypeOK
<1>5. CASE sendPassword
  <2>1. owed' \in [Serial -> Seq(Answer)]
    BY <1>0, <1>5, <1>a, AskedType DEF sendPassword, TypeOK
  <2>2. cnt' \in 0 .. NUM_RETRIES + 1 /\ pc' \in {"authRead", "auth", "idle"}
    BY <1>0, <1>5, FailedType DEF sendPassword, TypeOK
  <2> QED
    BY <1>0, <1>5, <2>1, <2>2, TransactionType DEF sendPassword, TypeInv, TypeOK
<1>6. CASE AuthAnswer
  <2>1. devices \in Seq(Device) /\ got \in Nat
    BY <1>0 DEF TypeOK
  <2>2. devices' \in Seq(Device)
    <3> DEFINE i == getDevice(answer.src)
    <3>1. CASE i = 0
      BY <1>6, <2>1, <3>1 DEF AuthAnswer
    <3>2. CASE i # 0
      <4>1. i \in 1 .. Len(devices)
        BY <2>1, <3>2, DeviceFound
      <4> HIDE DEF i
      <4>2. devices[i] \in Device
        BY <2>1, <4>1, ElementOfSeq
      <4>3. [devices[i] EXCEPT !.authenticated = TRUE] \in Device
        BY <4>2 DEF Device
      <4>4. devices' = [devices EXCEPT ![i] = [devices[i] EXCEPT !.authenticated = TRUE]]
        BY <1>6, <3>2 DEF AuthAnswer, i
      <4> QED
        BY <2>1, <4>1, <4>3, <4>4, ExceptSeq
    <3> QED
      BY <3>1, <3>2
  <2>3. inbox' \in Seq(Answer) /\ Len(inbox') <= MailboxSize /\ UNCHANGED owed
    BY <1>0, <1>6, ReadType DEF AuthAnswer
  <2>4. pc' \in {"crashed", "authRead"} /\ got' \in Nat
    BY <1>6, <2>1 DEF AuthAnswer
  <2> QED
    BY <1>0, <1>6, <2>2, <2>3, <2>4 DEF AuthAnswer, TypeInv, TypeOK, transactionVars
<1>7. CASE Authenticated
  <2>1. cnt' \in 0 .. NUM_RETRIES + 1 /\ pc' \in {"sync", "auth", "idle"}
    BY <1>0, <1>7, <1>a, FailedType DEF Authenticated
  <2> QED
    BY <1>0, <1>7, <2>1, TransactionType DEF Authenticated, TypeInv, TypeOK
<1>8. CASE SyncQuery
  <2>1. owed' \in [Serial -> Seq(Answer)] /\ leftover' \in BOOLEAN
    BY <1>0, <1>8, <1>a, AskAllType DEF SyncQuery, TypeOK
  <2>2. cnt' \in 0 .. NUM_RETRIES + 1 /\ pc' \in {"syncRead", "sync", "idle"}
    BY <1>0, <1>8, FailedType DEF SyncQuery, TypeOK
  <2> QED
    BY <1>0, <1>8, <2>1, <2>2, TransactionType DEF SyncQuery, TypeInv, TypeOK
<1>9. CASE SyncAnswer
  <2>1. inbox' \in Seq(Answer) /\ Len(inbox') <= MailboxSize /\ UNCHANGED owed
    BY <1>0, <1>9, ReadType DEF SyncAnswer
  <2>2. CASE pc' = "syncAck" /\ UNCHANGED <<cnt, transactionVars>>
    BY <1>0, <1>9, <2>1, <2>2 DEF SyncAnswer, TypeInv, TypeOK, transactionVars
  <2>3. CASE ReadFailed
    BY <1>0, <1>9, <2>1, <2>3, ReadFailedType DEF SyncAnswer, TypeInv, TypeOK
  <2> QED
    BY <1>9, <2>2, <2>3 DEF SyncAnswer
<1>10. CASE SyncAck
  <2>1. cnt' \in 0 .. NUM_RETRIES + 1 /\ pc' \in {"crashed", "syncSet", "sync", "idle"}
    BY <1>0, <1>10, FailedType DEF SyncAck, TypeOK
  <2> QED
    BY <1>0, <1>10, <2>1 DEF SyncAck, TypeInv, TypeOK, transactionVars
<1>11. CASE SyncSet
  <2>1. cnt' \in 0 .. NUM_RETRIES + 1 /\ pc' \in {"syncAdjust", "connected", "sync", "idle"}
    BY <1>0, <1>11, <1>a, FailedType DEF SyncSet, TypeOK
  <2> QED
    BY <1>0, <1>11, <2>1, TransactionType DEF SyncSet, TypeInv, TypeOK
<1>12. CASE SyncAdjust
  <2>1. cnt' \in 0 .. NUM_RETRIES + 1 /\ pc' \in {"connected", "sync", "idle"}
    BY <1>0, <1>12, <1>a, FailedType DEF SyncAdjust, TypeOK
  <2> QED
    BY <1>0, <1>12, <2>1, TransactionType DEF SyncAdjust, TypeInv, TypeOK
<1> QED
  BY <1>1, <1>2, <1>3, <1>4, <1>5, <1>6, <1>7, <1>8, <1>9, <1>10, <1>11, <1>12 DEF ConnectStep

\* So do the steps of a request.
LEMMA RequestTypes == ASSUME TypeInv, RequestStep PROVE TypeInv'
<1>0. TypeOK /\ (pc \in RequestPc => op \in Op)
  BY DEF TypeInv
<1>a. /\ 0 \in 0 .. NUM_RETRIES + 1
      /\ 1 \in 1 .. MaxFragments
      /\ \A o \in Op : o.obj \in Kind
      /\ parts \in Seq(Answer) /\ <<>> \in Seq(Answer)
  BY <1>0, RetriesAssumption, BoundsAssumption, EmptySeq DEF TypeOK, Kind, Op
<1> USE DEF Passed, sessionVars, requestVars, networkVars, RequestPc, Pc, BeginPc, ReadPc
<1>1. CASE requestChannel
  <2>1. op \in Op /\ (op.obj = Status => Status \in Kind)
    BY <1>0, <1>1, <1>a DEF requestChannel
  <2>2. owed' \in [Serial -> Seq(Answer)] /\ leftover' \in BOOLEAN
    BY <1>0, <1>1, <1>a, <2>1, AskedType, AskAllType DEF requestChannel, TypeOK
  <2>3. cnt' \in 0 .. NUM_RETRIES + 1 /\ pc' \in {"recordRead", "records", "connected"}
    BY <1>0, <1>1, FailedType DEF requestChannel, TypeOK
  <2> QED
    BY <1>0, <1>1, <2>1, <2>2, <2>3 DEF requestChannel, TypeInv, TypeOK, transactionVars
<1>2. CASE RecordAnswer
  <2>1. /\ answer \in Answer /\ inbox' \in Seq(Answer) /\ Len(inbox') <= MailboxSize
        /\ UNCHANGED owed
    BY <1>0, <1>2, ReadType DEF RecordAnswer
  <2>2. CASE answer.kind = op.obj
    <3>1. <<answer>> \in Seq(Answer)
      BY <2>1
    <3>2. result'.op = op /\ result'.parts = <<answer>>
      BY <1>2, <2>2 DEF RecordAnswer
    <3> QED
      BY <1>0, <1>2, <1>a, <2>1, <2>2, <3>1, <3>2
      DEF RecordAnswer, TypeInv, TypeOK, transactionVars
  <2>3. CASE answer.kind # op.obj
    <3>1. ReadFailed /\ UNCHANGED result
      BY <1>2, <2>3 DEF RecordAnswer
    <3> QED
      BY <1>0, <1>2, <2>1, <3>1, ReadFailedType DEF RecordAnswer, TypeInv, TypeOK
  <2> QED
    BY <2>2, <2>3
<1>3. CASE requestArchiveData
  <2>1. op \in Op /\ op.obj \in Kind
    BY <1>0, <1>3, <1>a DEF requestArchiveData
  <2>2. owed' \in [Serial -> Seq(Answer)]
    BY <1>0, <1>3, <2>1, AskedType DEF requestArchiveData, TypeOK
  <2>3. cnt' \in 0 .. NUM_RETRIES + 1 /\ pc' \in {"archiveRead", "archive", "connected"}
    BY <1>0, <1>3, FailedType DEF requestArchiveData, TypeOK
  <2> QED
    BY <1>0, <1>3, <2>1, <2>2, <2>3, TransactionType DEF requestArchiveData, TypeInv, TypeOK
<1>4. CASE ArchiveAnswer
  <2>1. /\ answer \in Answer /\ inbox' \in Seq(Answer) /\ Len(inbox') <= MailboxSize
        /\ UNCHANGED owed
    BY <1>0, <1>4, ReadType DEF ArchiveAnswer
  <2>2. Append(parts, answer) \in Seq(Answer)
    BY <1>a, <2>1, AppendProperties
  <2>3. CASE answer.kind # op.obj
    <3>1. ReadFailed /\ parts' = <<>> /\ UNCHANGED result
      BY <1>4, <2>3 DEF ArchiveAnswer
    <3> QED
      BY <1>0, <1>4, <1>a, <2>1, <3>1, ReadFailedType DEF ArchiveAnswer, TypeInv, TypeOK
  <2>4. CASE answer.kind = op.obj /\ answer.num > 0
    BY <1>0, <1>4, <2>1, <2>2, <2>4 DEF ArchiveAnswer, TypeInv, TypeOK, transactionVars
  <2>5. CASE answer.kind = op.obj /\ ~(answer.num > 0)
    <3>1. /\ LeaveScope /\ pc' = "connected" /\ cnt' = 0 /\ parts' = <<>>
          /\ result'.op = op /\ result'.parts = Append(parts, answer)
      BY <1>4, <2>5 DEF ArchiveAnswer
    <3> QED
      BY <1>0, <1>4, <1>a, <2>1, <2>2, <3>1, TransactionType DEF ArchiveAnswer, TypeInv, TypeOK
  <2> QED
    BY <2>3, <2>4, <2>5
<1> QED
  BY <1>1, <1>2, <1>3, <1>4 DEF RequestStep

\* The types are preserved by every step of the session and of the network.
LEMMA TypeStep == TypeInv /\ [Next]_vars => TypeInv'
<1> SUFFICES ASSUME TypeInv, [Next]_vars PROVE TypeInv'
  OBVIOUS
<1>0. TypeOK /\ (pc \in RequestPc => op \in Op)
  BY DEF TypeInv
<1>a. 0 \in 0 .. NUM_RETRIES + 1 /\ <<>> \in Seq(Answer)
  BY RetriesAssumption, EmptySeq
<1> USE DEF Passed, sessionVars, requestVars, networkVars, transactionVars
<1>1. CASE Connect
  <2>1. sessions' \in 0 .. MaxSessions
    BY <1>0, <1>1, BoundsAssumption DEF Connect, TypeOK
  <2> QED
    BY <1>0, <1>1, <1>a, <2>1 DEF Connect, TypeInv, TypeOK, RequestPc, Pc, BeginPc
<1>2. CASE disconnect \/ Reconnect
  BY <1>0, <1>2, <1>a DEF disconnect, Reconnect, TypeInv, TypeOK, RequestPc, Pc
<1>3. ASSUME NEW id \in Serial, NEW obj \in Object, Request(id, obj) PROVE TypeInv'
  <2>1. op' \in Op
    BY <1>3 DEF Request, Op
  <2>2. result'.op = NoOp /\ result'.parts = <<>>
    BY <1>3 DEF Request, NoResult
  <2>3. pc' \in {"archive", "records"} /\ cnt' = 0
    BY <1>3 DEF Request
  <2> QED
    BY <1>0, <1>3, <1>a, <2>1, <2>2, <2>3 DEF Request, TypeInv, TypeOK, Pc, BeginPc
<1>4. CASE ConnectStep
  BY <1>4, ConnectTypes
<1>5. CASE RequestStep
  BY <1>5, RequestTypes
<1>6. CASE ReadFails
  <2>1. inbox' \in Seq(Answer) /\ Len(inbox') <= MailboxSize /\ UNCHANGED owed
    BY <1>0, <1>6, ReadType DEF ReadFails, TypeOK
  <2> QED
    BY <1>0, <1>6, <1>a, <2>1, ReadFailedType DEF ReadFails, TypeInv, TypeOK
<1>7. ASSUME NEW s \in Serial, Arrive(s) PROVE TypeInv'
  <2>1. owed[s] \in Seq(Answer) /\ owed[s] # <<>>
    BY <1>0, <1>7 DEF Arrive, TypeOK
  <2>2. Head(owed[s]) \in Answer /\ Tail(owed[s]) \in Seq(Answer)
    BY <2>1, HeadTailProperties
  <2>3. owed' \in [Serial -> Seq(Answer)]
    BY <1>0, <1>7, <2>2 DEF Arrive, TypeOK
  <2>4. inbox' \in Seq(Answer) /\ Len(inbox') <= MailboxSize
    <3> DEFINE kept == IF Len(inbox) >= MailboxSize THEN Tail(inbox) ELSE inbox
    <3>1. inbox \in Seq(Answer) /\ Len(inbox) \in Nat /\ Len(inbox) <= MailboxSize
          /\ MailboxSize \in Nat /\ MailboxSize # 0
      BY <1>0, LenProperties, BoundsAssumption DEF TypeOK
    <3>2. kept \in Seq(Answer) /\ Len(kept) \in Nat /\ Len(kept) < MailboxSize
      <4>1. CASE Len(inbox) >= MailboxSize
        <5>1. inbox # <<>>
          BY <3>1, <4>1, EmptySeq
        <5> QED
          BY <3>1, <4>1, <5>1, HeadTailProperties
      <4>2. CASE ~(Len(inbox) >= MailboxSize)
        BY <3>1, <4>2
      <4> QED
        BY <4>1, <4>2
    <3>3. inbox' = Append(kept, Head(owed[s]))
      BY <1>7 DEF Arrive
    <3> HIDE DEF kept
    <3>4. Append(kept, Head(owed[s])) \in Seq(Answer)
          /\ Len(Append(kept, Head(owed[s]))) = Len(kept) + 1
      BY <2>2, <3>2, AppendProperties
    <3> QED
      BY <3>1, <3>2, <3>3, <3>4
  <2> QED
    BY <1>0, <1>7, <2>3, <2>4 DEF Arrive, TypeInv, TypeOK
<1>8. ASSUME NEW s \in Serial, Lose(s) PROVE TypeInv'
  <2>1. owed[s] \in Seq(Answer) /\ owed[s] # <<>>
    BY <1>0, <1>8 DEF Lose, TypeOK
  <2>2. owed' \in [Serial -> Seq(Answer)]
    BY <1>0, <1>8, <2>1, HeadTailProperties DEF Lose, TypeOK
  <2> QED
    BY <1>0, <1>8, <2>2 DEF Lose, TypeInv, TypeOK
<1>9. CASE UNCHANGED vars
  BY <1>0, <1>9 DEF vars, TypeInv, TypeOK
<1> QED
  BY <1>1, <1>2, <1>3, <1>4, <1>5, <1>6, <1>7, <1>8, <1>9 DEF Next, ApiCall, Step

\* Every variable of the session has its type, the counter stays in its range,
\* no attempt is repeated more often than NUM_RETRIES allows and the mailbox
\* never holds more than its link does, for every plant and network.
THEOREM SessionTypes == Spec => []TypeOK
<1>1. TypeInv => TypeOK
  BY DEF TypeInv
<1> QED
  BY <1>1, TypeInit, TypeStep, PTL DEF Spec
=============================================================================
