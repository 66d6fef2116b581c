------------------------- MODULE Smabluetooth_proofs -------------------------
(***************************************************************************)
(* Proofs about the bluetooth link, for every set of addresses and device  *)
(* counts, every capacity of the queue and every number of frames.         *)
(***************************************************************************)
EXTENDS Smabluetooth, SequenceTheorems, TLAPS

-----------------------------------------------------------------------------
(* What the handlers rely on in a frame.                                   *)

\* A frame has a destination, and the fields its command calls for.
LEMMA FrameFields ==
    ASSUME NEW f \in Frame
    PROVE  /\ f.cmd = "0A" => f.own \in Destination
           /\ f.cmd = "05" => f.num \in DeviceCounts
  BY DEF Frame

\* The queue after a frame was pushed: one frame longer or as long as before,
\* and what was element i is still element i, or element i - 1.
LEMMA PushedProperties ==
    ASSUME QueueTypeOK, NEW n \in Nat
    PROVE  /\ Pushed(n) \in Seq(Nat)
           /\ Len(packets) < MAX_PACKETS_SIZE =>
                 /\ Len(Pushed(n)) = Len(packets) + 1
                 /\ \A i \in 1 .. Len(packets) : Pushed(n)[i] = packets[i]
           /\ Len(packets) = MAX_PACKETS_SIZE =>
                 /\ Len(Pushed(n)) = MAX_PACKETS_SIZE
                 /\ \A i \in 1 .. MAX_PACKETS_SIZE - 1 : Pushed(n)[i] = packets[i + 1]
           /\ Pushed(n)[Len(Pushed(n))] = n
<1>1. /\ packets \in Seq(Nat)
      /\ Len(packets) \in Nat
      /\ MAX_PACKETS_SIZE \in Nat \ {0}
  BY LenProperties, CapacityAssumption DEF QueueTypeOK
<1>2. CASE Len(packets) < MAX_PACKETS_SIZE
  <2>1. Pushed(n) = Append(packets, n)
    BY <1>1, <1>2 DEF Pushed
  <2> QED
    BY <1>1, <1>2, <2>1, AppendProperties
<1>3. CASE Len(packets) = MAX_PACKETS_SIZE
  <2>1. Pushed(n) = Append(Tail(packets), n)
    BY <1>1, <1>3 DEF Pushed
  <2>2. packets # <<>>
    BY <1>1, <1>3, EmptySeq
  <2>3. /\ Tail(packets) \in Seq(Nat)
        /\ Len(Tail(packets)) = Len(packets) - 1
        /\ \A i \in 1 .. Len(Tail(packets)) : Tail(packets)[i] = packets[i + 1]
    BY <1>1, <2>2, HeadTailProperties
  <2>4. /\ Append(Tail(packets), n) \in Seq(Nat)
        /\ Len(Append(Tail(packets), n)) = Len(Tail(packets)) + 1
        /\ \A i \in 1 .. Len(Tail(packets)) : Append(Tail(packets), n)[i] = Tail(packets)[i]
        /\ Append(Tail(packets), n)[Len(Tail(packets)) + 1] = n
    BY <2>3, AppendProperties
  <2> QED
    BY <1>1, <1>3, <2>1, <2>3, <2>4
<1> QED
  BY <1>1, <1>2, <1>3 DEF QueueTypeOK

\* Pushing keeps the queue within its capacity and never empties it.
LEMMA PushedLength ==
    ASSUME QueueTypeOK, NEW n \in Nat
    PROVE  Pushed(n) \in Seq(Nat) /\ Len(Pushed(n)) <= MAX_PACKETS_SIZE
<1>1. Len(packets) \in Nat /\ MAX_PACKETS_SIZE \in Nat
  BY LenProperties, CapacityAssumption DEF QueueTypeOK
<1>2. Len(packets) < MAX_PACKETS_SIZE \/ Len(packets) = MAX_PACKETS_SIZE
  BY <1>1 DEF QueueTypeOK
<1>3. /\ Pushed(n) \in Seq(Nat)
      /\ Len(packets) < MAX_PACKETS_SIZE => Len(Pushed(n)) = Len(packets) + 1
      /\ Len(packets) = MAX_PACKETS_SIZE => Len(Pushed(n)) = MAX_PACKETS_SIZE
  BY PushedProperties
<1> QED
  BY <1>1, <1>2, <1>3

-----------------------------------------------------------------------------
(* Type correctness.                                                       *)

\* Every variable keeps its type and the queue its bound.
THEOREM TypeCorrect == Spec => []TypeOK
<1>1. Init => TypeOK
  <2> SUFFICES ASSUME Init PROVE TypeOK
    OBVIOUS
  <2>1. QueueTypeOK
    BY CapacityAssumption DEF Init, QueueTypeOK
  <2>2. told \in SUBSET {"mac", "num"}
    BY DEF Init
  <2>3. mac \in Destination
    BY DEF Init, Destination
  <2> QED
    BY <2>1, <2>2, <2>3 DEF Init, TypeOK, State, WorkerPc, AppPc, Caller
<1>2. TypeOK /\ [Next]_vars => TypeOK'
  <2> SUFFICES ASSUME TypeOK, [Next]_vars PROVE TypeOK'
    OBVIOUS
  <2> USE DEF TypeOK, linkVars, queueVars, threadVars, appVars, workerVars
  <2>0. UNCHANGED queueVars => QueueTypeOK'
    BY DEF QueueTypeOK
  <2>1. CASE TestQuit BY <2>0, <2>1 DEF TestQuit, WorkerPc
  <2>2. CASE ReadNothing BY <2>0, <2>2 DEF ReadNothing, WorkerPc
  <2>3. CASE ReadFails BY <2>0, <2>3 DEF ReadFails, WorkerPc
  <2>4. ASSUME NEW f \in Frame, ReadFrame(f) PROVE TypeOK' BY <2>0, <2>4 DEF ReadFrame, WorkerPc
  <2>5. ASSUME NEW f \in Frame, SkipFrame(f) PROVE TypeOK' BY <2>0, <2>5 DEF SkipFrame, WorkerPc
  <2>6. CASE QueueFrame
    <3>1. QueueTypeOK'
      <4> HIDE DEF TypeOK
      <4>1. QueueTypeOK /\ Len(packets) \in Nat
        BY LenProperties DEF TypeOK, QueueTypeOK
      <4>2. received + 1 \in Nat /\ packets' = Pushed(received + 1)
        BY <2>6, <4>1 DEF QueueFrame, QueueTypeOK
      <4>3. /\ Pushed(received + 1) \in Seq(Nat)
            /\ Len(Pushed(received + 1)) <= MAX_PACKETS_SIZE
        BY <4>1, <4>2, PushedLength
      <4> QED
        BY <2>6, <4>1, <4>2, <4>3 DEF QueueFrame, QueueTypeOK
    <3> QED
      BY <2>6, <3>1 DEF QueueFrame, Handled, WorkerPc
  <2>7. CASE UnknownFrame BY <2>0, <2>7 DEF UnknownFrame, Handled, WorkerPc
  <2>8. CASE cmd_02 BY <2>0, <2>8 DEF cmd_02, Handled, WorkerPc
  <2>9. CASE AnswerHello BY <2>0, <2>9 DEF AnswerHello, WorkerPc
  <2>10. CASE StartHandshake BY <2>0, <2>10 DEF StartHandshake, WorkerPc, State
  <2>11. CASE cmd_0A BY <2>0, <2>11, FrameFields DEF cmd_0A, Handled, WorkerPc, State
  <2>12. CASE cmd_05 BY <2>0, <2>12, FrameFields DEF cmd_05, Handled, WorkerPc, State
  <2>13. CASE cmd_04 BY <2>0, <2>13 DEF cmd_04, Handled, WorkerPc
  <2>14. CASE Notify BY <2>0, <2>14 DEF Notify, WorkerPc
  <2>15. CASE WorkerFails BY <2>0, <2>15 DEF WorkerFails, WorkerPc, State
  <2>16. ASSUME NEW who \in Caller, Disconnect(who) PROVE TypeOK'
    BY <2>0, <2>16 DEF Disconnect, GoTo, AfterDisconnect, Caller, AppPc, ConnectPc, WaitPc
  <2>17. CASE Join BY <2>0, <2>17 DEF Join, GoTo, AfterDisconnect, Caller, AppPc, ConnectPc, WaitPc
  <2>18. CASE StartWorker BY <2>0, <2>18 DEF StartWorker, GoTo, AppPc, ConnectPc, WorkerPc
  <2>19. CASE ConnectCheck BY <2>0, <2>19 DEF ConnectCheck, GoTo, AppPc, ConnectPc, WaitPc, State
  <2>20. CASE ConnectTimeout BY <2>0, <2>20 DEF ConnectTimeout, GoTo, AppPc, ConnectPc, WaitPc
  <2>21. CASE ConnectFails BY <2>0, <2>21 DEF ConnectFails, GoTo, AppPc, ConnectPc, WaitPc, State
  <2>22. CASE Wake BY <2>0, <2>22 DEF Wake, GoTo, LoopOf, AppPc, ConnectPc, WaitPc
  <2>23. CASE SpuriousWake BY <2>0, <2>23 DEF SpuriousWake, GoTo, LoopOf, AppPc, ConnectPc, WaitPc
  <2>24. CASE WaitTimeout BY <2>0, <2>24 DEF WaitTimeout, GoTo, AppPc, ConnectPc, WaitPc
  <2>25. CASE Call("signal") \/ Call("send") BY <2>0, <2>25 DEF Call, GoTo, AppPc, ConnectPc, WaitPc
  <2>26. CASE ForgetSignal BY <2>0, <2>26 DEF ForgetSignal, GoTo, AppPc, ConnectPc, WaitPc
  <2>27. CASE AskSignal BY <2>0, <2>27 DEF AskSignal, GoTo, AppPc, ConnectPc, WaitPc
  <2>28. CASE SignalCheck BY <2>0, <2>28 DEF SignalCheck, GoTo, AppPc, ConnectPc, WaitPc
  <2>29. CASE write BY <2>0, <2>29 DEF write, GoTo, AppPc, ConnectPc, WaitPc
  <2>30. CASE ReadPacket BY <2>0, <2>30 DEF ReadPacket, GoTo, AppPc, ConnectPc, WaitPc
  <2>31. CASE ReadCheck
    <3>1. QueueTypeOK'
      <4>1. packets # <<>> =>
              /\ Head(packets) \in Nat
              /\ Tail(packets) \in Seq(Nat)
              /\ Len(Tail(packets)) = Len(packets) - 1
              /\ Len(packets) \in Nat
        BY HeadTailProperties, LenProperties DEF QueueTypeOK
      <4>2. received' = received
        BY <2>31 DEF ReadCheck
      <4>3. CASE packets = <<>>
        <5>1. packets' = packets /\ lastRead' = lastRead
          BY <2>31, <4>3 DEF ReadCheck
        <5> QED
          BY <4>2, <5>1 DEF QueueTypeOK
      <4>4. CASE packets # <<>>
        <5>1. packets' = Tail(packets) /\ lastRead' = Head(packets)
          BY <2>31, <4>4 DEF ReadCheck
        <5> QED
          BY <4>1, <4>2, <4>4, <5>1, CapacityAssumption DEF QueueTypeOK
      <4> QED
        BY <4>3, <4>4
    <3> QED
      BY <2>31, <3>1 DEF ReadCheck, GoTo, AppPc, WaitPc
  <2>32. CASE UNCHANGED vars BY <2>0, <2>32 DEF vars
  <2> QED
    BY <2>1, <2>2, <2>3, <2>4, <2>5, <2>6, <2>7, <2>8, <2>9, <2>10, <2>11, <2>12,
       <2>13, <2>14, <2>15, <2>16, <2>17, <2>18, <2>19, <2>20, <2>21, <2>22, <2>23,
       <2>24, <2>25, <2>26, <2>27, <2>28, <2>29, <2>30, <2>31, <2>32
    DEF Next, worker_thread, packet_event, ApiCall, AppStep
<1> QED
  BY <1>1, <1>2, PTL DEF Spec

-----------------------------------------------------------------------------
(* The handshake and the two threads.                                      *)

\* A receive thread that is not stopped, in STATE_NOT_CONNECTED, is one that
\* connect() waits for.
LEMMA UnconnectedWorker ==
    ASSUME NoLeakedWorker, state = "NOT_CONNECTED", wpc # "stopped"
    PROVE  apc \in ConnectPc
  BY DEF NoLeakedWorker

\* Neither thread is misled by what it looked at before it let the mutex go:
\* an answered hello finds STATE_NOT_CONNECTED, the handshake moves only inside
\* connect(), a thread that runs can be joined and none is left behind, and a
\* connection goes by the address and the network of its own handshake.
THEOREM LinkSafe == Spec => []LinkInv
<1>1. Init => LinkInv
  BY DEF Init, LinkInv, HelloStillUnconnected, HandshakeWithinConnect, NoLeakedWorker,
         HandshakeIsComplete, Handshaking, ConnectPc
<1>2. TypeOK /\ LinkInv /\ [Next]_vars => LinkInv'
  <2> SUFFICES ASSUME TypeOK, LinkInv, [Next]_vars PROVE LinkInv'
    OBVIOUS
  <2> USE DEF LinkInv, HelloStillUnconnected, HandshakeWithinConnect, NoLeakedWorker,
              HandshakeIsComplete, linkVars, threadVars, appVars, workerVars
  <2>1. CASE TestQuit BY <2>1 DEF TestQuit
  <2>2. CASE ReadNothing BY <2>2 DEF ReadNothing
  <2>3. CASE ReadFails BY <2>3 DEF ReadFails
  <2>4. ASSUME NEW f \in Frame, ReadFrame(f) PROVE LinkInv' BY <2>4 DEF ReadFrame
  <2>5. ASSUME NEW f \in Frame, SkipFrame(f) PROVE LinkInv' BY <2>5 DEF SkipFrame
  <2>6. CASE QueueFrame BY <2>6 DEF QueueFrame, Handled
  <2>7. CASE UnknownFrame BY <2>7 DEF UnknownFrame, Handled
  <2>8. CASE cmd_02 BY <2>8, UnconnectedWorker DEF cmd_02, Handled
  <2>9. CASE AnswerHello BY <2>9 DEF AnswerHello
  <2>10. CASE StartHandshake BY <2>10 DEF StartHandshake, Handshaking
  <2>11. CASE cmd_0A
    BY <2>11 DEF cmd_0A, Handled, Handshaking
  <2>12. CASE cmd_05 BY <2>12 DEF cmd_05, Handled, Handshaking
  <2>13. CASE cmd_04 BY <2>13 DEF cmd_04, Handled
  <2>14. CASE Notify BY <2>14 DEF Notify
  <2>15. CASE WorkerFails BY <2>15 DEF WorkerFails, Handshaking
  <2>16. ASSUME NEW who \in Caller, Disconnect(who) PROVE LinkInv'
    BY <2>16 DEF Disconnect, GoTo, AfterDisconnect, Caller, ConnectPc
  <2>17. CASE Join
    BY <2>17 DEF Join, GoTo, AfterDisconnect, ConnectPc, TypeOK, Caller
  <2>18. CASE StartWorker
    <3>1. state' = state /\ apc = "start" /\ apc' = "check" /\ wpc' = "loop"
          /\ thread' = "joinable"
      BY <2>18 DEF StartWorker, GoTo
    <3>2. state \notin Handshaking
      BY <3>1 DEF ConnectPc
    <3> QED
      BY <3>1, <3>2 DEF ConnectPc, Handshaking
  <2>19. CASE ConnectCheck BY <2>19 DEF ConnectCheck, GoTo, ConnectPc, Handshaking
  <2>20. CASE ConnectTimeout BY <2>20 DEF ConnectTimeout, GoTo, ConnectPc
  <2>21. CASE ConnectFails BY <2>21 DEF ConnectFails, GoTo, ConnectPc, Handshaking
  <2>22. CASE Wake \/ SpuriousWake
    BY <2>22 DEF Wake, SpuriousWake, GoTo, LoopOf, WaitPc, ConnectPc
  <2>23. CASE WaitTimeout BY <2>23 DEF WaitTimeout, GoTo, ConnectPc
  <2>24. CASE Call("signal") \/ Call("send") BY <2>24 DEF Call, GoTo, ConnectPc
  <2>25. CASE ForgetSignal BY <2>25 DEF ForgetSignal, GoTo, ConnectPc
  <2>26. CASE AskSignal BY <2>26 DEF AskSignal, GoTo, ConnectPc
  <2>27. CASE SignalCheck BY <2>27 DEF SignalCheck, GoTo, ConnectPc
  <2>28. CASE write BY <2>28 DEF write, GoTo, ConnectPc
  <2>29. CASE ReadPacket BY <2>29 DEF ReadPacket, GoTo, ConnectPc
  <2>30. CASE ReadCheck BY <2>30 DEF ReadCheck, GoTo, ConnectPc
  <2>31. CASE UNCHANGED vars BY <2>31 DEF vars
  <2> QED
    BY <2>1, <2>2, <2>3, <2>4, <2>5, <2>6, <2>7, <2>8, <2>9, <2>10, <2>11, <2>12,
       <2>13, <2>14, <2>15, <2>16, <2>17, <2>18, <2>19, <2>20, <2>21, <2>22, <2>23,
       <2>24, <2>25, <2>26, <2>27, <2>28, <2>29, <2>30, <2>31
    DEF Next, worker_thread, packet_event, ApiCall, AppStep
<1> QED
  BY <1>1, <1>2, TypeCorrect, PTL DEF Spec

\* The unlocked writes of the two threads never meet, and no new address is
\* stored under a write of the application.
THEOREM WritersApart == Spec => []NoAddressRace
<1>1. LinkInv => NoAddressRace
  BY DEF LinkInv, HelloStillUnconnected, HandshakeWithinConnect, NoAddressRace,
         ConnectPc, Handshaking
<1> QED
  BY <1>1, LinkSafe, PTL

\* No thread of connect() is ever forgotten: it is joined or still needed.
THEOREM ThreadsAccountedFor == Spec => []NoLeakedWorker
<1>1. LinkInv => NoLeakedWorker
  BY DEF LinkInv
<1> QED
  BY <1>1, LinkSafe, PTL

\* What cmd_02 tested before it unlocked still holds when it sets STATE_START.
THEOREM AnsweredHelloIsCurrent == Spec => []HelloStillUnconnected
<1>1. LinkInv => HelloStillUnconnected
  BY DEF LinkInv
<1> QED
  BY <1>1, LinkSafe, PTL

\* The states of the handshake are only taken inside connect().
THEOREM HandshakeConfined == Spec => []HandshakeWithinConnect
<1>1. LinkInv => HandshakeWithinConnect
  BY DEF LinkInv
<1> QED
  BY <1>1, LinkSafe, PTL

\* A connection is only made of what its own receive thread was told: nothing
\* an earlier connection left in the members is taken for it.
THEOREM HandshakeIsOwn == Spec => []HandshakeIsComplete
<1>1. LinkInv => HandshakeIsComplete
  BY DEF LinkInv
<1> QED
  BY <1>1, LinkSafe, PTL

-----------------------------------------------------------------------------
(* Waiting and notifying.                                                  *)

\* Whoever waits for a device list, a signal answer or a frame that is there
\* has been notified or is about to be.
THEOREM WakeupsArrive == Spec => []NoLostWakeup
<1>1. Init => NoLostWakeup
  BY DEF Init, NoLostWakeup
<1>2. TypeOK /\ NoLostWakeup /\ [Next]_vars => NoLostWakeup'
  <2> SUFFICES ASSUME TypeOK, NoLostWakeup, [Next]_vars PROVE NoLostWakeup'
    OBVIOUS
  <2> USE DEF NoLostWakeup, linkVars, queueVars, appVars
  <2>1. CASE TestQuit BY <2>1 DEF TestQuit
  <2>2. CASE ReadNothing BY <2>2 DEF ReadNothing
  <2>3. CASE ReadFails BY <2>3 DEF ReadFails
  <2>4. ASSUME NEW f \in Frame, ReadFrame(f) PROVE NoLostWakeup' BY <2>4 DEF ReadFrame
  <2>5. ASSUME NEW f \in Frame, SkipFrame(f) PROVE NoLostWakeup' BY <2>5 DEF SkipFrame
  <2>6. CASE QueueFrame BY <2>6 DEF QueueFrame, Handled
  <2>7. CASE UnknownFrame BY <2>7 DEF UnknownFrame, Handled
  <2>8. CASE cmd_02 BY <2>8 DEF cmd_02, Handled
  <2>9. CASE AnswerHello BY <2>9 DEF AnswerHello
  <2>10. CASE StartHandshake BY <2>10 DEF StartHandshake
  <2>11. CASE cmd_0A BY <2>11 DEF cmd_0A, Handled
  <2>12. CASE cmd_05 BY <2>12 DEF cmd_05, Handled
  <2>13. CASE cmd_04 BY <2>13 DEF cmd_04, Handled
  <2>14. CASE Notify BY <2>14 DEF Notify, WaitPc
  <2>15. CASE WorkerFails BY <2>15 DEF WorkerFails
  <2>16. ASSUME NEW who \in Caller, Disconnect(who) PROVE NoLostWakeup'
    BY <2>16 DEF Disconnect, GoTo, AfterDisconnect, Caller
  <2>17. CASE Join BY <2>17 DEF Join, GoTo, AfterDisconnect, TypeOK, Caller
  <2>18. CASE StartWorker BY <2>18 DEF StartWorker, GoTo
  <2>19. CASE ConnectCheck BY <2>19 DEF ConnectCheck, GoTo
  <2>20. CASE ConnectTimeout BY <2>20 DEF ConnectTimeout, GoTo
  <2>21. CASE ConnectFails BY <2>21 DEF ConnectFails, GoTo
  <2>22. CASE Wake \/ SpuriousWake
    BY <2>22 DEF Wake, SpuriousWake, GoTo, LoopOf, WaitPc
  <2>23. CASE WaitTimeout BY <2>23 DEF WaitTimeout, GoTo
  <2>24. CASE Call("signal") \/ Call("send") BY <2>24 DEF Call, GoTo
  <2>25. CASE ForgetSignal BY <2>25 DEF ForgetSignal, GoTo
  <2>26. CASE AskSignal BY <2>26 DEF AskSignal, GoTo
  <2>27. CASE SignalCheck BY <2>27 DEF SignalCheck, GoTo
  <2>28. CASE write BY <2>28 DEF write, GoTo
  <2>29. CASE ReadPacket BY <2>29 DEF ReadPacket, GoTo
  <2>30. CASE ReadCheck BY <2>30 DEF ReadCheck, GoTo
  <2>31. CASE UNCHANGED vars BY <2>31 DEF vars
  <2> QED
    BY <2>1, <2>2, <2>3, <2>4, <2>5, <2>6, <2>7, <2>8, <2>9, <2>10, <2>11, <2>12,
       <2>13, <2>14, <2>15, <2>16, <2>17, <2>18, <2>19, <2>20, <2>21, <2>22, <2>23,
       <2>24, <2>25, <2>26, <2>27, <2>28, <2>29, <2>30, <2>31
    DEF Next, worker_thread, packet_event, ApiCall, AppStep
<1> QED
  BY <1>1, <1>2, TypeCorrect, PTL DEF Spec

-----------------------------------------------------------------------------
(* The queue of data frames.                                               *)

\* readPacket() takes the oldest frame.
Pop ==
    /\ packets # <<>>
    /\ lastRead' = Head(packets)
    /\ packets' = Tail(packets)
    /\ received' = received

\* Of all steps only the queueing of a frame and readPacket() touch the queue.
LEMMA QueueUsers ==
    ASSUME [Next]_vars
    PROVE  UNCHANGED queueVars \/ QueueFrame \/ Pop
<1> USE DEF queueVars
<1>1. CASE worker_thread
  BY <1>1 DEF worker_thread, packet_event, TestQuit, ReadNothing, ReadFails, ReadFrame,
              SkipFrame, UnknownFrame, cmd_02, cmd_0A, cmd_05, cmd_04, AnswerHello,
              StartHandshake, Notify, WorkerFails
<1>2. CASE ApiCall
  BY <1>2 DEF ApiCall, Disconnect, Call, ReadPacket
<1>3. CASE ReadCheck
  BY <1>3 DEF ReadCheck, Pop
<1>4. CASE AppStep /\ ~ReadCheck
  BY <1>4 DEF AppStep, Join, StartWorker, ConnectCheck, ConnectTimeout, ConnectFails, Wake,
              WaitTimeout, ForgetSignal, AskSignal, SignalCheck, write
<1>5. CASE SpuriousWake
  BY <1>5 DEF SpuriousWake
<1>6. CASE UNCHANGED vars
  BY <1>6 DEF vars
<1> QED
  BY <1>1, <1>2, <1>3, <1>4, <1>5, <1>6 DEF Next

QueueInv == QueueTypeOK /\ QueueIsWindow /\ OnlyOverflowLoses

\* Queueing one more frame moves the window by at most one.
LEMMA QueueFrameStep ==
    ASSUME QueueInv, QueueFrame
    PROVE  /\ QueueIsWindow' /\ OnlyOverflowLoses'
           /\ received' = received + 1 /\ lastRead' = lastRead
           /\ received' - Len(packets') =
                 IF Len(packets) >= MAX_PACKETS_SIZE
                   THEN (received - Len(packets)) + 1
                   ELSE received - Len(packets)
<1>1. /\ packets' = Pushed(received + 1)
      /\ received' = received + 1
      /\ lastRead' = lastRead
  BY DEF QueueFrame
<1>2. /\ Len(packets) \in Nat /\ Len(packets) <= MAX_PACKETS_SIZE
      /\ MAX_PACKETS_SIZE \in Nat \ {0}
      /\ received \in Nat /\ received + 1 \in Nat /\ lastRead \in Nat
  BY LenProperties, CapacityAssumption DEF QueueInv, QueueTypeOK
<1>3. /\ Len(packets) <= received
      /\ \A i \in 1 .. Len(packets) : packets[i] = received - Len(packets) + i
      /\ lastRead <= received - Len(packets)
      /\ lastRead = received - Len(packets) \/ Len(packets) = MAX_PACKETS_SIZE
  BY DEF QueueInv, QueueIsWindow, OnlyOverflowLoses
<1>4. QueueTypeOK
  BY DEF QueueInv
<1> DEFINE q == Pushed(received + 1)
<1>5. CASE Len(packets) < MAX_PACKETS_SIZE
  <2>1. /\ Len(q) = Len(packets) + 1
        /\ \A i \in 1 .. Len(packets) : q[i] = packets[i]
        /\ q[Len(q)] = received + 1
    BY <1>2, <1>4, <1>5, PushedProperties
  <2> HIDE DEF q
  <2>2. \A i \in 1 .. Len(q) : q[i] = (received + 1) - Len(q) + i
    BY <1>2, <1>3, <2>1
  <2>3. packets' = q
    BY <1>1 DEF q
  <2>4. /\ Len(q) <= received + 1
        /\ lastRead <= (received + 1) - Len(q)
        /\ (received + 1) - Len(q) = received - Len(packets)
        /\ lastRead = (received + 1) - Len(q)
    BY <1>2, <1>3, <1>5, <2>1
  <2>5. QueueIsWindow' /\ OnlyOverflowLoses'
    BY <1>1, <2>2, <2>3, <2>4 DEF QueueIsWindow, OnlyOverflowLoses
  <2>6. received' - Len(packets') = received - Len(packets)
    BY <1>1, <2>3, <2>4
  <2>7. ~(Len(packets) >= MAX_PACKETS_SIZE)
    BY <1>2, <1>5
  <2> QED
    BY <1>1, <2>5, <2>6, <2>7
<1>6. CASE Len(packets) = MAX_PACKETS_SIZE
  <2>1. /\ Len(q) = MAX_PACKETS_SIZE
        /\ \A i \in 1 .. MAX_PACKETS_SIZE - 1 : q[i] = packets[i + 1]
        /\ q[Len(q)] = received + 1
    BY <1>2, <1>4, <1>6, PushedProperties
  <2> HIDE DEF q
  <2>2. ASSUME NEW i \in 1 .. Len(q)
        PROVE  q[i] = (received + 1) - Len(q) + i
    <3>1. CASE i = Len(q)
      BY <1>2, <2>1, <3>1
    <3>2. CASE i # Len(q)
      <4>1. i \in 1 .. MAX_PACKETS_SIZE - 1 /\ i + 1 \in 1 .. Len(packets)
        BY <1>2, <1>6, <2>1, <3>2
      <4>2. q[i] = packets[i + 1] /\ packets[i + 1] = received - Len(packets) + (i + 1)
        BY <1>3, <2>1, <4>1
      <4> QED
        BY <1>2, <1>6, <2>1, <4>1, <4>2
    <3> QED
      BY <3>1, <3>2
  <2>3. packets' = q
    BY <1>1 DEF q
  <2>4. /\ Len(q) <= received + 1
        /\ lastRead <= (received + 1) - Len(q)
        /\ (received + 1) - Len(q) = (received - Len(packets)) + 1
    BY <1>2, <1>3, <1>6, <2>1
  <2>5. QueueIsWindow' /\ OnlyOverflowLoses'
    BY <1>1, <2>1, <2>2, <2>3, <2>4 DEF QueueIsWindow, OnlyOverflowLoses
  <2> QED
    BY <1>1, <1>2, <1>6, <2>3, <2>4, <2>5
<1> QED
  BY <1>2, <1>5, <1>6

\* readPacket() takes the frame right after the window's lower end.
LEMMA PopStep ==
    ASSUME QueueInv, Pop
    PROVE  /\ QueueIsWindow' /\ OnlyOverflowLoses'
           /\ received' = received
           /\ Len(packets) > 0
           /\ lastRead' = (received - Len(packets)) + 1
           /\ received' - Len(packets') = (received - Len(packets)) + 1
<1>1. /\ Len(packets) \in Nat /\ received \in Nat /\ lastRead \in Nat
      /\ packets \in Seq(Nat) /\ packets # <<>>
  BY LenProperties DEF QueueInv, QueueTypeOK, Pop
<1>2. /\ Len(packets) <= received
      /\ \A i \in 1 .. Len(packets) : packets[i] = received - Len(packets) + i
  BY DEF QueueInv, QueueIsWindow
<1>3. Len(packets) > 0
  BY <1>1, EmptySeq
<1> DEFINE q == Tail(packets)
<1>4. /\ Head(packets) = packets[1]
      /\ Len(q) = Len(packets) - 1
      /\ \A i \in 1 .. Len(q) : q[i] = packets[i + 1]
  BY <1>1, HeadTailProperties
<1>5. packets' = q /\ received' = received /\ lastRead' = Head(packets)
  BY DEF Pop
<1> HIDE DEF q
<1>6. Head(packets) = (received - Len(packets)) + 1
  BY <1>1, <1>2, <1>3, <1>4
<1>7. \A i \in 1 .. Len(q) : q[i] = received - Len(q) + i
  BY <1>1, <1>2, <1>4
<1>8. /\ Len(q) <= received
      /\ received - Len(q) = (received - Len(packets)) + 1
  BY <1>1, <1>2, <1>3, <1>4
<1>9. lastRead' = received - Len(q)
  BY <1>5, <1>6, <1>8
<1>10. lastRead' <= received - Len(q)
  BY <1>1, <1>2, <1>4, <1>9
<1>11. QueueIsWindow' /\ OnlyOverflowLoses'
  BY <1>5, <1>7, <1>8, <1>9, <1>10 DEF QueueIsWindow, OnlyOverflowLoses
<1> QED
  BY <1>3, <1>5, <1>6, <1>8, <1>11

\* The two parts of the queue invariant are preserved by every step.
LEMMA QueueInvariant == Spec => []QueueInv
<1>1. Init => QueueInv
  <2> SUFFICES ASSUME Init PROVE QueueInv
    OBVIOUS
  <2>1. packets = <<>> /\ received = 0 /\ lastRead = 0
    BY DEF Init
  <2>2. Len(packets) = 0 /\ packets \in Seq(Nat)
    BY <2>1
  <2>3. QueueTypeOK
    BY <2>1, <2>2, CapacityAssumption DEF QueueTypeOK
  <2>4. QueueIsWindow
    BY <2>1, <2>2 DEF QueueIsWindow
  <2>5. OnlyOverflowLoses
    <3>1. received = 0 /\ lastRead = 0 /\ Len(packets) = 0
      BY <2>1, <2>2
    <3> QED
      BY <3>1 DEF OnlyOverflowLoses
  <2> QED
    BY <2>3, <2>4, <2>5 DEF QueueInv
<1>2. TypeOK' /\ QueueInv /\ [Next]_vars => QueueInv'
  <2> SUFFICES ASSUME TypeOK', QueueInv, [Next]_vars PROVE QueueInv'
    OBVIOUS
  <2>1. QueueTypeOK'
    BY DEF TypeOK
  <2>2. CASE UNCHANGED queueVars
    BY <2>2 DEF QueueInv, QueueTypeOK, QueueIsWindow, OnlyOverflowLoses, queueVars
  <2>3. CASE QueueFrame
    BY <2>1, <2>3, QueueFrameStep DEF QueueInv
  <2>4. CASE Pop
    BY <2>1, <2>4, PopStep DEF QueueInv
  <2> QED
    BY <2>2, <2>3, <2>4, QueueUsers
<1> QED
  BY <1>1, <1>2, TypeCorrect, PTL DEF Spec

\* The queue always holds the newest frames, each once, in order and unread.
THEOREM QueueKeepsWindow == Spec => []QueueIsWindow
<1>1. QueueInv => QueueIsWindow
  BY DEF QueueInv
<1> QED
  BY <1>1, QueueInvariant, PTL

\* A frame is dropped only by push() on a full queue.
THEOREM DropsOnlyWhenFull == Spec => []OnlyOverflowLoses
<1>1. QueueInv => OnlyOverflowLoses
  BY DEF QueueInv
<1> QED
  BY <1>1, QueueInvariant, PTL

\* A step that changes lastRead is a Pop, and the window tells what it reads.
LEMMA ReadStep ==
    ASSUME QueueInv, [Next]_vars, lastRead' # lastRead
    PROVE  /\ lastRead' > lastRead
           /\ received - lastRead <= MAX_PACKETS_SIZE => lastRead' = lastRead + 1
<1>1. Pop
  BY QueueUsers DEF queueVars, QueueFrame
<1>2. lastRead' = (received - Len(packets)) + 1
  BY <1>1, PopStep
<1>3. /\ Len(packets) \in Nat /\ received \in Nat /\ lastRead \in Nat
      /\ MAX_PACKETS_SIZE \in Nat
      /\ lastRead <= received - Len(packets)
      /\ lastRead = received - Len(packets) \/ Len(packets) = MAX_PACKETS_SIZE
  BY LenProperties, CapacityAssumption
  DEF QueueInv, QueueTypeOK, QueueIsWindow, OnlyOverflowLoses
<1> QED
  BY <1>2, <1>3

\* Frames are read in order, and one is skipped only after an overflow.
THEOREM FramesReadInOrder == Spec => ReadsInOrder
<1>1. QueueInv /\ [Next]_vars =>
        [lastRead' # lastRead =>
           /\ lastRead' > lastRead
           /\ received - lastRead <= MAX_PACKETS_SIZE => lastRead' = lastRead + 1]_vars
  BY ReadStep
<1> QED
  BY <1>1, QueueInvariant, PTL DEF Spec, ReadsInOrder

\* Every step of the link is a step of the drop-oldest mailbox or leaves it
\* as it is: queueing a frame is Arrive, readPacket() is Take.
THEOREM MailboxRefined == Spec => ImplementsFrameWindow
<1>1. Init => Mailbox!Init
  <2> SUFFICES ASSUME Init PROVE Mailbox!Init
    OBVIOUS
  <2>1. packets = <<>> /\ received = 0 /\ lastRead = 0
    BY DEF Init
  <2>2. received = 0 /\ Len(packets) = 0
    BY <2>1
  <2>3. received - Len(packets) = 0
    BY <2>2
  <2> QED
    BY <2>1, <2>3 DEF Mailbox!Init
<1>2. QueueInv /\ [Next]_vars => [Mailbox!Next]_(Mailbox!wvars)
  <2> SUFFICES ASSUME QueueInv, [Next]_vars PROVE [Mailbox!Next]_(Mailbox!wvars)
    OBVIOUS
  <2>1. Len(packets) \in Nat /\ received \in Nat
    BY LenProperties DEF QueueInv, QueueTypeOK
  <2>2. CASE UNCHANGED queueVars
    BY <2>2 DEF queueVars, Mailbox!wvars
  <2>3. CASE QueueFrame
    <3>1. Len(packets) >= MAX_PACKETS_SIZE <=> received - (received - Len(packets)) >= MAX_PACKETS_SIZE
      BY <2>1
    <3> QED
      BY <2>3, <3>1, QueueFrameStep DEF Mailbox!Next, Mailbox!Arrive
  <2>4. CASE Pop
    <3>1. Len(packets) > 0 => received - Len(packets) < received
      BY <2>1
    <3> QED
      BY <2>4, <3>1, PopStep DEF Mailbox!Next, Mailbox!Take
  <2> QED
    BY <2>2, <2>3, <2>4, QueueUsers
<1> QED
  BY <1>1, <1>2, QueueInvariant, PTL DEF Spec, ImplementsFrameWindow, Mailbox!Spec
=============================================================================
