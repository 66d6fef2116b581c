---------------------------- MODULE Smabluetooth ----------------------------
(***************************************************************************)
(* The bluetooth link of pvlib (src/src/smabluetooth.cpp): one application *)
(* thread that calls connect, disconnect, write, read, getSignalStrength   *)
(* and the destructor, and one receive thread (worker_thread) that each    *)
(* connect starts.  They share the members of Smabluetooth under `mutex`,  *)
(* the condition variable `event` and the flag `quit`.                     *)
(*                                                                         *)
(* A critical section that does not block is one action.  connect() is the *)
(* only caller that blocks inside one: it joins the receive thread with    *)
(* the mutex held (pc "lockedJoin").  Frames come from the network: every  *)
(* header and body the devices can send is a choice of ReadFrame.  When    *)
(* the body of a frame times out the code goes on with the bytes of the    *)
(* previous body; what the code decides from those bytes is in the same    *)
(* set of choices.                                                         *)
(***************************************************************************)
EXTENDS Integers, Sequences

CONSTANTS
    Mac,                \* addresses of bluetooth devices
    NullMac,            \* MAC_NULL, also the value of `mac` before cmd 0x0A
    Broadcast,          \* MAC_BROADCAST
    DeviceCounts,       \* len / 8 - 1 of the cmd 0x05 frames that arrive
    MAX_PACKETS_SIZE,   \* capacity of `packets`
    MaxData             \* bound: data frames that arrive in one behaviour

ASSUME MacAssumption == NullMac \notin Mac /\ Broadcast \notin Mac
ASSUME DeviceCountsAssumption == DeviceCounts \subseteq Int
ASSUME CapacityAssumption == MAX_PACKETS_SIZE \in Nat \ {0}
ASSUME MaxDataAssumption == MaxData \in Nat

VARIABLES
    state,          \* State, of the handshake
    mac,            \* our address, told by cmd 0x0A
    num_devices,    \* size of the network, told by cmd 0x05
    signal,         \* the EVENT_SIGNAL_STRENGTH bit of `events`
    packets,        \* the queue of data frames, each its arrival number
    quit,           \* asks the receive thread to stop
    thread,         \* the std::thread member: "none" or "joinable"
    told,           \* history: what frames have told since the last thread started
    wpc,            \* where the receive thread is
    frame,          \* `packet` of the receive thread, while it is handled
    apc,            \* where the application thread is
    caller,         \* who runs disconnect()
    notified,       \* a notify_all reached the waiting application thread
    received,       \* number of data frames queued so far
    lastRead        \* number of the frame readPacket() returned last

linkVars == <<state, mac, num_devices, signal>>
queueVars == <<packets, received, lastRead>>
threadVars == <<quit, thread, told>>
appVars == <<apc, caller>>
workerVars == <<wpc, frame>>
vars == <<state, mac, num_devices, signal, packets, quit, thread, told, wpc,
          frame, apc, caller, notified, received, lastRead>>

State == {"ERROR", "NOT_CONNECTED", "START", "MAC", "DEVICE_LIST", "CONNECTED"}

Handshaking == {"START", "MAC", "DEVICE_LIST"}

Destination == Mac \cup {NullMac, Broadcast}

\* A frame as the handlers tell them apart.  `valid` stands for the test of
\* the length (and, for an answer to the signal query, of its first byte).
\* The six bytes cmd 0x0A takes for our address are not tested: they may be
\* zeros, or what the body of an earlier frame left in the buffer.
Frame ==
         [cmd : {"02", "04"}, dst : Destination, valid : BOOLEAN]
    \cup [cmd : {"0A"}, dst : Destination, valid : BOOLEAN, own : Destination]
    \cup [cmd : {"05"}, dst : Destination, valid : BOOLEAN, num : DeviceCounts]
    \cup [cmd : {"data", "unknown"}, dst : Destination]

NoFrame == [cmd |-> "none"]

WorkerPc == {"stopped", "loop", "read", "handle", "answer", "start", "notify", "failed"}

WaitPc == {"connWait", "sigWait", "readWait"}

ConnectPc == {"check", "connWait", "lockedJoin"}

AppPc == {"idle", "join", "start", "signal", "ask", "sigCheck", "send",
          "readCheck", "aborted", "destroyed"} \cup ConnectPc \cup WaitPc

Caller == {"connect", "disconnect", "destroy"}

Init ==
    /\ state = "NOT_CONNECTED"
    /\ mac = NullMac
    /\ num_devices = 0
    /\ signal = FALSE
    /\ packets = <<>>
    /\ quit \in BOOLEAN            \* the constructor leaves it uninitialised
    /\ thread = "none"
    /\ told = {}
    /\ wpc = "stopped"
    /\ frame = NoFrame
    /\ apc = "idle"
    /\ caller = "disconnect"
    /\ notified = FALSE
    /\ received = 0
    /\ lastRead = 0

MutexFree == apc # "lockedJoin"

-----------------------------------------------------------------------------
(* The receive thread.                                                     *)

ForUs(f) == f.dst \in {mac, NullMac, Broadcast}

\* Mutant: the thread does not look at quit.
TestQuit_Forever ==
    /\ wpc = "loop"
    /\ wpc' = "read"
    /\ UNCHANGED <<linkVars, queueVars, threadVars, appVars, frame, notified>>

\* while (!quit.load())
TestQuit ==
    /\ wpc = "loop"
    /\ wpc' = IF quit THEN "stopped" ELSE "read"
    /\ UNCHANGED <<linkVars, queueVars, threadVars, appVars, frame, notified>>

\* con->read() returns 0: nothing came within its timeout.
ReadNothing ==
    /\ wpc = "read"
    /\ wpc' = "loop"
    /\ UNCHANGED <<linkVars, queueVars, threadVars, appVars, frame, notified>>

\* A read error, a header that does not parse, a header or body cut short.
ReadFails ==
    /\ wpc = "read"
    /\ wpc' = "failed"
    /\ UNCHANGED <<linkVars, queueVars, threadVars, appVars, frame, notified>>

\* Only this thread writes mac, so the destination is compared without lock.
ReadFrame(f) ==
    /\ wpc = "read"
    /\ ForUs(f)
    /\ f.cmd = "data" => received < MaxData
    /\ wpc' = "handle"
    /\ frame' = f
    /\ UNCHANGED <<linkVars, queueVars, threadVars, appVars, notified>>

SkipFrame(f) ==
    /\ wpc = "read"
    /\ ~ForUs(f)
    /\ wpc' = "loop"
    /\ UNCHANGED <<linkVars, queueVars, threadVars, appVars, frame, notified>>

\* The frame in hand is dealt with; the receive thread goes on at `pc`.
Handled(pc) == wpc' = pc /\ frame' = NoFrame

\* Mutant: the capacity is off by one.
Pushed_OneTooMany(n) ==
    Append(IF Len(packets) > MAX_PACKETS_SIZE THEN Tail(packets) ELSE packets, n)

\* Mutant: a full queue loses its newest frame.
Pushed_DropNewest(n) ==
    Append(IF Len(packets) >= MAX_PACKETS_SIZE
             THEN SubSeq(packets, 1, Len(packets) - 1) ELSE packets, n)

\* Mutant: a frame is dropped before the queue is full.
Pushed_DropEarly(n) ==
    Append(IF Len(packets) >= MAX_PACKETS_SIZE - 1 /\ packets # <<>>
             THEN Tail(packets) ELSE packets, n)

\* The queue with one more frame, the oldest dropped when it is full.
Pushed(n) ==
    Append(IF Len(packets) >= MAX_PACKETS_SIZE THEN Tail(packets) ELSE packets, n)

\* Mutant: nobody is told of the frame.
QueueFrame_Silent ==
    /\ wpc = "handle" /\ frame.cmd = "data"
    /\ MutexFree
    /\ received' = received + 1
    /\ packets' = Pushed(received + 1)
    /\ Handled("loop")
    /\ UNCHANGED <<linkVars, threadVars, appVars, notified, lastRead>>

QueueFrame ==
    /\ wpc = "handle" /\ frame.cmd = "data"
    /\ MutexFree
    /\ received' = received + 1
    /\ packets' = Pushed(received + 1)
    /\ Handled("notify")
    /\ UNCHANGED <<linkVars, threadVars, appVars, notified, lastRead>>

UnknownFrame ==
    /\ wpc = "handle" /\ frame.cmd = "unknown"
    /\ Handled("loop")
    /\ UNCHANGED <<linkVars, queueVars, threadVars, appVars, notified>>

\* Mutant: every hello is answered.
cmd_02_AnyState ==
    /\ wpc = "handle" /\ frame.cmd = "02"
    /\ MutexFree
    /\ Handled(IF frame.valid THEN "answer" ELSE "failed")
    /\ UNCHANGED <<linkVars, queueVars, threadVars, appVars, notified>>

\* The hello of the partner, up to the unlock before it is answered.
cmd_02 ==
    /\ wpc = "handle" /\ frame.cmd = "02"
    /\ IF ~frame.valid
         THEN Handled("failed")
         ELSE /\ MutexFree
              /\ Handled(IF state # "NOT_CONNECTED" THEN "loop" ELSE "answer")
    /\ UNCHANGED <<linkVars, queueVars, threadVars, appVars, notified>>

\* writePacket(&answer), with no lock held.
AnswerHello ==
    /\ wpc = "answer"
    /\ wpc' \in {"start", "failed"}
    /\ UNCHANGED <<linkVars, queueVars, threadVars, appVars, frame, notified>>

StartHandshake ==
    /\ wpc = "start"
    /\ MutexFree
    /\ state' = "START"
    /\ wpc' = "notify"
    /\ UNCHANGED <<mac, num_devices, signal, queueVars, threadVars, appVars, frame, notified>>

\* Mutant: the address is taken in any state.
cmd_0A_AnyState ==
    /\ wpc = "handle" /\ frame.cmd = "0A"
    /\ MutexFree
    /\ IF frame.valid THEN mac' = frame.own /\ state' = "MAC" ELSE UNCHANGED <<mac, state>>
    /\ Handled("loop")
    /\ UNCHANGED <<num_devices, signal, queueVars, threadVars, appVars, notified>>

\* Our own address; nobody is notified.
cmd_0A ==
    /\ wpc = "handle" /\ frame.cmd = "0A"
    /\ frame.valid => MutexFree
    /\ IF frame.valid /\ state = "START"
         THEN mac' = frame.own /\ state' = "MAC" /\ told' = told \cup {"mac"}
         ELSE UNCHANGED <<mac, state, told>>
    /\ Handled("loop")
    /\ UNCHANGED <<num_devices, signal, queueVars, quit, thread, appVars, notified>>

\* Mutant: the list of devices is taken before our own address.
cmd_05_AnyState ==
    /\ wpc = "handle" /\ frame.cmd = "05"
    /\ MutexFree
    /\ IF frame.valid /\ frame.num # 0 /\ state # "CONNECTED"
         THEN /\ num_devices' = frame.num
              /\ state' = "DEVICE_LIST"
              /\ told' = told \cup {"num"}
              /\ Handled("notify")
         ELSE Handled("loop") /\ UNCHANGED <<num_devices, state, told>>
    /\ UNCHANGED <<mac, signal, queueVars, quit, thread, appVars, notified>>

\* The devices of the network: an empty list is refused before the state is
\* looked at.
cmd_05 ==
    /\ wpc = "handle" /\ frame.cmd = "05"
    /\ IF ~frame.valid \/ frame.num = 0
         THEN Handled("failed") /\ UNCHANGED <<num_devices, state, told>>
         ELSE /\ MutexFree
              /\ IF state = "MAC"
                   THEN /\ num_devices' = frame.num
                        /\ state' = "DEVICE_LIST"
                        /\ told' = told \cup {"num"}
                        /\ Handled("notify")
                   ELSE Handled("loop") /\ UNCHANGED <<num_devices, state, told>>
    /\ UNCHANGED <<mac, signal, queueVars, quit, thread, appVars, notified>>

\* The answer to a signal query.
cmd_04 ==
    /\ wpc = "handle" /\ frame.cmd = "04"
    /\ IF ~frame.valid
         THEN Handled("loop") /\ UNCHANGED signal
         ELSE MutexFree /\ signal' = TRUE /\ Handled("notify")
    /\ UNCHANGED <<state, mac, num_devices, queueVars, threadVars, appVars, notified>>

\* event.notify_all(), after the mutex was released.
Notify ==
    /\ wpc = "notify"
    /\ notified' = (apc \in WaitPc)
    /\ wpc' = "loop"
    /\ UNCHANGED <<linkVars, queueVars, threadVars, appVars, frame>>

\* The label `error`: the state is set and nobody is notified.
WorkerFails ==
    /\ wpc = "failed"
    /\ MutexFree
    /\ state' = "ERROR"
    /\ wpc' = "stopped"
    /\ UNCHANGED <<mac, num_devices, signal, queueVars, threadVars, appVars, frame, notified>>

packet_event == cmd_02 \/ cmd_0A \/ cmd_05 \/ cmd_04 \/ UnknownFrame

worker_thread ==
    \/ TestQuit \/ ReadNothing \/ ReadFails
    \/ \E f \in Frame : ReadFrame(f) \/ SkipFrame(f)
    \/ QueueFrame \/ packet_event
    \/ AnswerHello \/ StartHandshake \/ Notify \/ WorkerFails

-----------------------------------------------------------------------------
(* The application thread.                                                 *)

GoTo(pc) == apc' = pc /\ notified' = FALSE

\* Where the caller of disconnect() goes on.
AfterDisconnect(who) ==
    CASE who = "connect" -> "start"
      [] who = "disconnect" -> "idle"
      [] who = "destroy" -> "destroyed"

\* The entry of disconnect(), called by the application, by connect() or by
\* the destructor.  thread.join() on a thread that is not joinable throws.
Disconnect(who) ==
    /\ apc = "idle"
    /\ caller' = who
    /\ IF state = "NOT_CONNECTED"
         THEN GoTo(AfterDisconnect(who)) /\ UNCHANGED quit
         ELSE /\ quit' = TRUE
              /\ GoTo(IF thread = "joinable" THEN "join" ELSE "aborted")
    /\ UNCHANGED <<linkVars, queueVars, workerVars, thread, told>>

\* join() returned.  The assignment that follows it in disconnect() is to a
\* local variable: the member `state` keeps its value.
Join ==
    /\ apc = "join"
    /\ wpc = "stopped"
    /\ thread' = "none"
    /\ GoTo(AfterDisconnect(caller))
    /\ UNCHANGED <<linkVars, queueVars, workerVars, quit, told, caller>>

StartWorker ==
    /\ apc = "start"
    /\ quit' = FALSE
    /\ thread' = "joinable"
    /\ told' = {}
    /\ wpc' = "loop"
    /\ GoTo("check")
    /\ UNCHANGED <<linkVars, queueVars, frame, caller>>

\* The loop of connect(): from the test of its condition to the wait.
ConnectCheck ==
    /\ apc = "check"
    /\ \/ /\ state = "DEVICE_LIST"
          /\ state' = "CONNECTED"
          /\ GoTo("signal")
          /\ UNCHANGED quit
       \/ /\ state = "ERROR"
          /\ quit' = TRUE
          /\ GoTo("lockedJoin")
          /\ UNCHANGED state
       \/ /\ state \notin {"DEVICE_LIST", "ERROR"}
          /\ GoTo("connWait")
          /\ UNCHANGED <<state, quit>>
    /\ UNCHANGED <<mac, num_devices, signal, queueVars, workerVars, thread, told, caller>>

\* Mutant: connect() gives up and leaves its thread behind.
ConnectTimeout_Leak ==
    /\ apc = "connWait"
    /\ state' = "NOT_CONNECTED"
    /\ GoTo("idle")
    /\ UNCHANGED <<mac, num_devices, signal, queueVars, workerVars, threadVars, caller>>

\* Five seconds without a notification.  The condition is not looked at again.
ConnectTimeout ==
    /\ apc = "connWait"
    /\ quit' = TRUE
    /\ GoTo("lockedJoin")
    /\ UNCHANGED <<linkVars, queueVars, workerVars, thread, told, caller>>

\* Mutant: the state is reset before the thread is gone.
ConnectFails_NoJoin ==
    /\ apc = "lockedJoin"
    /\ state' = "NOT_CONNECTED"
    /\ GoTo("idle")
    /\ UNCHANGED <<mac, num_devices, signal, queueVars, workerVars, threadVars, caller>>

\* thread.join() under the mutex, then return -1.
ConnectFails ==
    /\ apc = "lockedJoin"
    /\ wpc = "stopped"
    /\ thread' = "none"
    /\ state' = "NOT_CONNECTED"
    /\ GoTo("idle")
    /\ UNCHANGED <<mac, num_devices, signal, queueVars, workerVars, quit, told, caller>>

\* A wait_for() that returns no_timeout goes back to its loop's condition.
LoopOf(pc) ==
    CASE pc = "connWait" -> "check"
      [] pc = "sigWait" -> "sigCheck"
      [] pc = "readWait" -> "readCheck"

Wake ==
    /\ apc \in WaitPc
    /\ notified
    /\ GoTo(LoopOf(apc))
    /\ UNCHANGED <<linkVars, queueVars, threadVars, workerVars, caller>>

SpuriousWake ==
    /\ apc \in WaitPc
    /\ ~notified
    /\ GoTo(LoopOf(apc))
    /\ UNCHANGED <<linkVars, queueVars, threadVars, workerVars, caller>>

\* Mutant: readPacket() waits without a limit.
WaitTimeout_SignalOnly ==
    /\ apc = "sigWait"
    /\ GoTo("idle")
    /\ UNCHANGED <<linkVars, queueVars, threadVars, workerVars, caller>>

\* readPacket() and getSignalStrength() give up after five seconds without a
\* notification, whatever came meanwhile.
WaitTimeout ==
    /\ apc \in {"sigWait", "readWait"}
    /\ GoTo("idle")
    /\ UNCHANGED <<linkVars, queueVars, threadVars, workerVars, caller>>

Call(pc) ==
    /\ apc = "idle"
    /\ GoTo(pc)
    /\ UNCHANGED <<linkVars, queueVars, threadVars, workerVars, caller>>

\* getSignalStrength(): forget an earlier answer, unless not connected.
ForgetSignal ==
    /\ apc = "signal"
    /\ IF state = "CONNECTED"
         THEN signal' = FALSE /\ GoTo("ask")
         ELSE UNCHANGED signal /\ GoTo("idle")
    /\ UNCHANGED <<state, mac, num_devices, queueVars, threadVars, workerVars, caller>>

\* writePacket() of the query, with no lock held; it may fail.
AskSignal ==
    /\ apc = "ask"
    /\ GoTo("sigCheck") \/ GoTo("idle")
    /\ UNCHANGED <<linkVars, queueVars, threadVars, workerVars, caller>>

SignalCheck ==
    /\ apc = "sigCheck"
    /\ IF signal THEN GoTo("idle") ELSE GoTo("sigWait")
    /\ signal' = FALSE
    /\ UNCHANGED <<state, mac, num_devices, queueVars, threadVars, workerVars, caller>>

\* write(): the state is not looked at.
write ==
    /\ apc = "send"
    /\ GoTo("idle")
    /\ UNCHANGED <<linkVars, queueVars, threadVars, workerVars, caller>>

\* The entry of readPacket(): the state is looked at once, before the loop.
ReadPacket ==
    /\ apc = "idle"
    /\ state = "CONNECTED"
    /\ GoTo("readCheck")
    /\ UNCHANGED <<linkVars, queueVars, threadVars, workerVars, caller>>

\* Mutant: the newest frame is read first.
ReadCheck_Back ==
    /\ apc = "readCheck"
    /\ IF packets = <<>>
         THEN GoTo("readWait") /\ UNCHANGED <<packets, lastRead>>
         ELSE /\ lastRead' = packets[Len(packets)]
              /\ packets' = SubSeq(packets, 1, Len(packets) - 1)
              /\ GoTo("idle")
    /\ UNCHANGED <<linkVars, received, threadVars, workerVars, caller>>

\* Mutant: the frame is read and stays in the queue.
ReadCheck_NoPop ==
    /\ apc = "readCheck"
    /\ IF packets = <<>>
         THEN GoTo("readWait") /\ UNCHANGED lastRead
         ELSE lastRead' = Head(packets) /\ GoTo("idle")
    /\ UNCHANGED <<linkVars, packets, received, threadVars, workerVars, caller>>

ReadCheck ==
    /\ apc = "readCheck"
    /\ IF packets = <<>>
         THEN GoTo("readWait") /\ UNCHANGED <<packets, lastRead>>
         ELSE /\ lastRead' = Head(packets)
              /\ packets' = Tail(packets)
              /\ GoTo("idle")
    /\ UNCHANGED <<linkVars, received, threadVars, workerVars, caller>>

\* What the code calls, and what the application thread does by itself.
ApiCall ==
    \/ \E who \in Caller : Disconnect(who)
    \/ Call("signal")
    \/ Call("send")
    \/ ReadPacket

AppStep ==
    \/ Join \/ StartWorker
    \/ ConnectCheck \/ ConnectTimeout \/ ConnectFails
    \/ Wake \/ WaitTimeout
    \/ ForgetSignal \/ AskSignal \/ SignalCheck
    \/ write \/ ReadCheck

Next == worker_thread \/ ApiCall \/ AppStep \/ SpuriousWake

Spec == Init /\ [][Next]_vars

\* con->read() and con->write() return and a timed wait ends: both threads
\* keep running.  Nothing forces the application to call.
FairSpec == Spec /\ WF_vars(worker_thread) /\ WF_vars(AppStep)

-----------------------------------------------------------------------------
(* Properties.                                                             *)

QueueTypeOK ==
    /\ packets \in Seq(Nat) /\ Len(packets) <= MAX_PACKETS_SIZE
    /\ received \in Nat
    /\ lastRead \in Nat

\* Every variable has its type, and `packets` never outgrows MAX_PACKETS_SIZE.
TypeOK ==
    /\ state \in State
    /\ mac \in Destination
    /\ num_devices \in DeviceCounts \cup {0}
    /\ signal \in BOOLEAN
    /\ QueueTypeOK
    /\ quit \in BOOLEAN
    /\ thread \in {"none", "joinable"}
    /\ told \in SUBSET {"mac", "num"}
    /\ wpc \in WorkerPc
    /\ frame \in Frame \cup {NoFrame}
    /\ wpc = "handle" => frame \in Frame
    /\ apc \in AppPc
    /\ caller \in Caller
    /\ notified \in BOOLEAN

\* cmd_02 tests the state, unlocks, answers and only then sets STATE_START:
\* what it tested still holds, so an answered hello never overwrites the state
\* of an established or failed connection.
HelloStillUnconnected ==
    wpc \in {"answer", "start"} => state = "NOT_CONNECTED" /\ apc \in ConnectPc

\* The handshake only moves while the application is inside connect(): a late
\* frame of the handshake never pulls a connection out of STATE_CONNECTED.
HandshakeWithinConnect ==
    state \in Handshaking => apc \in ConnectPc

\* Outside connect(), STATE_NOT_CONNECTED means that no receive thread is
\* left: disconnect() and the destructor return at once in that state.  Nor is
\* one left when connect() starts the next or after the destructor: assigning
\* to a std::thread that is still joinable, or destroying it, would end the
\* program.
NoLeakedWorker ==
    /\ wpc # "stopped" => thread = "joinable"
    /\ \/ apc \in {"start", "destroyed"}
       \/ state = "NOT_CONNECTED" /\ apc \notin ConnectPc
       => thread = "none"

\* writePacket() uses `mac` and the connection without a lock.  The two
\* threads never do so at once, and the receive thread never stores a new
\* address under a write of the application ("no lock required for sma->mac,
\* only we(this thread) change it", smabluetooth.cpp:251, is about the
\* receive thread's own reads only).
NoAddressRace ==
    apc \in {"ask", "send"} =>
        /\ wpc \notin {"answer", "start"}
        /\ ~(wpc = "handle" /\ frame.cmd = "0A" /\ state = "START")

\* Who waits for something that has happened was notified, or is about to be.
\* A failure of the link is the exception: the label `error` notifies nobody.
NoLostWakeup ==
    \/ notified
    \/ wpc = "notify"
    \/ /\ apc = "connWait" => state # "DEVICE_LIST"
       /\ apc = "sigWait" => ~signal
       /\ apc = "readWait" => packets = <<>>

\* disconnect() and a connect() that fails leave `mac` and `num_devices` as
\* they are.  A connection never goes on with what an earlier one left there:
\* the handshake only gets to a state, and connect() only to STATE_CONNECTED,
\* with what the receive thread of this very connect() was told, our address
\* before the size of the network.
HandshakeIsComplete ==
    /\ state \in {"MAC", "DEVICE_LIST"} => "mac" \in told
    /\ state = "DEVICE_LIST" => "num" \in told
    /\ state = "CONNECTED" /\ apc \notin ConnectPc => {"mac", "num"} \subseteq told

\* What holds of the handshake and the two threads, together: none of the
\* four parts is preserved by every step on its own.
LinkInv ==
    /\ HelloStillUnconnected
    /\ HandshakeWithinConnect
    /\ NoLeakedWorker
    /\ HandshakeIsComplete

\* The queue holds the newest frames, each once, in the order of arrival, and
\* none of them was read before.
QueueIsWindow ==
    /\ Len(packets) <= received
    /\ \A i \in 1 .. Len(packets) : packets[i] = received - Len(packets) + i
    /\ lastRead <= received - Len(packets)

\* The frames before the queue are all read, or the queue is full: a frame is
\* lost only to MAX_PACKETS_SIZE newer ones.
OnlyOverflowLoses ==
    lastRead = received - Len(packets) \/ Len(packets) = MAX_PACKETS_SIZE

\* readPacket() returns frames in the order they came in, and skips one only
\* if more than MAX_PACKETS_SIZE came since the last one it returned.
ReadsInOrder ==
    [][lastRead' # lastRead =>
         /\ lastRead' > lastRead
         /\ received - lastRead <= MAX_PACKETS_SIZE => lastRead' = lastRead + 1]_vars

\* The mailbox the queue implements.
Mailbox == INSTANCE FrameWindow WITH
    Capacity <- MAX_PACKETS_SIZE,
    hi <- received,
    lo <- received - Len(packets),
    last <- lastRead

\* The queue and its two users implement the drop-oldest mailbox.
ImplementsFrameWindow == Mailbox!Spec

\* From some time on no frame for us arrives and no wait ends without cause.
QuietLink == <>[][~SpuriousWake /\ ~\E f \in Frame : ReadFrame(f)]_vars

\* The receive thread cannot go on without the mutex.
NeedsMutex ==
    \/ wpc \in {"start", "failed"}
    \/ /\ wpc = "handle"
       /\ frame.cmd # "unknown"
       /\ frame.cmd # "data" => frame.valid
       /\ frame.cmd = "05" => frame.num # 0

\* connect() waits with the mutex for a thread that waits for the mutex.
JoinDeadlock == apc = "lockedJoin" /\ NeedsMutex

\* The application is not inside a call.
Resting == apc \in {"idle", "aborted", "destroyed"}

\* On a link that falls silent every call returns, one case excepted: the
\* deadlock of a connect() that gives up.  (While frames or spurious
\* wakeups keep coming, each restarts the five seconds of wait_for.)
QuietCallsReturn == QuietLink => (~Resting ~> (Resting \/ JoinDeadlock))

\* disconnect() that asked the receive thread to stop returns, whatever
\* frames still come.
DisconnectReturns == apc = "join" ~> apc # "join"

\* "@return < 0 if error occurs, else > 0." (smabluetooth.h:107): a connect()
\* that found an error or a timeout returns.
GivenUpConnectReturns == apc = "lockedJoin" ~> apc # "lockedJoin"

\* "Close connection to plant or string inverter." (pvlib.h:301),
\* "Disconnect." (smabluetooth.h:112): disconnecting, closing and connecting
\* again are legal in any order, none of them ends the program.
CallsAreLegalInAnyOrder == apc # "aborted"
=============================================================================
