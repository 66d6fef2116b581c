---------------------------- MODULE Plant_proofs ----------------------------
(***************************************************************************)
(* Proofs about a plant handle, for every set of addresses, every capacity *)
(* of the queue and every number of connections.                           *)
(***************************************************************************)
EXTENDS Plant, Smabluetooth_proofs

\* Rfcomm::connect() is running.
Connecting == call \in {"opening", "adapter", "connecting"}

\* What the calls of pvlib keep between them: a socket that is open is the one
\* Rfcomm::connected speaks of, none but the local descriptor is open while a
\* new one is asked for, and a plant is closed only after the destructor of the
\* link.
PlantInv ==
    /\ ~Connecting => open \subseteq {socket} /\ (open # {} => connected)
    /\ Connecting => open \subseteq Local
    /\ plant = "closed" => apc = "destroyed" /\ call = "none" /\ open = {}

\* After Rfcomm::disconnect() no socket is open, whether `connected` was stale
\* or not.
LEMMA DisconnectCloses ==
    ASSUME PlantInv, ~Connecting, RfcommDisconnect
    PROVE  open' = {}
  BY DEF PlantInv, RfcommDisconnect

\* The link does not leave its destructor again.
LEMMA DestroyedStays ==
    ASSUME apc = "destroyed", worker_thread \/ AppStep \/ SpuriousWake
    PROVE  apc' = "destroyed"
<1>1. CASE worker_thread
  BY <1>1
  DEF worker_thread, packet_event, TestQuit, ReadNothing, ReadFails, ReadFrame, SkipFrame,
      QueueFrame, cmd_02, cmd_0A, cmd_05, cmd_04, UnknownFrame, AnswerHello,
      StartHandshake, Notify, WorkerFails, appVars
<1>2. CASE AppStep \/ SpuriousWake
  BY <1>2
  DEF AppStep, SpuriousWake, Join, StartWorker, ConnectCheck, ConnectTimeout, ConnectFails,
      Wake, WaitTimeout, ForgetSignal, AskSignal, SignalCheck, write, ReadCheck, WaitPc
<1> QED
  BY <1>1, <1>2

\* What a plant does to its link is what the link does: pvlib calls it as any
\* application may, so whatever holds of Smabluetooth holds inside a plant.
THEOREM PlantDrivesLink == PlantSpec => Spec
<1>1. PlantInit => Init
  BY DEF PlantInit
<1>2. [PlantNext]_plantVars => [Next]_vars
  <2> SUFFICES ASSUME PlantNext PROVE [Next]_vars
    BY DEF plantVars, vars
  <2>1. CASE pvlib_open \/ pvlib_connect \/ RfcommFails \/ LinkReturns \/ SessionReturns
    BY <2>1 DEF pvlib_open, pvlib_connect, RfcommFails, LinkReturns, SessionReturns
  <2>6. CASE OpenAdapter \/ AdapterFails \/ OpenSocket \/ SocketFails
    BY <2>6 DEF OpenAdapter, AdapterFails, OpenSocket, SocketFails
  <2>2. CASE Disconnected \/ Closed
    BY <2>2 DEF Disconnected, Closed
  <2>3. CASE RfcommOpens \/ pvlib_disconnect \/ pvlib_close
    BY <2>3 DEF RfcommOpens, pvlib_disconnect, pvlib_close, Next, ApiCall, Caller
  <2>4. CASE Transfer
    BY <2>4 DEF Transfer, Next, ApiCall
  <2>5. CASE LinkStep
    BY <2>5 DEF LinkStep, Next
  <2> QED
    BY <2>1, <2>2, <2>3, <2>4, <2>5, <2>6 DEF PlantNext
<1> QED
  BY <1>1, <1>2, PTL DEF PlantSpec, Spec

\* The invariant of the handle is preserved by every call and by every step of
\* the link.
LEMMA PlantInvariant == PlantSpec => []PlantInv
<1>1. PlantInit => PlantInv
  BY DEF PlantInit, PlantInv
<1>2. PlantInv /\ [PlantNext]_plantVars => PlantInv'
  <2> SUFFICES ASSUME PlantInv, [PlantNext]_plantVars PROVE PlantInv'
    OBVIOUS
  <2> USE DEF PlantInv, Connecting, Local, NewSocket, handleVars, rfcommVars, MayCall
  <2>0. ASSUME UNCHANGED vars PROVE UNCHANGED apc
    BY <2>0 DEF vars, appVars
  <2>1. CASE pvlib_open BY <2>0, <2>1 DEF pvlib_open
  <2>2. CASE pvlib_connect BY <2>0, <2>2, DisconnectCloses DEF pvlib_connect
  <2>3. CASE RfcommFails BY <2>0, <2>3 DEF RfcommFails
  <2>4. CASE RfcommOpens
    <3>1. /\ open' \subseteq {NewSocket} /\ socket' = NewSocket /\ connected' = TRUE
          /\ call' = "linking" /\ plant' = plant /\ plant # "closed"
      BY <2>4 DEF RfcommOpens
    <3> QED
      BY <3>1
  <2>5. CASE LinkReturns BY <2>0, <2>5, DisconnectCloses DEF LinkReturns
  <2>6. CASE SessionReturns BY <2>0, <2>6, DisconnectCloses DEF SessionReturns
  <2>7. CASE Transfer BY <2>7 DEF Transfer
  <2>8. CASE pvlib_disconnect BY <2>8 DEF pvlib_disconnect
  <2>9. CASE Disconnected BY <2>0, <2>9, DisconnectCloses DEF Disconnected
  <2>10. CASE pvlib_close BY <2>10 DEF pvlib_close
  <2>11. CASE Closed BY <2>0, <2>11, DisconnectCloses DEF Closed
  <2>12. CASE LinkStep BY <2>12, DestroyedStays DEF LinkStep
  <2>13. CASE UNCHANGED plantVars BY <2>0, <2>13 DEF plantVars, NewSocket
  <2>14. CASE OpenAdapter BY <2>0, <2>14 DEF OpenAdapter
  <2>15. CASE AdapterFails BY <2>0, <2>15 DEF AdapterFails
  <2>16. CASE OpenSocket BY <2>0, <2>16 DEF OpenSocket, NewSocket
  <2>17. CASE SocketFails BY <2>0, <2>17 DEF SocketFails
  <2> QED
    BY <2>1, <2>2, <2>3, <2>4, <2>5, <2>6, <2>7, <2>8, <2>9, <2>10, <2>11, <2>12, <2>13,
       <2>14, <2>15, <2>16, <2>17
    DEF PlantNext
<1> QED
  BY <1>1, <1>2, PTL DEF PlantSpec

\* Whatever failed before, no descriptor is leaked: a connect() that fails
\* closes what it opened, pvlib_close() leaves nothing open and a new connection
\* never hides an old one.
THEOREM SocketsClosed == PlantSpec => []NoSocketLeak
<1>1. PlantInv => NoSocketLeak
  BY DEF PlantInv, Connecting, NoSocketLeak
<1> QED
  BY <1>1, PlantInvariant, PTL

\* When pvlib_close() has deleted the connection, the receive thread that read
\* from it has ended and was joined.
THEOREM WorkerEndsFirst == PlantSpec => []ConnectionOutlivesWorker
<1>1. PlantInv /\ LinkInv => ConnectionOutlivesWorker
  BY DEF PlantInv, LinkInv, NoLeakedWorker, ConnectionOutlivesWorker
<1> QED
  BY <1>1, PlantInvariant, PlantDrivesLink, LinkSafe, PTL
=============================================================================
