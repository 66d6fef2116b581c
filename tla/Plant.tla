------------------------------- MODULE Plant -------------------------------
(***************************************************************************)
(* A plant handle of pvlib (src/src/pvlib.cpp) with what it owns: the      *)
(* RFCOMM connection (src/src/rfcomm.cpp) and the bluetooth link of        *)
(* Smabluetooth, whose receive thread reads from that connection.  The     *)
(* application opens, connects, disconnects and closes the plant, in any   *)
(* order the interface allows; between the calls it writes and reads.      *)
(*                                                                         *)
(* The session of connect() with the inverters (Smadata2plus) is a series  *)
(* of writes and reads that ends well or fails.  A descriptor is named by  *)
(* the connect() that opened it, not by its number.                        *)
(***************************************************************************)
EXTENDS Smabluetooth, FiniteSets

CONSTANT MaxConnects    \* bound: calls of Rfcomm::connect() that succeed

ASSUME MaxConnectsAssumption == MaxConnects \in Nat

VARIABLES
    plant,      \* "none", "open" or "closed"
    call,       \* the pvlib function the application is in
    connected,  \* Rfcomm::connected
    socket,     \* Rfcomm::socket
    open        \* descriptors that Rfcomm has open

handleVars == <<plant, call>>
rfcommVars == <<connected, socket, open>>
plantVars == <<vars, plant, call, connected, socket, open>>

PlantInit ==
    /\ Init
    /\ plant = "none"
    /\ call = "none"
    /\ connected = FALSE
    /\ socket = 0
    /\ open = {}

\* The application may call: the plant is open and no call is running.
MayCall == plant = "open" /\ call = "none" /\ apc = "idle"

-----------------------------------------------------------------------------
(* Rfcomm.                                                                 *)

\* Rfcomm::disconnect(): `connected` and `socket` keep their values.
RfcommDisconnect == open' = IF connected THEN open \ {socket} ELSE open

\* The descriptor of the local adapter, and the one of the socket that
\* Rfcomm::connect() is about to connect: the two values of its local `s`.
ADAPTER == -1
NewSocket == socket + 1

\* No route to a local adapter.
RfcommFails ==
    /\ call = "opening"
    /\ call' = "none"
    /\ UNCHANGED <<vars, plant, rfcommVars>>

\* hci_open_dev().  Its failure goes unnoticed, the member `socket` is tested
\* in the place of `s`: the next use of the descriptor fails.
OpenAdapter ==
    /\ call = "opening"
    /\ call' = "adapter"
    /\ open' \in {open, open \cup {ADAPTER}}
    /\ UNCHANGED <<vars, plant, connected, socket>>

\* Mutant: the error path of the queries does not close.
AdapterFails_Keep ==
    /\ call = "adapter"
    /\ call' = "none"
    /\ UNCHANGED <<vars, plant, rfcommVars>>

\* An address that does not parse, no local name or address, no remote name.
AdapterFails ==
    /\ call = "adapter"
    /\ call' = "none"
    /\ open' = open \ {ADAPTER}
    /\ UNCHANGED <<vars, plant, connected, socket>>

\* The queries are answered, close(s), and ::socket(), which may fail.
OpenSocket ==
    /\ call = "adapter" /\ ADAPTER \in open
    /\ \/ call' = "none" /\ open' = open \ {ADAPTER}
       \/ call' = "connecting" /\ open' = (open \ {ADAPTER}) \cup {NewSocket}
    /\ UNCHANGED <<vars, plant, connected, socket>>

\* The remote cannot be connected.  As after every other error the members are
\* what they were.
SocketFails ==
    /\ call = "connecting"
    /\ call' = "none"
    /\ open' = open \ {NewSocket}
    /\ UNCHANGED <<vars, plant, connected, socket>>

\* ::connect() succeeded; Smabluetooth::connect() begins with disconnect().
RfcommOpens ==
    /\ call = "connecting"
    /\ socket < MaxConnects
    /\ socket' = NewSocket
    /\ connected' = TRUE
    /\ call' = "linking"
    /\ Disconnect("connect")
    /\ UNCHANGED <<plant, open>>

-----------------------------------------------------------------------------
(* pvlib.                                                                  *)

pvlib_open ==
    /\ plant = "none"
    /\ plant' = "open"
    /\ UNCHANGED <<vars, call, rfcommVars>>

\* Rfcomm::connect() up to the disconnect() of an earlier connection.
pvlib_connect ==
    /\ MayCall
    /\ call' = "opening"
    /\ RfcommDisconnect
    /\ UNCHANGED <<vars, plant, connected, socket>>

\* Smabluetooth::connect() returned: the session begins, or the socket is closed.
LinkReturns ==
    /\ call = "linking" /\ apc = "idle"
    /\ IF state = "NOT_CONNECTED"
         THEN call' = "none" /\ RfcommDisconnect
         ELSE call' = "session" /\ UNCHANGED open
    /\ UNCHANGED <<vars, plant, connected, socket>>

\* The session is established, or it fails and the socket is closed under the
\* receive thread.
SessionReturns ==
    /\ call = "session" /\ apc = "idle"
    /\ UNCHANGED open \/ RfcommDisconnect
    /\ call' = "none"
    /\ UNCHANGED <<vars, plant, connected, socket>>

\* Reads and writes of the session and of the requests.
Transfer ==
    /\ MayCall \/ (call = "session" /\ apc = "idle")
    /\ Call("send") \/ ReadPacket
    /\ UNCHANGED <<handleVars, rfcommVars>>

\* protocol->disconnect(), and then con->disconnect().
pvlib_disconnect ==
    /\ MayCall
    /\ Disconnect("disconnect")
    /\ call' = "disconnect"
    /\ UNCHANGED <<plant, rfcommVars>>

Disconnected ==
    /\ call = "disconnect" /\ apc = "idle"
    /\ RfcommDisconnect
    /\ call' = "none"
    /\ UNCHANGED <<vars, plant, connected, socket>>

\* delete protocol joins the receive thread, then delete con closes the socket.
pvlib_close ==
    /\ MayCall
    /\ Disconnect("destroy")
    /\ call' = "close"
    /\ UNCHANGED <<plant, rfcommVars>>

\* Mutant: the connection is deleted first.
Closed_Early ==
    /\ call = "close"
    /\ RfcommDisconnect
    /\ plant' = "closed" /\ call' = "none"
    /\ UNCHANGED <<vars, connected, socket>>

Closed ==
    /\ call = "close" /\ apc = "destroyed"
    /\ RfcommDisconnect
    /\ plant' = "closed" /\ call' = "none"
    /\ UNCHANGED <<vars, connected, socket>>

-----------------------------------------------------------------------------

\* A step of the link; nothing is received from a socket that is closed.  An
\* exception of join() ends the program.
LinkStep ==
    /\ apc # "aborted"
    /\ worker_thread \/ AppStep \/ SpuriousWake
    /\ wpc = "read" /\ wpc' = "handle" => socket \in open
    /\ UNCHANGED <<handleVars, rfcommVars>>

PlantNext ==
    \/ pvlib_open \/ pvlib_connect \/ pvlib_disconnect \/ pvlib_close
    \/ RfcommFails \/ OpenAdapter \/ AdapterFails \/ OpenSocket \/ SocketFails \/ RfcommOpens
    \/ LinkReturns \/ SessionReturns
    \/ Transfer \/ Disconnected \/ Closed
    \/ LinkStep

PlantSpec == PlantInit /\ [][PlantNext]_plantVars

-----------------------------------------------------------------------------
(* Properties.                                                             *)

\* pvlib_close() deletes the protocol before the connection: when the
\* connection is gone no receive thread is left that would read from it.
ConnectionOutlivesWorker ==
    plant = "closed" => wpc = "stopped" /\ thread = "none"

\* The descriptor in the local `s` of Rfcomm::connect(), while it runs.
Local ==
    CASE call = "adapter" -> {ADAPTER}
      [] call = "connecting" -> {NewSocket}
      [] OTHER -> {}

\* However connecting failed, no descriptor of the failed call is left open:
\* one at most is, besides the one Rfcomm::connect() is working with, it is the
\* socket the connection knows, and none is left when the plant is closed.
NoSocketLeak ==
    /\ open \subseteq {socket} \cup Local
    /\ plant = "closed" => open = {}
=============================================================================
