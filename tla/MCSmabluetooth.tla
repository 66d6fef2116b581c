--------------------------- MODULE MCSmabluetooth ---------------------------
(***************************************************************************)
(* Small instances of Smabluetooth: two addresses, the device counts on    *)
(* both sides of the one that is refused, a queue of two frames.           *)
(***************************************************************************)
EXTENDS Smabluetooth

CONSTANTS m1, m2

MCMac == {m1, m2}

\* len = 0, 8 and 16 of cmd 0x05: -1, 0 and 1 devices.
MCDeviceCounts == {-1, 0, 1}
=============================================================================
