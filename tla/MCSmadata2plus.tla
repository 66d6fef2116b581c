--------------------------- MODULE MCSmadata2plus ---------------------------
(***************************************************************************)
(* Small instances of Smadata2plus: two or three inverters, a counter of   *)
(* few values that wraps, and few retries.                                 *)
(***************************************************************************)
EXTENDS Smadata2plus

CONSTANTS s1, s2, s3

MCPair == {s1, s2}
MCPlant == {s1, s2, s3}

\* len = 0 of cmd 0x05 gives -1, which Smabluetooth does not refuse.
MCDeviceNums == {-1, 1, 2}
=============================================================================
