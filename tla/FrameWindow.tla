---------------------------- MODULE FrameWindow ----------------------------
(***************************************************************************)
(* What the mailbox between the bluetooth receive thread and readPacket()  *)
(* promises: data frames are numbered in the order they arrive, at most    *)
(* Capacity of them wait, a frame that finds the mailbox full pushes out   *)
(* the oldest one, and the reader always takes the oldest that waits.      *)
(* Nothing is reordered, duplicated or invented.                           *)
(***************************************************************************)
EXTENDS Naturals

CONSTANT Capacity    \* a positive number

VARIABLES
    hi,     \* number of the newest frame that arrived
    lo,     \* number of the newest frame that was taken or pushed out
    last    \* number of the frame the reader took last

wvars == <<hi, lo, last>>

Init == hi = 0 /\ lo = 0 /\ last = 0

Arrive ==
    /\ hi' = hi + 1
    /\ lo' = IF hi - lo >= Capacity THEN lo + 1 ELSE lo
    /\ UNCHANGED last

Take ==
    /\ lo < hi
    /\ lo' = lo + 1
    /\ last' = lo + 1
    /\ UNCHANGED hi

Next == Arrive \/ Take

Spec == Init /\ [][Next]_wvars
=============================================================================
