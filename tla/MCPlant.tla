------------------------------ MODULE MCPlant ------------------------------
(***************************************************************************)
(* A small instance of Plant: one address, two connections.                *)
(***************************************************************************)
EXTENDS Plant

CONSTANT m1

MCMac == {m1}
=============================================================================
