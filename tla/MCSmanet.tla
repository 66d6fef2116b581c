------------------------------ MODULE MCSmanet ------------------------------
(***************************************************************************)
(* Small instances of Smanet: payloads with and without bytes to escape,   *)
(* checksums that are plain and that are a HDLC_ESC or a HDLC_SYNC.        *)
(***************************************************************************)
EXTENDS Smanet

\* A plain message, one that ends in a byte to escape, and one whose checksum
\* is a HDLC_ESC.
MCFcs == (<<1>> :> 33) @@ (<<HDLC_ESC>> :> 34) @@ (<<2>> :> HDLC_ESC)

MCPlainFcs == (<<1>> :> 33) @@ (<<HDLC_SYNC>> :> 34)
=============================================================================
