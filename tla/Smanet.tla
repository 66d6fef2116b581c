------------------------------- MODULE Smanet -------------------------------
(***************************************************************************)
(* The framing layer of pvlib (src/src/smanet.cpp): write() turns a        *)
(* message into an HDLC frame, read() finds one frame in the fragments     *)
(* that the connection delivers and keeps the rest in read_buf for the     *)
(* next call.  One action is one iteration of the loop of read(); the call *)
(* of con->read() inside an iteration is an action of its own.             *)
(*                                                                         *)
(* The peer and the connection are external: the peer frames its messages  *)
(* as write() does; the connection cuts the stream of bytes anywhere, may  *)
(* lose a fragment, deliver nothing in time (0) or fail (-1).              *)
(*                                                                         *)
(* A byte is its value.  The four header bytes are one byte here, and so   *)
(* are the two of the checksum, which is ideal: it accepts the content of  *)
(* frames that were sent and nothing else.                                 *)
(***************************************************************************)
EXTENDS Integers, SequencesExt

CONSTANTS
    Fcs,            \* checksum byte of each payload
    BUF_SIZE,       \* size of read_buf, and the largest value of `size`
    FRAME_SIZE,     \* size of the buffer for the frame that is read
    MinFragment,    \* fewest bytes in one fragment
    MaxFragment,    \* bound: bytes in one fragment
    MaxSent,        \* bound: messages the peer sends
    MaxDamages,     \* bound: fragments lost and frames cut by a timeout
    LinkFails       \* con->read() may return -1; bound: once

ASSUME SizeAssumption ==
    /\ BUF_SIZE \in Nat \ {0, 1} /\ FRAME_SIZE \in Nat
    /\ MaxFragment \in Nat \ {0} /\ MinFragment \in 1 .. MaxFragment

ASSUME BoundAssumption ==
    MaxSent \in Nat /\ MaxDamages \in Nat /\ LinkFails \in BOOLEAN

VARIABLES
    read_buf,   \* bytes left over from the last con->read(), from index 0
    size,       \* uint8_t: how many of them are valid
    pc,         \* "idle", at the "top" of an iteration, or at its "switch"
    pos,        \* next byte of read_buf, local to read()
    buf,        \* the frame read so far, local to read(); i is its length
    ret,        \* what the last call of read() returned
    failed,     \* con->read() failed: "now" (the last call), "before", "never"
    stream,     \* bytes on their way
    sent,       \* messages sent
    out,        \* messages read() returned
    damages     \* fragments lost or truncated, frames cut, checksums that break one

callVars == <<pc, pos, buf, ret, failed>>
bufferVars == <<read_buf, size>>
peerVars == <<sent, damages>>
vars == <<read_buf, size, pc, pos, buf, ret, failed, stream, sent, out, damages>>

HDLC_ESC == 125
HDLC_SYNC == 126

Payload == DOMAIN Fcs

\* b ^ 0x20
Flip(b) == IF (b \div 32) % 2 = 1 THEN b - 32 ELSE b + 32

\* The characters the peer asked for by the ACCM, and the two of the framing.
Escaped(b) == b \in 17 .. 19 \cup {HDLC_ESC, HDLC_SYNC}

addHdlc(data) ==
    FlattenSeq([i \in 1 .. Len(data) |->
        IF Escaped(data[i]) THEN <<HDLC_ESC, Flip(data[i])>> ELSE <<data[i]>>])

\* The header, address and protocol: no byte of it needs an escape.
Header == <<255>>

\* write(): header and checksum are sent as they are, only data is escaped.
Framed(data) ==
    <<HDLC_SYNC>> \o Header \o addHdlc(data) \o <<Fcs[data]>> \o <<HDLC_SYNC>>

\* Messages and checksums are made of bytes.
ASSUME ByteAssumption ==
    \A p \in Payload : p \in Seq(0 .. 255) /\ Fcs[p] \in 0 .. 255

\* The message of a frame that validateFrame() accepts.
Messages(frame) == {p \in Payload : frame = Header \o p \o <<Fcs[p]>>}

\* Mutant: `size` is an int.
ToSize_Int(n) == n

\* Storing an int in `size`, a uint8_t whose largest value is BUF_SIZE.
ToSize(n) == n % (BUF_SIZE + 1)

Init ==
    /\ read_buf \in {[k \in 0 .. BUF_SIZE - 1 |-> 0]}
    /\ size = 0
    /\ pc = "idle" /\ pos = 0 /\ buf = <<>>
    /\ ret = "none" /\ failed = "never"
    /\ stream = <<>>
    /\ sent = <<>> /\ out = <<>>
    /\ damages = 0

-----------------------------------------------------------------------------
(* The peer and the connection: external.                                  *)

\* A checksum byte that needs an escape breaks its own frame.
Send(p) ==
    /\ Len(sent) < MaxSent
    /\ sent' = Append(sent, p)
    /\ stream' = stream \o Framed(p)
    /\ damages' = IF Escaped(Fcs[p]) THEN damages + 1 ELSE damages
    /\ UNCHANGED <<callVars, bufferVars, out>>

Lose(n) ==
    /\ damages < MaxDamages
    /\ n <= Len(stream)
    /\ stream' = SubSeq(stream, n + 1, Len(stream))
    /\ damages' = damages + 1
    /\ UNCHANGED <<callVars, bufferVars, sent, out>>

-----------------------------------------------------------------------------
(* read().                                                                 *)

Call ==
    /\ pc = "idle"
    /\ pc' = "top" /\ pos' = 0 /\ buf' = <<>>
    /\ failed' = IF failed = "now" THEN "before" ELSE failed
    /\ UNCHANGED <<ret, bufferVars, stream, peerVars, out>>

Return(value) == pc' = "idle" /\ pos' = 0 /\ buf' = <<>> /\ ret' = value

\* Mutant: the loop runs once more than the frame has room.
Room_OneMore == Len(buf) <= FRAME_SIZE

\* The condition of the loop.
Room == Len(buf) < FRAME_SIZE

\* Mutant: the last byte is kept back only when read_buf is full.
LastByte_OfFull == pos + 1 = size /\ size = BUF_SIZE /\ read_buf[pos] # HDLC_SYNC

\* The last byte is kept back, because it could be a HDLC_ESC.
LastByte == pos + 1 = size /\ read_buf[pos] # HDLC_SYNC
Empty == pos >= size

\* The bytes con->read() stores from index `at` on.
Stored(at, bytes) ==
    [k \in 0 .. BUF_SIZE - 1 |->
        CASE k < at -> read_buf[size - 1]
          [] k \in at .. at + Len(bytes) - 1 -> bytes[k - at + 1]
          [] OTHER -> read_buf[k]]

\* con->read() returns a fragment of n bytes, or what of it fits into read_buf:
\* Smabluetooth::read() drops the rest, which breaks the frame.
Fill(n) ==
    /\ pc = "top" /\ Room
    /\ Empty \/ LastByte
    /\ n <= Len(stream)
    /\ LET at == IF Empty THEN 0 ELSE 1
           kept == Min({n, BUF_SIZE - at})
       IN  /\ read_buf' = Stored(at, SubSeq(stream, 1, kept))
           /\ size' = ToSize(at + kept)
           /\ damages' = IF kept < n THEN damages + 1 ELSE damages
    /\ stream' = SubSeq(stream, n + 1, Len(stream))
    /\ pos' = 0 /\ pc' = "switch"
    /\ UNCHANGED <<buf, ret, failed, sent, out>>

\* A timeout that breaks the frame: what was read of it is forgotten, or the
\* byte kept back is an escape and the one after it is a stale one.
CutsFrame == IF Empty THEN buf # <<>> ELSE read_buf[pos] = HDLC_ESC

\* con->read() returns 0.  With a byte kept back the loop goes on with that
\* byte, else read() returns 0.
FillTimeout ==
    /\ pc = "top" /\ Room
    /\ Empty \/ LastByte
    /\ CutsFrame => damages < MaxDamages
    /\ damages' = IF CutsFrame THEN damages + 1 ELSE damages
    /\ IF Empty
         THEN /\ size' = 0 /\ UNCHANGED read_buf
              /\ Return("timeout")
         ELSE /\ size' = 1 /\ read_buf' = Stored(1, <<>>)
              /\ pos' = 0 /\ pc' = "switch"
              /\ UNCHANGED <<buf, ret>>
    /\ UNCHANGED <<failed, stream, sent, out>>

\* con->read() returns -1: `size < 0` is never true of a uint8_t.  The buffer
\* counts as full, or, with a byte kept back, as empty.
FillFails ==
    /\ LinkFails /\ failed = "never"
    /\ pc = "top" /\ Room
    /\ Empty \/ LastByte
    /\ failed' = "now"
    /\ IF Empty
         THEN /\ size' = ToSize(-1) /\ UNCHANGED read_buf
              /\ pos' = 0 /\ pc' = "switch"
              /\ UNCHANGED <<buf, ret>>
         ELSE /\ size' = ToSize(ToSize(-1) + 1) /\ read_buf' = Stored(1, <<>>)
              /\ Return("timeout")
    /\ UNCHANGED <<stream, peerVars, out>>

\* An iteration is at its switch, with read_buf[pos] at hand.
AtSwitch ==
    \/ pc = "switch"
    \/ pc = "top" /\ Room /\ ~Empty /\ ~LastByte

Escape ==
    /\ AtSwitch
    /\ read_buf[pos] = HDLC_ESC
    /\ buf' = Append(buf, Flip(read_buf[pos + 1]))
    /\ pos' = pos + 2 /\ pc' = "top"
    /\ UNCHANGED <<ret, failed, bufferVars, stream, peerVars, out>>

Plain ==
    /\ AtSwitch
    /\ read_buf[pos] \notin {HDLC_ESC, HDLC_SYNC}
    /\ buf' = Append(buf, read_buf[pos])
    /\ pos' = pos + 1 /\ pc' = "top"
    /\ UNCHANGED <<ret, failed, bufferVars, stream, peerVars, out>>

\* All HDLC_SYNC before a frame are removed: empty frames are allowed.
SkipSync ==
    /\ AtSwitch
    /\ read_buf[pos] = HDLC_SYNC /\ buf = <<>>
    /\ \E k \in pos + 1 .. size :
          /\ \A j \in pos .. k - 1 : read_buf[j] = HDLC_SYNC
          /\ k < size => read_buf[k] # HDLC_SYNC
          /\ pos' = k
    /\ pc' = "top"
    /\ UNCHANGED <<buf, ret, failed, bufferVars, stream, peerVars, out>>

\* memmove() of what follows the frame to the front of read_buf.
Moved == [k \in 0 .. BUF_SIZE - 1 |-> IF k < size - pos THEN read_buf[k + pos] ELSE read_buf[k]]

\* Mutant: the frame stays in read_buf.
EndSync_Keep ==
    /\ AtSwitch
    /\ read_buf[pos] = HDLC_SYNC /\ buf # <<>>
    /\ IF Messages(buf) = {}
         THEN Return("error") /\ UNCHANGED out
         ELSE Return("frame") /\ \E p \in Messages(buf) : out' = Append(out, p)
    /\ UNCHANGED <<failed, bufferVars, stream, peerVars>>

\* The HDLC_SYNC that ends the frame stays in read_buf.
EndSync ==
    /\ AtSwitch
    /\ read_buf[pos] = HDLC_SYNC /\ buf # <<>>
    /\ size' = size - pos
    /\ read_buf' = Moved
    /\ IF Messages(buf) = {}
         THEN Return("error") /\ UNCHANGED out
         ELSE Return("frame") /\ \E p \in Messages(buf) : out' = Append(out, p)
    /\ UNCHANGED <<failed, stream, peerVars>>

\* "frame to big": what was read of read_buf is not removed from it.
TooBig ==
    /\ pc = "top"
    /\ ~Room
    /\ Return("error")
    /\ UNCHANGED <<failed, bufferVars, stream, peerVars, out>>

read ==
    \/ \E n \in MinFragment .. MaxFragment : Fill(n)
    \/ FillTimeout \/ FillFails
    \/ Escape \/ Plain \/ SkipSync \/ EndSync \/ TooBig

Next ==
    \/ Call \/ read
    \/ \E p \in Payload : Send(p)
    \/ \E n \in 1 .. MaxFragment : Lose(n)

Spec == Init /\ [][Next]_vars

-----------------------------------------------------------------------------
(* Properties.                                                             *)

\* Every variable has its type.
TypeOK ==
    /\ read_buf \in [0 .. BUF_SIZE - 1 -> 0 .. 255]
    /\ size \in 0 .. BUF_SIZE
    /\ pc \in {"idle", "top", "switch"}
    /\ pos \in 0 .. BUF_SIZE
    /\ buf \in Seq(0 .. 255)
    /\ ret \in {"none", "frame", "timeout", "error"}
    /\ failed \in {"never", "now", "before"}
    /\ stream \in Seq(0 .. 255)
    /\ sent \in Seq(Payload) /\ out \in Seq(Payload)
    /\ damages \in Nat

\* No access leaves a buffer: not that of the next byte of read_buf, not that of
\* the byte after an escape, also when a failed con->read() made `size` the
\* largest value of its type, and the frame does not outgrow its buffer.
WithinBuffers ==
    /\ AtSwitch => pos < BUF_SIZE /\ (read_buf[pos] = HDLC_ESC => pos + 1 < BUF_SIZE)
    /\ Len(buf) <= FRAME_SIZE

\* The messages read() returned are messages that were sent, in that order
\* and none twice, whatever was lost, cut or skipped in between: restarting
\* at index 0 of read_buf never reads a frame again, as long as con->read()
\* does not fail.
NothingTwice ==
    failed = "never" => \E taken \in SUBSET (1 .. Len(sent)) :
        out = [k \in 1 .. Cardinality(taken) |->
                  sent[CHOOSE m \in taken :
                          Cardinality({j \in taken : j <= m}) = k]]

\* All that was sent has been looked at, and read() is waiting for more.
Drained == pc = "idle" /\ ret = "timeout" /\ stream = <<>> /\ size = 0

\* read() finds its way back into the stream: a fragment lost or truncated, a
\* frame cut by a timeout or broken by its checksum costs at most two
\* messages, and with none of them, however the stream is cut into fragments,
\* every message arrives.  (A fragment has two bytes at least.)
LossIsLocal ==
    Drained /\ failed = "never" => Len(sent) - Len(out) <= 2 * damages

\* "add last byte to new buffer, because it could be a HDLC_ESC"
\* (smanet.cpp:137): wherever a fragment ends, the byte an escape is combined
\* with is one that was received, not a stale one of read_buf, as long as no
\* timeout and no loss came between the two.
EscapeIsPaired ==
    damages = 0 /\ failed = "never" /\ AtSwitch /\ read_buf[pos] = HDLC_ESC => pos + 1 < size

\* "@return amount of bytes read on success, else < 0." (smanet.h:77): a call
\* during which the connection failed does not return a message.
FailureIsReported == pc = "idle" /\ failed = "now" => ret # "frame"
=============================================================================
