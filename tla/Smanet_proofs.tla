---------------------------- MODULE Smanet_proofs ----------------------------
(***************************************************************************)
(* Proofs about the buffers of the framing layer, for every size of        *)
(* read_buf (two bytes at least) and of the frame, every set of messages   *)
(* and every cut of the stream, failures of the connection included.       *)
(***************************************************************************)
EXTENDS Smanet, Sequence_lemmas

Byte == 0 .. 255

\* What WithinBuffers rests on: right after con->read() there is a byte, and it
\* is looked at from the begin of read_buf.
BufferInv ==
    /\ TypeOK
    /\ Len(buf) <= FRAME_SIZE
    /\ pc = "switch" => pos = 0 /\ size > 0 /\ Room

-----------------------------------------------------------------------------
(* Lemmas about the operators.                                             *)

\* The constants are numbers, and a fragment is not empty.
LEMMA Sizes ==
    /\ BUF_SIZE \in Nat /\ BUF_SIZE > 1 /\ FRAME_SIZE \in Nat
    /\ MinFragment \in Nat /\ MinFragment > 0 /\ MaxFragment \in Nat
  BY SizeAssumption

\* `size` is never more than read_buf holds, whatever is stored in it.
LEMMA SizeFits == ASSUME NEW n \in Int PROVE ToSize(n) \in 0 .. BUF_SIZE
  BY Sizes DEF ToSize

\* And what fits is stored as it is.
LEMMA SizeKept == ASSUME NEW n \in 0 .. BUF_SIZE PROVE ToSize(n) = n
  BY Sizes DEF ToSize

\* The smaller of two numbers.
LEMMA MinOfTwo ==
    ASSUME NEW a \in Int, NEW b \in Int
    PROVE  Min({a, b}) \in {a, b} /\ Min({a, b}) <= a /\ Min({a, b}) <= b
<1>1. \E x \in {a, b} : \A y \in {a, b} : x <= y
  <2>1. CASE a <= b BY <2>1
  <2>2. CASE b <= a BY <2>2
  <2> QED BY <2>1, <2>2
<1>2. Min({a, b}) \in {a, b} /\ \A y \in {a, b} : Min({a, b}) <= y
  BY <1>1 DEF Min
<1> QED
  BY <1>2

\* Escaping a byte gives a byte.
LEMMA FlipByte == ASSUME NEW b \in Byte PROVE Flip(b) \in Byte
<1>1. b \in Int /\ 0 <= b /\ b <= 255
  BY DEF Byte
<1>2. CASE (b \div 32) % 2 = 1
  BY <1>1, <1>2 DEF Flip, Byte
<1>3. CASE (b \div 32) % 2 # 1
  <2>1. b <= 223
    BY <1>1, <1>3
  <2> QED
    BY <1>1, <1>3, <2>1 DEF Flip, Byte
<1> QED
  BY <1>2, <1>3

\* Escaping twice gives the byte back.
LEMMA FlipTwice == ASSUME NEW b, Escaped(b) PROVE Flip(Flip(b)) = b
  BY DEF Escaped, Flip, HDLC_ESC, HDLC_SYNC

\* How addHdlc() sends a byte.
Code(b) == IF Escaped(b) THEN <<HDLC_ESC, Flip(b)>> ELSE <<b>>

\* One byte or two, they are bytes.
LEMMA CodeBytes == ASSUME NEW b \in Byte PROVE Code(b) \in Seq(Byte)
<1>1. HDLC_ESC \in Byte
  BY DEF HDLC_ESC, Byte
<1>2. Flip(b) \in Byte
  BY FlipByte
<1> QED
  BY <1>1, <1>2 DEF Code

\* addHdlc() appends the code of byte after byte.
LEMMA AddHdlcByPrefix ==
    ASSUME NEW p \in Seq(Byte)
    PROVE  \E f : /\ f[0] = <<>> /\ addHdlc(p) = f[Len(p)]
                  /\ \A i \in 1 .. Len(p) : f[i] = f[i - 1] \o Code(p[i])
<1> DEFINE codes == [i \in 1 .. Len(p) |-> Code(p[i])]
<1>1. addHdlc(p) = FlattenSeq(codes)
  BY DEF addHdlc, Code
<1>2. Len(p) \in Nat /\ \A i \in 1 .. Len(p) : p[i] \in Byte
  BY LenProperties, ElementOfSeq
<1>3. /\ codes \in Seq(Seq(Byte)) /\ Len(codes) = Len(p)
      /\ \A i \in 1 .. Len(p) : codes[i] = Code(p[i])
  <2>1. \A i \in 1 .. Len(p) : Code(p[i]) \in Seq(Byte)
    BY <1>2, CodeBytes
  <2> QED
    BY <1>2, <2>1, IsASeq
<1> HIDE DEF codes
<1>4. CASE Len(p) = 0
  <2>1. codes = <<>> /\ FlattenSeq(codes) = codes
    BY <1>3, <1>4, EmptySeq DEF FlattenSeq
  <2> DEFINE f == [i \in {0} |-> <<>>]
  <2>2. f[0] = <<>> /\ addHdlc(p) = f[Len(p)]
    BY <1>1, <1>4, <2>1
  <2> HIDE DEF f
  <2> QED
    BY <1>4, <2>2
<1>5. CASE Len(p) # 0
  <2>1. PICK g : /\ g[1] = codes[1] /\ FlattenSeq(codes) = g[Len(codes)]
                 /\ \A i \in 2 .. Len(codes) : g[i] = g[i - 1] \o codes[i]
    BY <1>2, <1>3, <1>5, FlattenSeqByPrefix
  <2> DEFINE f == [i \in 0 .. Len(p) |-> IF i = 0 THEN <<>> ELSE g[i]]
  <2>2. f[0] = <<>> /\ addHdlc(p) = f[Len(p)]
    BY <1>1, <1>2, <1>3, <1>5, <2>1
  <2>3. ASSUME NEW i \in 1 .. Len(p) PROVE f[i] = f[i - 1] \o Code(p[i])
    <3>1. CASE i = 1
      <4>1. f[i] = Code(p[1]) /\ f[i - 1] = <<>>
        BY <1>2, <1>3, <2>1, <3>1
      <4>2. Code(p[1]) \in Seq(Byte)
        BY <1>2, <3>1, CodeBytes
      <4> HIDE DEF f
      <4> QED
        BY <3>1, <4>1, <4>2, ConcatEmptySeq
    <3>2. CASE i # 1
      <4>1. i \in 2 .. Len(p) /\ f[i] = g[i] /\ f[i - 1] = g[i - 1]
        BY <1>2, <3>2
      <4> HIDE DEF f
      <4> QED
        BY <1>3, <2>1, <4>1
    <3> QED
      BY <3>1, <3>2
  <2> HIDE DEF f
  <2> QED
    BY <2>2, <2>3
<1> QED
  BY <1>4, <1>5

\* A frame is made of bytes.
LEMMA FramesAreBytes ==
    ASSUME NEW p \in Payload PROVE addHdlc(p) \in Seq(Byte) /\ Framed(p) \in Seq(Byte)
<1>1. p \in Seq(Byte) /\ Fcs[p] \in Byte /\ Len(p) \in Nat /\ \A i \in 1 .. Len(p) : p[i] \in Byte
  BY ByteAssumption, LenProperties, ElementOfSeq DEF Byte
<1>2. PICK f : /\ f[0] = <<>> /\ addHdlc(p) = f[Len(p)]
               /\ \A i \in 1 .. Len(p) : f[i] = f[i - 1] \o Code(p[i])
  BY <1>1, AddHdlcByPrefix
<1> DEFINE S == {i \in 0 .. Len(p) : f[i] \in Seq(Byte)}
<1>3. addHdlc(p) \in Seq(Byte)
  <2>1. 0 \in S
    <3>1. <<>> \in Seq(Byte) /\ 0 \in 0 .. Len(p)
      BY <1>1
    <3> QED
      BY <1>2, <3>1
  <2>2. ASSUME NEW n \in 0 .. Len(p) - 1, n \in S PROVE n + 1 \in S
    <3>1. n + 1 \in 1 .. Len(p) /\ (n + 1) - 1 = n /\ f[n] \in Seq(Byte)
      BY <1>1, <2>2
    <3>2. f[n + 1] = f[n] \o Code(p[n + 1])
      BY <1>2, <3>1
    <3>3. Code(p[n + 1]) \in Seq(Byte)
      BY <1>1, <3>1, CodeBytes
    <3>4. f[n + 1] \in Seq(Byte)
      BY <3>1, <3>2, <3>3, ConcatProperties
    <3> QED
      BY <1>1, <3>1, <3>4
  <2>3. 0 .. Len(p) \subseteq S
    <3> HIDE DEF S
    <3> QED
      BY <1>1, <2>1, <2>2, UpToBySteps
  <2> QED
    BY <1>1, <1>2, <2>3
<1>4. <<HDLC_SYNC>> \in Seq(Byte) /\ Header \in Seq(Byte) /\ <<Fcs[p]>> \in Seq(Byte)
  BY <1>1 DEF HDLC_SYNC, Header, Byte
<1> QED
  BY <1>3, <1>4, ConcatProperties DEF Framed

\* A part of the stream is a sequence of bytes.
LEMMA PartOfStream ==
    ASSUME NEW s \in Seq(Byte), NEW m \in 1 .. Len(s) + 1, NEW n \in Int, n <= Len(s)
    PROVE  /\ SubSeq(s, m, n) \in Seq(Byte)
           /\ Len(SubSeq(s, m, n)) = IF m <= n THEN n - m + 1 ELSE 0
<1>1. Len(s) \in Nat /\ \A i \in 1 .. Len(s) : s[i] \in Byte
  BY LenProperties, ElementOfSeq
<1>2. m \in Int /\ \A i \in m .. n : s[i] \in Byte
  BY <1>1
<1> QED
  BY <1>2, SubSeqProperties

\* Storing bytes keeps read_buf an array of bytes; a byte is only kept back if
\* there is one.
LEMMA StoredBytes ==
    ASSUME TypeOK, NEW at \in {0, 1}, at = 1 => size > 0, NEW bytes \in Seq(Byte)
    PROVE  Stored(at, bytes) \in [0 .. BUF_SIZE - 1 -> Byte]
<1> DEFINE q(k) == CASE k < at -> read_buf[size - 1]
                     [] k \in at .. at + Len(bytes) - 1 -> bytes[k - at + 1]
                     [] OTHER -> read_buf[k]
<1>1. /\ read_buf \in [0 .. BUF_SIZE - 1 -> Byte] /\ size \in 0 .. BUF_SIZE
      /\ Len(bytes) \in Nat /\ \A i \in 1 .. Len(bytes) : bytes[i] \in Byte
  BY LenProperties, ElementOfSeq DEF TypeOK, Byte
<1>2. ASSUME NEW k \in 0 .. BUF_SIZE - 1 PROVE q(k) \in Byte
  <2>1. CASE k < at
    <3>1. size - 1 \in 0 .. BUF_SIZE - 1
      BY <1>1, <2>1, Sizes
    <3> QED
      BY <1>1, <2>1, <3>1
  <2>2. CASE ~(k < at) /\ k \in at .. at + Len(bytes) - 1
    <3>1. k - at + 1 \in 1 .. Len(bytes)
      BY <1>1, <2>2
    <3> QED
      BY <1>1, <2>2, <3>1
  <2>3. CASE ~(k < at) /\ k \notin at .. at + Len(bytes) - 1
    BY <1>1, <2>3
  <2> QED
    BY <2>1, <2>2, <2>3
<1>3. Stored(at, bytes) = [k \in 0 .. BUF_SIZE - 1 |-> q(k)]
  BY DEF Stored
<1> HIDE DEF q
<1> QED
  BY <1>2, <1>3

-----------------------------------------------------------------------------
(* The invariant.                                                          *)

\* An iteration at its switch has a byte at hand, and the byte after an escape
\* is one of read_buf: a HDLC_ESC that is the last of `size` is kept back, and
\* right after con->read() it is at index 0 of more than one byte.
LEMMA ByteAtHand ==
    ASSUME BufferInv, AtSwitch
    PROVE  /\ pos \in Nat /\ pos < size /\ size <= BUF_SIZE /\ Room
           /\ pos \in 0 .. BUF_SIZE - 1
           /\ read_buf[pos] = HDLC_ESC => pos + 1 \in 0 .. BUF_SIZE - 1
<1>1. size \in 0 .. BUF_SIZE /\ pos \in 0 .. BUF_SIZE
  BY DEF BufferInv, TypeOK
<1>2. CASE pc = "switch"
  BY <1>1, <1>2, Sizes DEF BufferInv
<1>3. CASE pc = "top" /\ Room /\ ~Empty /\ ~LastByte
  <2>1. pos < size /\ Room
    BY <1>1, <1>3 DEF Empty
  <2>2. ASSUME read_buf[pos] = HDLC_ESC PROVE pos + 1 # size
    BY <1>3, <2>2 DEF LastByte, HDLC_ESC, HDLC_SYNC
  <2> QED
    BY <1>1, <2>1, <2>2, Sizes
<1> QED
  BY <1>2, <1>3 DEF AtSwitch

\* The invariant holds at the begin.
LEMMA BufferInit == Init => BufferInv
<1> SUFFICES ASSUME Init PROVE BufferInv
  OBVIOUS
<1>1. <<>> \in Seq(0 .. 255) /\ <<>> \in Seq(Payload) /\ Len(<<>>) = 0
  BY EmptySeq
<1>2. read_buf \in [0 .. BUF_SIZE - 1 -> 0 .. 255]
  <2>1. read_buf = [k \in 0 .. BUF_SIZE - 1 |-> 0]
    BY DEF Init
  <2> QED
    BY <2>1
<1> QED
  BY <1>1, <1>2, Sizes DEF Init, BufferInv, TypeOK

\* No step of the peer, of the connection or of read() breaks it.
LEMMA BufferStep == BufferInv /\ [Next]_vars => BufferInv'
<1> SUFFICES ASSUME BufferInv, [Next]_vars PROVE BufferInv'
  OBVIOUS
<1> USE Sizes
<1>0. /\ TypeOK /\ Len(buf) \in Nat /\ Len(buf) <= FRAME_SIZE
      /\ <<>> \in Seq(0 .. 255) /\ Len(<<>>) = 0
      /\ pc = "switch" => pos = 0 /\ size > 0 /\ Room
  BY EmptySeq, LenProperties DEF BufferInv, TypeOK
<1>a. stream \in Seq(Byte)
  BY <1>0 DEF TypeOK, Byte
<1>1. CASE Call
  BY <1>0, <1>1 DEF Call, BufferInv, TypeOK, bufferVars, peerVars
<1>2. ASSUME NEW n \in MinFragment .. MaxFragment, Fill(n) PROVE BufferInv'
  <2> DEFINE at == IF Empty THEN 0 ELSE 1
             kept == Min({n, BUF_SIZE - at})
             bytes == SubSeq(stream, 1, kept)
  <2>1. /\ at \in {0, 1} /\ (at = 1 => size > 0)
        /\ n \in Int /\ n >= 1 /\ n <= Len(stream) /\ Room
        /\ Len(stream) \in Nat
    BY <1>0, <1>2, LenProperties DEF Fill, Empty, TypeOK
  <2>2. kept \in Int /\ 1 <= kept /\ kept <= n /\ at + kept <= BUF_SIZE
    <3> HIDE DEF at
    <3>1. BUF_SIZE - at \in Int /\ BUF_SIZE - at >= 1
      BY <2>1
    <3>2. kept \in {n, BUF_SIZE - at} /\ kept <= n /\ kept <= BUF_SIZE - at
      BY <2>1, <3>1, MinOfTwo
    <3> HIDE DEF kept
    <3> QED
      BY <2>1, <3>1, <3>2
  <2> HIDE DEF at, kept
  <2>3. bytes \in Seq(Byte)
    BY <1>a, <2>1, <2>2, PartOfStream
  <2>4. read_buf' \in [0 .. BUF_SIZE - 1 -> 0 .. 255]
    <3>1. read_buf' = Stored(at, bytes)
      BY <1>2 DEF Fill, at, kept
    <3> HIDE DEF bytes
    <3> QED
      BY <1>0, <2>1, <2>3, <3>1, StoredBytes DEF Byte
  <2>5. size' = at + kept
    <3>1. size' = ToSize(at + kept)
      BY <1>2 DEF Fill, at, kept
    <3> QED
      BY <2>1, <2>2, <3>1, SizeKept
  <2>6. stream' \in Seq(0 .. 255)
    <3>1. n + 1 \in 1 .. Len(stream) + 1
      BY <2>1
    <3>2. SubSeq(stream, n + 1, Len(stream)) \in Seq(Byte)
      BY <1>a, <2>1, <3>1, PartOfStream
    <3> QED
      BY <1>2, <3>2 DEF Fill, Byte
  <2>7. damages' \in Nat
    BY <1>0, <1>2 DEF Fill, TypeOK
  <2>8. /\ pos' = 0 /\ pc' = "switch"
        /\ UNCHANGED <<buf, ret, failed, sent, out>>
    BY <1>2 DEF Fill
  <2>9. size' \in 0 .. BUF_SIZE /\ size' > 0
    BY <2>1, <2>2, <2>5
  <2>10. TypeOK'
    BY <1>0, <2>4, <2>6, <2>7, <2>8, <2>9 DEF TypeOK
  <2> QED
    BY <1>0, <2>1, <2>8, <2>9, <2>10 DEF BufferInv, Room
<1>3. CASE FillTimeout
  <2>1. CASE Empty
    BY <1>0, <1>3, <2>1 DEF FillTimeout, Return, BufferInv, TypeOK
  <2>2. CASE ~Empty
    <3>1. size > 0
      BY <1>0, <2>2 DEF Empty, TypeOK
    <3>2. <<>> \in Seq(Byte)
      BY EmptySeq
    <3>3. Stored(1, <<>>) \in [0 .. BUF_SIZE - 1 -> Byte]
      BY <1>0, <3>1, <3>2, StoredBytes
    <3>4. /\ read_buf' = Stored(1, <<>>) /\ size' = 1 /\ pos' = 0 /\ pc' = "switch" /\ Room
          /\ damages' \in Nat
          /\ UNCHANGED <<buf, ret, failed, stream, sent, out>>
      BY <1>0, <1>3, <2>2 DEF FillTimeout, TypeOK
    <3>5. read_buf' \in [0 .. BUF_SIZE - 1 -> 0 .. 255]
      BY <3>3, <3>4 DEF Byte
    <3>6. TypeOK'
      BY <1>0, <3>4, <3>5 DEF TypeOK
    <3> QED
      BY <1>0, <3>4, <3>6 DEF BufferInv, Room
  <2> QED
    BY <2>1, <2>2
<1>4. CASE FillFails
  <2>1. ToSize(-1) = BUF_SIZE /\ ToSize(ToSize(-1) + 1) = 0
    BY DEF ToSize
  <2>2. CASE Empty
    BY <1>0, <1>4, <2>1, <2>2 DEF FillFails, BufferInv, TypeOK, Room, peerVars
  <2>3. CASE ~Empty
    <3>1. size > 0
      BY <1>0, <2>3 DEF Empty, TypeOK
    <3>2. <<>> \in Seq(Byte)
      BY EmptySeq
    <3>3. Stored(1, <<>>) \in [0 .. BUF_SIZE - 1 -> Byte]
      BY <1>0, <3>1, <3>2, StoredBytes
    <3>4. /\ read_buf' = Stored(1, <<>>) /\ size' = 0
          /\ Return("timeout") /\ failed' = "now"
          /\ UNCHANGED <<stream, peerVars, out>>
      BY <1>4, <2>1, <2>3 DEF FillFails
    <3>5. read_buf' \in [0 .. BUF_SIZE - 1 -> 0 .. 255]
      BY <3>3, <3>4 DEF Byte
    <3> QED
      BY <1>0, <3>4, <3>5 DEF BufferInv, TypeOK, Return, peerVars
  <2> QED
    BY <2>2, <2>3
<1>5. CASE Escape
  <2>1. Room /\ pos + 1 \in 0 .. BUF_SIZE - 1
    BY <1>5, ByteAtHand DEF Escape
  <2>2. Flip(read_buf[pos + 1]) \in 0 .. 255
    BY <1>0, <2>1, FlipByte DEF TypeOK, Byte
  <2>3. buf' \in Seq(0 .. 255) /\ Len(buf') = Len(buf) + 1
    BY <1>0, <1>5, <2>2, AppendProperties DEF Escape, TypeOK
  <2>4. pos' = pos + 2 /\ pc' = "top" /\ UNCHANGED <<ret, failed, bufferVars, stream, peerVars, out>>
    BY <1>5 DEF Escape
  <2> QED
    BY <1>0, <2>1, <2>3, <2>4 DEF BufferInv, TypeOK, Room, bufferVars, peerVars
<1>6. CASE Plain
  <2>1. Room /\ pos \in 0 .. BUF_SIZE - 1
    BY <1>6, ByteAtHand DEF Plain
  <2>a. read_buf[pos] \in 0 .. 255
    BY <1>0, <2>1 DEF TypeOK
  <2>2. buf' \in Seq(0 .. 255) /\ Len(buf') = Len(buf) + 1
    BY <1>0, <1>6, <2>a, AppendProperties DEF Plain, TypeOK
  <2>3. pos' = pos + 1 /\ pc' = "top" /\ UNCHANGED <<ret, failed, bufferVars, stream, peerVars, out>>
    BY <1>6 DEF Plain
  <2> QED
    BY <1>0, <2>1, <2>2, <2>3 DEF BufferInv, TypeOK, Room, bufferVars, peerVars
<1>7. CASE SkipSync
  <2>1. pos \in Nat /\ size \in 0 .. BUF_SIZE
    BY <1>0 DEF TypeOK
  <2>2. PICK k \in pos + 1 .. size : pos' = k
    BY <1>7 DEF SkipSync
  <2>3. pos' \in 0 .. BUF_SIZE
    BY <2>1, <2>2
  <2>4. pc' = "top" /\ UNCHANGED <<buf, ret, failed, bufferVars, stream, peerVars, out>>
    BY <1>7 DEF SkipSync
  <2> QED
    BY <1>0, <2>3, <2>4 DEF BufferInv, TypeOK, bufferVars, peerVars
<1>8. CASE EndSync
  <2>1. pos \in Nat /\ pos < size /\ size <= BUF_SIZE /\ size \in Nat
    BY <1>0, <1>8, ByteAtHand DEF EndSync, TypeOK
  <2>2. size' \in 0 .. BUF_SIZE
    BY <1>8, <2>1 DEF EndSync
  <2>3. read_buf' \in [0 .. BUF_SIZE - 1 -> 0 .. 255]
    <3>1. ASSUME NEW k \in 0 .. BUF_SIZE - 1
          PROVE  (IF k < size - pos THEN read_buf[k + pos] ELSE read_buf[k]) \in 0 .. 255
      <4>1. CASE k < size - pos
        <5>1. k + pos \in 0 .. BUF_SIZE - 1
          BY <2>1, <4>1
        <5> QED
          BY <1>0, <4>1, <5>1 DEF TypeOK
      <4> QED
        BY <1>0, <4>1 DEF TypeOK
    <3>2. read_buf' = Moved
      BY <1>8 DEF EndSync
    <3> QED
      BY <3>1, <3>2 DEF Moved
  <2>4. out' \in Seq(Payload)
    <3>1. ASSUME NEW p \in Messages(buf) PROVE Append(out, p) \in Seq(Payload)
      BY <1>0, AppendProperties DEF Messages, TypeOK
    <3> QED
      BY <1>0, <1>8, <3>1 DEF EndSync, TypeOK
  <2>5. /\ pc' = "idle" /\ pos' = 0 /\ buf' = <<>> /\ ret' \in {"frame", "error"}
        /\ UNCHANGED <<failed, stream, peerVars>>
    BY <1>8 DEF EndSync, Return
  <2> QED
    BY <1>0, <2>2, <2>3, <2>4, <2>5 DEF BufferInv, TypeOK, peerVars
<1>9. CASE TooBig
  BY <1>0, <1>9 DEF TooBig, Return, BufferInv, TypeOK, bufferVars, peerVars
<1>10. ASSUME NEW p \in Payload, Send(p) PROVE BufferInv'
  <2>1. sent' \in Seq(Payload)
    BY <1>0, <1>10, AppendProperties DEF Send, TypeOK
  <2>2. stream' \in Seq(0 .. 255)
    <3>1. Framed(p) \in Seq(0 .. 255)
      BY FramesAreBytes DEF Byte
    <3> QED
      BY <1>0, <1>10, <3>1, ConcatProperties DEF Send, TypeOK
  <2>3. damages' \in Nat /\ UNCHANGED <<callVars, bufferVars, out>>
    BY <1>0, <1>10 DEF Send, TypeOK
  <2> QED
    BY <1>0, <2>1, <2>2, <2>3 DEF BufferInv, TypeOK, Room, callVars, bufferVars
<1>11. ASSUME NEW n \in 1 .. MaxFragment, Lose(n) PROVE BufferInv'
  <2>1. n \in Nat /\ n >= 1 /\ n <= Len(stream) /\ Len(stream) \in Nat
    BY <1>0, <1>11, LenProperties DEF Lose, TypeOK
  <2>2. n + 1 \in 1 .. Len(stream) + 1
    BY <2>1
  <2>3. SubSeq(stream, n + 1, Len(stream)) \in Seq(Byte)
    BY <1>a, <2>1, <2>2, PartOfStream
  <2>4. stream' \in Seq(0 .. 255) /\ damages' \in Nat
        /\ UNCHANGED <<callVars, bufferVars, sent, out>>
    BY <1>0, <1>11, <2>3 DEF Lose, TypeOK, Byte
  <2> QED
    BY <1>0, <2>4 DEF BufferInv, TypeOK, Room, callVars, bufferVars
<1>12. CASE UNCHANGED vars
  BY <1>0, <1>12 DEF vars, BufferInv, TypeOK, Room
<1> QED
  BY <1>1, <1>2, <1>3, <1>4, <1>5, <1>6, <1>7, <1>8, <1>9, <1>10, <1>11, <1>12
  DEF Next, read

\* The invariant always holds.
LEMMA BufferInvariant == Spec => []BufferInv
  BY BufferInit, BufferStep, PTL DEF Spec

-----------------------------------------------------------------------------
(* The properties.                                                         *)

\* Every variable of the framing layer has its type: `size`, read_buf and the
\* frame are made of bytes whatever con->read() delivers or fails to deliver.
THEOREM FramingTypes == Spec => []TypeOK
<1>1. BufferInv => TypeOK
  BY DEF BufferInv
<1> QED
  BY <1>1, BufferInvariant, PTL

\* read() never accesses a byte outside of read_buf, and never stores one
\* outside of the frame: smanet.cpp:116-176 for buffers of every size.
THEOREM NoOverrun == Spec => []WithinBuffers
<1>1. BufferInv => WithinBuffers
  <2> SUFFICES ASSUME BufferInv PROVE WithinBuffers
    OBVIOUS
  <2>1. ASSUME AtSwitch PROVE pos < BUF_SIZE /\ (read_buf[pos] = HDLC_ESC => pos + 1 < BUF_SIZE)
    BY <2>1, ByteAtHand, Sizes
  <2> QED
    BY <2>1 DEF WithinBuffers, BufferInv
<1> QED
  BY <1>1, BufferInvariant, PTL

\* With fragments of two bytes or more, a buffer that begins with an escape
\* holds another byte, unless a timeout, a loss or a failure came between.
EscapeInv ==
    damages = 0 /\ failed = "never" /\ pc = "switch" /\ read_buf[0] = HDLC_ESC => size > 1

\* A fill leaves two bytes at least: those of a fragment, or the one kept back
\* and one more.
LEMMA EscapeStep ==
    ASSUME MinFragment > 1, BufferInv, EscapeInv, [Next]_vars
    PROVE  EscapeInv'
<1> USE Sizes
<1>0. /\ TypeOK /\ damages \in Nat /\ size \in 0 .. BUF_SIZE /\ pos \in 0 .. BUF_SIZE
  BY DEF BufferInv, TypeOK
<1>1. ASSUME NEW n \in MinFragment .. MaxFragment, Fill(n) PROVE EscapeInv'
  <2> DEFINE at == IF Empty THEN 0 ELSE 1
             kept == Min({n, BUF_SIZE - at})
  <2>1. at \in {0, 1} /\ n \in Int /\ n > 1 /\ BUF_SIZE - at \in Int
    OBVIOUS
  <2>2. size' = ToSize(at + kept)
    BY <1>1 DEF Fill
  <2> HIDE DEF at
  <2>3. kept \in {n, BUF_SIZE - at} /\ kept <= BUF_SIZE - at
    BY <2>1, MinOfTwo
  <2> HIDE DEF kept
  <2>4. at + kept \in 0 .. BUF_SIZE /\ at + kept > 1
    BY <2>1, <2>3
  <2>5. size' > 1
    BY <2>2, <2>4, SizeKept
  <2> QED
    BY <2>5 DEF EscapeInv
<1>2. CASE FillTimeout
  <2>1. CASE Empty
    BY <1>2, <2>1 DEF FillTimeout, Return, EscapeInv
  <2>2. CASE ~Empty
    <3>1. /\ read_buf' = Stored(1, <<>>) /\ LastByte
          /\ damages' = IF CutsFrame THEN damages + 1 ELSE damages
      BY <1>2, <2>2 DEF FillTimeout
    <3>2. size - 1 = pos /\ 0 \in 0 .. BUF_SIZE - 1
      BY <1>0, <3>1 DEF LastByte
    <3>3. read_buf'[0] = read_buf[pos]
      BY <3>1, <3>2 DEF Stored
    <3>4. CutsFrame <=> read_buf[pos] = HDLC_ESC
      BY <2>2 DEF CutsFrame
    <3> QED
      BY <1>0, <3>1, <3>3, <3>4 DEF EscapeInv
  <2> QED
    BY <2>1, <2>2
<1>3. CASE FillFails
  BY <1>3 DEF FillFails, EscapeInv
<1>4. CASE Call \/ Escape \/ Plain \/ SkipSync \/ EndSync \/ TooBig
  BY <1>4 DEF Call, Escape, Plain, SkipSync, EndSync, TooBig, Return, EscapeInv
<1>5. CASE \/ \E p \in Payload : Send(p)
           \/ \E n \in 1 .. MaxFragment : Lose(n)
           \/ UNCHANGED vars
  BY <1>0, <1>5 DEF Send, Lose, vars, callVars, bufferVars, EscapeInv
<1> QED
  BY <1>1, <1>2, <1>3, <1>4, <1>5 DEF Next, read

\* "add last byte to new buffer, because it could be a HDLC_ESC": an escape is
\* combined with a byte that was received, wherever the stream is cut into
\* fragments of two bytes or more.
THEOREM EscapesPaired == ASSUME MinFragment > 1 PROVE Spec => []EscapeIsPaired
<1>1. Init => EscapeInv
  BY DEF Init, EscapeInv
<1>2. BufferInv /\ EscapeInv => EscapeIsPaired
  <2> SUFFICES ASSUME BufferInv, EscapeInv, damages = 0, failed = "never", AtSwitch,
                      read_buf[pos] = HDLC_ESC
               PROVE  pos + 1 < size
    BY DEF EscapeIsPaired
  <2>1. size \in 0 .. BUF_SIZE /\ pos \in 0 .. BUF_SIZE /\ pos < size
    BY ByteAtHand, Sizes DEF BufferInv, TypeOK
  <2>2. CASE pc = "switch"
    BY <2>1, <2>2, Sizes DEF BufferInv, EscapeInv
  <2>3. CASE pc = "top" /\ ~LastByte
    <3>1. pos + 1 # size
      BY <2>3 DEF LastByte, HDLC_ESC, HDLC_SYNC
    <3> QED
      BY <2>1, <3>1, Sizes
  <2> QED
    BY <2>2, <2>3 DEF AtSwitch
<1>3. BufferInv /\ EscapeInv /\ [Next]_vars => EscapeInv'
  BY EscapeStep
<1> QED
  BY <1>1, <1>2, <1>3, BufferInvariant, PTL DEF Spec
=============================================================================
