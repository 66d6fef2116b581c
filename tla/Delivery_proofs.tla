---------------------------- MODULE Delivery_proofs ----------------------------
(***************************************************************************)
(* What the framing layer delivers, for every set of messages, every size  *)
(* of the buffers and every cut of the stream into fragments: as long as   *)
(* nothing was damaged, read() returns the messages in the order sent,     *)
(* none twice, and when it has read everything none is missing.            *)
(***************************************************************************)
EXTENDS Smanet_proofs, FiniteSetTheorems

\* No message is longer than the frame read() has room for: the iteration that
\* meets the HDLC_SYNC behind the frame needs room, too.
FramesFit == FRAME_SIZE > 0 /\ \A p \in Payload : Len(p) + 2 < FRAME_SIZE

\* What read() stores of a frame.
Content(p) == Header \o p \o <<Fcs[p]>>

\* A place in the stream of the messages ms: before frame m, within it with j
\* bytes of its content read, or behind an HDLC_ESC there.
Between(m) == <<"between", m, 0>>
Within(m, j) == <<"within", m, j>>
Behind(m, j) == <<"behind", m, j>>

\* Byte b of the stream leads from place s to place t.
Leads(ms, b, s, t) ==
    \E m \in 1 .. Len(ms) :
        \/ s = Between(m) /\ b = HDLC_SYNC /\ t = Within(m, 0)
        \/ \E j \in 0 .. Len(Content(ms[m])) - 1 :
              \/ s = Within(m, j) /\ b = HDLC_ESC /\ t = Behind(m, j)
              \/ /\ s = Within(m, j) /\ t = Within(m, j + 1)
                 /\ b \notin {HDLC_ESC, HDLC_SYNC} /\ b = Content(ms[m])[j + 1]
              \/ s = Behind(m, j) /\ Flip(b) = Content(ms[m])[j + 1] /\ t = Within(m, j + 1)
        \/ s = Within(m, Len(Content(ms[m]))) /\ b = HDLC_SYNC /\ t = Between(m + 1)

\* The places along the bytes R of the stream.
IsPath(path, ms, R, s, t) ==
    /\ path[1] = s /\ path[Len(R) + 1] = t
    /\ \A i \in 1 .. Len(R) : Leads(ms, R[i], path[i], path[i + 1])

Parses(ms, R, s, t) == \E path : IsPath(path, ms, R, s, t)

\* The bytes read() has not looked at: those of read_buf, then the stream.
UnreadOf(bytes, from, to, rest) ==
    [i \in 1 .. (to - from) + Len(rest) |->
        IF i <= to - from THEN bytes[from + i - 1] ELSE rest[i - (to - from)]]

Unread == UnreadOf(read_buf, pos, size, stream)

\* Where the unread bytes begin: before the next frame, before the HDLC_SYNC
\* that ended the last one and stays in read_buf, or within the next frame, with
\* what was read of it in buf.
Position(s) ==
    \/ buf = <<>> /\ s = Between(Len(out) + 1)
    \/ buf = <<>> /\ Len(out) > 0 /\ s = Within(Len(out), Len(Content(sent[Len(out)])))
    \/ /\ Len(out) < Len(sent) /\ s = Within(Len(out) + 1, Len(buf))
       /\ Len(buf) <= Len(Content(sent[Len(out) + 1]))
       /\ \A i \in 1 .. Len(buf) : buf[i] = Content(sent[Len(out) + 1])[i]

\* What was returned is a prefix of what was sent, and what is unread is the
\* rest of it, from where read() stands.
Delivery ==
    /\ pos <= size
    /\ pc = "idle" => pos = 0 /\ buf = <<>>
    /\ Len(out) <= Len(sent) /\ \A k \in 1 .. Len(out) : out[k] = sent[k]
    /\ \E s : Position(s) /\ Parses(sent, Unread, s, Between(Len(sent) + 1))

DeliveryInv == damages = 0 /\ failed = "never" => Delivery

-----------------------------------------------------------------------------
(* Paths.                                                                  *)

\* The content of a frame, byte by byte.
LEMMA ContentBytes ==
    ASSUME NEW p \in Payload
    PROVE  /\ Len(p) \in Nat /\ Len(Content(p)) = Len(p) + 2 /\ Content(p) \in Seq(Byte)
           /\ Content(p)[1] = 255
           /\ \A i \in 1 .. Len(p) : Content(p)[i + 1] = p[i]
           /\ Content(p)[Len(p) + 2] = Fcs[p]
<1>1. p \in Seq(Byte) /\ Fcs[p] \in Byte /\ Len(p) \in Nat
  BY ByteAssumption, LenProperties DEF Byte
<1>2. /\ Header \in Seq(Byte) /\ Len(Header) = 1 /\ Header[1] = 255
      /\ <<Fcs[p]>> \in Seq(Byte) /\ Len(<<Fcs[p]>>) = 1 /\ <<Fcs[p]>>[1] = Fcs[p]
  BY <1>1 DEF Header, Byte
<1> DEFINE front == Header \o p
<1>3. /\ front \in Seq(Byte) /\ Len(front) = Len(p) + 1 /\ front[1] = 255
      /\ \A i \in 1 .. Len(p) : front[i + 1] = p[i]
  <2>1. /\ Header \o p \in Seq(Byte) /\ Len(Header \o p) = Len(Header) + Len(p)
        /\ \A i \in 1 .. Len(Header) + Len(p) :
              (Header \o p)[i] = IF i <= Len(Header) THEN Header[i] ELSE p[i - Len(Header)]
    <3>1. Header \in Seq(Byte) /\ p \in Seq(Byte)
      BY <1>1, <1>2
    <3> QED
      BY <3>1, ConcatProperties
  <2>2. \A i \in 1 .. 1 + Len(p) : front[i] = IF i <= 1 THEN Header[i] ELSE p[i - 1]
    BY <1>2, <2>1
  <2>3. front \in Seq(Byte) /\ Len(front) = 1 + Len(p)
    BY <1>2, <2>1
  <2> HIDE DEF front
  <2>4. 1 \in 1 .. 1 + Len(p) /\ front[1] = 255
    BY <1>1, <1>2, <2>2
  <2>5. \A i \in 1 .. Len(p) : front[i + 1] = p[i]
    BY <1>1, <2>2
  <2> QED
    BY <1>1, <2>3, <2>4, <2>5
<1>4. Content(p) = front \o <<Fcs[p]>>
  BY DEF Content
<1> HIDE DEF front
<1>5. /\ Content(p) \in Seq(Byte) /\ Len(Content(p)) = Len(p) + 2
      /\ \A i \in 1 .. Len(p) + 2 :
            Content(p)[i] = IF i <= Len(p) + 1 THEN front[i] ELSE <<Fcs[p]>>[i - (Len(p) + 1)]
  <2>1. /\ front \o <<Fcs[p]>> \in Seq(Byte)
        /\ Len(front \o <<Fcs[p]>>) = (Len(p) + 1) + 1
        /\ \A i \in 1 .. (Len(p) + 1) + 1 :
              (front \o <<Fcs[p]>>)[i] =
                  IF i <= Len(p) + 1 THEN front[i] ELSE <<Fcs[p]>>[i - (Len(p) + 1)]
    BY <1>2, <1>3, ConcatProperties
  <2> QED
    BY <1>1, <1>4, <2>1
<1>6. \A i \in 1 .. Len(p) + 1 : Content(p)[i] = front[i]
  BY <1>1, <1>5
<1>7. Content(p)[Len(p) + 2] = Fcs[p]
  <2>1. Len(p) + 2 \in 1 .. Len(p) + 2 /\ ~(Len(p) + 2 <= Len(p) + 1)
        /\ Len(p) + 2 - (Len(p) + 1) = 1
    BY <1>1
  <2> QED
    BY <1>2, <1>5, <2>1
<1>8. Content(p)[1] = 255 /\ \A i \in 1 .. Len(p) : Content(p)[i + 1] = p[i]
  BY <1>1, <1>3, <1>6
<1> QED
  BY <1>1, <1>5, <1>7, <1>8

\* Sending more messages leaves the places in the stream what they are.
LEMMA MoreSent ==
    ASSUME NEW ms, NEW more, Len(ms) \in Nat, Len(more) \in Nat, Len(ms) <= Len(more),
           \A m \in 1 .. Len(ms) : more[m] = ms[m],
           NEW R, NEW s, NEW t, Parses(ms, R, s, t)
    PROVE  Parses(more, R, s, t)
<1>1. ASSUME NEW b, NEW u, NEW v, Leads(ms, b, u, v) PROVE Leads(more, b, u, v)
  <2>1. \A m \in 1 .. Len(ms) : m \in 1 .. Len(more) /\ Content(more[m]) = Content(ms[m])
    OBVIOUS
  <2> QED
    BY <1>1, <2>1, Zenon DEF Leads
<1> QED
  BY <1>1 DEF Parses, IsPath

\* A path ends where another one begins.
LEMMA PathsJoin ==
    ASSUME NEW ms, NEW A, NEW R \in Seq(A), NEW Q \in Seq(A), NEW s, NEW t, NEW u,
           Parses(ms, R, s, t), Parses(ms, Q, t, u)
    PROVE  Parses(ms, R \o Q, s, u)
<1>1. PICK p : IsPath(p, ms, R, s, t)
  BY DEF Parses
<1>2. PICK q : IsPath(q, ms, Q, t, u)
  BY DEF Parses
<1>3. /\ Len(R) \in Nat /\ Len(Q) \in Nat /\ Len(R \o Q) = Len(R) + Len(Q)
      /\ \A i \in 1 .. Len(R) + Len(Q) : (R \o Q)[i] = IF i <= Len(R) THEN R[i] ELSE Q[i - Len(R)]
  BY LenProperties, ConcatProperties
<1> DEFINE path == [i \in 1 .. Len(R) + Len(Q) + 1 |-> IF i <= Len(R) THEN p[i] ELSE q[i - Len(R)]]
<1>4. path[1] = s
  BY <1>1, <1>2, <1>3 DEF IsPath
<1>5. path[Len(R \o Q) + 1] = u
  <2>1. Len(R) + Len(Q) + 1 \in 1 .. Len(R) + Len(Q) + 1 /\ ~(Len(R) + Len(Q) + 1 <= Len(R))
        /\ Len(R) + Len(Q) + 1 - Len(R) = Len(Q) + 1
    BY <1>3
  <2>2. path[Len(R) + Len(Q) + 1] = q[Len(Q) + 1]
    BY <2>1
  <2> QED
    BY <1>2, <1>3, <2>2 DEF IsPath
<1>6. ASSUME NEW i \in 1 .. Len(R \o Q) PROVE Leads(ms, (R \o Q)[i], path[i], path[i + 1])
  <2>1. CASE i < Len(R)
    <3>1. i \in 1 .. Len(R) /\ path[i] = p[i] /\ path[i + 1] = p[i + 1] /\ (R \o Q)[i] = R[i]
      BY <1>3, <2>1
    <3> QED
      BY <1>1, <3>1 DEF IsPath
  <2>2. CASE i = Len(R)
    <3>1. i \in 1 .. Len(R) /\ path[i] = p[i] /\ path[i + 1] = q[1] /\ (R \o Q)[i] = R[i]
      BY <1>3, <2>2
    <3>2. path[i + 1] = p[i + 1]
      BY <1>1, <1>2, <2>2, <3>1 DEF IsPath
    <3> HIDE DEF path
    <3> QED
      BY <1>1, <3>1, <3>2 DEF IsPath
  <2>3. CASE i > Len(R)
    <3>1. /\ i - Len(R) \in 1 .. Len(Q) /\ path[i] = q[i - Len(R)]
          /\ (R \o Q)[i] = Q[i - Len(R)]
      BY <1>3, <2>3
    <3>2. path[i + 1] = q[(i - Len(R)) + 1]
      <4>1. i + 1 \in 1 .. Len(R) + Len(Q) + 1 /\ ~(i + 1 <= Len(R))
            /\ i + 1 - Len(R) = (i - Len(R)) + 1
        BY <1>3, <2>3
      <4> QED
        BY <4>1
    <3> HIDE DEF path
    <3> QED
      BY <1>2, <3>1, <3>2 DEF IsPath
  <2> QED
    BY <1>3, <2>1, <2>2, <2>3
<1> HIDE DEF path
<1>7. IsPath(path, ms, R \o Q, s, u)
  BY <1>4, <1>5, <1>6 DEF IsPath
<1> QED
  BY <1>7 DEF Parses

\* One byte is a path.
LEMMA OneByte ==
    ASSUME NEW ms, NEW b, NEW s, NEW t, Leads(ms, b, s, t)
    PROVE  Parses(ms, <<b>>, s, t)
<1> DEFINE path == <<s, t>>
<1>1. Len(<<b>>) = 1 /\ <<b>>[1] = b /\ path[1] = s /\ path[1 + 1] = t
  OBVIOUS
<1> HIDE DEF path
<1>2. \A i \in 1 .. Len(<<b>>) : i = 1
  BY <1>1
<1>3. IsPath(path, ms, <<b>>, s, t)
  BY <1>1, <1>2 DEF IsPath
<1> QED
  BY <1>3 DEF Parses

\* What is left of a path behind its first d bytes is a path.
LEMMA PathFrom ==
    ASSUME NEW ms, NEW R, Len(R) \in Nat, NEW path, NEW s, NEW t, IsPath(path, ms, R, s, t),
           NEW d \in 0 .. Len(R),
           NEW Q, Len(Q) = Len(R) - d, \A i \in 1 .. Len(Q) : Q[i] = R[i + d]
    PROVE  Parses(ms, Q, path[d + 1], t)
<1> DEFINE rest == [i \in 1 .. Len(Q) + 1 |-> path[i + d]]
<1>1. Len(Q) \in Nat /\ Len(R) = Len(Q) + d
  OBVIOUS
<1>2. rest[1] = path[d + 1]
  BY <1>1
<1>3. rest[Len(Q) + 1] = t
  <2>1. Len(Q) + 1 \in 1 .. Len(Q) + 1 /\ Len(Q) + 1 + d = Len(R) + 1
    BY <1>1
  <2>2. rest[Len(Q) + 1] = path[Len(R) + 1]
    BY <2>1
  <2> QED
    BY <2>2 DEF IsPath
<1>4. ASSUME NEW i \in 1 .. Len(Q) PROVE Leads(ms, Q[i], rest[i], rest[i + 1])
  <2>1. i + d \in 1 .. Len(R) /\ i \in 1 .. Len(Q) + 1 /\ i + 1 \in 1 .. Len(Q) + 1
        /\ i + 1 + d = (i + d) + 1
    BY <1>1
  <2>2. rest[i] = path[i + d] /\ rest[i + 1] = path[(i + d) + 1]
    BY <2>1
  <2>3. Leads(ms, R[i + d], path[i + d], path[(i + d) + 1])
    BY <2>1 DEF IsPath
  <2> HIDE DEF rest
  <2> QED
    BY <2>2, <2>3
<1> HIDE DEF rest
<1>5. IsPath(rest, ms, Q, path[d + 1], t)
  BY <1>2, <1>3, <1>4 DEF IsPath
<1> QED
  BY <1>5 DEF Parses

\* The code of a byte leads to the next byte of the content.
LEMMA CodePath ==
    ASSUME NEW ms, NEW m \in 1 .. Len(ms), NEW j \in 0 .. Len(Content(ms[m])) - 1
    PROVE  Parses(ms, Code(Content(ms[m])[j + 1]), Within(m, j), Within(m, j + 1))
<1> DEFINE b == Content(ms[m])[j + 1]
<1>1. CASE Escaped(b)
  <2> DEFINE bytes == <<HDLC_ESC, Flip(b)>>
             path == <<Within(m, j), Behind(m, j), Within(m, j + 1)>>
  <2>1. Leads(ms, HDLC_ESC, Within(m, j), Behind(m, j))
    BY DEF Leads
  <2>2. Leads(ms, Flip(b), Behind(m, j), Within(m, j + 1))
    <3>1. Flip(Flip(b)) = b
      BY <1>1, FlipTwice
    <3> QED
      BY <3>1 DEF Leads
  <2>3. /\ Len(bytes) = 2 /\ bytes[1] = HDLC_ESC /\ bytes[2] = Flip(b)
        /\ path[1] = Within(m, j) /\ path[2] = Behind(m, j) /\ path[3] = Within(m, j + 1)
    OBVIOUS
  <2>4. Code(b) = bytes
    BY <1>1 DEF Code
  <2> HIDE DEF b, bytes, path
  <2>5. \A i \in 1 .. Len(bytes) : i = 1 \/ i = 2
    BY <2>3
  <2>6. /\ Leads(ms, bytes[1], path[1], path[1 + 1])
        /\ Leads(ms, bytes[2], path[2], path[2 + 1])
    BY <2>1, <2>2, <2>3
  <2>7. IsPath(path, ms, bytes, Within(m, j), Within(m, j + 1))
    BY <2>3, <2>5, <2>6 DEF IsPath
  <2> QED
    BY <2>4, <2>7 DEF Parses, b
<1>2. CASE ~Escaped(b)
  <2>1. b \notin {HDLC_ESC, HDLC_SYNC} /\ Code(b) = <<b>>
    BY <1>2 DEF Escaped, Code
  <2>2. Leads(ms, b, Within(m, j), Within(m, j + 1))
    BY <2>1 DEF Leads
  <2> QED
    BY <2>1, <2>2, OneByte
<1> QED
  BY <1>1, <1>2

\* A frame leads to the next one, unless its checksum would need an escape.
LEMMA FramePath ==
    ASSUME NEW ms \in Seq(Payload), NEW m \in 1 .. Len(ms), ~Escaped(Fcs[ms[m]])
    PROVE  Parses(ms, Framed(ms[m]), Between(m), Between(m + 1))
<1> DEFINE p == ms[m]
           n == Len(p)
<1>1. /\ p \in Payload /\ p \in Seq(Byte) /\ Fcs[p] \in Byte /\ n \in Nat /\ Len(ms) \in Nat
      /\ Len(Content(p)) = n + 2 /\ Content(p)[1] = 255 /\ Content(p)[n + 2] = Fcs[p]
      /\ \A i \in 1 .. n : Content(p)[i + 1] = p[i]
  BY ByteAssumption, ContentBytes, ElementOfSeq, LenProperties DEF Byte
<1>2. /\ <<HDLC_SYNC>> \in Seq(Byte) /\ Header \in Seq(Byte) /\ <<Fcs[p]>> \in Seq(Byte)
      /\ addHdlc(p) \in Seq(Byte)
  <2>1. addHdlc(p) \in Seq(Byte)
    BY <1>1, FramesAreBytes
  <2> QED
    BY <1>1, <2>1 DEF HDLC_SYNC, Header, Byte
<1> HIDE DEF n
<1>3. Parses(ms, <<HDLC_SYNC>>, Between(m), Within(m, 0))
  BY OneByte DEF Leads
<1>4. Parses(ms, Header, Within(m, 0), Within(m, 1))
  <2>1. 255 \notin {HDLC_ESC, HDLC_SYNC} /\ 0 \in 0 .. Len(Content(p)) - 1 /\ 0 + 1 = 1
    BY <1>1 DEF HDLC_ESC, HDLC_SYNC
  <2>2. Leads(ms, 255, Within(m, 0), Within(m, 1))
    BY <1>1, <2>1 DEF Leads
  <2> QED
    BY <2>2, OneByte DEF Header
<1>5. Parses(ms, addHdlc(p), Within(m, 1), Within(m, n + 1))
  <2>1. PICK f : /\ f[0] = <<>> /\ addHdlc(p) = f[Len(p)]
                 /\ \A i \in 1 .. Len(p) : f[i] = f[i - 1] \o Code(p[i])
    BY <1>1, AddHdlcByPrefix
  <2> DEFINE S == {i \in 0 .. n :
                      f[i] \in Seq(Byte) /\ Parses(ms, f[i], Within(m, 1), Within(m, i + 1))}
  <2>2. 0 \in S
    <3> DEFINE path == <<Within(m, 1)>>
    <3>1. path[1] = Within(m, 1) /\ Len(<<>>) = 0 /\ <<>> \in Seq(Byte) /\ 0 + 1 = 1
      OBVIOUS
    <3> HIDE DEF path
    <3>2. IsPath(path, ms, <<>>, Within(m, 1), Within(m, 1))
      BY <3>1 DEF IsPath
    <3>3. Parses(ms, <<>>, Within(m, 1), Within(m, 0 + 1))
      BY <3>1, <3>2 DEF Parses
    <3>4. 0 \in 0 .. n
      BY <1>1 DEF n
    <3> QED
      BY <2>1, <3>1, <3>3, <3>4
  <2>3. ASSUME NEW i \in 0 .. n - 1, i \in S PROVE i + 1 \in S
    <3>1. /\ i + 1 \in 1 .. n /\ (i + 1) - 1 = i /\ i + 1 \in 0 .. Len(Content(p)) - 1
          /\ f[i] \in Seq(Byte) /\ Parses(ms, f[i], Within(m, 1), Within(m, i + 1))
      BY <1>1, <2>3 DEF n
    <3>2. f[i + 1] = f[i] \o Code(p[i + 1])
      BY <2>1, <3>1 DEF n
    <3>3. p[i + 1] \in Byte
      BY <1>1, <3>1, ElementOfSeq DEF n
    <3>4. Code(p[i + 1]) \in Seq(Byte)
      BY <3>3, CodeBytes
    <3>5. Content(p)[(i + 1) + 1] = p[i + 1]
      BY <1>1, <3>1
    <3>6. Parses(ms, Code(p[i + 1]), Within(m, i + 1), Within(m, (i + 1) + 1))
      BY <3>1, <3>5, CodePath
    <3>7. Parses(ms, f[i + 1], Within(m, 1), Within(m, (i + 1) + 1))
      BY <3>1, <3>2, <3>4, <3>6, PathsJoin
    <3>8. f[i + 1] \in Seq(Byte)
      BY <3>1, <3>2, <3>4, ConcatProperties
    <3> QED
      BY <3>1, <3>7, <3>8
  <2>4. 0 .. n \subseteq S
    <3> HIDE DEF S
    <3> QED
      BY <1>1, <2>2, <2>3, UpToBySteps
  <2>5. n \in S
    BY <1>1, <2>4
  <2> QED
    BY <2>1, <2>5 DEF n
<1>6. Parses(ms, <<Fcs[p]>>, Within(m, n + 1), Within(m, n + 2))
  <2>1. /\ Fcs[p] \notin {HDLC_ESC, HDLC_SYNC} /\ n + 1 \in 0 .. Len(Content(p)) - 1
        /\ (n + 1) + 1 = n + 2 /\ Content(p)[(n + 1) + 1] = Fcs[p]
    BY <1>1 DEF Escaped
  <2>2. Leads(ms, Fcs[p], Within(m, n + 1), Within(m, (n + 1) + 1))
    <3> HIDE DEF p
    <3> QED
      BY <2>1, Zenon DEF Leads, p
  <2> QED
    BY <2>1, <2>2, OneByte
<1>7. Parses(ms, <<HDLC_SYNC>>, Within(m, n + 2), Between(m + 1))
  BY <1>1, OneByte DEF Leads
<1> DEFINE a == <<HDLC_SYNC>> \o Header
           b == a \o addHdlc(p)
           c == b \o <<Fcs[p]>>
<1>8. Framed(p) = c \o <<HDLC_SYNC>>
  BY DEF Framed
<1>9. a \in Seq(Byte) /\ Parses(ms, a, Between(m), Within(m, 1))
  BY <1>2, <1>3, <1>4, PathsJoin, ConcatProperties
<1> HIDE DEF a
<1>10. b \in Seq(Byte) /\ Parses(ms, b, Between(m), Within(m, n + 1))
  BY <1>2, <1>5, <1>9, PathsJoin, ConcatProperties
<1> HIDE DEF b
<1>11. c \in Seq(Byte) /\ Parses(ms, c, Between(m), Within(m, n + 2))
  BY <1>2, <1>6, <1>10, PathsJoin, ConcatProperties
<1> HIDE DEF c
<1> QED
  BY <1>2, <1>7, <1>8, <1>11, PathsJoin

\* What a byte can lead to, by the place it is read at.
LEMMA LeadsBetween ==
    ASSUME NEW ms, NEW b, NEW t, NEW m, Leads(ms, b, Between(m), t)
    PROVE  b = HDLC_SYNC /\ t = Within(m, 0)
  BY DEF Leads, Between, Within, Behind

\* Within a frame an HDLC_SYNC only follows the last byte of its content.
LEMMA LeadsSync ==
    ASSUME NEW ms, NEW t, NEW m, NEW j, Leads(ms, HDLC_SYNC, Within(m, j), t)
    PROVE  m \in 1 .. Len(ms) /\ j = Len(Content(ms[m])) /\ t = Between(m + 1)
  BY DEF Leads, Between, Within, Behind, HDLC_ESC, HDLC_SYNC

\* An HDLC_ESC stands before another byte of the content.
LEMMA LeadsEscape ==
    ASSUME NEW ms, NEW t, NEW m, NEW j, Leads(ms, HDLC_ESC, Within(m, j), t)
    PROVE  m \in 1 .. Len(ms) /\ j \in 0 .. Len(Content(ms[m])) - 1 /\ t = Behind(m, j)
  BY DEF Leads, Between, Within, Behind, HDLC_ESC, HDLC_SYNC

\* Any other byte is the next one of the content itself,
LEMMA LeadsPlain ==
    ASSUME NEW ms, NEW b, NEW t, NEW m, NEW j, Leads(ms, b, Within(m, j), t),
           b \notin {HDLC_ESC, HDLC_SYNC}
    PROVE  /\ m \in 1 .. Len(ms) /\ j \in 0 .. Len(Content(ms[m])) - 1
           /\ b = Content(ms[m])[j + 1] /\ t = Within(m, j + 1)
  BY DEF Leads, Between, Within, Behind, HDLC_ESC, HDLC_SYNC

\* and behind an HDLC_ESC it is the next one with its bit flipped.
LEMMA LeadsBehind ==
    ASSUME NEW ms, NEW b, NEW t, NEW m, NEW j, Leads(ms, b, Behind(m, j), t)
    PROVE  /\ m \in 1 .. Len(ms) /\ j \in 0 .. Len(Content(ms[m])) - 1
           /\ Flip(b) = Content(ms[m])[j + 1] /\ t = Within(m, j + 1)
  BY DEF Leads, Between, Within, Behind

-----------------------------------------------------------------------------
(* The unread bytes.                                                       *)

\* What the invariants say of the variables, and of the unread bytes.
LEMMA Standing ==
    ASSUME BufferInv, Delivery
    PROVE  /\ size \in Nat /\ size <= BUF_SIZE /\ pos \in Nat /\ pos <= size
           /\ stream \in Seq(Byte) /\ Len(stream) \in Nat
           /\ buf \in Seq(Byte) /\ Len(buf) \in Nat
           /\ sent \in Seq(Payload) /\ Len(sent) \in Nat
           /\ out \in Seq(Payload) /\ Len(out) \in Nat
           /\ Len(Unread) = (size - pos) + Len(stream) /\ Len(Unread) \in Nat
           /\ \A i \in 1 .. size - pos : Unread[i] = read_buf[pos + i - 1]
           /\ \A i \in (size - pos) + 1 .. (size - pos) + Len(stream) :
                 Unread[i] = stream[i - (size - pos)]
<1>1. /\ size \in Nat /\ size <= BUF_SIZE /\ pos \in Nat /\ pos <= size
      /\ stream \in Seq(Byte) /\ buf \in Seq(Byte) /\ sent \in Seq(Payload) /\ out \in Seq(Payload)
  BY Sizes DEF BufferInv, TypeOK, Delivery, Byte
<1>2. Len(stream) \in Nat /\ Len(buf) \in Nat /\ Len(sent) \in Nat /\ Len(out) \in Nat
  BY <1>1, LenProperties
<1>3. /\ Len(Unread) = (size - pos) + Len(stream)
      /\ \A i \in 1 .. size - pos : Unread[i] = read_buf[pos + i - 1]
      /\ \A i \in (size - pos) + 1 .. (size - pos) + Len(stream) :
            Unread[i] = stream[i - (size - pos)]
  BY <1>1, <1>2 DEF Unread, UnreadOf
<1> HIDE DEF Unread
<1>4. Len(Unread) \in Nat
  BY <1>1, <1>2, <1>3
<1> QED
  BY <1>1, <1>2, <1>3, <1>4

\* Reading on by d bytes leaves the path behind them.
LEMMA ReadOn ==
    ASSUME BufferInv, Delivery,
           NEW path, NEW s, NEW t, IsPath(path, sent, Unread, s, t),
           NEW d \in 0 .. size - pos, pos' = pos + d, UNCHANGED <<bufferVars, stream, sent>>
    PROVE  Parses(sent', Unread', path[d + 1], t)
<1>1. /\ size' = size /\ read_buf' = read_buf /\ stream' = stream /\ sent' = sent
      /\ pos' \in Nat /\ pos' <= size' /\ size' \in Nat
  BY Standing DEF bufferVars
<1>2. /\ Len(Unread') = (size - (pos + d)) + Len(stream)
      /\ \A i \in 1 .. size - (pos + d) : Unread'[i] = read_buf[(pos + d) + i - 1]
      /\ \A i \in (size - (pos + d)) + 1 .. (size - (pos + d)) + Len(stream) :
            Unread'[i] = stream[i - (size - (pos + d))]
  <2>1. Unread' = UnreadOf(read_buf, pos + d, size, stream)
    BY <1>1 DEF Unread
  <2>2. pos + d \in Nat /\ size \in Nat /\ pos + d <= size /\ Len(stream) \in Nat
    BY Standing
  <2> QED
    BY <2>1, <2>2 DEF UnreadOf
<1> DEFINE U == Unread
           V == Unread'
           n == size - pos
           l == Len(stream)
<1>4. n \in Nat /\ l \in Nat /\ d \in 0 .. n /\ pos \in Nat /\ size = pos + n
  BY Standing
<1>a. Len(U) = n + l /\ \A i \in n + 1 .. n + l : U[i] = stream[i - n]
  BY Standing, Zenon
<1>b. \A i \in 1 .. n : U[i] = read_buf[pos + i - 1]
  BY Standing, Zenon
<1> HIDE DEF U, V, n, l
<1>3. /\ n \in Nat /\ l \in Nat /\ d \in 0 .. n /\ pos \in Nat /\ size = pos + n
      /\ Len(U) = n + l /\ Len(U) \in Nat
      /\ \A i \in 1 .. n : U[i] = read_buf[pos + i - 1]
      /\ \A i \in n + 1 .. n + l : U[i] = stream[i - n]
  BY <1>4, <1>a, <1>b
<1>5. size - (pos + d) = n - d
  BY <1>3
<1>6. /\ Len(V) = n - d + l
      /\ \A i \in 1 .. n - d : V[i] = read_buf[(pos + d) + i - 1]
      /\ \A i \in (n - d) + 1 .. (n - d) + l : V[i] = stream[i - (n - d)]
  BY <1>2, <1>5 DEF V, l
<1>7. Len(V) = Len(U) - d /\ d \in 0 .. Len(U)
  BY <1>3, <1>6
<1>8. ASSUME NEW i \in 1 .. Len(V) PROVE V[i] = U[i + d]
  <2>1. i \in 1 .. n - d + l
    BY <1>6
  <2>2. CASE i <= n - d
    <3>1. i \in 1 .. n - d /\ i + d \in 1 .. n /\ pos + (i + d) - 1 = (pos + d) + i - 1
      BY <1>3, <2>1, <2>2
    <3> QED
      BY <1>3, <1>6, <3>1
  <2>3. CASE ~(i <= n - d)
    <3>1. i \in (n - d) + 1 .. (n - d) + l /\ i + d \in n + 1 .. n + l /\ i + d - n = i - (n - d)
      BY <1>3, <2>1, <2>3
    <3> QED
      BY <1>3, <1>6, <3>1
  <2> QED
    BY <2>2, <2>3
<1>9. Parses(sent, V, path[d + 1], t)
  <2>1. IsPath(path, sent, U, s, t)
    BY DEF U
  <2> QED
    BY <1>3, <1>7, <1>8, <2>1, PathFrom
<1> QED
  BY <1>1, <1>9 DEF V

\* Moving the unread bytes, from the stream into read_buf or within it, leaves
\* the path what it is.
LEMMA MovedOn ==
    ASSUME BufferInv, Delivery,
           NEW s, NEW t, Parses(sent, Unread, s, t),
           pos' = 0, size' \in Nat, Len(stream') \in Nat, UNCHANGED sent,
           size' + Len(stream') = Len(Unread),
           \A i \in 1 .. size' : read_buf'[i - 1] = Unread[i],
           \A i \in 1 .. Len(stream') : stream'[i] = Unread[size' + i]
    PROVE  Parses(sent', Unread', s, t)
<1> DEFINE U == Unread
           V == Unread'
           n == size'
           l == Len(stream')
<1>1. /\ n \in Nat /\ l \in Nat
  OBVIOUS
<1>2. /\ Len(U) = n + l /\ Len(U) \in Nat
      /\ \A i \in 1 .. n : read_buf'[i - 1] = U[i]
      /\ \A i \in 1 .. l : stream'[i] = U[n + i]
  BY Standing
<1>3. V = [i \in 1 .. (n - 0) + l |->
              IF i <= n - 0 THEN read_buf'[0 + i - 1] ELSE stream'[i - (n - 0)]]
  BY DEF Unread, UnreadOf
<1>4. PICK path : IsPath(path, sent, U, s, t)
  BY DEF Parses
<1>5. sent' = sent
  OBVIOUS
<1> HIDE DEF U, V, n, l
<1>6. Len(V) = n + l
  BY <1>1, <1>3
<1>7. ASSUME NEW i \in 1 .. Len(V) PROVE V[i] = U[i]
  <2>1. i \in 1 .. n + l
    BY <1>1, <1>6
  <2>2. CASE i <= n
    <3>1. i \in 1 .. n /\ i \in 1 .. n - 0 /\ 0 + i - 1 = i - 1
      BY <1>1, <1>2, <2>1, <2>2
    <3> QED
      BY <1>1, <1>2, <1>3, <2>1, <3>1
  <2>3. CASE ~(i <= n)
    <3>1. i \in (n - 0) + 1 .. (n - 0) + l /\ i - (n - 0) \in 1 .. l /\ n + (i - (n - 0)) = i
      BY <1>1, <1>2, <2>1, <2>3
    <3>2. V[i] = stream'[i - (n - 0)]
      BY <1>1, <1>3, <2>1, <2>3
    <3>3. stream'[i - (n - 0)] = U[i]
      BY <1>2, <3>1
    <3> QED
      BY <2>1, <3>2, <3>3
  <2> QED
    BY <2>2, <2>3
<1>a. PICK d \in Nat : d = 0
  OBVIOUS
<1>10. d \in 0 .. Len(U) /\ Len(U) \in Nat /\ Len(V) = Len(U) - d
  BY <1>1, <1>2, <1>6, <1>a
<1>11. \A i \in 1 .. Len(V) : V[i] = U[i + d]
  <2>1. \A i \in 1 .. Len(V) : i + d = i
    BY <1>1, <1>6, <1>a
  <2> QED
    BY <1>7, <2>1
<1>8. Parses(sent, V, path[d + 1], t)
  BY <1>4, <1>10, <1>11, PathFrom
<1>9. path[d + 1] = s
  <2>1. d + 1 = 1
    BY <1>a
  <2> QED
    BY <1>4, <2>1 DEF IsPath
<1> QED
  BY <1>5, <1>8, <1>9 DEF V

\* The bytes of read_buf lead along the path.
LEMMA BytesAhead ==
    ASSUME BufferInv, Delivery, NEW path, NEW s, NEW t, IsPath(path, sent, Unread, s, t)
    PROVE  /\ path[1] = s
           /\ \A i \in 1 .. size - pos : Leads(sent, read_buf[pos + i - 1], path[i], path[i + 1])
<1>1. path[1] = s /\ \A i \in 1 .. Len(Unread) : Leads(sent, Unread[i], path[i], path[i + 1])
  BY DEF IsPath
<1>2. ASSUME NEW i \in 1 .. size - pos
      PROVE  i \in 1 .. Len(Unread) /\ Unread[i] = read_buf[pos + i - 1]
  <2>1. Unread[i] = read_buf[pos + i - 1]
    BY Standing, Zenon
  <2> DEFINE u == Len(Unread)
  <2>2. /\ size \in Nat /\ pos \in Nat /\ Len(stream) \in Nat
        /\ u \in Nat /\ u = (size - pos) + Len(stream)
    BY Standing
  <2> HIDE DEF u
  <2>3. i \in 1 .. u
    BY <2>2
  <2> QED
    BY <2>1, <2>3 DEF u
<1>3. ASSUME NEW i \in 1 .. size - pos
      PROVE  Leads(sent, read_buf[pos + i - 1], path[i], path[i + 1])
  <2>1. i \in 1 .. Len(Unread) /\ Unread[i] = read_buf[pos + i - 1]
    BY <1>2
  <2> QED
    BY <1>1, <2>1, Zenon
<1> QED
  BY <1>1, <1>3

\* The first byte at hand, and the one behind it.
LEMMA ByteAhead ==
    ASSUME BufferInv, Delivery, AtSwitch,
           NEW path, NEW s, NEW t, IsPath(path, sent, Unread, s, t)
    PROVE  /\ Leads(sent, read_buf[pos], s, path[2])
           /\ pos + 1 < size => Leads(sent, read_buf[pos + 1], path[2], path[3])
<1>1. pos \in Nat /\ size \in Nat /\ pos < size
  BY Standing, ByteAtHand
<1>2. /\ path[1] = s
      /\ \A i \in 1 .. size - pos : Leads(sent, read_buf[pos + i - 1], path[i], path[i + 1])
  BY BytesAhead
<1>3. 1 \in 1 .. size - pos /\ pos + 1 - 1 = pos /\ 1 + 1 = 2
  BY <1>1
<1>4. Leads(sent, read_buf[pos], s, path[2])
  BY <1>2, <1>3
<1>5. ASSUME pos + 1 < size PROVE Leads(sent, read_buf[pos + 1], path[2], path[3])
  <2>1. 2 \in 1 .. size - pos /\ pos + 2 - 1 = pos + 1 /\ 2 + 1 = 3
    BY <1>1, <1>5
  <2> QED
    BY <1>2, <2>1
<1> QED
  BY <1>4, <1>5

\* A byte that is no HDLC_SYNC is one of the next frame.
LEMMA InFrame ==
    ASSUME NEW s, Position(s), NEW b, NEW t, Leads(sent, b, s, t), b # HDLC_SYNC
    PROVE  /\ Len(out) < Len(sent) /\ s = Within(Len(out) + 1, Len(buf))
           /\ \A i \in 1 .. Len(buf) : buf[i] = Content(sent[Len(out) + 1])[i]
<1>1. s # Between(Len(out) + 1)
  <2> SUFFICES ASSUME s = Between(Len(out) + 1) PROVE FALSE
    OBVIOUS
  <2>1. Leads(sent, b, Between(Len(out) + 1), t)
    OBVIOUS
  <2> QED
    BY <2>1, LeadsBetween
<1>2. ASSUME s = Within(Len(out), Len(Content(sent[Len(out)]))) PROVE FALSE
  <2> DEFINE n == Len(Content(sent[Len(out)]))
  <2>1. Leads(sent, b, Within(Len(out), n), t)
    BY <1>2
  <2>2. n \in 0 .. n - 1
    <3>1. CASE b = HDLC_ESC
      <4>1. Leads(sent, HDLC_ESC, Within(Len(out), n), t)
        BY <2>1, <3>1
      <4> QED
        BY <4>1, LeadsEscape, Zenon
    <3>2. CASE b # HDLC_ESC
      <4>1. b \notin {HDLC_ESC, HDLC_SYNC}
        BY <3>2
      <4> QED
        BY <2>1, <4>1, LeadsPlain, Zenon
    <3> QED
      BY <3>1, <3>2
  <2> HIDE DEF n
  <2> QED
    BY <2>2
<1> QED
  BY <1>1, <1>2 DEF Position

\* The next frame has one byte more.
LEMMA OneMoreByte ==
    ASSUME BufferInv, Delivery, Len(out) < Len(sent),
           NEW b \in Byte, NEW n, n = Len(buf), n < Len(Content(sent[Len(out) + 1])),
           b = Content(sent[Len(out) + 1])[n + 1],
           \A i \in 1 .. n : buf[i] = Content(sent[Len(out) + 1])[i],
           buf' = Append(buf, b), UNCHANGED <<sent, out>>
    PROVE  Position(Within(Len(out) + 1, n + 1))'
<1> DEFINE c == Content(sent[Len(out) + 1])
           k == Len(out) + 1
<1>1. n \in Nat /\ buf \in Seq(Byte)
  BY Standing
<1>2. /\ Len(buf') = n + 1 /\ buf'[n + 1] = b
      /\ \A i \in 1 .. n : buf'[i] = buf[i]
  BY <1>1, AppendProperties
<1>3. \A i \in 1 .. n + 1 : buf'[i] = c[i]
  <2> HIDE DEF c
  <2>1. \A i \in 1 .. n : buf'[i] = c[i]
    BY <1>2 DEF c
  <2>2. buf'[n + 1] = c[n + 1]
    BY <1>2 DEF c
  <2>3. \A i \in 1 .. n + 1 : i \in 1 .. n \/ i = n + 1
    BY <1>1
  <2> QED
    BY <2>1, <2>2, <2>3
<1>4. n + 1 <= Len(c)
  <2>1. c \in Seq(Byte)
    <3>1. k \in 1 .. Len(sent) /\ sent \in Seq(Payload)
      BY Standing
    <3>2. sent[k] \in Payload
      BY <3>1, ElementOfSeq
    <3> QED
      BY <3>2, ContentBytes
  <2>2. Len(c) \in Nat
    BY <2>1, LenProperties
  <2>3. n < Len(c)
    OBVIOUS
  <2> HIDE DEF c
  <2> QED
    BY <1>1, <2>2, <2>3
<1>5. sent' = sent /\ out' = out
  OBVIOUS
<1> QED
  BY <1>2, <1>3, <1>4, <1>5 DEF Position

-----------------------------------------------------------------------------
(* The steps of read().                                                    *)

\* read() takes an escape and the byte behind it.
LEMMA EscapeDelivers ==
    ASSUME BufferInv, Delivery, EscapeIsPaired, damages = 0, failed = "never", Escape
    PROVE  Delivery'
<1> DEFINE k == Len(out) + 1
           c == Content(sent[k])
<1>1. PICK s, path : Position(s) /\ IsPath(path, sent, Unread, s, Between(Len(sent) + 1))
  BY DEF Delivery, Parses
<1>2. /\ AtSwitch /\ read_buf[pos] = HDLC_ESC /\ pos + 1 < size
      /\ pos \in Nat /\ size \in Nat /\ size <= BUF_SIZE
  BY Standing DEF Escape, EscapeIsPaired
<1>3. Leads(sent, HDLC_ESC, s, path[2]) /\ Leads(sent, read_buf[pos + 1], path[2], path[3])
  BY <1>1, <1>2, ByteAhead
<1>a. PICK j : j = Len(buf)
  OBVIOUS
<1>4. Len(out) < Len(sent) /\ s = Within(k, j) /\ \A i \in 1 .. j : buf[i] = c[i]
  <2>1. HDLC_ESC # HDLC_SYNC
    BY DEF HDLC_ESC, HDLC_SYNC
  <2> QED
    BY <1>1, <1>3, <1>a, <2>1, InFrame
<1>5. j \in 0 .. Len(c) - 1 /\ path[2] = Behind(k, j)
  <2>1. Leads(sent, HDLC_ESC, Within(k, j), path[2])
    BY <1>3, <1>4
  <2> HIDE DEF k
  <2>2. j \in 0 .. Len(Content(sent[k])) - 1 /\ path[2] = Behind(k, j)
    BY <2>1, LeadsEscape
  <2> QED
    BY <2>2
<1>6. Flip(read_buf[pos + 1]) = c[j + 1] /\ path[3] = Within(k, j + 1)
  <2>1. Leads(sent, read_buf[pos + 1], Behind(k, j), path[3])
    BY <1>3, <1>5
  <2> HIDE DEF k
  <2>2. Flip(read_buf[pos + 1]) = Content(sent[k])[j + 1] /\ path[3] = Within(k, j + 1)
    BY <2>1, LeadsBehind
  <2> QED
    BY <2>2
<1>7. Flip(read_buf[pos + 1]) \in Byte
  <2>1. pos + 1 \in 0 .. BUF_SIZE - 1
    BY <1>2, Sizes
  <2>2. read_buf[pos + 1] \in Byte
    BY <2>1 DEF BufferInv, TypeOK, Byte
  <2> QED
    BY <2>2, FlipByte
<1>8. j < Len(c)
  <2> HIDE DEF c
  <2> QED
    BY <1>5
<1>9. /\ pos' = pos + 2 /\ pc' = "top" /\ buf' = Append(buf, Flip(read_buf[pos + 1]))
      /\ sent' = sent /\ out' = out
      /\ UNCHANGED <<bufferVars, stream, sent>>
  BY DEF Escape, peerVars
<1>10. Position(Within(Len(out) + 1, j + 1))'
  BY <1>a, <1>4, <1>6, <1>7, <1>8, <1>9, OneMoreByte, Zenon
<1>11. Parses(sent', Unread', Within(k, j + 1), Between(Len(sent') + 1))
  <2>1. 2 \in 0 .. size - pos /\ 2 + 1 = 3
    BY <1>2
  <2>2. Parses(sent', Unread', path[2 + 1], Between(Len(sent) + 1))
    BY <1>1, <1>9, <2>1, ReadOn
  <2> QED
    BY <1>6, <1>9, <2>1, <2>2
<1>12. pos' <= size'
  BY <1>2, <1>9 DEF bufferVars
<1>13. /\ Len(out') <= Len(sent') /\ \A m \in 1 .. Len(out') : out'[m] = sent'[m]
       /\ pc' # "idle"
  BY <1>9 DEF Delivery
<1>14. (\E u : Position(u) /\ Parses(sent, Unread, u, Between(Len(sent) + 1)))'
  <2>1. out' = out
    BY <1>9
  <2> QED
    BY <1>10, <1>11, <2>1
<1> QED
  BY <1>12, <1>13, <1>14 DEF Delivery

\* read() takes a byte as it is.
LEMMA PlainDelivers ==
    ASSUME BufferInv, Delivery, Plain
    PROVE  Delivery'
<1> DEFINE k == Len(out) + 1
           c == Content(sent[k])
<1>1. PICK s, path : Position(s) /\ IsPath(path, sent, Unread, s, Between(Len(sent) + 1))
  BY DEF Delivery, Parses
<1>2. /\ AtSwitch /\ read_buf[pos] \notin {HDLC_ESC, HDLC_SYNC} /\ pos < size
      /\ pos \in Nat /\ size \in Nat /\ size <= BUF_SIZE
  BY Standing, ByteAtHand DEF Plain
<1>3. Leads(sent, read_buf[pos], s, path[2])
  BY <1>1, <1>2, ByteAhead
<1>a. PICK j : j = Len(buf)
  OBVIOUS
<1>4. Len(out) < Len(sent) /\ s = Within(k, j) /\ \A i \in 1 .. j : buf[i] = c[i]
  <2>1. read_buf[pos] # HDLC_SYNC
    BY <1>2
  <2> QED
    BY <1>1, <1>3, <1>a, <2>1, InFrame
<1>5. /\ j \in 0 .. Len(c) - 1
      /\ read_buf[pos] = c[j + 1] /\ path[2] = Within(k, j + 1)
  <2>1. Leads(sent, read_buf[pos], Within(k, j), path[2])
    BY <1>3, <1>4
  <2> HIDE DEF k
  <2>2. /\ j \in 0 .. Len(Content(sent[k])) - 1
        /\ read_buf[pos] = Content(sent[k])[j + 1] /\ path[2] = Within(k, j + 1)
    BY <1>2, <2>1, LeadsPlain
  <2> QED
    BY <2>2
<1>7. read_buf[pos] \in Byte
  <2>1. pos \in 0 .. BUF_SIZE - 1
    BY <1>2, Sizes
  <2> QED
    BY <2>1 DEF BufferInv, TypeOK, Byte
<1>8. j < Len(c)
  <2> HIDE DEF c
  <2> QED
    BY <1>5
<1>9. /\ pos' = pos + 1 /\ pc' = "top" /\ buf' = Append(buf, read_buf[pos])
      /\ sent' = sent /\ out' = out
      /\ UNCHANGED <<bufferVars, stream, sent>>
  BY DEF Plain, peerVars
<1>10. Position(Within(Len(out) + 1, j + 1))'
  BY <1>a, <1>4, <1>5, <1>7, <1>8, <1>9, OneMoreByte, Zenon
<1>11. Parses(sent', Unread', Within(k, j + 1), Between(Len(sent') + 1))
  <2>1. 1 \in 0 .. size - pos /\ 1 + 1 = 2
    BY <1>2
  <2>2. Parses(sent', Unread', path[1 + 1], Between(Len(sent) + 1))
    BY <1>1, <1>9, <2>1, ReadOn
  <2> QED
    BY <1>5, <1>9, <2>1, <2>2
<1>12. pos' <= size'
  BY <1>2, <1>9 DEF bufferVars
<1>13. /\ Len(out') <= Len(sent') /\ \A m \in 1 .. Len(out') : out'[m] = sent'[m]
       /\ pc' # "idle"
  BY <1>9 DEF Delivery
<1>14. (\E u : Position(u) /\ Parses(sent, Unread, u, Between(Len(sent) + 1)))'
  <2>1. out' = out
    BY <1>9
  <2> QED
    BY <1>10, <1>11, <2>1
<1> QED
  BY <1>12, <1>13, <1>14 DEF Delivery

\* The content of a message that was sent.
LEMMA ContentSent ==
    ASSUME BufferInv, NEW k \in 1 .. Len(sent)
    PROVE  /\ sent[k] \in Payload /\ Content(sent[k]) \in Seq(Byte)
           /\ Len(Content(sent[k])) \in Nat /\ Len(Content(sent[k])) > 1
           /\ Len(Content(sent[k])) = Len(sent[k]) + 2
<1>1. sent[k] \in Payload
  BY ElementOfSeq DEF BufferInv, TypeOK
<1> DEFINE n == Len(Content(sent[k]))
           l == Len(sent[k])
<1>2. l \in Nat /\ n = l + 2 /\ Content(sent[k]) \in Seq(Byte)
  BY <1>1, ContentBytes
<1> HIDE DEF n, l
<1>3. n \in Nat /\ n > 1 /\ n = l + 2
  BY <1>2
<1> QED
  BY <1>1, <1>2, <1>3 DEF n, l

\* A frame has a header, whose first byte is no HDLC_SYNC.
LEMMA NoEmptyFrame ==
    ASSUME BufferInv, NEW k, NEW t, Leads(sent, HDLC_SYNC, Within(k, 0), t)
    PROVE  FALSE
<1> DEFINE n == Len(Content(sent[k]))
<1>1. k \in 1 .. Len(sent) /\ 0 = n
  BY LeadsSync
<1>2. n > 1
  BY <1>1, ContentSent, Zenon
<1> HIDE DEF n
<1> QED
  BY <1>1, <1>2

\* A HDLC_SYNC where no byte of a frame was read yet begins a frame, or is the
\* one that ended the last frame.
LEMMA SkippedSync ==
    ASSUME BufferInv, Delivery, NEW s, Position(s), buf = <<>>, NEW t,
           Leads(sent, HDLC_SYNC, s, t)
    PROVE  \/ s = Between(Len(out) + 1) /\ t = Within(Len(out) + 1, 0) /\ Len(out) < Len(sent)
           \/ /\ s = Within(Len(out), Len(Content(sent[Len(out)])))
              /\ t = Between(Len(out) + 1)
<1>1. CASE s = Between(Len(out) + 1)
  <2>1. Leads(sent, HDLC_SYNC, Between(Len(out) + 1), t)
    BY <1>1
  <2>2. t = Within(Len(out) + 1, 0)
    BY <2>1, LeadsBetween
  <2>3. Len(out) < Len(sent)
    <3>1. Len(out) + 1 \in 1 .. Len(sent)
      BY <2>1 DEF Leads, Between, Within, Behind
    <3> QED
      BY <3>1, Standing
  <2> QED
    BY <1>1, <2>2, <2>3
<1>2. CASE s = Within(Len(out), Len(Content(sent[Len(out)])))
  <2>1. Leads(sent, HDLC_SYNC, Within(Len(out), Len(Content(sent[Len(out)]))), t)
    BY <1>2
  <2> QED
    BY <1>2, <2>1, LeadsSync
<1>3. CASE s = Within(Len(out) + 1, Len(buf)) /\ Len(out) < Len(sent)
  <2>1. Len(buf) = 0
    OBVIOUS
  <2>2. Leads(sent, HDLC_SYNC, Within(Len(out) + 1, 0), t)
    BY <1>3, <2>1
  <2> QED
    BY <2>2, NoEmptyFrame
<1> QED
  BY <1>1, <1>2, <1>3 DEF Position

\* Where read() stands before the next frame and within its first byte.
LEMMA AtBegin ==
    ASSUME BufferInv, Delivery, buf = <<>>
    PROVE  /\ Position(Between(Len(out) + 1))
           /\ Len(out) < Len(sent) => Position(Within(Len(out) + 1, 0))
<1>1. Len(buf) = 0
  OBVIOUS
<1>2. ASSUME Len(out) < Len(sent) PROVE Len(buf) <= Len(Content(sent[Len(out) + 1]))
  <2> DEFINE k == Len(out) + 1
             n == Len(Content(sent[k]))
  <2>1. k \in 1 .. Len(sent)
    BY <1>2, Standing
  <2> HIDE DEF k
  <2>2. n \in Nat
    BY <2>1, ContentSent
  <2>3. Len(buf) <= n
    <3> HIDE DEF n
    <3> QED
      BY <1>1, <2>2
  <2> QED
    BY <2>3 DEF k
<1>3. \A i \in 1 .. Len(buf) : buf[i] = Content(sent[Len(out) + 1])[i]
  BY <1>1
<1>4. ASSUME Len(out) < Len(sent) PROVE Within(Len(out) + 1, 0) = Within(Len(out) + 1, Len(buf))
  BY <1>1
<1> QED
  BY <1>2, <1>3, <1>4 DEF Position

\* Who changes none of the messages and of the frame does not move.
LEMMA SamePosition ==
    ASSUME NEW u, Position(u), buf' = buf, sent' = sent, out' = out
    PROVE  Position(u)'
  BY DEF Position

\* read() removes the HDLC_SYNC that ended the last frame, the one that begins
\* the next, or both.
LEMMA SkipSyncDelivers ==
    ASSUME BufferInv, Delivery, SkipSync
    PROVE  Delivery'
<1> DEFINE m == Len(out) + 1
<1>1. PICK s, path : Position(s) /\ IsPath(path, sent, Unread, s, Between(Len(sent) + 1))
  BY DEF Delivery, Parses
<1>2. /\ AtSwitch /\ buf = <<>> /\ pos < size /\ pos \in Nat /\ size \in Nat
  BY Standing, ByteAtHand DEF SkipSync
<1>3. PICK k \in pos + 1 .. size : pos' = k /\ \A i \in pos .. k - 1 : read_buf[i] = HDLC_SYNC
  BY DEF SkipSync
<1> DEFINE d == k - pos
<1>4. d \in 1 .. size - pos /\ d \in 0 .. size - pos /\ pos' = pos + d /\ d \in Nat /\ d >= 1
  BY <1>2, <1>3
<1>5. \A i \in 1 .. d : Leads(sent, HDLC_SYNC, path[i], path[i + 1])
  <2>1. \A i \in 1 .. size - pos : Leads(sent, read_buf[pos + i - 1], path[i], path[i + 1])
    BY <1>1, BytesAhead
  <2>2. ASSUME NEW i \in 1 .. d PROVE i \in 1 .. size - pos /\ read_buf[pos + i - 1] = HDLC_SYNC
    <3>1. pos + i - 1 \in pos .. k - 1 /\ i \in 1 .. size - pos
      BY <1>2, <1>3, <1>4
    <3> QED
      BY <1>3, <3>1
  <2> QED
    BY <2>1, <2>2
<1>6. path[1] = s
  BY <1>1 DEF IsPath
<1> HIDE DEF d
<1>7. Leads(sent, HDLC_SYNC, s, path[2])
  <2>1. 1 \in 1 .. d /\ 1 + 1 = 2
    BY <1>4
  <2> QED
    BY <1>5, <1>6, <2>1
<1>8. d >= 2 => Leads(sent, HDLC_SYNC, path[2], path[3])
  <2> SUFFICES ASSUME d >= 2 PROVE Leads(sent, HDLC_SYNC, path[2], path[3])
    OBVIOUS
  <2>1. 2 \in 1 .. d /\ 2 + 1 = 3
    BY <1>4
  <2> QED
    BY <1>5, <2>1
<1>9. d >= 3 => Leads(sent, HDLC_SYNC, path[3], path[4])
  <2> SUFFICES ASSUME d >= 3 PROVE Leads(sent, HDLC_SYNC, path[3], path[4])
    OBVIOUS
  <2>1. 3 \in 1 .. d /\ 3 + 1 = 4
    BY <1>4
  <2> QED
    BY <1>5, <2>1
<1>b. PICK u : u = path[d + 1]
  OBVIOUS
<1>10. Position(path[d + 1])
  <2>1. CASE s = Between(m) /\ path[2] = Within(m, 0) /\ Len(out) < Len(sent)
    <3>1. ~(d >= 2)
      BY <1>8, <2>1, NoEmptyFrame
    <3>2. d + 1 = 2
      BY <1>4, <3>1
    <3> QED
      BY <1>2, <2>1, <3>2, AtBegin
  <2>2. CASE path[2] = Between(m)
    <3>1. CASE d >= 2
      <4>1. Position(Between(m)) /\ Leads(sent, HDLC_SYNC, Between(m), path[3])
        BY <1>2, <1>8, <2>2, <3>1, AtBegin
      <4>2. path[3] = Within(m, 0)
        BY <4>1, LeadsBetween
      <4>3. Len(out) < Len(sent)
        BY <1>2, <4>1, SkippedSync DEF Between, Within
      <4>4. ~(d >= 3)
        BY <1>9, <4>2, NoEmptyFrame
      <4>5. d + 1 = 3
        BY <1>4, <3>1, <4>4
      <4> QED
        BY <1>2, <4>2, <4>3, <4>5, AtBegin
    <3>2. CASE ~(d >= 2)
      <4>1. d + 1 = 2
        BY <1>4, <3>2
      <4> QED
        BY <1>2, <2>2, <4>1, AtBegin
    <3> QED
      BY <3>1, <3>2
  <2> QED
    BY <1>1, <1>2, <1>7, <2>1, <2>2, SkippedSync
<1>11. pc' = "top" /\ buf' = buf /\ sent' = sent /\ out' = out
       /\ UNCHANGED <<bufferVars, stream, sent>>
  BY DEF SkipSync, peerVars
<1>12. Parses(sent', Unread', path[d + 1], Between(Len(sent') + 1))
  <2>1. Parses(sent', Unread', path[d + 1], Between(Len(sent) + 1))
    BY <1>1, <1>4, <1>11, ReadOn
  <2> QED
    BY <1>11, <2>1
<1>13. Position(u)'
  <2>1. Position(u)
    BY <1>10, <1>b
  <2> QED
    BY <1>11, <2>1, SamePosition
<1>14. pos' <= size'
  BY <1>3, <1>11 DEF bufferVars
<1>15. /\ Len(out') <= Len(sent') /\ \A i \in 1 .. Len(out') : out'[i] = sent'[i]
       /\ pc' # "idle"
  BY <1>11 DEF Delivery
<1>16. (\E v : Position(v) /\ Parses(sent, Unread, v, Between(Len(sent) + 1)))'
  BY <1>b, <1>12, <1>13
<1> QED
  BY <1>14, <1>15, <1>16 DEF Delivery

\* A frame holds one message only.
LEMMA OneMessage ==
    ASSUME NEW p \in Payload, NEW q \in Payload, Content(p) = Content(q)
    PROVE  p = q
<1> DEFINE n == Len(p)
           l == Len(q)
           c == Content(p)
<1>1. /\ n \in Nat /\ Len(c) = n + 2 /\ \A i \in 1 .. n : c[i + 1] = p[i]
      /\ l \in Nat /\ Len(c) = l + 2 /\ \A i \in 1 .. l : c[i + 1] = q[i]
  <2>1. n \in Nat /\ Len(c) = n + 2 /\ \A i \in 1 .. n : c[i + 1] = p[i]
    BY ContentBytes
  <2>2. /\ Len(q) \in Nat /\ Len(Content(q)) = Len(q) + 2
        /\ \A i \in 1 .. Len(q) : Content(q)[i + 1] = q[i]
    BY ContentBytes
  <2>3. l \in Nat /\ Len(c) = l + 2 /\ \A i \in 1 .. l : c[i + 1] = q[i]
    BY <2>2
  <2> QED
    BY <2>1, <2>3
<1> HIDE DEF n, l, c
<1>2. n = l /\ \A i \in 1 .. n : p[i] = q[i]
  BY <1>1
<1>3. p \in Seq(Byte) /\ q \in Seq(Byte)
  BY ByteAssumption DEF Byte
<1> QED
  BY <1>2, <1>3, SeqEqual DEF n, l

\* read() returns the message that comes next, and leaves the HDLC_SYNC.
LEMMA EndSyncDelivers ==
    ASSUME BufferInv, Delivery, EndSync
    PROVE  Delivery'
<1>a. PICK k : k = Len(out) + 1
  OBVIOUS
<1>b. PICK j : j = Len(buf)
  OBVIOUS
<1> DEFINE c == Content(sent[k])
<1>1. PICK s, path : Position(s) /\ IsPath(path, sent, Unread, s, Between(Len(sent) + 1))
  BY DEF Delivery, Parses
<1>2. /\ AtSwitch /\ read_buf[pos] = HDLC_SYNC /\ buf # <<>> /\ pos < size
      /\ pos \in Nat /\ size \in Nat /\ size <= BUF_SIZE /\ Len(out) \in Nat /\ k \in Nat
  BY <1>a, Standing, ByteAtHand DEF EndSync
<1>3. Leads(sent, HDLC_SYNC, s, path[2])
  BY <1>1, <1>2, ByteAhead
<1>4. /\ Len(out) < Len(sent) /\ s = Within(k, j) /\ \A i \in 1 .. j : buf[i] = c[i]
  BY <1>1, <1>2, <1>a, <1>b DEF Position
<1>5. k \in 1 .. Len(sent) /\ j = Len(c)
  <2>1. Leads(sent, HDLC_SYNC, Within(k, j), path[2])
    BY <1>3, <1>4
  <2> QED
    BY <2>1, LeadsSync
<1>6. sent[k] \in Payload /\ c \in Seq(Byte)
  BY <1>5, ContentSent
<1>7. buf = c
  <2>1. buf \in Seq(Byte) /\ Len(buf) = Len(c) /\ \A i \in 1 .. Len(buf) : buf[i] = c[i]
    BY <1>4, <1>5, <1>b, Standing
  <2> HIDE DEF c
  <2> QED
    BY <1>6, <2>1, SeqEqual
<1>8. Messages(buf) = {sent[k]}
  <2>1. sent[k] \in Messages(buf)
    BY <1>6, <1>7 DEF Messages, Content
  <2>2. ASSUME NEW p \in Messages(buf) PROVE p = sent[k]
    <3>1. p \in Payload /\ Content(p) = Content(sent[k])
      BY <1>7, <2>2 DEF Messages, Content
    <3> QED
      BY <1>6, <3>1, OneMessage
  <2> QED
    BY <2>1, <2>2
<1>9. /\ out' = Append(out, sent[k]) /\ pc' = "idle" /\ pos' = 0 /\ buf' = <<>>
      /\ size' = size - pos /\ read_buf' = Moved /\ stream' = stream /\ sent' = sent
  BY <1>8 DEF EndSync, Return, peerVars
<1>10. /\ Len(out') = k /\ \A m \in 1 .. Len(out') : out'[m] = sent'[m]
       /\ Len(out') <= Len(sent') /\ Len(out') > 0
  <2>1. out \in Seq(Payload) /\ Len(sent) \in Nat
    BY Standing
  <2>2. Len(out') = k /\ out'[k] = sent[k] /\ \A m \in 1 .. Len(out) : out'[m] = out[m]
    BY <1>6, <1>9, <1>a, <2>1, AppendProperties
  <2>3. \A m \in 1 .. Len(out) : out[m] = sent[m]
    BY DEF Delivery
  <2>4. \A m \in 1 .. k : m \in 1 .. Len(out) \/ m = k
    BY <1>2, <1>a
  <2> QED
    BY <1>2, <1>5, <1>9, <2>2, <2>3, <2>4
<1>11. Position(Within(k, j))'
  <2>1. Within(k, j) = Within(Len(out'), Len(Content(sent'[Len(out')])))
    BY <1>5, <1>9, <1>10
  <2> QED
    BY <1>9, <1>10, <2>1 DEF Position
<1>12. Parses(sent', Unread', Within(k, j), Between(Len(sent') + 1))
  <2>1. size' \in Nat /\ Len(stream') \in Nat
    <3>1. size - pos \in Nat
      BY <1>2
    <3>2. Len(stream) \in Nat
      BY Standing
    <3> QED
      BY <1>9, <3>1, <3>2
  <2>2. size' + Len(stream') = Len(Unread)
    BY <1>9, Standing
  <2>3. ASSUME NEW i \in 1 .. size' PROVE read_buf'[i - 1] = Unread[i]
    <3>1. i \in 1 .. size - pos
      BY <1>9
    <3>2. Unread[i] = read_buf[pos + i - 1]
      BY <3>1, Standing, Zenon
    <3>3. i - 1 \in 0 .. BUF_SIZE - 1 /\ i - 1 < size - pos /\ (i - 1) + pos = pos + i - 1
      BY <1>2, <3>1, Sizes
    <3>4. read_buf'[i - 1] = read_buf[(i - 1) + pos]
      BY <1>9, <3>3 DEF Moved
    <3> QED
      BY <3>2, <3>3, <3>4
  <2>4. ASSUME NEW i \in 1 .. Len(stream') PROVE stream'[i] = Unread[size' + i]
    <3> DEFINE n == size - pos
               l == Len(stream)
               U == Unread
    <3>1. n \in Nat /\ l \in Nat /\ i \in 1 .. l
      BY <1>2, <1>9, Standing
    <3>2. \A x \in n + 1 .. n + l : U[x] = stream[x - n]
      BY Standing, Zenon
    <3>3. size' = n /\ stream' = stream
      BY <1>9
    <3> HIDE DEF n, l, U
    <3>4. n + i \in n + 1 .. n + l /\ (n + i) - n = i
      BY <3>1
    <3>5. U[n + i] = stream[i]
      BY <3>2, <3>4
    <3> QED
      BY <3>3, <3>5 DEF U
  <2>5. Parses(sent, Unread, Within(k, j), Between(Len(sent) + 1))
    BY <1>1, <1>4 DEF Parses
  <2>6. Parses(sent', Unread', Within(k, j), Between(Len(sent) + 1))
    BY <1>9, <2>1, <2>2, <2>3, <2>4, <2>5, MovedOn
  <2> QED
    BY <1>9, <2>6
<1>13. pos' <= size'
  BY <1>2, <1>9
<1>14. (\E u : Position(u) /\ Parses(sent, Unread, u, Between(Len(sent) + 1)))'
  BY <1>11, <1>12
<1> QED
  BY <1>9, <1>10, <1>13, <1>14 DEF Delivery

\* What is stored behind the byte kept back, if there is one, is read after it.
LEMMA StoredAhead ==
    ASSUME BufferInv, Delivery, Empty \/ LastByte, NEW n \in Nat, n <= Len(stream),
           NEW at, at = IF Empty THEN 0 ELSE 1, at + n <= BUF_SIZE, at + n > 0,
           read_buf' = Stored(at, SubSeq(stream, 1, n)), size' = at + n, pos' = 0,
           stream' = SubSeq(stream, n + 1, Len(stream)),
           buf' = buf, sent' = sent, out' = out, pc' = "switch"
    PROVE  Delivery'
<1> DEFINE L == Len(stream)
           U == Unread
           u == Len(Unread)
           bytes == SubSeq(stream, 1, n)
<1>1. /\ size \in Nat /\ pos \in Nat /\ pos <= size /\ L \in Nat /\ stream \in Seq(Byte)
      /\ size <= BUF_SIZE
  BY Standing
<1>2. at = size - pos /\ at \in {0, 1}
  BY <1>1 DEF Empty, LastByte
<1>3. /\ u = at + L /\ u \in Nat
      /\ \A i \in 1 .. at : U[i] = read_buf[pos + i - 1]
      /\ \A i \in at + 1 .. at + L : U[i] = stream[i - at]
  BY <1>2, Standing, Zenon
<1>4. Len(bytes) = n /\ \A i \in 1 .. n : bytes[i] = stream[i]
  BY <1>1
<1>5. Len(stream') = L - n /\ \A i \in 1 .. L - n : stream'[i] = stream[n + i]
  BY <1>1
<1> HIDE DEF L, U, u, bytes
<1>6. ASSUME NEW i \in 1 .. at + n PROVE read_buf'[i - 1] = U[i]
  <2>0. i - 1 \in 0 .. BUF_SIZE - 1
    BY <1>2, Sizes
  <2>1. CASE i - 1 < at
    <3>1. at = 1 /\ i = 1 /\ size - 1 = pos /\ pos + i - 1 = pos
      BY <1>1, <1>2, <2>1
    <3>2. read_buf'[i - 1] = read_buf[size - 1]
      BY <2>0, <2>1 DEF Stored
    <3> QED
      BY <1>3, <3>1, <3>2
  <2>2. CASE ~(i - 1 < at)
    <3>1. i - 1 \in at .. at + n - 1 /\ (i - 1) - at + 1 = i - at /\ i - at \in 1 .. n
          /\ i \in at + 1 .. at + L
      BY <1>1, <1>2, <2>2 DEF L
    <3>2. read_buf'[i - 1] = bytes[(i - 1) - at + 1]
      <4>1. read_buf' = Stored(at, bytes)
        BY DEF bytes
      <4>2. i - 1 \in at .. at + Len(bytes) - 1
        BY <1>4, <3>1
      <4> QED
        BY <2>0, <2>2, <4>1, <4>2 DEF Stored
    <3> QED
      BY <1>3, <1>4, <3>1, <3>2
  <2> QED
    BY <2>1, <2>2
<1>7. ASSUME NEW i \in 1 .. L - n PROVE stream'[i] = U[at + n + i]
  <2>1. at + n + i \in at + 1 .. at + L /\ at + n + i - at = n + i
    BY <1>1, <1>2
  <2> QED
    BY <1>3, <1>5, <2>1
<1>8. PICK s : Position(s) /\ Parses(sent, Unread, s, Between(Len(sent) + 1))
  BY DEF Delivery
<1>9. Parses(sent', Unread', s, Between(Len(sent') + 1))
  <2>1. size' \in Nat
    BY <1>2
  <2>2. Len(stream') \in Nat
    BY <1>1, <1>5 DEF L
  <2>3. size' + Len(stream') = Len(Unread)
    <3>a. PICK l : l = Len(stream')
      OBVIOUS
    <3>1. l = L - n
      BY <1>5, <3>a
    <3>2. size' + l = u
      <4>1. size' = at + n
        OBVIOUS
      <4> QED
        BY <1>1, <1>2, <1>3, <3>1, <4>1
    <3> QED
      BY <3>a, <3>2 DEF u
  <2>4. \A i \in 1 .. size' : read_buf'[i - 1] = Unread[i]
    BY <1>6 DEF U
  <2>5. \A i \in 1 .. Len(stream') : stream'[i] = Unread[size' + i]
    BY <1>5, <1>7 DEF U
  <2>6. UNCHANGED sent
    OBVIOUS
  <2>7. Parses(sent', Unread', s, Between(Len(sent) + 1))
    BY <1>8, <2>1, <2>2, <2>3, <2>4, <2>5, <2>6, MovedOn
  <2> QED
    BY <2>6, <2>7
<1>10. Position(s)'
  BY <1>8, SamePosition
<1>11. pos' <= size'
  BY <1>2
<1>12. /\ Len(out') <= Len(sent') /\ \A m \in 1 .. Len(out') : out'[m] = sent'[m]
  BY DEF Delivery
<1>13. (\E v : Position(v) /\ Parses(sent, Unread, v, Between(Len(sent) + 1)))'
  BY <1>9, <1>10
<1> QED
  BY <1>11, <1>12, <1>13 DEF Delivery

\* A fragment of which nothing is dropped is read after what is left.
LEMMA FillDelivers ==
    ASSUME BufferInv, Delivery, damages = 0, damages' = 0,
           NEW n \in MinFragment .. MaxFragment, Fill(n)
    PROVE  Delivery'
<1>a. PICK at : at = IF Empty THEN 0 ELSE 1
  OBVIOUS
<1>b. PICK kept : kept = Min({n, BUF_SIZE - at})
  OBVIOUS
<1>1. /\ at \in {0, 1} /\ n \in Nat /\ n > 0 /\ BUF_SIZE - at \in Int
      /\ BUF_SIZE \in Nat
  BY <1>a, Sizes
<1>2. kept \in {n, BUF_SIZE - at} /\ kept <= n /\ kept <= BUF_SIZE - at
  BY <1>1, <1>b, MinOfTwo
<1>3. /\ read_buf' = Stored(at, SubSeq(stream, 1, kept)) /\ size' = ToSize(at + kept)
      /\ damages' = IF kept < n THEN damages + 1 ELSE damages
      /\ stream' = SubSeq(stream, n + 1, Len(stream)) /\ n <= Len(stream)
      /\ pos' = 0 /\ pc' = "switch" /\ buf' = buf /\ sent' = sent /\ out' = out
      /\ Empty \/ LastByte
  BY <1>a, <1>b DEF Fill
<1>4. kept = n
  <2>1. ~(kept < n)
    BY <1>3
  <2> QED
    BY <1>1, <1>2, <2>1
<1>5. at + n <= BUF_SIZE /\ at + n > 0 /\ at + n \in 0 .. BUF_SIZE
  BY <1>1, <1>2, <1>4
<1>6. size' = at + n
  BY <1>3, <1>4, <1>5, SizeKept
<1> QED
  BY <1>1, <1>3, <1>4, <1>5, <1>6, <1>a, StoredAhead

\* A timeout between two frames, or with a byte kept back, loses nothing.
LEMMA FillTimeoutDelivers ==
    ASSUME BufferInv, Delivery, damages = 0, damages' = 0, FillTimeout
    PROVE  Delivery'
<1>1. ~CutsFrame /\ (Empty \/ LastByte) /\ sent' = sent /\ out' = out /\ stream' = stream
  BY DEF FillTimeout
<1>2. /\ size \in Nat /\ pos \in Nat /\ pos <= size /\ Len(stream) \in Nat
      /\ stream \in Seq(Byte) /\ size <= BUF_SIZE
  BY Standing
<1>3. CASE Empty
  <2>1. /\ buf = <<>> /\ size' = 0 /\ pos' = 0 /\ buf' = <<>> /\ size - pos = 0
    BY <1>1, <1>2, <1>3 DEF FillTimeout, CutsFrame, Return, Empty
  <2> DEFINE U == Unread
             u == Len(Unread)
             L == Len(stream)
  <2>2. u = 0 + L /\ u \in Nat /\ \A i \in 0 + 1 .. 0 + L : U[i] = stream[i - 0]
    BY <2>1, Standing, Zenon
  <2>3. PICK s : Position(s) /\ Parses(sent, Unread, s, Between(Len(sent) + 1))
    BY DEF Delivery
  <2>4. L \in Nat
    BY <1>2
  <2> HIDE DEF U, u, L
  <2>5. ASSUME NEW i \in 1 .. L PROVE stream[i] = U[0 + i]
    <3>1. i \in 0 + 1 .. 0 + L /\ i - 0 = i /\ 0 + i = i
      BY <2>4
    <3> QED
      BY <2>2, <3>1
  <2>6. Parses(sent', Unread', s, Between(Len(sent') + 1))
    <3>1. size' \in Nat /\ 1 .. size' = {}
      BY <2>1
    <3>2. Len(stream') \in Nat
      BY <1>1, <1>2
    <3>3. size' + Len(stream') = Len(Unread)
      BY <1>1, <2>1, <2>2, <2>4 DEF u, L
    <3>4. \A i \in 1 .. size' : read_buf'[i - 1] = Unread[i]
      BY <3>1
    <3>5. \A i \in 1 .. Len(stream') : stream'[i] = Unread[size' + i]
      BY <1>1, <2>1, <2>5 DEF U, L
    <3>6. UNCHANGED sent
      BY <1>1
    <3>7. Parses(sent', Unread', s, Between(Len(sent) + 1))
      BY <2>1, <2>3, <3>1, <3>2, <3>3, <3>4, <3>5, <3>6, MovedOn
    <3> QED
      BY <3>6, <3>7
  <2>7. Position(s)'
    BY <1>1, <2>1, <2>3, SamePosition
  <2>8. (\E v : Position(v) /\ Parses(sent, Unread, v, Between(Len(sent) + 1)))'
    BY <2>6, <2>7
  <2>9. Len(out') <= Len(sent') /\ \A m \in 1 .. Len(out') : out'[m] = sent'[m]
    BY <1>1 DEF Delivery
  <2> QED
    BY <2>1, <2>8, <2>9 DEF Delivery
<1>4. CASE ~Empty
  <2>1. /\ size' = 1 + 0 /\ read_buf' = Stored(1, <<>>) /\ pos' = 0 /\ pc' = "switch"
        /\ buf' = buf
    BY <1>4 DEF FillTimeout
  <2>2. SubSeq(stream, 1, 0) = <<>> /\ SubSeq(stream, 0 + 1, Len(stream)) = stream
    BY <1>2, SubSeqFull, SubSeqEmpty
  <2>3. 0 <= Len(stream) /\ 1 + 0 <= BUF_SIZE /\ 1 + 0 > 0
    BY <1>2, Sizes
  <2>4. 1 = IF Empty THEN 0 ELSE 1
    BY <1>4
  <2>5. 0 \in Nat /\ read_buf' = Stored(1, SubSeq(stream, 1, 0))
        /\ stream' = SubSeq(stream, 0 + 1, Len(stream))
    BY <1>1, <2>1, <2>2
  <2> QED
    BY <1>1, <2>1, <2>3, <2>4, <2>5, StoredAhead
<1> QED
  BY <1>3, <1>4

-----------------------------------------------------------------------------
(* The other steps.                                                        *)

\* A call of read() starts where the last one ended.
LEMMA CallDelivers ==
    ASSUME BufferInv, Delivery, Call
    PROVE  Delivery'
<1>1. /\ pos = 0 /\ buf = <<>> /\ pos' = 0 /\ buf' = <<>>
      /\ size' = size /\ read_buf' = read_buf /\ stream' = stream /\ sent' = sent /\ out' = out
  BY DEF Call, Delivery, bufferVars, peerVars
<1>2. Unread' = Unread
  BY <1>1 DEF Unread
<1>3. PICK s : Position(s) /\ Parses(sent, Unread, s, Between(Len(sent) + 1))
  BY DEF Delivery
<1>4. Position(s)'
  BY <1>1, <1>3, SamePosition
<1>5. Parses(sent', Unread', s, Between(Len(sent') + 1))
  BY <1>1, <1>2, <1>3
<1>6. (\E u : Position(u) /\ Parses(sent, Unread, u, Between(Len(sent) + 1)))'
  BY <1>4, <1>5
<1>7. pos' <= size' /\ Len(out') <= Len(sent') /\ \A m \in 1 .. Len(out') : out'[m] = sent'[m]
  BY <1>1 DEF Delivery
<1> QED
  BY <1>1, <1>6, <1>7 DEF Delivery

\* No frame outgrows the buffer it is read into.
LEMMA NeverTooBig ==
    ASSUME BufferInv, Delivery, FramesFit
    PROVE  Room
<1>1. PICK s : Position(s)
  BY DEF Delivery
<1> DEFINE j == Len(buf)
           k == Len(out) + 1
           n == Len(Content(sent[k]))
           l == Len(sent[k])
<1>2. CASE buf = <<>>
  <2>1. Len(buf) = 0
    BY <1>2
  <2> QED
    BY <2>1 DEF FramesFit, Room
<1>3. CASE Len(out) < Len(sent) /\ j <= n
  <2>1. k \in 1 .. Len(sent)
    BY <1>3, Standing
  <2> HIDE DEF k
  <2>2. sent[k] \in Payload /\ n = l + 2 /\ n \in Nat
    BY <2>1, ContentSent
  <2>3. l + 2 < FRAME_SIZE
    BY <2>2 DEF FramesFit
  <2>4. j <= n /\ j \in Nat
    BY <1>3, Standing
  <2>5. Len(Content(sent[k])) < FRAME_SIZE
    BY <2>2, <2>3
  <2>6. FRAME_SIZE \in Nat
    BY Sizes
  <2>7. n < FRAME_SIZE
    BY <2>5
  <2>8. j < FRAME_SIZE
    <3> HIDE DEF j, n
    <3> QED
      BY <2>2, <2>4, <2>6, <2>7
  <2> QED
    BY <2>8 DEF Room
<1> QED
  BY <1>1, <1>2, <1>3 DEF Position

\* A message that is sent is unread, behind all others.
LEMMA SendDelivers ==
    ASSUME BufferInv, Delivery, damages = 0, damages' = 0, NEW p \in Payload, Send(p)
    PROVE  Delivery'
<1>1. /\ sent' = Append(sent, p) /\ stream' = stream \o Framed(p) /\ ~Escaped(Fcs[p])
      /\ pos' = pos /\ pc' = pc /\ buf' = buf /\ size' = size /\ read_buf' = read_buf /\ out' = out
  BY DEF Send, callVars, bufferVars
<1>2. /\ size \in Nat /\ pos \in Nat /\ pos <= size /\ size <= BUF_SIZE
      /\ stream \in Seq(Byte) /\ Len(stream) \in Nat
      /\ sent \in Seq(Payload) /\ Len(sent) \in Nat /\ Len(out) \in Nat
  BY Standing
<1>a. PICK k : k = Len(sent) + 1
  OBVIOUS
<1>3. /\ sent' \in Seq(Payload) /\ Len(sent') = k /\ sent'[k] = p
      /\ \A m \in 1 .. Len(sent) : sent'[m] = sent[m]
  BY <1>1, <1>2, <1>a, AppendProperties
<1>4. PICK s : Position(s) /\ Parses(sent, Unread, s, Between(k))
  BY <1>a DEF Delivery
<1>5. Parses(sent', Unread, s, Between(k))
  <2>1. Len(sent) <= Len(sent') /\ Len(sent') \in Nat
    BY <1>2, <1>3, <1>a
  <2> QED
    BY <1>2, <1>3, <1>4, <2>1, MoreSent
<1>6. Parses(sent', Framed(p), Between(k), Between(k + 1))
  <2>1. k \in 1 .. Len(sent')
    BY <1>2, <1>3, <1>a
  <2> QED
    BY <1>1, <1>3, <2>1, FramePath
<1>7. Framed(p) \in Seq(Byte)
  BY FramesAreBytes
<1>8. Unread \in Seq(Byte) /\ Unread' = Unread \o Framed(p)
  <2> DEFINE n == size - pos
             F == Framed(p)
             L == Len(stream)
             f == Len(F)
             bytes == [i \in 1 .. n |-> read_buf[pos + i - 1]]
  <2>1. n \in Nat /\ n <= BUF_SIZE /\ L \in Nat /\ f \in Nat /\ F \in Seq(Byte)
    BY <1>2, <1>7, Sizes, LenProperties
  <2>2. /\ \A i \in 1 .. n : read_buf[pos + i - 1] \in Byte
    <3>1. ASSUME NEW i \in 1 .. n PROVE pos + i - 1 \in 0 .. BUF_SIZE - 1
      BY <1>2, Sizes
    <3> QED
      BY <3>1 DEF BufferInv, TypeOK, Byte
  <2>3. \A i \in 1 .. L : stream[i] \in Byte
    BY <1>2, ElementOfSeq
  <2>4. Unread = [i \in 1 .. n + L |-> IF i <= n THEN read_buf[pos + i - 1] ELSE stream[i - n]]
    BY DEF Unread, UnreadOf
  <2>5. /\ Len(stream') = L + f
        /\ \A i \in 1 .. L + f : stream'[i] = IF i <= L THEN stream[i] ELSE F[i - L]
    BY <1>1, <1>2, <1>7, ConcatProperties
  <2>6. Unread' = [i \in 1 .. n + Len(stream') |->
                      IF i <= n THEN read_buf[pos + i - 1] ELSE stream'[i - n]]
    BY <1>1 DEF Unread, UnreadOf
  <2> HIDE DEF n, F, L, f
  <2>7. Unread' = [i \in 1 .. n + (L + f) |->
                      IF i <= n THEN read_buf[pos + i - 1] ELSE stream'[i - n]]
    BY <2>5, <2>6
  <2>8. /\ Unread \in Seq(Byte) /\ Len(Unread) = n + L
    <3>1. ASSUME NEW i \in 1 .. n + L
          PROVE  (IF i <= n THEN read_buf[pos + i - 1] ELSE stream[i - n]) \in Byte
      <4>1. CASE i <= n
        BY <2>1, <2>2, <4>1
      <4>2. CASE ~(i <= n)
        <5>1. i - n \in 1 .. L
          BY <2>1, <4>2
        <5> QED
          BY <2>3, <4>2, <5>1
      <4> QED
        BY <4>1, <4>2
    <3>2. n + L \in Nat
      BY <2>1
    <3> QED
      BY <2>4, <3>1, <3>2, IsASeq
  <2> DEFINE U == Unread
             V == Unread'
  <2>9. U = [i \in 1 .. n + L |-> IF i <= n THEN read_buf[pos + i - 1] ELSE stream[i - n]]
        /\ Len(U) = n + L /\ U \in Seq(Byte)
    BY <2>4, <2>8
  <2>10. V = [i \in 1 .. n + (L + f) |-> IF i <= n THEN read_buf[pos + i - 1] ELSE stream'[i - n]]
    BY <2>7
  <2>11. Len(F) = f /\ \A i \in 1 .. L + f : stream'[i] = IF i <= L THEN stream[i] ELSE F[i - L]
    BY <2>5 DEF f
  <2> HIDE DEF U, V
  <2>12. /\ U \o F \in Seq(Byte) /\ Len(U \o F) = (n + L) + f
         /\ \A i \in 1 .. (n + L) + f : (U \o F)[i] = IF i <= n + L THEN U[i] ELSE F[i - (n + L)]
    BY <2>1, <2>9, <2>11, ConcatProperties
  <2>13. Len(V) = n + (L + f) /\ (n + L) + f = n + (L + f) /\ n + (L + f) \in Nat
    BY <2>1, <2>10
  <2>14. ASSUME NEW i \in 1 .. (n + L) + f PROVE V[i] = (U \o F)[i]
    <3>1. i \in 1 .. n + (L + f)
      BY <2>13
    <3>2. CASE i <= n
      <4>1. V[i] = read_buf[pos + i - 1]
        BY <2>10, <3>1, <3>2
      <4>2. i \in 1 .. n + L /\ i <= n + L
        BY <2>1, <3>2
      <4>3. U[i] = read_buf[pos + i - 1]
        BY <2>9, <3>2, <4>2
      <4> QED
        BY <2>12, <4>1, <4>2, <4>3
    <3>3. CASE ~(i <= n) /\ i <= n + L
      <4>1. i - n \in 1 .. L + f /\ i - n <= L /\ i \in 1 .. n + L
        BY <2>1, <3>1, <3>3
      <4>2. V[i] = stream[i - n]
        BY <2>10, <2>11, <3>1, <3>3, <4>1
      <4>3. U[i] = stream[i - n]
        BY <2>9, <3>3, <4>1
      <4> QED
        BY <2>12, <3>3, <4>2, <4>3
    <3>4. CASE ~(i <= n + L)
      <4>1. i - n \in 1 .. L + f /\ ~(i - n <= L) /\ i - n - L = i - (n + L) /\ ~(i <= n)
        BY <2>1, <3>1, <3>4
      <4>2. V[i] = F[i - (n + L)]
        BY <2>10, <2>11, <3>1, <4>1
      <4> QED
        BY <2>12, <3>4, <4>2
    <3> QED
      BY <3>2, <3>3, <3>4
  <2>15. V \in Seq(Byte)
    <3>1. ASSUME NEW i \in 1 .. n + (L + f) PROVE V[i] \in Byte
      <4>1. V[i] = (U \o F)[i] /\ i \in 1 .. Len(U \o F)
        BY <2>12, <2>13, <2>14
      <4> QED
        BY <2>12, <4>1, ElementOfSeq
    <3>2. V = [i \in 1 .. n + (L + f) |-> V[i]]
      BY <2>10
    <3> QED
      BY <2>13, <3>1, <3>2, IsASeq
  <2>16. V = U \o F
    BY <2>12, <2>13, <2>14, <2>15, SeqEqual
  <2> QED
    BY <2>9, <2>16 DEF U, V, F
<1>9. Parses(sent', Unread', s, Between(Len(sent') + 1))
  <2>1. Parses(sent', Unread \o Framed(p), s, Between(k + 1))
    BY <1>5, <1>6, <1>7, <1>8, PathsJoin
  <2> QED
    BY <1>3, <1>8, <2>1
<1>10. Position(s)'
  <2>1. CASE buf = <<>> /\ s = Between(Len(out) + 1)
    BY <1>1, <2>1 DEF Position
  <2>2. CASE buf = <<>> /\ Len(out) > 0 /\ s = Within(Len(out), Len(Content(sent[Len(out)])))
    <3>1. Len(out) \in 1 .. Len(sent)
      BY <1>2, <2>2 DEF Delivery
    <3>2. sent'[Len(out)] = sent[Len(out)]
      BY <1>3, <3>1
    <3> QED
      BY <1>1, <2>2, <3>2 DEF Position
  <2>3. CASE /\ Len(out) < Len(sent) /\ s = Within(Len(out) + 1, Len(buf))
             /\ Len(buf) <= Len(Content(sent[Len(out) + 1]))
             /\ \A i \in 1 .. Len(buf) : buf[i] = Content(sent[Len(out) + 1])[i]
    <3>1. Len(out) + 1 \in 1 .. Len(sent)
      BY <1>2, <2>3
    <3>2. sent'[Len(out) + 1] = sent[Len(out) + 1] /\ Len(out) < Len(sent')
      BY <1>2, <1>3, <1>a, <2>3, <3>1
    <3> QED
      BY <1>1, <2>3, <3>2 DEF Position
  <2> QED
    BY <1>4, <2>1, <2>2, <2>3 DEF Position
<1>11. /\ Len(out') <= Len(sent') /\ \A m \in 1 .. Len(out') : out'[m] = sent'[m]
  <2>1. Len(out) <= Len(sent) /\ \A m \in 1 .. Len(out) : out[m] = sent[m]
    BY DEF Delivery
  <2>2. \A m \in 1 .. Len(out) : m \in 1 .. Len(sent)
    BY <1>2, <2>1
  <2> QED
    BY <1>1, <1>2, <1>3, <1>a, <2>1, <2>2
<1>12. (\E u : Position(u) /\ Parses(sent, Unread, u, Between(Len(sent) + 1)))'
  BY <1>9, <1>10
<1>13. pos' <= size' /\ (pc' = "idle" => pos' = 0 /\ buf' = <<>>)
  BY <1>1 DEF Delivery
<1> QED
  BY <1>11, <1>12, <1>13 DEF Delivery

-----------------------------------------------------------------------------
(* The invariant.                                                          *)

\* Nothing was sent, and nothing is unread.
LEMMA DeliveryInit == Init => DeliveryInv
<1> SUFFICES ASSUME Init PROVE Delivery
  BY DEF DeliveryInv
<1>1. /\ size = 0 /\ pos = 0 /\ buf = <<>> /\ stream = <<>> /\ sent = <<>> /\ out = <<>>
  BY DEF Init
<1>2. Len(sent) = 0 /\ Len(out) = 0 /\ Len(stream) = 0
  BY <1>1
<1>3. Len(Unread) = 0
  BY <1>1, <1>2 DEF Unread, UnreadOf
<1> DEFINE path == <<Between(1)>>
<1>4. path[1] = Between(1)
  OBVIOUS
<1> HIDE DEF path, Unread
<1>5. IsPath(path, sent, Unread, Between(1), Between(1))
  <2>1. 1 .. Len(Unread) = {} /\ Len(Unread) + 1 = 1
    BY <1>3
  <2> QED
    BY <1>4, <2>1 DEF IsPath
<1>6. Parses(sent, Unread, Between(1), Between(Len(sent) + 1))
  BY <1>2, <1>5 DEF Parses
<1>7. Position(Between(1))
  BY <1>1, <1>2 DEF Position
<1> QED
  BY <1>1, <1>2, <1>6, <1>7 DEF Delivery

\* Every step keeps it.
LEMMA DeliveryStep ==
    ASSUME FramesFit, BufferInv, EscapeIsPaired, DeliveryInv, [Next]_vars
    PROVE  DeliveryInv'
<1> SUFFICES ASSUME damages' = 0, failed' = "never" PROVE Delivery'
  BY DEF DeliveryInv
<1>1. damages \in Nat
  BY DEF BufferInv, TypeOK
<1>2. damages = 0 /\ failed = "never"
  <2>1. damages' \in {damages, damages + 1}
    BY DEF Next, read, Call, Fill, FillTimeout, FillFails, Escape, Plain, SkipSync, EndSync,
           TooBig, Send, Lose, vars, peerVars
  <2>2. failed' # failed => failed' # "never"
    BY DEF Next, read, Call, Fill, FillTimeout, FillFails, Escape, Plain, SkipSync, EndSync,
           TooBig, Send, Lose, vars, callVars
  <2> QED
    BY <1>1, <2>1, <2>2
<1>3. Delivery
  BY <1>2 DEF DeliveryInv
<1>4. CASE Call
  BY <1>3, <1>4, CallDelivers
<1>5. ASSUME NEW n \in MinFragment .. MaxFragment, Fill(n) PROVE Delivery'
  BY <1>2, <1>3, <1>5, FillDelivers
<1>6. CASE FillTimeout
  BY <1>2, <1>3, <1>6, FillTimeoutDelivers
<1>7. CASE FillFails
  BY <1>7 DEF FillFails
<1>8. CASE Escape
  BY <1>2, <1>3, <1>8, EscapeDelivers
<1>9. CASE Plain
  BY <1>3, <1>9, PlainDelivers
<1>10. CASE SkipSync
  BY <1>3, <1>10, SkipSyncDelivers
<1>11. CASE EndSync
  BY <1>3, <1>11, EndSyncDelivers
<1>12. CASE TooBig
  BY <1>3, <1>12, NeverTooBig DEF TooBig
<1>13. ASSUME NEW p \in Payload, Send(p) PROVE Delivery'
  BY <1>2, <1>3, <1>13, SendDelivers
<1>14. ASSUME NEW n \in 1 .. MaxFragment, Lose(n) PROVE Delivery'
  BY <1>2, <1>14 DEF Lose
<1>15. CASE UNCHANGED vars
  <2>1. /\ read_buf' = read_buf /\ size' = size /\ pc' = pc /\ pos' = pos /\ buf' = buf
        /\ stream' = stream /\ sent' = sent /\ out' = out
    BY <1>15 DEF vars
  <2>2. Unread' = Unread
    BY <2>1 DEF Unread
  <2>3. PICK s : Position(s) /\ Parses(sent, Unread, s, Between(Len(sent) + 1))
    BY <1>3 DEF Delivery
  <2>4. Position(s)'
    BY <2>1, <2>3, SamePosition
  <2>5. Parses(sent', Unread', s, Between(Len(sent') + 1))
    BY <2>1, <2>2, <2>3
  <2>6. (\E u : Position(u) /\ Parses(sent, Unread, u, Between(Len(sent) + 1)))'
    BY <2>4, <2>5
  <2>7. /\ pos' <= size' /\ (pc' = "idle" => pos' = 0 /\ buf' = <<>>)
        /\ Len(out') <= Len(sent') /\ \A m \in 1 .. Len(out') : out'[m] = sent'[m]
    BY <1>3, <2>1 DEF Delivery
  <2> QED
    BY <2>6, <2>7 DEF Delivery
<1> QED
  BY <1>4, <1>5, <1>6, <1>7, <1>8, <1>9, <1>10, <1>11, <1>12, <1>13, <1>14, <1>15
     DEF Next, read

\* It holds in every reachable state, whose fragments have two bytes or more.
LEMMA DeliveryInvariant ==
    ASSUME MinFragment > 1, FramesFit
    PROVE  Spec => [](BufferInv /\ DeliveryInv)
<1>1. Init => DeliveryInv
  BY DeliveryInit
<1>2. BufferInv /\ EscapeIsPaired /\ DeliveryInv /\ [Next]_vars => DeliveryInv'
  BY DeliveryStep
<1>3. Spec => []EscapeIsPaired
  BY EscapesPaired
<1> QED
  BY <1>1, <1>2, <1>3, BufferInvariant, PTL DEF Spec

-----------------------------------------------------------------------------
(* The properties.                                                         *)

\* When all that was sent has been looked at, all of it was returned.
LEMMA AllReturned ==
    ASSUME BufferInv, Delivery, Drained
    PROVE  Len(out) = Len(sent)
<1>1. /\ size = 0 /\ pos = 0 /\ Len(stream) = 0 /\ buf = <<>>
  BY DEF Drained, Delivery
<1>2. Len(Unread) = 0
  BY <1>1 DEF Unread, UnreadOf
<1>3. PICK s, path : Position(s) /\ IsPath(path, sent, Unread, s, Between(Len(sent) + 1))
  BY DEF Delivery, Parses
<1> HIDE DEF Unread
<1>4. s = Between(Len(sent) + 1)
  <2>1. Len(Unread) + 1 = 1
    BY <1>2
  <2> QED
    BY <1>3, <2>1 DEF IsPath
<1>5. s # Within(Len(out), Len(Content(sent[Len(out)]))) /\ s # Within(Len(out) + 1, Len(buf))
  BY <1>4 DEF Between, Within
<1>6. Between(Len(out) + 1) = Between(Len(sent) + 1)
  BY <1>3, <1>4, <1>5 DEF Position
<1>a. PICK a, b : a = Len(out) /\ b = Len(sent)
  OBVIOUS
<1>7. a + 1 = b + 1 /\ a \in Nat /\ b \in Nat
  BY <1>6, <1>a, Standing DEF Between
<1> QED
  BY <1>7, <1>a

\* read() returns the messages that were sent, in the order sent and each of
\* them once, and none is missing when it has looked at all bytes: whatever the
\* messages are and wherever the stream is cut into fragments (of two bytes or
\* more), as long as nothing was lost, cut or truncated and no checksum needs an
\* escape.  (smanet.cpp:92-197, what its tests show of one cut of one frame.)
THEOREM DeliveredInOrder ==
    ASSUME MinFragment > 1, FramesFit
    PROVE  Spec => [](damages = 0 /\ failed = "never" =>
                          /\ Len(out) <= Len(sent)
                          /\ \A k \in 1 .. Len(out) : out[k] = sent[k]
                          /\ Drained => out = sent)
<1> DEFINE Ordered == damages = 0 /\ failed = "never" =>
                          /\ Len(out) <= Len(sent)
                          /\ \A k \in 1 .. Len(out) : out[k] = sent[k]
                          /\ Drained => out = sent
<1>1. BufferInv /\ DeliveryInv => Ordered
  <2> SUFFICES ASSUME BufferInv, Delivery
               PROVE  /\ Len(out) <= Len(sent)
                      /\ \A k \in 1 .. Len(out) : out[k] = sent[k]
                      /\ Drained => out = sent
    BY DEF DeliveryInv
  <2>1. Len(out) <= Len(sent) /\ \A k \in 1 .. Len(out) : out[k] = sent[k]
    BY DEF Delivery
  <2>2. ASSUME Drained PROVE out = sent
    <3>1. Len(out) = Len(sent)
      BY <2>2, AllReturned
    <3>2. out \in Seq(Payload) /\ sent \in Seq(Payload)
      BY Standing
    <3> QED
      BY <2>1, <3>1, <3>2, SeqEqual
  <2> QED
    BY <2>1, <2>2
<1> QED
  BY <1>1, DeliveryInvariant, PTL

\* With no damage, nothing that was sent is missing in the end.
THEOREM NothingLost ==
    ASSUME MinFragment > 1, FramesFit
    PROVE  Spec => [](damages = 0 => LossIsLocal)
<1>1. BufferInv /\ DeliveryInv => (damages = 0 => LossIsLocal)
  <2> SUFFICES ASSUME BufferInv, Delivery, Drained, damages = 0
               PROVE  Len(sent) - Len(out) <= 2 * damages
    BY DEF DeliveryInv, LossIsLocal
  <2>a. PICK a, b : a = Len(out) /\ b = Len(sent)
    OBVIOUS
  <2>1. a = b /\ a \in Nat
    BY <2>a, AllReturned, Standing
  <2>2. b - a <= 2 * damages
    BY <2>1
  <2> QED
    BY <2>2, <2>a
<1> QED
  BY <1>1, DeliveryInvariant, PTL

\* The first n numbers, counted one after the other.
LEMMA CountUpTo ==
    ASSUME NEW n \in Nat
    PROVE  /\ Cardinality(1 .. n) = n
           /\ \A m \in 1 .. n : Cardinality({j \in 1 .. n : j <= m}) = m
<1>1. \A a \in Int, b \in Int : Cardinality(a .. b) = IF a > b THEN 0 ELSE b - a + 1
  BY FS_Interval
<1>2. Cardinality(1 .. n) = n
  BY <1>1
<1>3. ASSUME NEW m \in 1 .. n PROVE Cardinality({j \in 1 .. n : j <= m}) = m
  <2>1. {j \in 1 .. n : j <= m} = 1 .. m
    OBVIOUS
  <2>2. Cardinality(1 .. m) = m
    BY <1>1
  <2> QED
    BY <2>1, <2>2
<1> QED
  BY <1>2, <1>3

\* With no damage, the messages read() returned are the first of those that were
\* sent.
THEOREM NothingReturnedTwice ==
    ASSUME MinFragment > 1, FramesFit
    PROVE  Spec => [](damages = 0 => NothingTwice)
<1>1. BufferInv /\ DeliveryInv => (damages = 0 => NothingTwice)
  <2> SUFFICES ASSUME BufferInv, Delivery PROVE NothingTwice
    BY DEF DeliveryInv, NothingTwice
  <2>a. PICK n : n = Len(out)
    OBVIOUS
  <2> DEFINE taken == 1 .. n
  <2>1. /\ n \in Nat /\ Len(sent) \in Nat /\ n <= Len(sent) /\ \A k \in 1 .. n : out[k] = sent[k]
        /\ out \in Seq(Payload)
    BY <2>a, Standing DEF Delivery
  <2>2. taken \in SUBSET (1 .. Len(sent))
    BY <2>1
  <2>3. /\ Cardinality(taken) = n
        /\ \A m \in taken : Cardinality({j \in taken : j <= m}) = m
    BY <2>1, CountUpTo
  <2> HIDE DEF taken
  <2>4. ASSUME NEW k \in 1 .. n
        PROVE  (CHOOSE m \in taken : Cardinality({j \in taken : j <= m}) = k) = k
    <3>1. k \in taken
      BY DEF taken
    <3>2. \A m \in taken : Cardinality({j \in taken : j <= m}) = k <=> m = k
      BY <2>3
    <3> QED
      BY <3>1, <3>2
  <2>5. out = [k \in 1 .. Cardinality(taken) |->
                  sent[CHOOSE m \in taken : Cardinality({j \in taken : j <= m}) = k]]
    <3>1. out = [k \in 1 .. n |-> out[k]]
      BY <2>a, <2>1
    <3>2. [k \in 1 .. n |-> out[k]]
              = [k \in 1 .. n |->
                    sent[CHOOSE m \in taken : Cardinality({j \in taken : j <= m}) = k]]
      BY <2>1, <2>4
    <3> QED
      BY <2>3, <3>1, <3>2
  <2> QED
    BY <2>2, <2>5 DEF NothingTwice
<1> QED
  BY <1>1, DeliveryInvariant, PTL
=============================================================================
