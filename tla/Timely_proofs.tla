---------------------------- MODULE Timely_proofs ----------------------------
(***************************************************************************)
(* Proofs about a session whose inverters answer in time, for a plant of   *)
(* any size: what session_timely checks for three inverters.               *)
(*                                                                         *)
(* The argument: until several inverters answer a query of which the code  *)
(* reads one answer, nothing is left of the request before whenever the    *)
(* code writes one.  In discovery and authentication every inverter has    *)
(* one answer, which is read, in the mailbox, or still owed; in every      *)
(* other read the packets read, in the mailbox and still owed are, in this *)
(* order, the answer to the one request that was sent.  Once an answer is  *)
(* left over only the list of devices is still known: no call made then    *)
(* changes it.                                                             *)
(***************************************************************************)
EXTENDS Smadata2plus_proofs, FiniteSetTheorems

\* The first session with a plant that answers in time, to the number of devices
\* that the link reports, with room for all answers in the mailbox.
TimelyPlant ==
    /\ Timely
    /\ IsFiniteSet(Serial) /\ Serial # {}
    /\ DeviceNums = {Cardinality(Serial)}
    /\ MailboxSize >= Cardinality(Serial) /\ MailboxSize >= MaxFragments
    /\ MaxOwed >= MaxFragments
    /\ MaxSessions = 1

\* No answer is on its way.
Quiet(box, due) == box = <<>> /\ \A s \in Serial : due[s] = <<>>

Sources(box) == {box[i].src : i \in 1 .. Len(box)}

\* Of every inverter one answer is expected: those of `done`, n of them, were
\* read, some wait in the mailbox, and the others are owed.
OneEach(done, n, box, due) ==
    /\ n = Cardinality(done)
    /\ Sources(box) \cap done = {}
    /\ \A i, j \in 1 .. Len(box) : box[i].src = box[j].src => i = j
    /\ \A s \in Serial :
          /\ s \in done \cup Sources(box) => due[s] = <<>>
          /\ s \notin done \cup Sources(box) => Len(due[s]) = 1 /\ due[s][1].src = s

Packet(id, kind, num) == [src |-> id, kind |-> kind, num |-> num]

\* One inverter answers with n packets, which count down to 0 from those that
\* were read to those that are owed.
Flow(id, kind, n, ps, box, due) ==
    /\ Len(ps) + Len(box) + Len(due[id]) = n
    /\ \A i \in 1 .. Len(ps) : ps[i] = Packet(id, kind, n - i)
    /\ \A i \in 1 .. Len(box) : box[i] = Packet(id, kind, n - Len(ps) - i)
    /\ \A i \in 1 .. Len(due[id]) :
          due[id][i] = Packet(id, kind, n - Len(ps) - Len(box) - i)
    /\ \A s \in Serial \ {id} : due[s] = <<>>

\* The inverters in the list, and those marked in it.
Listed == {devices[i].serial : i \in 1 .. Len(devices)}
Marked == {devices[i].serial : i \in {j \in 1 .. Len(devices) : devices[j].authenticated}}

\* Nothing is on its way between two requests, and nothing is left of a call.
CalmInv ==
    /\ pc # "crashed"
    /\ pc \notin ReadPc => Quiet(inbox, owed)
    /\ pc # "archiveRead" => parts = <<>>
    /\ pc \notin {"discoverRead", "authRead"} => got = 0
    /\ sessions # 0 => deviceNum = Cardinality(Serial)
    /\ sessions = 0 => pc = "idle" /\ devices = <<>> /\ link = "new"

\* The list of devices on its way to be complete.
DeviceInv ==
    /\ pc \in {"logout", "discover"} => devices = <<>>
    /\ NoDuplicateDevices
    /\ pc \in {"discoverRead", "auth"} =>
          \A i \in 1 .. Len(devices) : ~devices[i].authenticated
    /\ PlantComplete

\* What is on its way during a read.
AnswerInv ==
    /\ pc = "discoverRead" => OneEach(Listed, got, inbox, owed) /\ got = Len(devices)
    /\ pc = "authRead" => OneEach(Marked, got, inbox, owed)
    /\ pc = "syncRead" => \E s \in Serial : Flow(s, "time", 1, <<>>, inbox, owed)
    /\ pc = "recordRead" =>
          \E s \in Serial :
              (op.obj # Status => s = op.id) /\ Flow(s, op.obj, 1, <<>>, inbox, owed)
    /\ pc = "archiveRead" =>
          \E n \in 1 .. MaxFragments :
              Len(parts) < n /\ Flow(op.id, op.obj, n, parts, inbox, owed)

ResultInv == AnswersAreAsked /\ ArchiveComplete

EachInv == CalmInv /\ DeviceInv /\ AnswerInv /\ ResultInv

\* Where the code still goes once several inverters answered a query of which it
\* reads one answer.
LatePc == {"sync", "syncRead", "syncAck", "syncSet", "syncAdjust", "connected", "records",
           "recordRead", "archive", "archiveRead", "idle", "aborted"}
LateInv == pc \in LatePc /\ sessions # 0

TimelyInv ==
    /\ DeviceInv
    /\ leftover => LateInv
    /\ ~leftover => EachInv

-----------------------------------------------------------------------------
(* One answer of every inverter.                                           *)

\* Appending an answer adds its sender.
LEMMA SourcesAppend ==
    ASSUME NEW box \in Seq(Answer), NEW a \in Answer
    PROVE  Sources(Append(box, a)) = Sources(box) \cup {a.src}
<1>1. /\ Len(box) \in Nat /\ Len(Append(box, a)) = Len(box) + 1
      /\ \A i \in 1 .. Len(box) : Append(box, a)[i] = box[i]
      /\ Append(box, a)[Len(box) + 1] = a
  BY LenProperties, AppendProperties
<1>2. 1 .. Len(box) + 1 = (1 .. Len(box)) \cup {Len(box) + 1}
  BY <1>1
<1>3. Sources(Append(box, a)) = {Append(box, a)[i].src : i \in 1 .. Len(box) + 1}
  BY <1>1 DEF Sources
<1>4. Sources(box) \cup {a.src} \subseteq Sources(Append(box, a))
  BY <1>1, <1>2, <1>3 DEF Sources
<1>5. Sources(Append(box, a)) \subseteq Sources(box) \cup {a.src}
  BY <1>1, <1>2, <1>3 DEF Sources
<1> QED
  BY <1>4, <1>5

\* Answers of different inverters, none of them s, are fewer than the inverters.
LEMMA FewerThanSerials ==
    ASSUME IsFiniteSet(Serial), NEW s \in Serial, NEW box \in Seq(Answer),
           s \notin Sources(box),
           \A i, j \in 1 .. Len(box) : box[i].src = box[j].src => i = j
    PROVE  Len(box) < Cardinality(Serial)
<1> DEFINE f == [i \in 1 .. Len(box) |-> box[i].src]
<1>1. Len(box) \in Nat /\ \A i \in 1 .. Len(box) : box[i] \in Answer
  BY LenProperties, ElementOfSeq
<1>2. \A i \in 1 .. Len(box) : box[i].src \in Serial \ {s}
  BY <1>1 DEF Answer, Sources
<1>3. f \in Injection(1 .. Len(box), Serial \ {s})
  <2>1. f \in [1 .. Len(box) -> Serial \ {s}]
    BY <1>2
  <2>2. \A i, j \in 1 .. Len(box) : f[i] = f[j] => i = j
    OBVIOUS
  <2> HIDE DEF f
  <2> QED
    BY <2>1, <2>2 DEF Injection, IsInjective
<1>4. /\ IsFiniteSet(Serial \ {s}) /\ Cardinality(Serial \ {s}) = Cardinality(Serial) - 1
  BY FS_RemoveElement
<1>5. Cardinality(1 .. Len(box)) = Len(box)
  <2>1. 1 \in Int /\ Len(box) \in Int
    BY <1>1
  <2>2. Cardinality(1 .. Len(box)) = IF 1 > Len(box) THEN 0 ELSE Len(box) - 1 + 1
    BY <2>1, FS_Interval
  <2> QED
    BY <1>1, <2>2
<1>6. Cardinality(1 .. Len(box)) <= Cardinality(Serial \ {s})
  <2> HIDE DEF f
  <2> QED
    BY <1>3, <1>4, FS_Injection
<1>7. Cardinality(Serial) \in Nat
  BY FS_CardinalityType
<1> QED
  BY <1>1, <1>4, <1>5, <1>6, <1>7

\* An answer arrives: there is room for it, and it is its sender's only one.
LEMMA OneArrives ==
    ASSUME IsFiniteSet(Serial), NEW done, NEW n,
           NEW box \in Seq(Answer), NEW due \in [Serial -> Seq(Answer)],
           OneEach(done, n, box, due), NEW s \in Serial, due[s] # <<>>
    PROVE  /\ Len(box) < Cardinality(Serial)
           /\ OneEach(done, n, Append(box, Head(due[s])), [due EXCEPT ![s] = Tail(@)])
<1> DEFINE a == Head(due[s])
           due2 == [due EXCEPT ![s] = Tail(@)]
           box2 == Append(box, a)
<1>1. s \notin done \cup Sources(box) /\ Len(due[s]) = 1 /\ due[s][1].src = s
  BY DEF OneEach
<1>2. due[s] \in Seq(Answer)
  OBVIOUS
<1>3. a \in Answer /\ a = due[s][1] /\ Len(Tail(due[s])) = 0 /\ Tail(due[s]) \in Seq(Answer)
  BY <1>1, <1>2, HeadTailProperties
<1>4. a.src = s /\ Tail(due[s]) = <<>>
  BY <1>1, <1>3, EmptySeq
<1>5. Sources(box2) = Sources(box) \cup {s}
  BY <1>3, <1>4, SourcesAppend
<1>6. Len(box) < Cardinality(Serial)
  BY <1>1, FewerThanSerials DEF OneEach
<1>7. /\ Len(box) \in Nat /\ Len(box2) = Len(box) + 1
      /\ \A i \in 1 .. Len(box) : box2[i] = box[i]
      /\ box2[Len(box) + 1] = a
  BY <1>3, LenProperties, AppendProperties
<1>8. \A i \in 1 .. Len(box) : box[i].src # s
  BY <1>1 DEF Sources
<1>9. ASSUME NEW i \in 1 .. Len(box2), NEW j \in 1 .. Len(box2), box2[i].src = box2[j].src
      PROVE  i = j
  <2>1. i \in 1 .. Len(box) \/ i = Len(box) + 1
    BY <1>7
  <2>2. j \in 1 .. Len(box) \/ j = Len(box) + 1
    BY <1>7
  <2> QED
    BY <1>4, <1>7, <1>8, <1>9, <2>1, <2>2 DEF OneEach
<1>10. ASSUME NEW t \in Serial
       PROVE  /\ t \in done \cup Sources(box2) => due2[t] = <<>>
              /\ t \notin done \cup Sources(box2) => Len(due2[t]) = 1 /\ due2[t][1].src = t
  <2>1. CASE t = s
    BY <1>4, <1>5, <2>1
  <2>2. CASE t # s
    BY <1>5, <2>2 DEF OneEach
  <2> QED
    BY <2>1, <2>2
<1>11. Sources(box2) \cap done = {} /\ n = Cardinality(done)
  BY <1>1, <1>5 DEF OneEach
<1> HIDE DEF a, due2, box2
<1>12. OneEach(done, n, box2, due2)
  BY <1>9, <1>10, <1>11 DEF OneEach
<1> QED
  BY <1>6, <1>12 DEF a, due2, box2

\* An answer is read: it is one of an inverter that was not done.
LEMMA OneRead ==
    ASSUME NEW done, IsFiniteSet(done), NEW n,
           NEW box \in Seq(Answer), NEW due, OneEach(done, n, box, due), box # <<>>
    PROVE  /\ Head(box).src \notin done
           /\ OneEach(done \cup {Head(box).src}, n + 1, Tail(box), due)
<1> DEFINE s == Head(box).src
           box2 == Tail(box)
<1>1. /\ Len(box) \in Nat /\ Len(box) >= 1 /\ Head(box) = box[1]
      /\ Len(box2) = Len(box) - 1
      /\ \A i \in 1 .. Len(box2) : box2[i] = box[i + 1]
  BY HeadTailProperties, EmptySeq
<1>2. s \in Sources(box)
  BY <1>1 DEF Sources
<1>3. s \notin done
  BY <1>2 DEF OneEach
<1>4. \A i \in 1 .. Len(box2) : box2[i].src # s
  BY <1>1 DEF OneEach
<1>5. Sources(box) = Sources(box2) \cup {s}
  <2>1. ASSUME NEW i \in 1 .. Len(box) PROVE box[i].src \in Sources(box2) \cup {s}
    <3>1. CASE i = 1
      BY <1>1, <3>1
    <3>2. CASE i # 1
      <4>1. i - 1 \in 1 .. Len(box2) /\ box2[i - 1] = box[i]
        BY <1>1, <3>2
      <4> QED
        BY <4>1 DEF Sources
    <3> QED
      BY <3>1, <3>2
  <2>2. ASSUME NEW i \in 1 .. Len(box2) PROVE box2[i].src \in Sources(box)
    <3>1. i + 1 \in 1 .. Len(box) /\ box2[i] = box[i + 1]
      BY <1>1
    <3> QED
      BY <3>1 DEF Sources
  <2> QED
    BY <1>2, <2>1, <2>2 DEF Sources
<1>6. s \notin Sources(box2)
  BY <1>4 DEF Sources
<1>7. n + 1 = Cardinality(done \cup {s})
  BY <1>3, FS_AddElement DEF OneEach
<1>8. \A i, j \in 1 .. Len(box2) : box2[i].src = box2[j].src => i = j
  <2> SUFFICES ASSUME NEW i \in 1 .. Len(box2), NEW j \in 1 .. Len(box2),
                      box2[i].src = box2[j].src
               PROVE  i = j
    OBVIOUS
  <2>1. /\ i + 1 \in 1 .. Len(box) /\ j + 1 \in 1 .. Len(box)
        /\ box2[i] = box[i + 1] /\ box2[j] = box[j + 1]
    BY <1>1
  <2>2. i + 1 = j + 1
    BY <2>1 DEF OneEach
  <2> QED
    BY <1>1, <2>2
<1>9. (done \cup {s}) \cup Sources(box2) = done \cup Sources(box)
  BY <1>5
<1> HIDE DEF s, box2
<1>10. OneEach(done \cup {s}, n + 1, box2, due)
  BY <1>5, <1>6, <1>7, <1>8, <1>9 DEF OneEach
<1> QED
  BY <1>3, <1>10 DEF s, box2

\* As many answers as inverters are all answers, and nothing is on its way.
LEMMA OneIsAll ==
    ASSUME IsFiniteSet(Serial), NEW done \in SUBSET Serial, NEW n,
           NEW box \in Seq(Answer), NEW due,
           OneEach(done, n, box, due), n >= Cardinality(Serial)
    PROVE  done = Serial /\ Quiet(box, due)
<1>1. /\ Cardinality(done) <= Cardinality(Serial)
      /\ Cardinality(Serial) = Cardinality(done) => Serial = done
      /\ IsFiniteSet(done)
  BY FS_Subset
<1>2. Cardinality(done) \in Nat /\ Cardinality(Serial) \in Nat
  BY <1>1, FS_CardinalityType
<1>3. done = Serial
  BY <1>1, <1>2 DEF OneEach
<1>4. box = <<>>
  <2> SUFFICES ASSUME box # <<>> PROVE FALSE
    OBVIOUS
  <2>1. 1 \in 1 .. Len(box)
    BY EmptySeq
  <2>2. box[1].src \in Serial /\ box[1].src \in Sources(box)
    <3>1. box[1] \in Answer
      BY <2>1, ElementOfSeq
    <3> QED
      BY <2>1, <3>1 DEF Answer, Sources
  <2> QED
    BY <1>3, <2>2 DEF OneEach
<1>5. \A s \in Serial : due[s] = <<>>
  BY <1>3 DEF OneEach
<1> QED
  BY <1>3, <1>4, <1>5 DEF Quiet

\* With nothing on its way all answers were read.
LEMMA OneQuiet ==
    ASSUME NEW done \in SUBSET Serial, NEW n, NEW box, NEW due,
           OneEach(done, n, box, due), Quiet(box, due)
    PROVE  n = Cardinality(Serial)
<1>1. Sources(box) = {}
  BY DEF Quiet, Sources
<1>2. ASSUME NEW s \in Serial PROVE s \in done
  <2>1. due[s] = <<>> /\ Len(<<>>) = 0
    BY DEF Quiet
  <2> QED
    BY <1>1, <2>1 DEF OneEach
<1> QED
  BY <1>2 DEF OneEach

\* With one answer asked of everybody, everybody owes one.
LEMMA OneAsked ==
    ASSUME NEW kind \in Kind, NEW due,
           \A s \in Serial : due[s] = Packets(kind, 1)[s]
    PROVE  OneEach({}, 0, <<>>, due)
<1>1. ASSUME NEW s \in Serial PROVE Len(due[s]) = 1 /\ due[s][1].src = s
  <2>1. due[s] = [i \in 1 .. 1 |-> [src |-> s, kind |-> kind, num |-> 1 - i]]
    BY DEF Packets
  <2>2. 1 .. 1 = {1}
    OBVIOUS
  <2>3. Len(due[s]) = 1
    BY <2>1, <2>2
  <2> QED
    BY <2>1, <2>2, <2>3
<1>2. Sources(<<>>) = {} /\ Cardinality({}) = 0
  BY FS_EmptySet DEF Sources
<1> QED
  BY <1>1, <1>2 DEF OneEach

-----------------------------------------------------------------------------
(* The answer of one inverter, in packets.                                 *)

\* With n packets asked of one inverter, it owes them.
LEMMA FlowAsked ==
    ASSUME NEW id \in Serial, NEW kind, NEW n \in Nat, NEW due,
           due[id] = Packets(kind, n)[id], \A s \in Serial \ {id} : due[s] = <<>>
    PROVE  Flow(id, kind, n, <<>>, <<>>, due)
<1> DEFINE e(i) == Packet(id, kind, n - i)
<1>1. due[id] = [i \in 1 .. n |-> e(i)]
  BY DEF Packets, Packet
<1>2. Len(due[id]) = n /\ \A i \in 1 .. n : due[id][i] = e(i)
  <2> HIDE DEF e
  <2> QED
    BY <1>1
<1>3. Len(<<>>) = 0
  OBVIOUS
<1> QED
  BY <1>2, <1>3 DEF Flow

\* Moving one packet on does not change how many there are.
LEMMA OneMoved ==
    ASSUME NEW a \in Nat, NEW b \in Nat, NEW c \in Nat
    PROVE  /\ a + (b + 1) + (c - 1) = a + b + c
           /\ (a + 1) + (b - 1) + c = a + b + c
           /\ c >= 1 => b < a + b + c
  OBVIOUS

\* A packet arrives: it is the next one, and there is room for it.
LEMMA FlowArrives ==
    ASSUME NEW id \in Serial, NEW kind, NEW n \in Nat,
           NEW ps \in Seq(Answer), NEW box \in Seq(Answer),
           NEW due \in [Serial -> Seq(Answer)], Flow(id, kind, n, ps, box, due),
           NEW s \in Serial, due[s] # <<>>
    PROVE  /\ Len(box) < n
           /\ Flow(id, kind, n, ps, Append(box, Head(due[s])), [due EXCEPT ![s] = Tail(@)])
<1> DEFINE a == Head(due[s])
           box2 == Append(box, a)
           due2 == [due EXCEPT ![s] = Tail(@)]
<1>1. s = id
  BY DEF Flow
<1>2. /\ Len(ps) \in Nat /\ Len(box) \in Nat
      /\ due[id] \in Seq(Answer) /\ Len(due[id]) \in Nat
  BY LenProperties
<1>3. /\ a \in Answer /\ a = due[id][1] /\ Len(due[id]) >= 1
      /\ Len(Tail(due[id])) = Len(due[id]) - 1
      /\ \A i \in 1 .. Len(Tail(due[id])) : Tail(due[id])[i] = due[id][i + 1]
  BY <1>1, <1>2, HeadTailProperties, EmptySeq
<1>4. /\ Len(box2) = Len(box) + 1
      /\ \A i \in 1 .. Len(box) : box2[i] = box[i]
      /\ box2[Len(box) + 1] = a
  BY <1>3, AppendProperties
<1>5. due2[id] = Tail(due[id]) /\ \A t \in Serial \ {id} : due2[t] = due[t]
  BY <1>1
<1> HIDE DEF a, box2, due2
<1>6. Len(ps) + Len(box2) + Len(due2[id]) = n /\ Len(box) < n
  <2>1. Len(ps) + Len(box) + Len(due[id]) = n
    BY DEF Flow
  <2>2. Len(due2[id]) = Len(due[id]) - 1 /\ Len(box2) = Len(box) + 1 /\ Len(due[id]) >= 1
    BY <1>3, <1>4, <1>5
  <2>3. /\ Len(ps) + (Len(box) + 1) + (Len(due[id]) - 1) = Len(ps) + Len(box) + Len(due[id])
        /\ Len(box) < Len(ps) + Len(box) + Len(due[id])
    BY <1>2, <1>3, OneMoved, Zenon
  <2> QED
    BY <2>1, <2>2, <2>3, Zenon
<1>7. ASSUME NEW i \in 1 .. Len(box2) PROVE box2[i] = Packet(id, kind, n - Len(ps) - i)
  <2>1. CASE i \in 1 .. Len(box)
    BY <1>4, <2>1 DEF Flow
  <2>2. CASE i = Len(box) + 1
    <3>1. a = Packet(id, kind, n - Len(ps) - Len(box) - 1)
      BY <1>2, <1>3 DEF Flow
    <3>2. n - Len(ps) - Len(box) - 1 = n - Len(ps) - i
      BY <1>2, <2>2
    <3> QED
      BY <1>4, <2>2, <3>1, <3>2
  <2> QED
    BY <1>2, <1>4, <2>1, <2>2
<1>8. ASSUME NEW i \in 1 .. Len(due2[id])
      PROVE  due2[id][i] = Packet(id, kind, n - Len(ps) - Len(box2) - i)
  <2>1. i + 1 \in 1 .. Len(due[id]) /\ due2[id][i] = due[id][i + 1]
    BY <1>2, <1>3, <1>5
  <2>2. due[id][i + 1] = Packet(id, kind, n - Len(ps) - Len(box) - (i + 1))
    BY <2>1 DEF Flow
  <2>3. n - Len(ps) - Len(box) - (i + 1) = n - Len(ps) - Len(box2) - i
    BY <1>2, <1>4
  <2> QED
    BY <2>1, <2>2, <2>3
<1>9. Flow(id, kind, n, ps, box2, due2)
  BY <1>5, <1>6, <1>7, <1>8 DEF Flow
<1> QED
  BY <1>6, <1>9 DEF a, box2, due2

\* A packet is read: it is the next one.
LEMMA FlowRead ==
    ASSUME NEW id \in Serial, NEW kind, NEW n \in Nat,
           NEW ps \in Seq(Answer), NEW box \in Seq(Answer), NEW due,
           due[id] \in Seq(Answer), Flow(id, kind, n, ps, box, due), box # <<>>
    PROVE  /\ Head(box) = Packet(id, kind, n - Len(ps) - 1)
           /\ Flow(id, kind, n, Append(ps, Head(box)), Tail(box), due)
<1> DEFINE a == Head(box)
           ps2 == Append(ps, a)
           box2 == Tail(box)
<1>1. Len(ps) \in Nat /\ Len(box) \in Nat /\ Len(due[id]) \in Nat
  BY LenProperties
<1>2. /\ a \in Answer /\ a = box[1] /\ Len(box) >= 1 /\ Len(box2) = Len(box) - 1
      /\ \A i \in 1 .. Len(box2) : box2[i] = box[i + 1]
  BY <1>1, HeadTailProperties, EmptySeq
<1>3. /\ Len(ps2) = Len(ps) + 1
      /\ \A i \in 1 .. Len(ps) : ps2[i] = ps[i]
      /\ ps2[Len(ps) + 1] = a
  BY <1>2, AppendProperties
<1> HIDE DEF a, ps2, box2
<1>4. a = Packet(id, kind, n - Len(ps) - 1)
  BY <1>1, <1>2 DEF Flow
<1>5. Len(ps2) + Len(box2) + Len(due[id]) = n
  <2>1. Len(ps) + Len(box) + Len(due[id]) = n
    BY DEF Flow
  <2>2. Len(ps2) = Len(ps) + 1 /\ Len(box2) = Len(box) - 1
    BY <1>2, <1>3
  <2>3. (Len(ps) + 1) + (Len(box) - 1) + Len(due[id]) = Len(ps) + Len(box) + Len(due[id])
    BY <1>1, OneMoved, Zenon
  <2> QED
    BY <2>1, <2>2, <2>3, Zenon
<1>6. ASSUME NEW i \in 1 .. Len(ps2) PROVE ps2[i] = Packet(id, kind, n - i)
  <2>1. CASE i \in 1 .. Len(ps)
    BY <1>3, <2>1 DEF Flow
  <2>2. CASE i = Len(ps) + 1
    <3>1. n - Len(ps) - 1 = n - i
      BY <1>1, <2>2
    <3> QED
      BY <1>3, <1>4, <2>2, <3>1
  <2> QED
    BY <1>1, <1>3, <2>1, <2>2
<1>7. ASSUME NEW i \in 1 .. Len(box2) PROVE box2[i] = Packet(id, kind, n - Len(ps2) - i)
  <2>1. i + 1 \in 1 .. Len(box) /\ box2[i] = box[i + 1]
    BY <1>1, <1>2
  <2>2. box[i + 1] = Packet(id, kind, n - Len(ps) - (i + 1))
    BY <2>1 DEF Flow
  <2>3. n - Len(ps) - (i + 1) = n - Len(ps2) - i
    BY <1>1, <1>3
  <2> QED
    BY <2>1, <2>2, <2>3
<1>8. ASSUME NEW i \in 1 .. Len(due[id])
      PROVE  due[id][i] = Packet(id, kind, n - Len(ps2) - Len(box2) - i)
  <2>1. n - Len(ps) - Len(box) - i = n - Len(ps2) - Len(box2) - i
    BY <1>1, <1>2, <1>3
  <2> QED
    BY <2>1 DEF Flow
<1>9. Flow(id, kind, n, ps2, box2, due)
  BY <1>5, <1>6, <1>7, <1>8 DEF Flow
<1> QED
  BY <1>4, <1>9 DEF a, ps2, box2

\* When all packets were read nothing is on its way, and before something is.
LEMMA FlowEnds ==
    ASSUME NEW id \in Serial, NEW kind, NEW n \in Nat,
           NEW ps \in Seq(Answer), NEW box \in Seq(Answer), NEW due,
           due[id] \in Seq(Answer), Flow(id, kind, n, ps, box, due)
    PROVE  Len(ps) = n <=> Quiet(box, due)
<1>1. Len(ps) \in Nat /\ Len(box) \in Nat /\ Len(due[id]) \in Nat
  BY LenProperties
<1>2. Len(ps) + Len(box) + Len(due[id]) = n
  BY DEF Flow
<1>3. (Len(box) = 0 <=> box = <<>>) /\ (Len(due[id]) = 0 <=> due[id] = <<>>)
  BY EmptySeq
<1>4. ASSUME Len(ps) = n PROVE Quiet(box, due)
  <2>1. box = <<>> /\ due[id] = <<>>
    BY <1>1, <1>2, <1>3, <1>4
  <2> QED
    BY <2>1 DEF Flow, Quiet
<1>5. ASSUME Quiet(box, due) PROVE Len(ps) = n
  BY <1>1, <1>2, <1>3, <1>5 DEF Quiet
<1> QED
  BY <1>4, <1>5

-----------------------------------------------------------------------------
(* The network.                                                            *)

\* Asked of inverters that owe nothing, everything asked is owed.
LEMMA AskedQuiet ==
    ASSUME TimelyPlant, TypeOK, Quiet(inbox, owed), NEW to, NEW kind \in Kind,
           NEW n \in 1 .. MaxFragments, Asked(to, Packets(kind, n))
    PROVE  /\ owed' \in [Serial -> Seq(Answer)]
           /\ \A s \in Serial :
                 owed'[s] = IF s \in to THEN Packets(kind, n)[s] ELSE <<>>
<1>1. MaxFragments \in Nat /\ MaxOwed \in Nat /\ MaxOwed >= MaxFragments
  BY BoundsAssumption DEF TimelyPlant
<1>2. ASSUME NEW s \in Serial
      PROVE  owed'[s] = IF s \in to THEN Packets(kind, n)[s] ELSE <<>>
  <2> DEFINE e(i) == [src |-> s, kind |-> kind, num |-> n - i]
             p == [i \in 1 .. n |-> e(i)]
  <2>1. Packets(kind, n)[s] = p
    BY DEF Packets
  <2>2. owed[s] = <<>> /\ Len(<<>>) = 0
    BY DEF Quiet
  <2>3. n \in Nat /\ n <= MaxOwed
    BY <1>1
  <2>4. p \in Seq(Answer) /\ Len(p) = n
    <3>1. \A i \in 1 .. n : e(i) \in Answer
      BY <1>1 DEF Answer
    <3> HIDE DEF e
    <3>2. p \in Seq(Answer)
      BY <2>3, <3>1, IsASeq
    <3> QED
      BY <2>3, <3>2
  <2> HIDE DEF p
  <2>5. <<>> \o p = p
    BY <2>4, ConcatEmptySeq
  <2>6. Len(<<>>) + Len(p) <= MaxOwed
    BY <2>2, <2>3, <2>4
  <2>7. owed'[s] = IF s \in to /\ Len(owed[s]) + Len(p) <= MaxOwed
                     THEN owed[s] \o p ELSE owed[s]
    BY <2>1 DEF Asked
  <2> QED
    BY <2>1, <2>2, <2>5, <2>6, <2>7
<1> QED
  BY <1>2, AskedType

\* Nothing can arrive where nothing is owed.
LEMMA NothingArrives ==
    ASSUME Quiet(inbox, owed), NEW s \in Serial, Arrive(s)
    PROVE  FALSE
  BY DEF Quiet, Arrive

\* A query to all that leaves no answer over is answered by one of them.
LEMMA FlowOfOne ==
    ASSUME TimelyPlant, TypeOK, Quiet(inbox, owed), NEW kind \in Kind,
           AskAll(kind), ~leftover'
    PROVE  \E s \in Serial : Flow(s, kind, 1, <<>>, <<>>, owed')
<1>0. PICK S \in Answering(kind) : Asked(S, Packets(kind, 1)) /\ ~(Cardinality(S) > 1)
  BY DEF AskAll
<1>2. S \subseteq Serial /\ S # {} /\ IsFiniteSet(S)
  BY FS_Subset DEF Answering, TimelyPlant
<1>1. S \subseteq Serial /\ Cardinality(S) = 1
  <2>1. Cardinality(S) \in Nat /\ Cardinality(S) # 0
    BY <1>2, FS_CardinalityType, FS_EmptySet
  <2> QED
    BY <1>0, <1>2, <2>1
<1>3. PICK s : S = {s}
  BY <1>1, <1>2, FS_Singleton
<1>4. s \in Serial /\ 1 \in 1 .. MaxFragments
  BY <1>1, <1>3, BoundsAssumption
<1>5. /\ owed'[s] = Packets(kind, 1)[s]
      /\ \A t \in Serial \ {s} : owed'[t] = <<>>
  <2>1. \A t \in Serial : owed'[t] = IF t \in S THEN Packets(kind, 1)[t] ELSE <<>>
    BY <1>0, <1>4, AskedQuiet
  <2> QED
    BY <1>3, <1>4, <2>1
<1>6. Flow(s, kind, 1, <<>>, <<>>, owed')
  BY <1>4, <1>5, FlowAsked
<1> QED
  BY <1>4, <1>6

\* The one packet of an answer is read, and nothing is left.
LEMMA FlowOneRead ==
    ASSUME TypeOK, NEW s \in Serial, NEW kind, Flow(s, kind, 1, <<>>, inbox, owed),
           inbox # <<>>
    PROVE  Head(inbox) = Packet(s, kind, 0) /\ Quiet(Tail(inbox), owed)
<1>1. /\ inbox \in Seq(Answer) /\ <<>> \in Seq(Answer) /\ Len(<<>>) = 0
      /\ owed[s] \in Seq(Answer)
  BY EmptySeq DEF TypeOK
<1>2. /\ Head(inbox) = Packet(s, kind, 1 - Len(<<>>) - 1)
      /\ Flow(s, kind, 1, Append(<<>>, Head(inbox)), Tail(inbox), owed)
  BY <1>1, FlowRead
<1>3. /\ Head(inbox) \in Answer /\ Tail(inbox) \in Seq(Answer)
  BY <1>1, HeadTailProperties
<1>4. Append(<<>>, Head(inbox)) \in Seq(Answer) /\ Len(Append(<<>>, Head(inbox))) = 1
  BY <1>1, <1>3, AppendProperties
<1>5. Quiet(Tail(inbox), owed)
  BY <1>1, <1>2, <1>3, <1>4, FlowEnds
<1> QED
  BY <1>1, <1>2, <1>5

-----------------------------------------------------------------------------
(* connect().                                                              *)

\* What the steps below rest on.
LEMMA TimelyFacts ==
    ASSUME TimelyPlant, TypeInv
    PROVE  /\ ~WriteFails
           /\ devices \in Seq(Device) /\ Len(devices) \in Nat
           /\ inbox \in Seq(Answer) /\ owed \in [Serial -> Seq(Answer)]
           /\ parts \in Seq(Answer) /\ got \in Nat
           /\ Cardinality(Serial) \in Nat /\ Cardinality(Serial) >= 1
           /\ Listed \in SUBSET Serial /\ Marked \in SUBSET Serial
           /\ IsFiniteSet(Listed) /\ IsFiniteSet(Marked)
           /\ 1 \in 1 .. MaxFragments /\ MaxFragments \in Nat
           /\ {"discover", "auth", "time"} \subseteq Kind
<1>1. devices \in Seq(Device) /\ Len(devices) \in Nat
  BY LenProperties DEF TypeInv, TypeOK
<1>2. \A i \in 1 .. Len(devices) : devices[i] \in Device
  BY <1>1, ElementOfSeq
<1>3. Listed \in SUBSET Serial /\ Marked \in SUBSET Serial
  BY <1>2 DEF Listed, Marked, Device
<1>4. IsFiniteSet(Listed) /\ IsFiniteSet(Marked)
  BY <1>3, FS_Subset DEF TimelyPlant
<1>5. Cardinality(Serial) \in Nat /\ Cardinality(Serial) # 0
  BY FS_CardinalityType, FS_EmptySet DEF TimelyPlant
<1>6. 1 \in 1 .. MaxFragments /\ MaxFragments \in Nat
  BY BoundsAssumption
<1> QED
  BY <1>1, <1>3, <1>4, <1>5, <1>6 DEF TypeInv, TypeOK, WriteFails, TimelyPlant, Kind

\* The steps that begin and end a session.
LEMMA SessionSteps ==
    ASSUME TimelyPlant, TypeInv, EachInv,
           Connect \/ Reconnect \/ logout \/ disconnect \/ SyncAck \/ SyncSet \/ SyncAdjust
    PROVE  EachInv'
<1> USE TimelyFacts
    DEF EachInv, CalmInv, DeviceInv, AnswerInv, ResultInv, NoDuplicateDevices, PlantComplete,
        AnswersAreAsked, ArchiveComplete, Known, ReadPc, Passed, sessionVars, requestVars,
        networkVars
<1>1. CASE Connect
  <2>1. sessions = 0 /\ sessions' = 1
    BY <1>1 DEF Connect, TimelyPlant, TypeInv, TypeOK
  <2>2. deviceNum' = Cardinality(Serial)
    BY <1>1 DEF Connect, TimelyPlant
  <2>3. pc' = "logout" /\ UNCHANGED <<got, devices, leftover, requestVars, networkVars>>
    BY <1>1 DEF Connect
  <2> QED
    BY <1>1, <2>1, <2>2, <2>3 DEF Connect
<1>2. CASE logout
  <2>1. pc = "logout" /\ pc' = "discover" /\ UNCHANGED <<got, sessionVars, requestVars, networkVars>>
    BY <1>2 DEF logout
  <2> QED
    BY <2>1
<1>3. CASE disconnect \/ Reconnect
  <2>1. /\ pc \in {"idle", "connected"} /\ pc' \in {"idle", "aborted"}
        /\ sessions # 0 /\ UNCHANGED <<deviceNum, devices, sessions, leftover>>
        /\ UNCHANGED <<got, requestVars, networkVars>>
    BY <1>3 DEF disconnect, Reconnect
  <2> QED
    BY <2>1
<1>4. CASE SyncAck
  <2>1. pc = "syncAck" /\ devices # <<>>
    <3>1. Len(devices) = Cardinality(Serial) /\ Len(<<>>) = 0
      BY <1>4 DEF SyncAck
    <3> QED
      BY <1>4, <3>1 DEF SyncAck
  <2>2. pc' = "syncSet" /\ UNCHANGED <<got, sessionVars, requestVars, networkVars>>
    BY <1>4, <2>1 DEF SyncAck
  <2> QED
    BY <2>1, <2>2
<1>5. CASE SyncSet \/ SyncAdjust
  <2>1. /\ pc \in {"syncSet", "syncAdjust"} /\ pc' \in {"syncAdjust", "connected"}
        /\ UNCHANGED <<got, sessionVars, requestVars, networkVars>>
    BY <1>5 DEF SyncSet, SyncAdjust
  <2> QED
    BY <2>1
<1> QED
  BY <1>1, <1>2, <1>3, <1>4, <1>5

\* Discovery finds every inverter once, and ends when all have answered.
LEMMA DiscoverySteps ==
    ASSUME TimelyPlant, TypeInv, EachInv, discoverDevices \/ addDevice \/ Discovered
    PROVE  EachInv'
<1> USE TimelyFacts DEF EachInv, ReadPc, Passed, sessionVars, requestVars, networkVars
<1>a. TypeOK
  BY DEF TypeInv
<1>1. CASE discoverDevices
  <2>1. /\ pc = "discover" /\ pc' = "discoverRead" /\ devices = <<>> /\ got = 0
        /\ Quiet(inbox, owed) /\ Asked(Serial, Packets("discover", 1))
        /\ UNCHANGED <<got, sessionVars, requestVars, inbox>>
    BY <1>1 DEF discoverDevices, CalmInv, DeviceInv
  <2>2. \A s \in Serial : owed'[s] = Packets("discover", 1)[s]
    BY <1>a, <2>1, AskedQuiet
  <2>3. OneEach({}, 0, <<>>, owed')
    BY <2>2, OneAsked
  <2>4. Listed' = {} /\ inbox' = <<>> /\ got' = 0 /\ Len(devices') = 0
    BY <2>1 DEF Listed, Quiet
  <2>5. AnswerInv'
    BY <2>1, <2>3, <2>4 DEF AnswerInv
  <2>6. CalmInv'
    BY <2>1 DEF CalmInv
  <2>7. DeviceInv'
    BY <2>1 DEF DeviceInv, NoDuplicateDevices, PlantComplete
  <2>8. ResultInv'
    BY <2>1 DEF ResultInv, AnswersAreAsked, ArchiveComplete
  <2> QED
    BY <2>5, <2>6, <2>7, <2>8
<1>2. CASE addDevice
  <2> DEFINE d == [serial |-> answer.src, authenticated |-> FALSE]
  <2>1. /\ pc = "discoverRead" /\ pc' = "discoverRead" /\ inbox # <<>>
        /\ inbox' = Tail(inbox) /\ UNCHANGED owed
        /\ devices' = Append(devices, d) /\ got' = got + 1
        /\ UNCHANGED <<deviceNum, sessions, leftover, requestVars>>
    BY <1>2 DEF addDevice, Read
  <2>2. answer \in Answer /\ d \in Device /\ d.serial = answer.src /\ ~d.authenticated
    BY <1>2, <1>a, ReadType DEF addDevice, Answer, Device
  <2>3. OneEach(Listed, got, inbox, owed) /\ got = Len(devices)
    BY <2>1 DEF AnswerInv
  <2>4. /\ answer.src \notin Listed
        /\ OneEach(Listed \cup {answer.src}, got + 1, Tail(inbox), owed)
    BY <2>1, <2>3, OneRead DEF answer
  <2> HIDE DEF d
  <2>5. /\ Len(devices') = Len(devices) + 1
        /\ \A i \in 1 .. Len(devices) : devices'[i] = devices[i]
        /\ devices'[Len(devices) + 1] = d
    BY <2>1, <2>2, AppendProperties
  <2>6. 1 .. Len(devices') = (1 .. Len(devices)) \cup {Len(devices) + 1}
    BY <2>5
  <2>7. Listed' = Listed \cup {answer.src}
    <3>1. Listed' \subseteq Listed \cup {answer.src}
      BY <2>2, <2>5, <2>6 DEF Listed
    <3>2. Listed \cup {answer.src} \subseteq Listed'
      BY <2>2, <2>5, <2>6 DEF Listed
    <3> QED
      BY <3>1, <3>2
  <2>8. AnswerInv'
    BY <2>1, <2>3, <2>4, <2>5, <2>7 DEF AnswerInv
  <2>9. CalmInv'
    BY <2>1 DEF CalmInv
  <2>10. DeviceInv'
    <3>1. \A i \in 1 .. Len(devices) : devices[i].serial # d.serial
      BY <2>2, <2>4 DEF Listed
    <3>2. NoDuplicateDevices'
      BY <2>5, <2>6, <3>1 DEF DeviceInv, NoDuplicateDevices
    <3>3. \A i \in 1 .. Len(devices') : ~devices'[i].authenticated
      BY <2>1, <2>2, <2>5, <2>6 DEF DeviceInv
    <3> QED
      BY <2>1, <3>2, <3>3 DEF DeviceInv, PlantComplete
  <2>11. ResultInv'
    BY <2>1 DEF ResultInv, AnswersAreAsked, ArchiveComplete
  <2> QED
    BY <2>8, <2>9, <2>10, <2>11
<1>3. CASE Discovered
  <2>1. /\ pc = "discoverRead" /\ pc' = "auth" /\ got >= deviceNum /\ got' = 0
        /\ deviceNum = Cardinality(Serial)
        /\ UNCHANGED <<sessionVars, requestVars, networkVars>>
    BY <1>3 DEF Discovered, CalmInv
  <2>2. OneEach(Listed, got, inbox, owed) /\ got = Len(devices)
    BY <2>1 DEF AnswerInv
  <2>3. Listed = Serial /\ Quiet(inbox, owed)
    BY <2>1, <2>2, OneIsAll DEF TimelyPlant
  <2>4. Len(devices) = Cardinality(Serial)
    BY <2>2, <2>3 DEF OneEach
  <2>5. \A s \in Serial : Known(s)
    BY <2>3 DEF Listed, Known
  <2>6. DeviceInv'
    BY <2>1, <2>4, <2>5 DEF DeviceInv, NoDuplicateDevices, PlantComplete, Known
  <2>7. CalmInv'
    BY <2>1, <2>3 DEF CalmInv
  <2>8. AnswerInv' /\ ResultInv'
    BY <2>1 DEF AnswerInv, ResultInv, AnswersAreAsked, ArchiveComplete
  <2> QED
    BY <2>6, <2>7, <2>8
<1> QED
  BY <1>1, <1>2, <1>3

\* An inverter of the list has an entry.
LEMMA KnownFound ==
    ASSUME devices \in Seq(Device), NEW serial, Known(serial)
    PROVE  /\ getDevice(serial) \in 1 .. Len(devices) /\ getDevice(serial) # 0
           /\ devices[getDevice(serial)].serial = serial
<1> DEFINE found == {i \in 1 .. Len(devices) : devices[i].serial = serial}
<1>1. found \in SUBSET Nat /\ found # {} /\ Len(devices) \in Nat
  BY LenProperties DEF Known
<1>2. getDevice(serial) = CHOOSE i \in found : \A j \in found : i <= j
  BY <1>1 DEF getDevice
<1>3. \E i \in found : \A j \in found : i <= j
  <2> HIDE DEF found
  <2> QED
    BY <1>1, LeastNumber
<1>4. getDevice(serial) \in found
  <2> HIDE DEF found
  <2> QED
    BY <1>2, <1>3
<1> QED
  BY <1>1, <1>4

\* Authentication marks every inverter, and ends when all have answered.
LEMMA AuthSteps ==
    ASSUME TimelyPlant, TypeInv, EachInv, sendPassword \/ AuthAnswer \/ Authenticated
    PROVE  EachInv'
<1> USE TimelyFacts DEF EachInv, ReadPc, Passed, sessionVars, requestVars, networkVars
<1>a. TypeOK
  BY DEF TypeInv
<1>1. CASE sendPassword
  <2>1. /\ pc = "auth" /\ pc' = "authRead" /\ got = 0
        /\ Quiet(inbox, owed) /\ Asked(Serial, Packets("auth", 1))
        /\ UNCHANGED <<got, sessionVars, requestVars, inbox>>
    BY <1>1 DEF sendPassword, CalmInv
  <2>2. \A s \in Serial : owed'[s] = Packets("auth", 1)[s]
    BY <1>a, <2>1, AskedQuiet
  <2>3. OneEach({}, 0, <<>>, owed')
    BY <2>2, OneAsked
  <2>4. Marked' = {} /\ inbox' = <<>> /\ got' = 0
    BY <2>1 DEF Marked, Quiet, DeviceInv
  <2>5. AnswerInv'
    BY <2>1, <2>3, <2>4 DEF AnswerInv
  <2>6. CalmInv'
    BY <2>1 DEF CalmInv
  <2>7. DeviceInv'
    BY <2>1 DEF DeviceInv, NoDuplicateDevices, PlantComplete, Known
  <2>8. ResultInv'
    BY <2>1 DEF ResultInv, AnswersAreAsked, ArchiveComplete
  <2> QED
    BY <2>5, <2>6, <2>7, <2>8
<1>2. CASE AuthAnswer
  <2> DEFINE k == getDevice(answer.src)
             d == [devices[k] EXCEPT !.authenticated = TRUE]
  <2>1. pc = "authRead" /\ inbox # <<>> /\ inbox' = Tail(inbox) /\ UNCHANGED owed
    BY <1>2 DEF AuthAnswer, Read
  <2>2. answer \in Answer /\ answer.src \in Serial
    BY <1>2, <1>a, ReadType DEF AuthAnswer, Answer
  <2>3. Known(answer.src)
    BY <2>1, <2>2 DEF DeviceInv, PlantComplete
  <2>4. k \in 1 .. Len(devices) /\ k # 0 /\ devices[k].serial = answer.src
    BY <2>3, KnownFound
  <2>5. /\ devices' = [devices EXCEPT ![k] = d] /\ got' = got + 1 /\ pc' = "authRead"
        /\ UNCHANGED <<deviceNum, sessions, leftover, requestVars>>
    BY <1>2, <2>1, <2>4 DEF AuthAnswer
  <2>6. devices[k] \in Device
    BY <2>4, ElementOfSeq
  <2>7. d.serial = answer.src /\ d.authenticated /\ d \in Device
    BY <2>4, <2>6 DEF Device
  <2> HIDE DEF d, k
  <2>8. /\ Len(devices') = Len(devices) /\ devices'[k] = d
        /\ \A i \in 1 .. Len(devices) : i # k => devices'[i] = devices[i]
    BY <2>4, <2>5, <2>7, ExceptSeq
  <2>9. \A i \in 1 .. Len(devices) : devices'[i].serial = devices[i].serial
    BY <2>4, <2>7, <2>8
  <2>10. Marked' = Marked \cup {answer.src}
    <3>1. Marked' \subseteq Marked \cup {answer.src}
      BY <2>7, <2>8 DEF Marked
    <3>2. answer.src \in Marked'
      BY <2>4, <2>7, <2>8 DEF Marked
    <3>3. Marked \subseteq Marked'
      <4> SUFFICES ASSUME NEW i \in 1 .. Len(devices), devices[i].authenticated
                   PROVE  devices[i].serial \in Marked'
        BY DEF Marked
      <4>1. devices'[i].authenticated
        BY <2>7, <2>8
      <4> QED
        BY <2>8, <2>9, <4>1 DEF Marked
    <3> QED
      BY <3>1, <3>2, <3>3
  <2>11. OneEach(Marked, got, inbox, owed)
    BY <2>1 DEF AnswerInv
  <2>12. OneEach(Marked', got', inbox', owed')
    BY <2>1, <2>5, <2>10, <2>11, OneRead DEF answer
  <2>13. AnswerInv'
    BY <2>5, <2>12 DEF AnswerInv
  <2>14. CalmInv'
    BY <2>1, <2>5 DEF CalmInv
  <2>15. DeviceInv'
    <3>1. NoDuplicateDevices'
      BY <2>8, <2>9 DEF DeviceInv, NoDuplicateDevices
    <3>2. Len(devices') = Cardinality(Serial)
      BY <2>1, <2>8 DEF DeviceInv, PlantComplete
    <3>3. \A s \in Serial : Known(s)'
      BY <2>1, <2>8, <2>9 DEF DeviceInv, PlantComplete, Known
    <3> QED
      BY <2>5, <3>1, <3>2, <3>3 DEF DeviceInv, PlantComplete
  <2>16. ResultInv'
    BY <2>5 DEF ResultInv, AnswersAreAsked, ArchiveComplete
  <2> QED
    BY <2>13, <2>14, <2>15, <2>16
<1>3. CASE Authenticated
  <2>1. /\ pc = "authRead" /\ pc' = "sync" /\ got >= Len(devices) /\ got' = 0
        /\ UNCHANGED <<sessionVars, requestVars, networkVars>>
    BY <1>3 DEF Authenticated
  <2>2. OneEach(Marked, got, inbox, owed) /\ Len(devices) = Cardinality(Serial)
    BY <2>1 DEF AnswerInv, DeviceInv, PlantComplete
  <2>3. Marked = Serial /\ Quiet(inbox, owed)
    BY <2>1, <2>2, OneIsAll DEF TimelyPlant
  <2>4. ASSUME NEW i \in 1 .. Len(devices) PROVE devices[i].authenticated
    <3>1. devices[i].serial \in Marked
      <4>1. devices[i] \in Device
        BY ElementOfSeq
      <4> QED
        BY <2>3, <4>1 DEF Device
    <3>2. PICK j \in 1 .. Len(devices) :
              devices[j].authenticated /\ devices[j].serial = devices[i].serial
      BY <3>1 DEF Marked
    <3>3. i = j
      BY <3>2 DEF DeviceInv, NoDuplicateDevices
    <3> QED
      BY <3>2, <3>3
  <2>5. DeviceInv'
    BY <2>1, <2>4 DEF DeviceInv, NoDuplicateDevices, PlantComplete, Known
  <2>6. CalmInv'
    BY <2>1, <2>3 DEF CalmInv
  <2>7. AnswerInv' /\ ResultInv'
    BY <2>1 DEF AnswerInv, ResultInv, AnswersAreAsked, ArchiveComplete
  <2> QED
    BY <2>5, <2>6, <2>7
<1> QED
  BY <1>1, <1>2, <1>3

\* A time query that one inverter answers, and its answer is read.
LEMMA SyncSteps ==
    ASSUME TimelyPlant, TypeInv, EachInv, ~leftover, ~leftover', SyncQuery \/ SyncAnswer
    PROVE  EachInv'
<1> USE TimelyFacts DEF EachInv, ReadPc, Passed, sessionVars, requestVars, networkVars
<1>a. TypeOK
  BY DEF TypeInv
<1>1. CASE SyncQuery
  <2>1. /\ pc = "sync" /\ pc' = "syncRead"
        /\ Quiet(inbox, owed)
        /\ UNCHANGED <<got, deviceNum, devices, sessions, link, requestVars, inbox>>
    BY <1>1 DEF SyncQuery, CalmInv
  <2>2. AskAll("time")
    BY <1>1 DEF SyncQuery
  <2>3. \E s \in Serial : Flow(s, "time", 1, <<>>, <<>>, owed')
    BY <1>a, <2>1, <2>2, FlowOfOne
  <2>4. inbox' = <<>>
    BY <2>1 DEF Quiet
  <2>5. AnswerInv'
    BY <2>1, <2>3, <2>4 DEF AnswerInv
  <2>6. CalmInv'
    BY <2>1 DEF CalmInv
  <2>7. DeviceInv' /\ ResultInv'
    BY <2>1 DEF DeviceInv, NoDuplicateDevices, PlantComplete, Known, ResultInv,
       AnswersAreAsked, ArchiveComplete
  <2> QED
    BY <2>5, <2>6, <2>7
<1>2. CASE SyncAnswer
  <2>1. pc = "syncRead" /\ inbox # <<>> /\ inbox' = Tail(inbox) /\ UNCHANGED owed
    BY <1>2 DEF SyncAnswer, Read
  <2>2. PICK s \in Serial : Flow(s, "time", 1, <<>>, inbox, owed)
    BY <2>1 DEF AnswerInv
  <2>3. answer.kind = "time" /\ Quiet(inbox', owed')
    <3>1. answer = Packet(s, "time", 0) /\ Quiet(Tail(inbox), owed)
      BY <1>a, <2>1, <2>2, FlowOneRead DEF answer
    <3> QED
      BY <2>1, <3>1 DEF Packet
  <2>4. pc' = "syncAck" /\ UNCHANGED <<got, sessionVars, requestVars>>
    BY <1>2, <2>3 DEF SyncAnswer
  <2>5. CalmInv'
    BY <2>1, <2>3, <2>4 DEF CalmInv
  <2>6. AnswerInv' /\ ResultInv'
    BY <2>4 DEF AnswerInv, ResultInv, AnswersAreAsked, ArchiveComplete
  <2>7. DeviceInv'
    BY <2>1, <2>4 DEF DeviceInv, NoDuplicateDevices, PlantComplete, Known
  <2> QED
    BY <2>5, <2>6, <2>7
<1> QED
  BY <1>1, <1>2

-----------------------------------------------------------------------------
(* Requests, and the steps of the network.                                 *)

\* The steps that change neither the list nor the retries of connect().
LEMMA DevicesKept ==
    ASSUME TypeInv, DeviceInv, UNCHANGED devices,
           \/ UNCHANGED pc
           \/ /\ pc \in LatePc /\ pc' \in LatePc
              /\ pc \in {"idle", "aborted"} => pc' \in {"idle", "aborted"}
    PROVE  DeviceInv'
  BY DEF DeviceInv, NoDuplicateDevices, PlantComplete, Known, LatePc

\* A request for records that leaves no answer over is answered by the inverter
\* it is for, or by any one if it is for the status, and its answer is what the
\* caller gets.
LEMMA RecordSteps ==
    ASSUME TimelyPlant, TypeInv, EachInv, ~leftover, ~leftover',
           \/ \E id \in Serial, obj \in Object : Request(id, obj)
           \/ requestChannel \/ RecordAnswer
    PROVE  EachInv'
<1> USE TimelyFacts DEF EachInv, ReadPc, Passed, sessionVars, requestVars, networkVars
<1>a. TypeOK
  BY DEF TypeInv
<1>1. CASE \E id \in Serial, obj \in Object : Request(id, obj)
  <2>1. /\ pc = "connected" /\ pc' \in {"archive", "records"}
        /\ result'.parts = <<>>
        /\ UNCHANGED <<got, sessionVars, parts, networkVars>>
    BY <1>1 DEF Request, NoResult
  <2>2. CalmInv' /\ AnswerInv'
    BY <2>1 DEF CalmInv, AnswerInv
  <2>3. DeviceInv'
    BY <2>1, DevicesKept DEF LatePc
  <2>4. ResultInv'
    BY <2>1 DEF ResultInv, AnswersAreAsked, ArchiveComplete
  <2> QED
    BY <2>2, <2>3, <2>4
<1>2. CASE requestChannel
  <2>1. /\ pc = "records" /\ Quiet(inbox, owed) /\ op \in Op
        /\ UNCHANGED <<got, deviceNum, devices, sessions, link, requestVars, inbox>>
    BY <1>2 DEF requestChannel, CalmInv, TypeInv, RequestPc
  <2>2. op.id \in Serial /\ op.obj \in Kind /\ Known(op.id) /\ inbox' = <<>>
    BY <2>1 DEF DeviceInv, PlantComplete, Op, Kind, Quiet
  <2>3. /\ pc' = "recordRead"
        /\ \E s \in Serial :
              (op.obj # Status => s = op.id) /\ Flow(s, op.obj, 1, <<>>, <<>>, owed')
    <3>1. CASE op.obj = Status /\ pc' = "recordRead" /\ AskAll(Status)
      <4>1. \E s \in Serial : Flow(s, op.obj, 1, <<>>, <<>>, owed')
        BY <1>a, <2>1, <2>2, <3>1, FlowOfOne
      <4> QED
        BY <3>1, <4>1
    <3>2. CASE /\ op.obj # Status /\ pc' = "recordRead"
               /\ Asked({op.id}, Packets(op.obj, 1))
      <4>1. \A s \in Serial :
               owed'[s] = IF s \in {op.id} THEN Packets(op.obj, 1)[s] ELSE <<>>
        BY <1>a, <2>1, <2>2, <3>2, AskedQuiet
      <4>2. /\ owed'[op.id] = Packets(op.obj, 1)[op.id]
            /\ \A s \in Serial \ {op.id} : owed'[s] = <<>>
        BY <2>2, <4>1
      <4>3. Flow(op.id, op.obj, 1, <<>>, <<>>, owed')
        BY <2>2, <4>2, FlowAsked
      <4> QED
        BY <2>2, <3>2, <4>3
    <3> QED
      BY <1>2, <2>2, <3>1, <3>2 DEF requestChannel
  <2>4. AnswerInv'
    BY <2>1, <2>2, <2>3 DEF AnswerInv
  <2>5. CalmInv'
    BY <2>1, <2>3 DEF CalmInv
  <2>6. DeviceInv'
    BY <2>1, <2>3, DevicesKept DEF LatePc
  <2>7. ResultInv'
    BY <2>1 DEF ResultInv, AnswersAreAsked, ArchiveComplete
  <2> QED
    BY <2>4, <2>5, <2>6, <2>7
<1>3. CASE RecordAnswer
  <2>1. /\ pc = "recordRead" /\ inbox # <<>> /\ inbox' = Tail(inbox) /\ UNCHANGED owed
        /\ UNCHANGED <<got, sessionVars, op, parts>> /\ parts = <<>>
    BY <1>3 DEF RecordAnswer, Read, CalmInv
  <2>2. PICK s \in Serial :
            (op.obj # Status => s = op.id) /\ Flow(s, op.obj, 1, <<>>, inbox, owed)
    BY <2>1 DEF AnswerInv
  <2>3. answer = Packet(s, op.obj, 0) /\ Quiet(Tail(inbox), owed)
    BY <1>a, <2>1, <2>2, FlowOneRead DEF answer
  <2>4. /\ answer.src = s /\ answer.kind = op.obj /\ answer.num = 0
        /\ Quiet(inbox', owed')
    BY <2>1, <2>3 DEF Packet
  <2>5. /\ pc' = "connected"
        /\ result' = [op |-> op, parts |-> <<answer>>]
    BY <1>3, <2>4 DEF RecordAnswer
  <2>6. CalmInv' /\ AnswerInv'
    BY <2>1, <2>4, <2>5 DEF CalmInv, AnswerInv
  <2>7. DeviceInv'
    BY <2>1, <2>5, DevicesKept DEF LatePc
  <2>8. ResultInv'
    <3>1. /\ result'.op = op /\ Len(result'.parts) = 1
          /\ \A i \in 1 .. Len(result'.parts) : i = 1 /\ result'.parts[i] = answer
      BY <2>5
    <3> QED
      BY <2>2, <2>4, <3>1 DEF ResultInv, AnswersAreAsked, ArchiveComplete
  <2> QED
    BY <2>6, <2>7, <2>8
<1> QED
  BY <1>1, <1>2, <1>3

\* The packets of an archive are gathered in order, and the last is number 0.
LEMMA ArchiveSteps ==
    ASSUME TimelyPlant, TypeInv, EachInv, requestArchiveData \/ ArchiveAnswer
    PROVE  EachInv'
<1> USE TimelyFacts DEF EachInv, ReadPc, Passed, sessionVars, requestVars, networkVars
<1>a. TypeOK
  BY DEF TypeInv
<1>1. CASE requestArchiveData
  <2>1. /\ pc = "archive" /\ Quiet(inbox, owed) /\ op \in Op /\ parts = <<>>
        /\ UNCHANGED <<got, sessionVars, requestVars, inbox>>
    BY <1>1 DEF requestArchiveData, CalmInv, TypeInv, RequestPc
  <2>2. op.id \in Serial /\ op.obj \in Kind /\ Known(op.id) /\ inbox' = <<>>
    BY <2>1 DEF DeviceInv, PlantComplete, Op, Kind, Quiet
  <2>3. PICK n \in 1 .. MaxFragments : Asked({op.id}, Packets(op.obj, n))
    BY <1>1, <2>2 DEF requestArchiveData
  <2>4. pc' = "archiveRead"
    BY <1>1, <2>2 DEF requestArchiveData
  <2>5. Flow(op.id, op.obj, n, <<>>, <<>>, owed')
    <3>1. \A s \in Serial :
             owed'[s] = IF s \in {op.id} THEN Packets(op.obj, n)[s] ELSE <<>>
      BY <1>a, <2>1, <2>2, <2>3, AskedQuiet
    <3>2. /\ owed'[op.id] = Packets(op.obj, n)[op.id]
          /\ \A s \in Serial \ {op.id} : owed'[s] = <<>>
      BY <2>2, <3>1
    <3>3. n \in Nat
      OBVIOUS
    <3> QED
      BY <2>2, <3>2, <3>3, FlowAsked
  <2>6. AnswerInv'
    <3>1. Len(parts') < n
      BY <2>1
    <3> QED
      BY <2>1, <2>2, <2>4, <2>5, <3>1 DEF AnswerInv
  <2>7. CalmInv'
    BY <2>1, <2>4 DEF CalmInv
  <2>8. DeviceInv'
    BY <2>1, <2>4, DevicesKept DEF LatePc
  <2>9. ResultInv'
    BY <2>1 DEF ResultInv, AnswersAreAsked, ArchiveComplete
  <2> QED
    BY <2>6, <2>7, <2>8, <2>9
<1>2. CASE ArchiveAnswer
  <2> DEFINE ps == Append(parts, answer)
  <2>1. /\ pc = "archiveRead" /\ inbox # <<>> /\ inbox' = Tail(inbox) /\ UNCHANGED owed
        /\ UNCHANGED <<got, sessionVars, op>> /\ op \in Op
    BY <1>2 DEF ArchiveAnswer, Read, TypeInv, RequestPc
  <2>2. PICK n \in 1 .. MaxFragments : Flow(op.id, op.obj, n, parts, inbox, owed)
    BY <2>1 DEF AnswerInv
  <2>3. op.id \in Serial /\ n \in Nat /\ owed[op.id] \in Seq(Answer)
    BY <2>1 DEF Op
  <2>4. /\ answer = Packet(op.id, op.obj, n - Len(parts) - 1)
        /\ Flow(op.id, op.obj, n, ps, Tail(inbox), owed)
    BY <2>1, <2>2, <2>3, FlowRead DEF answer
  <2>5. /\ answer \in Answer /\ ps \in Seq(Answer) /\ Len(ps) = Len(parts) + 1
        /\ inbox' \in Seq(Answer) /\ Len(parts) \in Nat
    BY <1>2, <1>a, ReadType, AppendProperties, LenProperties DEF ArchiveAnswer
  <2>6. /\ answer.kind = op.obj /\ answer.num = n - Len(ps) /\ answer.num \in Nat
    <3>1. answer.kind = op.obj /\ answer.num = n - Len(parts) - 1
      BY <2>4 DEF Packet
    <3>2. n - Len(parts) - 1 = n - Len(ps)
      BY <2>3, <2>5
    <3>3. answer.num \in Nat
      BY <2>5 DEF Answer
    <3> QED
      BY <3>1, <3>2, <3>3
  <2> HIDE DEF ps
  <2>7. DeviceInv'
    BY <1>2, <2>1, <2>6, DevicesKept DEF ArchiveAnswer, LatePc
  <2>8. CASE answer.num > 0
    <3>1. pc' = "archiveRead" /\ parts' = ps /\ UNCHANGED result
      BY <1>2, <2>1, <2>6, <2>8 DEF ArchiveAnswer, ps
    <3>2. AnswerInv'
      <4>1. Len(ps) < n
        BY <2>3, <2>5, <2>6, <2>8
      <4> QED
        BY <2>1, <2>4, <3>1, <4>1 DEF AnswerInv
    <3>3. CalmInv'
      BY <2>1, <3>1 DEF CalmInv
    <3>4. ResultInv'
      BY <2>1, <3>1 DEF ResultInv, AnswersAreAsked, ArchiveComplete
    <3> QED
      BY <2>7, <3>2, <3>3, <3>4
  <2>9. CASE answer.num = 0
    <3>1. /\ pc' = "connected" /\ parts' = <<>>
          /\ result'.op = op /\ result'.parts = ps
      BY <1>2, <2>6, <2>9 DEF ArchiveAnswer, ps
    <3>2. Len(ps) = n
      BY <2>3, <2>5, <2>6, <2>9
    <3>3. Quiet(inbox', owed')
      BY <2>1, <2>3, <2>4, <2>5, <3>2, FlowEnds
    <3>4. CalmInv' /\ AnswerInv'
      BY <2>1, <3>1, <3>3 DEF CalmInv, AnswerInv
    <3>5. \A i \in 1 .. Len(ps) : ps[i] = Packet(op.id, op.obj, n - i)
      BY <2>4 DEF Flow
    <3>6. ResultInv'
      BY <3>1, <3>2, <3>5 DEF Packet, ResultInv, AnswersAreAsked, ArchiveComplete
    <3> QED
      BY <2>7, <3>4, <3>6
  <2> QED
    BY <2>6, <2>8, <2>9
<1> QED
  BY <1>1, <1>2

\* An answer that arrives finds room, and is still expected.
LEMMA ArriveSteps ==
    ASSUME TimelyPlant, TypeInv, EachInv, NEW s \in Serial, Arrive(s)
    PROVE  EachInv'
<1> USE TimelyFacts DEF EachInv, sessionVars, requestVars
<1> DEFINE box2 == Append(inbox, Head(owed[s]))
           due2 == [owed EXCEPT ![s] = Tail(@)]
<1>1. /\ owed[s] # <<>> /\ owed' = due2
      /\ UNCHANGED <<pc, got, sessionVars, requestVars>>
      /\ MailboxSize \in Nat /\ Len(inbox) \in Nat
      /\ <<>> \in Seq(Answer)
  BY BoundsAssumption, LenProperties, EmptySeq DEF Arrive
<1>2. Len(inbox) < MailboxSize => inbox' = box2
  BY <1>1 DEF Arrive
<1>3. /\ MailboxSize >= Cardinality(Serial) /\ MailboxSize >= MaxFragments /\ MailboxSize >= 1
      /\ IsFiniteSet(Serial)
  BY <1>1, BoundsAssumption DEF TimelyPlant
<1> HIDE DEF box2, due2
<1>4. pc \in ReadPc
  BY NothingArrives DEF CalmInv
<1>5. AnswerInv'
  <2>1. CASE pc = "discoverRead"
    <3>1. OneEach(Listed, got, inbox, owed) /\ got = Len(devices)
      BY <2>1 DEF AnswerInv
    <3>2. Len(inbox) < Cardinality(Serial) /\ OneEach(Listed, got, box2, due2)
      BY <1>1, <1>3, <3>1, OneArrives DEF box2, due2
    <3>3. inbox' = box2 /\ Listed' = Listed
      BY <1>1, <1>2, <1>3, <3>2 DEF Listed
    <3> QED
      BY <1>1, <2>1, <3>1, <3>2, <3>3 DEF AnswerInv
  <2>2. CASE pc = "authRead"
    <3>1. OneEach(Marked, got, inbox, owed)
      BY <2>2 DEF AnswerInv
    <3>2. Len(inbox) < Cardinality(Serial) /\ OneEach(Marked, got, box2, due2)
      BY <1>1, <1>3, <3>1, OneArrives DEF box2, due2
    <3>3. inbox' = box2 /\ Marked' = Marked
      BY <1>1, <1>2, <1>3, <3>2 DEF Marked
    <3> QED
      BY <1>1, <2>2, <3>2, <3>3 DEF AnswerInv
  <2>3. ASSUME NEW id \in Serial, NEW kind, NEW n \in Nat, NEW ps \in Seq(Answer),
               Flow(id, kind, n, ps, inbox, owed), n <= MailboxSize
        PROVE  Flow(id, kind, n, ps, inbox', owed')
    <3>1. Len(inbox) < n /\ Flow(id, kind, n, ps, box2, due2)
      BY <1>1, <2>3, FlowArrives DEF box2, due2
    <3>2. inbox' = box2
      BY <1>1, <1>2, <2>3, <3>1
    <3> QED
      BY <1>1, <3>1, <3>2
  <2>4. CASE pc = "syncRead"
    <3>1. PICK id \in Serial : Flow(id, "time", 1, <<>>, inbox, owed)
      BY <2>4 DEF AnswerInv
    <3>2. Flow(id, "time", 1, <<>>, inbox', owed')
      BY <1>1, <1>3, <2>3, <3>1
    <3> QED
      BY <1>1, <2>4, <3>2 DEF AnswerInv
  <2>5. CASE pc = "recordRead"
    <3>1. PICK id \in Serial :
              (op.obj # Status => id = op.id) /\ Flow(id, op.obj, 1, <<>>, inbox, owed)
      BY <2>5 DEF AnswerInv
    <3>2. Flow(id, op.obj, 1, <<>>, inbox', owed')
      BY <1>1, <1>3, <2>3, <3>1
    <3> QED
      BY <1>1, <2>5, <3>1, <3>2 DEF AnswerInv
  <2>6. CASE pc = "archiveRead"
    <3>1. PICK n \in 1 .. MaxFragments :
              Len(parts) < n /\ Flow(op.id, op.obj, n, parts, inbox, owed)
      BY <2>6 DEF AnswerInv
    <3>2. op.id \in Serial /\ n \in Nat /\ n <= MailboxSize
      BY <1>1, <1>3, <2>6 DEF TypeInv, RequestPc, Op
    <3>3. Flow(op.id, op.obj, n, parts, inbox', owed')
      BY <2>3, <3>1, <3>2
    <3> QED
      BY <1>1, <2>6, <3>1, <3>3 DEF AnswerInv
  <2> QED
    BY <1>4, <2>1, <2>2, <2>4, <2>5, <2>6 DEF ReadPc
<1>6. CalmInv'
  BY <1>1, <1>4 DEF CalmInv
<1>7. DeviceInv'
  BY <1>1, DevicesKept
<1>8. ResultInv'
  BY <1>1 DEF ResultInv, AnswersAreAsked, ArchiveComplete
<1> QED
  BY <1>5, <1>6, <1>7, <1>8

\* No read fails: what it waits for has arrived or is still owed.
LEMMA NoReadFails ==
    ASSUME TimelyPlant, TypeInv, EachInv, ReadFails
    PROVE  FALSE
<1> USE TimelyFacts DEF EachInv
<1>1. pc \in ReadPc /\ Quiet(inbox, owed) /\ <<>> \in Seq(Answer) /\ Len(<<>>) = 0
  BY EmptySeq DEF ReadFails, Quiet, TimelyPlant
<1>2. CASE pc = "discoverRead"
  <2>1. OneEach(Listed, got, inbox, owed) /\ got < deviceNum
    BY <1>2 DEF ReadFails, AnswerInv
  <2>2. got = Cardinality(Serial)
    BY <1>1, <2>1, OneQuiet
  <2> QED
    BY <1>2, <2>1, <2>2 DEF CalmInv
<1>3. CASE pc = "authRead"
  <2>1. OneEach(Marked, got, inbox, owed) /\ got < Len(devices)
    BY <1>3 DEF ReadFails, AnswerInv
  <2>2. got = Cardinality(Serial)
    BY <1>1, <2>1, OneQuiet
  <2> QED
    BY <1>3, <2>1, <2>2 DEF DeviceInv, PlantComplete
<1>4. CASE pc = "syncRead"
  <2>1. PICK s \in Serial : Flow(s, "time", 1, <<>>, inbox, owed)
    BY <1>4 DEF AnswerInv
  <2>2. owed[s] \in Seq(Answer)
    OBVIOUS
  <2>3. Len(<<>>) = 1
    BY <1>1, <2>1, <2>2, FlowEnds
  <2> QED
    BY <1>1, <2>3
<1>5. CASE pc = "recordRead"
  <2>1. PICK s \in Serial : Flow(s, op.obj, 1, <<>>, inbox, owed)
    BY <1>5 DEF AnswerInv
  <2>2. owed[s] \in Seq(Answer)
    OBVIOUS
  <2>3. Len(<<>>) = 1
    BY <1>1, <2>1, <2>2, FlowEnds
  <2> QED
    BY <1>1, <2>3
<1>6. CASE pc = "archiveRead"
  <2>1. PICK n \in 1 .. MaxFragments :
            Len(parts) < n /\ Flow(op.id, op.obj, n, parts, inbox, owed)
    BY <1>6 DEF AnswerInv
  <2>2. op.id \in Serial /\ n \in Nat /\ Len(parts) \in Nat
    BY <1>6, LenProperties DEF TypeInv, RequestPc, Op
  <2>3. Len(parts) = n
    BY <1>1, <2>1, <2>2, FlowEnds
  <2> QED
    BY <2>1, <2>2, <2>3
<1> QED
  BY <1>1, <1>2, <1>3, <1>4, <1>5, <1>6 DEF ReadPc

-----------------------------------------------------------------------------
(* The invariant, and what it shows.                                       *)

\* The invariant holds before the first call,
LEMMA TimelyInit == Init => TimelyInv
<1> SUFFICES ASSUME Init PROVE TimelyInv
  OBVIOUS
<1>1. /\ pc = "idle" /\ sessions = 0 /\ link = "new" /\ ~leftover /\ got = 0 /\ devices = <<>> /\ parts = <<>> /\ inbox = <<>>
      /\ result.parts = <<>> /\ Len(<<>>) = 0 /\ \A s \in Serial : owed[s] = <<>>
  BY DEF Init, NoResult
<1>2. CalmInv
  BY <1>1 DEF CalmInv, Quiet
<1>3. DeviceInv
  BY <1>1 DEF DeviceInv, NoDuplicateDevices, PlantComplete
<1>4. AnswerInv /\ ResultInv
  BY <1>1 DEF AnswerInv, ResultInv, AnswersAreAsked, ArchiveComplete
<1> QED
  BY <1>1, <1>2, <1>3, <1>4 DEF TimelyInv, EachInv

\* every step that leaves no answer over keeps it,
LEMMA CalmStep ==
    ASSUME TimelyPlant, TypeInv, EachInv, ~leftover, ~leftover', [Next]_vars
    PROVE  EachInv'
<1>1. CASE ConnectStep \/ Connect \/ Reconnect \/ disconnect
  BY <1>1, SessionSteps, DiscoverySteps, AuthSteps, SyncSteps DEF ConnectStep
<1>2. CASE RequestStep \/ \E id \in Serial, obj \in Object : Request(id, obj)
  BY <1>2, RecordSteps, ArchiveSteps DEF RequestStep
<1>3. CASE ReadFails
  BY <1>3, NoReadFails
<1>4. ASSUME NEW s \in Serial, Arrive(s) PROVE EachInv'
  BY <1>4, ArriveSteps
<1>5. ASSUME NEW s \in Serial, Lose(s) PROVE EachInv'
  BY <1>5 DEF Lose, TimelyPlant
<1>6. CASE UNCHANGED vars
  BY <1>6 DEF vars, EachInv, CalmInv, DeviceInv, AnswerInv, ResultInv, NoDuplicateDevices,
     PlantComplete, Known, AnswersAreAsked, ArchiveComplete, Listed, Marked
<1> QED
  BY <1>1, <1>2, <1>3, <1>4, <1>5, <1>6 DEF Next, ApiCall, Step

\* and every step after that keeps the list,
LEMMA LateStep ==
    ASSUME TimelyPlant, TypeInv, DeviceInv, LateInv, [Next]_vars
    PROVE  DeviceInv' /\ LateInv'
<1> USE DEF LateInv, LatePc, Passed, Failed, sessionVars
<1>0. devices # <<>> \/ pc \in {"idle", "aborted"}
  <2>1. CASE pc \notin {"idle", "aborted"}
    <3>1. Len(devices) # 0 /\ Len(<<>>) = 0
      BY <2>1, TimelyFacts DEF DeviceInv, PlantComplete
    <3> QED
      BY <3>1
  <2> QED
    BY <2>1
<1>1. /\ UNCHANGED devices /\ sessions' = sessions
      /\ UNCHANGED pc \/ (pc' \in LatePc /\ (pc \in {"idle", "aborted"} => pc' \in {"idle", "aborted"}))
  <2>1. CASE Connect
    BY <2>1 DEF Connect, TimelyPlant, TypeInv, TypeOK
  <2>2. CASE Reconnect \/ disconnect
    BY <2>2 DEF Reconnect, disconnect
  <2>3. CASE \E id \in Serial, obj \in Object : Request(id, obj)
    BY <2>3 DEF Request
  <2>4. CASE ConnectStep
    <3>1. CASE SyncQuery
      BY <3>1 DEF SyncQuery
    <3>2. CASE SyncAnswer
      BY <3>2 DEF SyncAnswer, ReadFailed, AttemptOf, GiveUpOf
    <3>3. CASE SyncAck
      BY <1>0, <3>3 DEF SyncAck
    <3>4. CASE SyncSet \/ SyncAdjust
      BY <3>4 DEF SyncSet, SyncAdjust
    <3> QED
      BY <2>4, <3>1, <3>2, <3>3, <3>4 DEF ConnectStep, logout, discoverDevices, addDevice,
         Discovered, sendPassword, AuthAnswer, Authenticated
  <2>5. CASE requestChannel \/ requestArchiveData
    BY <2>5 DEF requestChannel, requestArchiveData
  <2>6. CASE RecordAnswer \/ ArchiveAnswer
    BY <2>6 DEF RecordAnswer, ArchiveAnswer, ReadFailed, AttemptOf, GiveUpOf
  <2>7. CASE ReadFails
    BY <2>7 DEF ReadFails, ReadFailed, AttemptOf, GiveUpOf, ReadPc
  <2>8. CASE \E s \in Serial : Arrive(s) \/ Lose(s)
    BY <2>8 DEF Arrive, Lose
  <2>9. CASE UNCHANGED vars
    BY <2>9 DEF vars
  <2> QED
    BY <2>1, <2>2, <2>3, <2>4, <2>5, <2>6, <2>7, <2>8, <2>9 DEF Next, ApiCall, Step, RequestStep
<1>2. DeviceInv'
  BY <1>1, DevicesKept
<1> QED
  BY <1>1, <1>2

\* The history is not forgotten, and only two queries are to all.
LEMMA LeftoverStep ==
    ASSUME TypeInv, [Next]_vars
    PROVE  /\ leftover => leftover'
           /\ leftover' => leftover \/ pc \in {"sync", "records"}
<1> USE DEF sessionVars
<1>0. leftover \in BOOLEAN
  BY DEF TypeInv, TypeOK
<1>1. CASE ConnectStep
  <2>1. CASE SyncQuery
    BY <1>0, <2>1 DEF SyncQuery, AskAll
  <2> QED
    BY <1>1, <2>1 DEF ConnectStep, logout, discoverDevices, addDevice, Discovered,
       sendPassword, AuthAnswer, Authenticated, SyncAnswer, SyncAck, SyncSet, SyncAdjust
<1>2. CASE RequestStep
  <2>1. CASE requestChannel
    BY <1>0, <2>1 DEF requestChannel, AskAll
  <2> QED
    BY <1>2, <2>1 DEF RequestStep, RecordAnswer, requestArchiveData, ArchiveAnswer
<1>3. CASE ApiCall
  BY <1>3 DEF ApiCall, Connect, Reconnect, disconnect, Request
<1>4. CASE ReadFails
  BY <1>4 DEF ReadFails
<1>5. CASE \E s \in Serial : Arrive(s) \/ Lose(s)
  BY <1>5 DEF Arrive, Lose
<1>6. CASE UNCHANGED vars
  BY <1>6 DEF vars
<1> QED
  BY <1>1, <1>2, <1>3, <1>4, <1>5, <1>6 DEF Next, Step

\* so that every step keeps the invariant,
LEMMA TimelyStep ==
    ASSUME TimelyPlant, TypeInv, TimelyInv, [Next]_vars
    PROVE  TimelyInv'
<1>1. CASE leftover
  BY <1>1, LateStep, LeftoverStep DEF TimelyInv
<1>2. CASE ~leftover /\ leftover'
  <2>1. LateInv
    BY <1>2, LeftoverStep DEF TimelyInv, EachInv, CalmInv, LateInv, LatePc
  <2> QED
    BY <1>2, <2>1, LateStep DEF TimelyInv
<1>3. CASE ~leftover /\ ~leftover'
  BY <1>3, CalmStep DEF TimelyInv, EachInv
<1> QED
  BY <1>1, <1>2, <1>3

\* and it always holds.
LEMMA TimelyInvariant == ASSUME TimelyPlant PROVE Spec => []TimelyInv
<1>1. TypeInv /\ TimelyInv /\ [Next]_vars => (TypeInv /\ TimelyInv)'
  BY TypeStep, TimelyStep
<1> QED
  BY <1>1, TypeInit, TimelyInit, PTL DEF Spec

\* "Past discovery every inverter is in the list once, and past authentication
\* each is marked": connect() waits for every inverter and takes the answer of
\* none for that of another, however the answers interleave.
THEOREM PlantIsComplete == ASSUME TimelyPlant PROVE Spec => []PlantComplete
<1>1. TimelyInv => PlantComplete
  BY DEF TimelyInv, DeviceInv
<1> QED
  BY <1>1, TimelyInvariant, PTL

\* authenticate() finds the device of every answer in its list, and syncTime()
\* a first device: no null pointer is dereferenced.
THEOREM SessionSurvives == ASSUME TimelyPlant PROVE Spec => []NeverCrashes
<1>1. TimelyInv => NeverCrashes
  BY DEF TimelyInv, EachInv, CalmInv, LateInv, LatePc, NeverCrashes
<1> QED
  BY <1>1, TimelyInvariant, PTL

\* Until several inverters answered a query of which the code reads one answer,
\* a request for one inverter returns what that inverter says about the object
\* asked for, although the code compares no address.
THEOREM ResultsAreAsked == ASSUME TimelyPlant PROVE Spec => []AnswersAreAsked
<1>1. TimelyInv => AnswersAreAsked
  BY DEF TimelyInv, EachInv, ResultInv, AnswersAreAsked
<1> QED
  BY <1>1, TimelyInvariant, PTL

\* And until then an archive is returned whole: its packets count down to 0,
\* although the code looks only at whether a number is 0.
THEOREM ArchivesAreComplete == ASSUME TimelyPlant PROVE Spec => []ArchiveComplete
<1>1. TimelyInv => ArchiveComplete
  BY DEF TimelyInv, EachInv, ResultInv, ArchiveComplete
<1> QED
  BY <1>1, TimelyInvariant, PTL

\* inverterNum() counts every inverter once: no retry of discovery appends one
\* again.
THEOREM DevicesAreDistinct == ASSUME TimelyPlant PROVE Spec => []NoDuplicateDevices
<1>1. TimelyInv => NoDuplicateDevices
  BY DEF TimelyInv, DeviceInv
<1> QED
  BY <1>1, TimelyInvariant, PTL
=============================================================================
