----------------------------- MODULE MCReadings -----------------------------
(***************************************************************************)
(* A small instance of Readings: a few records, attributes and days, cut   *)
(* into packets in every way.                                              *)
(***************************************************************************)
EXTENDS Readings

CONSTANTS s1, s2, s3

MCPair == {s1, s2}
MCPlant == {s1, s2, s3}

MCMaxRecords == [ac |-> 2, dc |-> 3, stats |-> 2, info |-> 2]

\* Records with every order of fields, of trackers and of a missing value.
MCRecord(obj) ==
    [cnt : CASE obj = "dc" -> 0 .. 2 [] obj = "ac" -> {1} [] OTHER -> {0},
     idx : CASE obj \in {"ac", "dc"} -> {"power", "voltage"}
             [] OTHER -> {"totalYield", "dayYield", "other"},
     value : {5, Invalid}]

\* 35 is an error, 307 is ok.
MCAttribute == [attribute : {307, 35, END}, selected : BOOLEAN]

On(a) == [attribute |-> a, selected |-> TRUE]
Off(a) == [attribute |-> a, selected |-> FALSE]

MCInfo ==
    [idx : {"name", "version"}, value : {3, 10}, attributes : {<<>>}]
        \cup [idx : {"type"}, value : {0},
              attributes : {<<Off(35), On(307)>>, <<Off(35), On(END)>>, <<On(35), On(307)>>}]

UpTo(n, S) == UNION {[1 .. k -> S] : k \in 0 .. n}

\* As functions, so that TLC computes the sets once.
ContentsOf ==
    [obj \in Records \cup {Status} |->
        CASE obj = Status -> {<<>>} \cup [1 .. 3 -> MCAttribute]
          [] obj = "dc" -> UpTo(2, MCRecord(obj))
          [] obj = "info" -> UpTo(3, MCInfo)
          [] OTHER -> UpTo(3, MCRecord(obj))]
MCContents(obj) == ContentsOf[obj]

\* The totals after each day, every day's yield another one.
MCTotal == <<10, 11, 13, 17>>

\* Archives of at most four days, any of them missing or, if it is the total of
\* a day, without a valid value.
MCEntries(obj) ==
    LET entry(i, valid) == [time |-> DAY * i, value |-> IF valid THEN MCTotal[i] ELSE Invalid]
        days == {D \in SUBSET (1 .. 4) : D # {}}
        validity(D) == IF obj = "day" THEN SUBSET D ELSE {D}
        sorted(D) == SetToSortSeq(D, <)
    IN  UNION {{[k \in 1 .. Cardinality(D) |-> entry(sorted(D)[k], sorted(D)[k] \in V)] :
                    V \in validity(D)} : D \in days}

\* A sequence cut into n chunks that are not empty.
Cuts(s, n) ==
    {[k \in 1 .. n |-> SubSeq(s, IF k = 1 THEN 1 ELSE c[k - 1] + 1, IF k = n THEN Len(s) ELSE c[k])] :
        c \in {f \in [1 .. n - 1 -> 1 .. Len(s) - 1] : \A i, j \in 1 .. n - 1 : i < j => f[i] < f[j]}}

ChunksOf ==
    [obj \in Archive |->
        [n \in 1 .. MaxFragments |-> UNION {Cuts(s, n) : s \in {e \in MCEntries(obj) : Len(e) >= n}}]]
MCChunks(obj, n) == ChunksOf[obj][n]

MCRanges == {<<0, 96>>, <<24, 72>>, <<48, 60>>}
=============================================================================
