--------------------------- MODULE DownloadProofs ---------------------------
(***************************************************************************)
(* Proofs about Download: what a connection holds in flight is what is     *)
(* under way to its peer and back, in this order, and every count in       *)
(* flight is held by the connection that owns it, for any number of peers, *)
(* any branches, lengths of lists and queues.                              *)
(***************************************************************************)
EXTENDS Download, FunctionTheorems, FiniteSetTheorems, WellFoundedInduction, TLAPS

-----------------------------------------------------------------------------
(* The inductive invariant *)

(* What is on its way to a peer. *)
Requests ==
    [type : {"get_count", "find_common_ancestor"}, ids : Seq(Counts) \ {<<>>}, length : Nat]

(* And what is on its way back. *)
Answers == [type : {"inv_count", "count"}, ids : Seq(Counts) \ {<<>>}, length : Nat]

(* What a reader loop is doing. *)
Readers == [at : {"gone", "read", "fill", "add", "process"}, id : Counts \cup {NoCount}]

(* The counts held, the first of them taken from the answers perhaps, are   *)
(* those of the answers and requests under way.                             *)
Way(held, taken, from, to) ==
    LET answered == taken + OfType(from, "count", Len(from)) IN
    /\ Len(held) = answered + OfType(to, "get_count", Len(to))
    /\ \A i \in 1 .. Len(from) :
          from[i].type = "count" => held[taken + OfType(from, "count", i)] = from[i].ids[1]
    /\ \A i \in 1 .. Len(to) :
          to[i].type = "get_count" => held[answered + OfType(to, "get_count", i)] = to[i].ids[1]

(* No count twice, in either queue or in both. *)
Apart(down, held) ==
    /\ \A i, j \in 1 .. Len(down) : down[i] = down[j] => i = j
    /\ \A i, j \in 1 .. Len(held) : held[i] = held[j] => i = j
    /\ \A i \in 1 .. Len(down), j \in 1 .. Len(held) : down[i] # held[j]

(* One reader loop with its queues: at "add" it has the first count of the  *)
(* download queue, at "process" the first one in flight.                    *)
LoopOK(down, held, r) ==
    /\ down \in Seq(Counts) /\ Len(down) <= downloadQueueMax
    /\ held \in Seq(Counts) /\ Len(held) <= inflightQueueMax
    /\ Apart(down, held)
    /\ r \in Readers
    /\ r.at = "add" => down # <<>> /\ r.id = down[1] /\ Len(held) < inflightQueueMax
    /\ r.at = "process" => held # <<>> /\ r.id = held[1]

(* The messages of one connection; every locator ends with the genesis      *)
(* count.                                                                   *)
WireOK(held, r, from, to) ==
    /\ from \in Seq(Answers)
    /\ to \in Seq(Requests)
    /\ \A i \in 1 .. Len(to) :
          to[i].type = "find_common_ancestor" => Genesis \in Range(to[i].ids)
    /\ Way(held, IF r.at = "process" THEN 1 ELSE 0, from, to)

(* One connection, with the tip of the peer behind it.                      *)
PeerOK(p) ==
    /\ LoopOK(localDownloadQueue[p], localInflightQueue[p], reader[p])
    /\ WireOK(localInflightQueue[p], reader[p], fromPeer[p], toPeer[p])
    /\ remoteTip[p] \in 1 .. Len(Tips[p])

(* One value of each variable for each peer. *)
DomainsOK ==
    /\ localDownloadQueue \in [Peers -> Seq(Counts)]
    /\ localInflightQueue \in [Peers -> Seq(Counts)]
    /\ reader \in [Peers -> Readers]
    /\ fromPeer \in [Peers -> Seq(Answers)]
    /\ toPeer \in [Peers -> Seq(Requests)]
    /\ remoteTip \in [Peers -> Nat]

(* What is processed is stored, and the tip is processed.                   *)
NodeOK == processed \subseteq stored /\ stored \subseteq Counts /\ tip \in processed

(* A connection that waits for a count owns it in the shared queue, unless  *)
(* it once waited too long.                                                 *)
HeldOrExpired ==
    \A p \in Peers : \A c \in Range(localInflightQueue[p]) :
        c \in everExpired \/ (c \in InFlight /\ globalInflightQueue[c].who = p)

(* The shared queue: who owns what, and what has expired.                   *)
FlightOK ==
    /\ InFlight \subseteq Counts
    /\ globalInflightQueue \in [InFlight -> [who : Peers, expired : BOOLEAN]]
    /\ OwnerIsWaiting
    /\ HeldOrExpired
    /\ \A c \in InFlight : globalInflightQueue[c].expired => c \in everExpired

(* The whole of it. *)
DownloadIInv == DomainsOK /\ NodeOK /\ FlightOK /\ \A p \in Peers : PeerOK(p)

-----------------------------------------------------------------------------
(* Sequences *)

(* The first of a sequence, and the others. *)
LEMMA TailFacts ==
    ASSUME NEW S, NEW s \in Seq(S), s # <<>>
    PROVE  /\ Len(s) \in Nat \ {0} /\ Head(s) = s[1] /\ s[1] \in S
           /\ Tail(s) \in Seq(S) /\ Len(Tail(s)) = Len(s) - 1
           /\ \A i \in 1 .. Len(s) - 1 : Tail(s)[i] = s[i + 1]
OBVIOUS

(* One more at the end. *)
LEMMA AppendFacts ==
    ASSUME NEW S, NEW s \in Seq(S), NEW e \in S
    PROVE  /\ Append(s, e) \in Seq(S) /\ Len(Append(s, e)) = Len(s) + 1
           /\ Append(s, e)[Len(s) + 1] = e
           /\ \A i \in 1 .. Len(s) : Append(s, e)[i] = s[i]
OBVIOUS

(* The members of a sequence are at its places. *)
LEMMA RangeFacts ==
    ASSUME NEW S, NEW s \in Seq(S)
    PROVE  /\ Len(s) \in Nat /\ DOMAIN s = 1 .. Len(s)
           /\ \A e : e \in Range(s) <=> \E i \in 1 .. Len(s) : s[i] = e
<1>1. Len(s) \in Nat /\ DOMAIN s = 1 .. Len(s)
  OBVIOUS
<1> QED
  BY <1>1 DEF Range

(* Removing the first occurrence of what is first. *)
LEMMA RemoveHead ==
    ASSUME NEW S, NEW s \in Seq(S), s # <<>>
    PROVE  RemoveFirst(s, Head(s)) = Tail(s)
<1> DEFINE places == {i \in 1 .. Len(s) : s[i] = Head(s)}
<1>1. Len(s) \in Nat \ {0} /\ Head(s) = s[1] /\ 1 \in 1 .. Len(s)
  OBVIOUS
<1>2. 1 \in places /\ \A i \in places : 1 <= i
  BY <1>1
<1>3. \A i \in places : (\A j \in places : i <= j) => i = 1
  BY <1>2
<1> HIDE DEF places
<1>4. Min(places) = 1
  BY <1>2, <1>3 DEF Min
<1>5. RemoveFirst(s, Head(s)) = RemoveAt(s, 1)
  BY <1>1, <1>2, <1>4 DEF RemoveFirst, SelectInSeq, places
<1>6. RemoveAt(s, 1) = SubSeq(s, 1, 0) \o SubSeq(s, 2, Len(s))
  BY DEF RemoveAt
<1>7. SubSeq(s, 1, 0) = <<>> /\ SubSeq(s, 2, Len(s)) = Tail(s)
  BY <1>1
<1>8. Tail(s) \in Seq(S)
  BY <1>1
<1>9. <<>> \o Tail(s) = Tail(s)
  BY <1>8
<1> QED
  BY <1>5, <1>6, <1>7, <1>9

-----------------------------------------------------------------------------
(* Counting messages *)

(* The number of messages of a type grows by one where there is one.        *)
LEMMA OfTypeFacts ==
    ASSUME NEW S, NEW q \in Seq(S), NEW t
    PROVE  /\ OfType(q, t, 0) = 0
           /\ \A i \in 0 .. Len(q) : OfType(q, t, i) \in 0 .. i
           /\ \A i \in 1 .. Len(q) :
                 OfType(q, t, i) = OfType(q, t, i - 1) + (IF q[i].type = t THEN 1 ELSE 0)
<1> DEFINE places(i) == {j \in 1 .. i : q[j].type = t}
<1>1. \A i \in Nat : IsFiniteSet(places(i)) /\ OfType(q, t, i) \in 0 .. i
  <2> SUFFICES ASSUME NEW i \in Nat
               PROVE  IsFiniteSet(places(i)) /\ OfType(q, t, i) \in 0 .. i
    OBVIOUS
  <2>1. IsFiniteSet(1 .. i) /\ Cardinality(1 .. i) = i
    <3>1. Cardinality(1 .. i) = IF 1 > i THEN 0 ELSE i - 1 + 1
      BY FS_Interval
    <3>2. IsFiniteSet(1 .. i)
      BY FS_Interval
    <3> QED
      BY <3>1, <3>2
  <2>2. places(i) \in SUBSET (1 .. i)
    OBVIOUS
  <2>3. IsFiniteSet(places(i)) /\ Cardinality(places(i)) \in Nat /\ Cardinality(places(i)) <= i
    BY <2>1, <2>2, FS_Subset, FS_CardinalityType
  <2> QED
    BY <2>3 DEF OfType
<1>2. OfType(q, t, 0) = 0
  <2>1. 0 \in Nat /\ 0 .. 0 = {0}
    OBVIOUS
  <2> QED
    BY <1>1, <2>1
<1>3. ASSUME NEW i \in 1 .. Len(q)
      PROVE  OfType(q, t, i) = OfType(q, t, i - 1) + (IF q[i].type = t THEN 1 ELSE 0)
  <2>1. i \in Nat /\ i - 1 \in Nat /\ 1 .. i = 1 .. i - 1 \cup {i} /\ i \notin 1 .. i - 1
    OBVIOUS
  <2>2. places(i) = places(i - 1) \cup (IF q[i].type = t THEN {i} ELSE {})
    BY <2>1
  <2>3. i \notin places(i - 1) /\ IsFiniteSet(places(i - 1))
    BY <1>1, <2>1
  <2> HIDE DEF places
  <2>4. Cardinality(places(i))
          = Cardinality(places(i - 1)) + (IF q[i].type = t THEN 1 ELSE 0)
    <3>1. CASE q[i].type = t
      BY <2>2, <2>3, <3>1, FS_AddElement
    <3>2. CASE q[i].type # t
      <4>1. places(i) = places(i - 1) /\ Cardinality(places(i - 1)) \in Nat
        BY <2>2, <2>3, <3>2, FS_CardinalityType
      <4> QED
        BY <3>2, <4>1
    <3> QED
      BY <3>1, <3>2
  <2> QED
    BY <2>4 DEF OfType, places
<1>4. \A i \in 0 .. Len(q) : i \in Nat
  OBVIOUS
<1> QED
  BY <1>1, <1>2, <1>3, <1>4

(* Nothing is before the first message. *)
LEMMA OfTypeEmpty == \A t : OfType(<<>>, t, Len(<<>>)) = 0
<1>1. 1 .. Len(<<>>) = {}
  OBVIOUS
<1> QED
  BY <1>1, FS_EmptySet DEF OfType

(* A longer count of messages is no smaller. *)
LEMMA OfTypeGrows ==
    ASSUME NEW S, NEW q \in Seq(S), NEW t, NEW i \in 0 .. Len(q)
    PROVE  OfType(q, t, i) <= OfType(q, t, Len(q))
<1>1. /\ i \in Nat /\ Len(q) \in Nat
      /\ {j \in 1 .. i : q[j].type = t} \in SUBSET {j \in 1 .. Len(q) : q[j].type = t}
  OBVIOUS
<1>2. IsFiniteSet({j \in 1 .. Len(q) : q[j].type = t})
  <2>1. IsFiniteSet(1 .. Len(q))
    BY <1>1, FS_Interval
  <2>2. {j \in 1 .. Len(q) : q[j].type = t} \in SUBSET (1 .. Len(q))
    OBVIOUS
  <2> QED
    BY <2>1, <2>2, FS_Subset
<1> QED
  BY <1>1, <1>2, FS_Subset DEF OfType

(* The number of a message of the type, and that of the last. *)
LEMMA OfTypeNumber ==
    ASSUME NEW S, NEW q \in Seq(S), NEW t
    PROVE  /\ OfType(q, t, Len(q)) \in Nat
           /\ \A i \in 1 .. Len(q) : q[i].type = t =>
                 /\ OfType(q, t, i) \in Nat
                 /\ 1 <= OfType(q, t, i) /\ OfType(q, t, i) <= OfType(q, t, Len(q))
<1>1. Len(q) \in Nat /\ Len(q) \in 0 .. Len(q)
  OBVIOUS
<1>2. \A i \in 0 .. Len(q) : OfType(q, t, i) \in 0 .. i
  BY OfTypeFacts
<1>3. ASSUME NEW i \in 1 .. Len(q), q[i].type = t
      PROVE  /\ OfType(q, t, i) \in Nat
             /\ 1 <= OfType(q, t, i) /\ OfType(q, t, i) <= OfType(q, t, Len(q))
  <2>1. i \in 0 .. Len(q) /\ i - 1 \in 0 .. Len(q)
    BY <1>1
  <2>2. OfType(q, t, i) \in 0 .. i /\ OfType(q, t, i - 1) \in 0 .. i - 1
    BY <1>2, <2>1
  <2>3. OfType(q, t, i) = OfType(q, t, i - 1) + 1
    BY <1>3, OfTypeFacts
  <2>4. OfType(q, t, i) <= OfType(q, t, Len(q))
    BY <2>1, OfTypeGrows
  <2> QED
    BY <2>2, <2>3, <2>4
<1>4. OfType(q, t, Len(q)) \in 0 .. Len(q)
  BY <1>1, <1>2
<1> QED
  BY <1>3, <1>4

(* A message at the end leaves the others at their numbers. *)
LEMMA OfTypeAppend ==
    ASSUME NEW S, NEW q \in Seq(S), NEW m \in S, NEW t
    PROVE  /\ \A i \in 0 .. Len(q) : OfType(Append(q, m), t, i) = OfType(q, t, i)
           /\ OfType(Append(q, m), t, Len(q) + 1)
                = OfType(q, t, Len(q)) + (IF m.type = t THEN 1 ELSE 0)
<1> DEFINE a == Append(q, m)
<1>1. /\ a \in Seq(S) /\ Len(a) = Len(q) + 1 /\ a[Len(q) + 1] = m
      /\ \A i \in 1 .. Len(q) : a[i] = q[i]
      /\ Len(q) \in Nat
  BY AppendFacts
<1> HIDE DEF a
<1>2. ASSUME NEW i \in 0 .. Len(q) PROVE OfType(a, t, i) = OfType(q, t, i)
  <2>1. \A j \in 1 .. i : j \in 1 .. Len(q)
    BY <1>1
  <2>2. {j \in 1 .. i : a[j].type = t} = {j \in 1 .. i : q[j].type = t}
    BY <1>1, <2>1
  <2> QED
    BY <2>2 DEF OfType
<1>3. OfType(a, t, Len(q) + 1) = OfType(a, t, Len(q)) + (IF m.type = t THEN 1 ELSE 0)
  <2>1. Len(q) + 1 \in 1 .. Len(a) /\ (Len(q) + 1) - 1 = Len(q)
    BY <1>1
  <2>2. \A i \in 1 .. Len(a) :
           OfType(a, t, i) = OfType(a, t, i - 1) + (IF a[i].type = t THEN 1 ELSE 0)
    BY <1>1, OfTypeFacts
  <2> QED
    BY <1>1, <2>1, <2>2
<1>4. Len(q) \in 0 .. Len(q)
  BY <1>1
<1> QED
  BY <1>2, <1>3, <1>4 DEF a

(* Without the first message the others move up.                            *)
LEMMA OfTypeTail ==
    ASSUME NEW S, NEW q \in Seq(S), q # <<>>, NEW t, NEW i \in 0 .. Len(q) - 1
    PROVE  OfType(Tail(q), t, i) = OfType(q, t, i + 1) - (IF Head(q).type = t THEN 1 ELSE 0)
<1> DEFINE all == {j \in 1 .. i + 1 : q[j].type = t}
           rest == all \ {1}
           moved == {j \in 1 .. i : Tail(q)[j].type = t}
           back == [j \in rest |-> j - 1]
<1>1. /\ Head(q) = q[1] /\ Len(q) \in Nat \ {0} /\ i \in Nat /\ i + 1 <= Len(q)
      /\ \A j \in 1 .. Len(q) - 1 : Tail(q)[j] = q[j + 1]
  BY TailFacts
<1>2. \A j \in 1 .. i : Tail(q)[j] = q[j + 1]
  BY <1>1
<1>3. back \in Bijection(rest, moved)
  <2>1. back \in [rest -> moved]
    <3> SUFFICES ASSUME NEW j \in rest PROVE j - 1 \in moved
      OBVIOUS
    <3>1. j \in 2 .. i + 1 /\ q[j].type = t
      BY <1>1
    <3>2. j - 1 \in 1 .. i /\ (j - 1) + 1 = j
      BY <1>1, <3>1
    <3> QED
      BY <1>2, <3>1, <3>2
  <2>2. \A j, k \in rest : back[j] = back[k] => j = k
    BY <1>1
  <2>3. \A k \in moved : \E j \in rest : back[j] = k
    <3> SUFFICES ASSUME NEW k \in moved PROVE \E j \in rest : back[j] = k
      OBVIOUS
    <3>1. k \in 1 .. i /\ q[k + 1].type = t
      BY <1>2
    <3>2. k + 1 \in rest /\ (k + 1) - 1 = k
      BY <1>1, <3>1
    <3> QED
      BY <3>2
  <2> QED
    BY <2>1, <2>2, <2>3, Fun_IsBij
<1>4. IsFiniteSet(all) /\ IsFiniteSet(rest) /\ Cardinality(all) \in Nat
  <2>1. IsFiniteSet(1 .. i + 1)
    BY <1>1, FS_Interval
  <2>2. all \in SUBSET (1 .. i + 1)
    OBVIOUS
  <2>3. IsFiniteSet(all)
    BY <2>1, <2>2, FS_Subset
  <2> QED
    BY <2>3, FS_RemoveElement, FS_CardinalityType
<1>5. Cardinality(moved) = Cardinality(rest)
  <2> HIDE DEF moved, rest, back
  <2> QED
    BY <1>3, <1>4, FS_Bijection DEF ExistsBijection
<1>6. 1 \in all <=> Head(q).type = t
  BY <1>1
<1>7. Cardinality(rest) = IF 1 \in all THEN Cardinality(all) - 1 ELSE Cardinality(all)
  BY <1>4, FS_RemoveElement
<1>8. OfType(q, t, i + 1) = Cardinality(all) /\ OfType(Tail(q), t, i) = Cardinality(moved)
  BY DEF OfType
<1> HIDE DEF all, rest, moved
<1> QED
  BY <1>4, <1>5, <1>6, <1>7, <1>8

-----------------------------------------------------------------------------
(* What is under way *)

(* On a connection without messages nothing is held. *)
LEMMA WayEmpty == Way(<<>>, 0, <<>>, <<>>)
<1>1. Len(<<>>) = 0 /\ 1 .. Len(<<>>) = {}
  OBVIOUS
<1> QED
  BY <1>1, OfTypeEmpty DEF Way

(* A message to the peer that asks for no count. *)
LEMMA WaySend ==
    ASSUME NEW held \in Seq(Counts), NEW taken \in {0, 1},
           NEW from \in Seq(Answers), NEW to \in Seq(Requests),
           Way(held, taken, from, to),
           NEW m \in Requests, m.type # "get_count"
    PROVE  Way(held, taken, from, Append(to, m))
<1> DEFINE a == Append(to, m)
<1>1. /\ Len(a) = Len(to) + 1 /\ Len(to) \in Nat /\ a[Len(to) + 1] = m
      /\ \A i \in 1 .. Len(to) : a[i] = to[i]
  BY AppendFacts
<1>2. /\ \A i \in 0 .. Len(to) : OfType(a, "get_count", i) = OfType(to, "get_count", i)
      /\ OfType(a, "get_count", Len(to) + 1) = OfType(to, "get_count", Len(to)) + 0
  BY OfTypeAppend
<1>3. OfType(to, "get_count", Len(to)) \in Nat
  BY OfTypeNumber
<1> HIDE DEF a
<1>4. \A i \in 1 .. Len(a) : a[i].type = "get_count" => i \in 1 .. Len(to)
  BY <1>1
<1>5. \A i \in 1 .. Len(to) : OfType(a, "get_count", i) = OfType(to, "get_count", i)
  BY <1>1, <1>2
<1> QED
  BY <1>1, <1>2, <1>3, <1>4, <1>5 DEF Way, a

(* A message from the peer that is no count. *)
LEMMA WayTell ==
    ASSUME NEW held \in Seq(Counts), NEW taken \in {0, 1},
           NEW from \in Seq(Answers), NEW to \in Seq(Requests),
           Way(held, taken, from, to),
           NEW m \in Answers, m.type # "count"
    PROVE  Way(held, taken, Append(from, m), to)
<1> DEFINE a == Append(from, m)
<1>1. /\ Len(a) = Len(from) + 1 /\ Len(from) \in Nat /\ a[Len(from) + 1] = m
      /\ \A i \in 1 .. Len(from) : a[i] = from[i]
  BY AppendFacts
<1>2. /\ \A i \in 0 .. Len(from) : OfType(a, "count", i) = OfType(from, "count", i)
      /\ OfType(a, "count", Len(from) + 1) = OfType(from, "count", Len(from)) + 0
  BY OfTypeAppend
<1>3. OfType(from, "count", Len(from)) \in Nat
  BY OfTypeNumber
<1> HIDE DEF a
<1>4. \A i \in 1 .. Len(a) : a[i].type = "count" => i \in 1 .. Len(from)
  BY <1>1
<1>5. /\ \A i \in 1 .. Len(from) : OfType(a, "count", i) = OfType(from, "count", i)
      /\ OfType(a, "count", Len(a)) = OfType(from, "count", Len(from))
  BY <1>1, <1>2, <1>3
<1> QED
  BY <1>1, <1>4, <1>5 DEF Way, a

(* A request for one more count, which is held last. *)
LEMMA WayRequest ==
    ASSUME NEW held \in Seq(Counts), NEW taken \in {0, 1},
           NEW from \in Seq(Answers), NEW to \in Seq(Requests),
           Way(held, taken, from, to),
           NEW m \in Requests, m.type = "get_count",
           NEW c \in Counts, m.ids[1] = c
    PROVE  Way(Append(held, c), taken, from, Append(to, m))
<1> DEFINE a == Append(to, m)
           h == Append(held, c)
           answers == OfType(from, "count", Len(from))
           asked == OfType(to, "get_count", Len(to))
<1>1. /\ Len(a) = Len(to) + 1 /\ Len(to) \in Nat /\ a[Len(to) + 1] = m
      /\ \A i \in 1 .. Len(to) : a[i] = to[i]
      /\ Len(from) \in Nat /\ Len(held) \in Nat
      /\ Len(h) = Len(held) + 1 /\ h[Len(held) + 1] = c
      /\ \A i \in 1 .. Len(held) : h[i] = held[i]
  BY AppendFacts
<1>2. /\ \A i \in 0 .. Len(to) : OfType(a, "get_count", i) = OfType(to, "get_count", i)
      /\ OfType(a, "get_count", Len(to) + 1) = asked + 1
  BY OfTypeAppend
<1>3. answers \in Nat /\ asked \in Nat
  BY OfTypeNumber
<1>4. Len(held) = taken + answers + asked
  BY DEF Way
<1>5. ASSUME NEW i \in 1 .. Len(from), from[i].type = "count"
      PROVE  h[taken + OfType(from, "count", i)] = from[i].ids[1]
  <2> DEFINE n == OfType(from, "count", i)
  <2>1. n \in Nat /\ n <= answers /\ 1 <= n
    BY <1>5, OfTypeNumber
  <2>2. held[taken + n] = from[i].ids[1]
    BY <1>5 DEF Way
  <2> HIDE DEF n, answers, asked, h
  <2>3. taken + n \in 1 .. Len(held)
    BY <1>1, <1>3, <1>4, <2>1
  <2> QED
    BY <1>1, <2>2, <2>3 DEF n
<1>6. ASSUME NEW i \in 1 .. Len(a), a[i].type = "get_count"
      PROVE  h[taken + answers + OfType(a, "get_count", i)] = a[i].ids[1]
  <2>1. CASE i = Len(to) + 1
    <3> HIDE DEF a, h, answers, asked
    <3>1. taken + answers + OfType(a, "get_count", i) = Len(held) + 1
      BY <1>1, <1>2, <1>3, <1>4, <2>1
    <3> QED
      BY <1>1, <2>1, <3>1
  <2>2. CASE i \in 1 .. Len(to)
    <3> DEFINE n == OfType(to, "get_count", i)
    <3>1. a[i] = to[i] /\ to[i].type = "get_count" /\ OfType(a, "get_count", i) = n
      BY <1>1, <1>2, <1>6, <2>2
    <3>2. n \in Nat /\ n <= asked /\ 1 <= n
      BY <2>2, <3>1, OfTypeNumber
    <3>3. held[taken + answers + n] = to[i].ids[1]
      BY <2>2, <3>1 DEF Way
    <3> HIDE DEF n, answers, asked, h, a
    <3>4. taken + answers + n \in 1 .. Len(held)
      BY <1>1, <1>3, <1>4, <3>2
    <3> QED
      BY <1>1, <3>1, <3>3, <3>4
  <2>3. i = Len(to) + 1 \/ i \in 1 .. Len(to)
    <3> HIDE DEF a, h
    <3> QED
      BY <1>1
  <2> HIDE DEF a, h, answers
  <2> QED
    BY <2>1, <2>2, <2>3
<1>7. Len(h) = taken + answers + OfType(a, "get_count", Len(a))
  <2> HIDE DEF a, h, answers, asked
  <2> QED
    BY <1>1, <1>2, <1>3, <1>4
<1> HIDE DEF a, h
<1> QED
  BY <1>5, <1>6, <1>7 DEF Way, a, h

(* The number of the messages left, when the first has been taken.          *)
LEMMA OfTypeRest ==
    ASSUME NEW S, NEW q \in Seq(S), q # <<>>, NEW t, NEW one \in {0, 1},
           one = IF Head(q).type = t THEN 1 ELSE 0
    PROVE  /\ Tail(q) \in Seq(S) /\ Len(Tail(q)) \in Nat
           /\ OfType(Tail(q), t, Len(Tail(q))) = OfType(q, t, Len(q)) - one
           /\ OfType(q, t, Len(q)) \in Nat
           /\ \A i \in 1 .. Len(Tail(q)) :
                 /\ Tail(q)[i] = q[i + 1] /\ i + 1 \in 1 .. Len(q)
                 /\ OfType(Tail(q), t, i) = OfType(q, t, i + 1) - one
                 /\ OfType(q, t, i + 1) \in Nat
<1>1. /\ Tail(q) \in Seq(S) /\ Len(Tail(q)) = Len(q) - 1 /\ Len(q) \in Nat \ {0}
      /\ \A i \in 1 .. Len(q) - 1 : Tail(q)[i] = q[i + 1]
  BY TailFacts
<1>2. \A i \in 0 .. Len(q) - 1 : OfType(Tail(q), t, i) = OfType(q, t, i + 1) - one
  BY OfTypeTail
<1>3. \A i \in 0 .. Len(q) : OfType(q, t, i) \in 0 .. i
  BY OfTypeFacts
<1>4. /\ Len(q) - 1 \in 0 .. Len(q) - 1 /\ (Len(q) - 1) + 1 = Len(q) /\ Len(q) \in 0 .. Len(q)
      /\ \A i \in 1 .. Len(q) - 1 : /\ i + 1 \in 1 .. Len(q) /\ i + 1 \in 0 .. Len(q)
                                    /\ i \in 0 .. Len(q) - 1
  BY <1>1
<1>5. OfType(Tail(q), t, Len(q) - 1) = OfType(q, t, Len(q)) - one
  BY <1>2, <1>4
<1>6. OfType(q, t, Len(q)) \in Nat
  BY <1>3, <1>4
<1>7. ASSUME NEW i \in 1 .. Len(q) - 1
      PROVE  /\ OfType(Tail(q), t, i) = OfType(q, t, i + 1) - one
             /\ OfType(q, t, i + 1) \in Nat
  <2>1. OfType(q, t, i + 1) \in 0 .. i + 1
    BY <1>3, <1>4
  <2> QED
    BY <1>2, <1>4, <2>1
<1> QED
  BY <1>1, <1>4, <1>5, <1>6, <1>7

(* A message that is no count has been read. *)
LEMMA WayRead ==
    ASSUME NEW held \in Seq(Counts), NEW taken \in {0, 1},
           NEW from \in Seq(Answers), NEW to \in Seq(Requests),
           Way(held, taken, from, to),
           from # <<>>, Head(from).type # "count"
    PROVE  Way(held, taken, Tail(from), to)
<1> DEFINE b == Tail(from)
<1>1. /\ OfType(b, "count", Len(b)) = OfType(from, "count", Len(from))
      /\ \A i \in 1 .. Len(b) : /\ b[i] = from[i + 1] /\ i + 1 \in 1 .. Len(from)
                                /\ OfType(b, "count", i) = OfType(from, "count", i + 1)
  <2>1. /\ OfType(b, "count", Len(b)) = OfType(from, "count", Len(from)) - 0
        /\ OfType(from, "count", Len(from)) \in Nat
        /\ \A i \in 1 .. Len(b) : /\ b[i] = from[i + 1] /\ i + 1 \in 1 .. Len(from)
                                  /\ OfType(b, "count", i) = OfType(from, "count", i + 1) - 0
                                  /\ OfType(from, "count", i + 1) \in Nat
    BY OfTypeRest
  <2> HIDE DEF b
  <2> QED
    BY <2>1
<1> HIDE DEF b
<1> QED
  BY <1>1 DEF Way, b

(* A message that asks for no count has been served. *)
LEMMA WayServed ==
    ASSUME NEW held \in Seq(Counts), NEW taken \in {0, 1},
           NEW from \in Seq(Answers), NEW to \in Seq(Requests),
           Way(held, taken, from, to),
           to # <<>>, Head(to).type # "get_count"
    PROVE  Way(held, taken, from, Tail(to))
<1> DEFINE b == Tail(to)
<1>1. /\ OfType(b, "get_count", Len(b)) = OfType(to, "get_count", Len(to))
      /\ \A i \in 1 .. Len(b) : /\ b[i] = to[i + 1] /\ i + 1 \in 1 .. Len(to)
                                /\ OfType(b, "get_count", i) = OfType(to, "get_count", i + 1)
  <2>1. /\ OfType(b, "get_count", Len(b)) = OfType(to, "get_count", Len(to)) - 0
        /\ OfType(to, "get_count", Len(to)) \in Nat
        /\ \A i \in 1 .. Len(b) : /\ b[i] = to[i + 1] /\ i + 1 \in 1 .. Len(to)
                                  /\ OfType(b, "get_count", i) = OfType(to, "get_count", i + 1) - 0
                                  /\ OfType(to, "get_count", i + 1) \in Nat
    BY OfTypeRest
  <2> HIDE DEF b
  <2> QED
    BY <2>1
<1> HIDE DEF b
<1> QED
  BY <1>1 DEF Way, b

(* The first message changes into another that is no count either.          *)
LEMMA WayShortened ==
    ASSUME NEW held \in Seq(Counts), NEW taken \in {0, 1},
           NEW from \in Seq(Answers), NEW to \in Seq(Requests),
           Way(held, taken, from, to),
           from # <<>>, Head(from).type # "count",
           NEW m \in Answers, m.type # "count"
    PROVE  /\ <<m>> \o Tail(from) \in Seq(Answers)
           /\ Way(held, taken, <<m>> \o Tail(from), to)
<1> DEFINE b == <<m>> \o Tail(from)
<1>1. /\ b \in Seq(Answers) /\ Len(b) = Len(from) /\ b[1] = m
      /\ \A i \in 2 .. Len(from) : b[i] = from[i]
      /\ Len(from) \in Nat \ {0} /\ from[1].type # "count"
  <2>1. /\ Tail(from) \in Seq(Answers) /\ Len(Tail(from)) = Len(from) - 1
        /\ Len(from) \in Nat \ {0} /\ from[1] = Head(from)
        /\ \A i \in 1 .. Len(from) - 1 : Tail(from)[i] = from[i + 1]
    BY TailFacts
  <2>2. <<m>> \in Seq(Answers) /\ Len(<<m>>) = 1 /\ <<m>>[1] = m
    OBVIOUS
  <2>3. /\ b \in Seq(Answers) /\ Len(b) = 1 + Len(Tail(from)) /\ b[1] = m
        /\ \A i \in 1 .. Len(Tail(from)) : b[1 + i] = Tail(from)[i]
    BY <2>1, <2>2
  <2> HIDE DEF b
  <2>4. ASSUME NEW i \in 2 .. Len(from) PROVE b[i] = from[i]
    <3>1. i - 1 \in 1 .. Len(from) - 1 /\ 1 + (i - 1) = i /\ (i - 1) + 1 = i
      BY <2>1
    <3>2. b[1 + (i - 1)] = Tail(from)[i - 1] /\ Tail(from)[i - 1] = from[(i - 1) + 1]
      BY <2>1, <2>3, <3>1
    <3> QED
      BY <3>1, <3>2
  <2> QED
    BY <2>1, <2>3, <2>4
<1> HIDE DEF b
<1>2. \A i \in 1 .. Len(from) : b[i].type = "count" <=> from[i].type = "count"
  <2> TAKE i \in 1 .. Len(from)
  <2>1. i = 1 \/ i \in 2 .. Len(from)
    BY <1>1
  <2> QED
    BY <1>1, <2>1
<1>3. ASSUME NEW i \in 0 .. Len(from)
      PROVE  OfType(b, "count", i) = OfType(from, "count", i)
  <2>1. \A j \in 1 .. i : j \in 1 .. Len(from)
    BY <1>1
  <2>2. {j \in 1 .. i : b[j].type = "count"} = {j \in 1 .. i : from[j].type = "count"}
    BY <1>2, <2>1
  <2> QED
    BY <2>2 DEF OfType
<1>4. /\ \A i \in 1 .. Len(from) : i \in 0 .. Len(from)
      /\ \A i \in 1 .. Len(from) : from[i].type = "count" => i \in 2 .. Len(from)
      /\ Len(from) \in 0 .. Len(from)
  BY <1>1
<1>5. /\ \A i \in 1 .. Len(from) : OfType(b, "count", i) = OfType(from, "count", i)
      /\ OfType(b, "count", Len(b)) = OfType(from, "count", Len(from))
  BY <1>1, <1>3, <1>4
<1> QED
  BY <1>1, <1>2, <1>4, <1>5 DEF Way, b

(* The first message of a type has the number one. *)
LEMMA OfTypeFirst ==
    ASSUME NEW S, NEW q \in Seq(S), q # <<>>, NEW t, Head(q).type = t
    PROVE  /\ 1 \in 1 .. Len(q) /\ q[1] = Head(q) /\ q[1].type = t
           /\ OfType(q, t, 1) = 1
           /\ OfType(q, t, Len(q)) \in Nat /\ 1 <= OfType(q, t, Len(q))
<1>1. /\ 1 \in 1 .. Len(q) /\ q[1] = Head(q) /\ q[1].type = t
  BY TailFacts
<1>2. OfType(q, t, 1) = OfType(q, t, 1 - 1) + 1
  BY <1>1, OfTypeFacts
<1>3. OfType(q, t, 1 - 1) = 0
  <2>1. 1 - 1 = 0
    OBVIOUS
  <2> QED
    BY <2>1, OfTypeFacts
<1>4. /\ OfType(q, t, Len(q)) \in Nat
      /\ OfType(q, t, 1) <= OfType(q, t, Len(q))
  BY <1>1, OfTypeNumber
<1> QED
  BY <1>1, <1>2, <1>3, <1>4

(* The first answer under way is the first count held; it is taken.         *)
LEMMA WayTaken ==
    ASSUME NEW held \in Seq(Counts), NEW from \in Seq(Answers), NEW to \in Seq(Requests),
           Way(held, 0, from, to),
           from # <<>>, Head(from).type = "count"
    PROVE  /\ Way(held, 1, Tail(from), to)
           /\ held # <<>> /\ held[1] = Head(from).ids[1]
<1> DEFINE b == Tail(from)
           n == OfType(from, "count", Len(from))
           asked == OfType(to, "get_count", Len(to))
<1>1. /\ 1 \in 1 .. Len(from) /\ from[1] = Head(from) /\ from[1].type = "count"
      /\ OfType(from, "count", 1) = 1 /\ n \in Nat /\ 1 <= n
  BY OfTypeFirst
<1>2. /\ Len(held) = 0 + n + asked
      /\ held[0 + OfType(from, "count", 1)] = from[1].ids[1]
  BY <1>1 DEF Way
<1>3. asked \in Nat
  BY OfTypeNumber
<1>4. held # <<>> /\ held[1] = Head(from).ids[1]
  <2>1. Len(held) # 0
    <3> HIDE DEF n, asked
    <3> QED
      BY <1>1, <1>2, <1>3
  <2> QED
    BY <1>1, <1>2, <2>1
<1>5. /\ OfType(b, "count", Len(b)) = n - 1
      /\ \A i \in 1 .. Len(b) : /\ b[i] = from[i + 1] /\ i + 1 \in 1 .. Len(from)
                                /\ OfType(b, "count", i) = OfType(from, "count", i + 1) - 1
                                /\ OfType(from, "count", i + 1) \in Nat
  BY OfTypeRest
<1> HIDE DEF b
<1>6. /\ 1 + OfType(b, "count", Len(b)) = 0 + n
      /\ \A i \in 1 .. Len(b) :
            1 + OfType(b, "count", i) = 0 + OfType(from, "count", i + 1)
  <2> HIDE DEF n
  <2> QED
    BY <1>1, <1>5
<1>7. Way(held, 1, b, to)
  BY <1>5, <1>6 DEF Way
<1> QED
  BY <1>4, <1>7 DEF b

(* The count taken is no longer held. *)
LEMMA WayDone ==
    ASSUME NEW held \in Seq(Counts), NEW from \in Seq(Answers), NEW to \in Seq(Requests),
           Way(held, 1, from, to)
    PROVE  held # <<>> /\ Way(Tail(held), 0, from, to)
<1> DEFINE h == Tail(held)
           n == OfType(from, "count", Len(from))
           asked == OfType(to, "get_count", Len(to))
<1>1. n \in Nat /\ asked \in Nat /\ Len(held) = 1 + n + asked
  BY OfTypeNumber DEF Way
<1>2. held # <<>>
  <2>1. Len(held) # 0
    <3> HIDE DEF n, asked
    <3> QED
      BY <1>1
  <2> QED
    BY <2>1
<1>3. /\ Len(h) = Len(held) - 1 /\ \A i \in 1 .. Len(held) - 1 : h[i] = held[i + 1]
  BY <1>2, TailFacts
<1>4. ASSUME NEW i \in 1 .. Len(from), from[i].type = "count"
      PROVE  h[0 + OfType(from, "count", i)] = from[i].ids[1]
  <2> DEFINE k == OfType(from, "count", i)
  <2>1. k \in Nat /\ 1 <= k /\ k <= n
    BY <1>4, OfTypeNumber
  <2>2. held[1 + k] = from[i].ids[1]
    BY <1>4 DEF Way
  <2> HIDE DEF k, n, asked, h
  <2>3. 0 + k \in 1 .. Len(held) - 1 /\ (0 + k) + 1 = 1 + k
    BY <1>1, <2>1
  <2> QED
    BY <1>3, <2>2, <2>3 DEF k
<1>5. ASSUME NEW i \in 1 .. Len(to), to[i].type = "get_count"
      PROVE  h[0 + n + OfType(to, "get_count", i)] = to[i].ids[1]
  <2> DEFINE k == OfType(to, "get_count", i)
  <2>1. k \in Nat /\ 1 <= k /\ k <= asked
    BY <1>5, OfTypeNumber
  <2>2. held[1 + n + k] = to[i].ids[1]
    BY <1>5 DEF Way
  <2> HIDE DEF k, n, asked, h
  <2>3. 0 + n + k \in 1 .. Len(held) - 1 /\ (0 + n + k) + 1 = 1 + n + k
    BY <1>1, <2>1
  <2> QED
    BY <1>3, <2>2, <2>3 DEF k
<1>6. Len(h) = 0 + n + asked
  <2> HIDE DEF n, asked, h
  <2> QED
    BY <1>1, <1>3
<1> HIDE DEF h
<1>7. Way(h, 0, from, to)
  BY <1>4, <1>5, <1>6 DEF Way
<1> QED
  BY <1>2, <1>7 DEF h

(* The peer answers the first request. *)
LEMMA WayAnswered ==
    ASSUME NEW held \in Seq(Counts), NEW taken \in {0, 1},
           NEW from \in Seq(Answers), NEW to \in Seq(Requests),
           Way(held, taken, from, to),
           to # <<>>, Head(to).type = "get_count",
           NEW m \in Answers, m.type = "count", m.ids[1] = Head(to).ids[1]
    PROVE  Way(held, taken, Append(from, m), Tail(to))
<1> DEFINE a == Append(from, m)
           b == Tail(to)
           n == OfType(from, "count", Len(from))
           asked == OfType(to, "get_count", Len(to))
<1>1. /\ Len(a) = Len(from) + 1 /\ Len(from) \in Nat /\ a[Len(from) + 1] = m
      /\ \A i \in 1 .. Len(from) : a[i] = from[i]
  BY AppendFacts
<1>2. /\ \A i \in 0 .. Len(from) : OfType(a, "count", i) = OfType(from, "count", i)
      /\ OfType(a, "count", Len(from) + 1) = n + 1
  BY OfTypeAppend
<1>3. n \in Nat /\ asked \in Nat /\ Len(held) = taken + n + asked
  BY OfTypeNumber DEF Way
<1>4. held[taken + n + 1] = Head(to).ids[1]
  <2>1. /\ 1 \in 1 .. Len(to) /\ to[1] = Head(to) /\ to[1].type = "get_count"
        /\ OfType(to, "get_count", 1) = 1
    BY OfTypeFirst
  <2>2. held[taken + n + OfType(to, "get_count", 1)] = to[1].ids[1]
    BY <2>1 DEF Way
  <2> QED
    BY <2>1, <2>2
<1>5. /\ OfType(b, "get_count", Len(b)) = asked - 1
      /\ \A i \in 1 .. Len(b) :
            /\ b[i] = to[i + 1] /\ i + 1 \in 1 .. Len(to)
            /\ OfType(b, "get_count", i) = OfType(to, "get_count", i + 1) - 1
            /\ OfType(to, "get_count", i + 1) \in Nat
  BY OfTypeRest
<1> HIDE DEF a, b
<1>6. ASSUME NEW i \in 1 .. Len(a), a[i].type = "count"
      PROVE  held[taken + OfType(a, "count", i)] = a[i].ids[1]
  <2>1. i = Len(from) + 1 \/ (i \in 1 .. Len(from) /\ i \in 0 .. Len(from))
    BY <1>1
  <2>2. CASE i = Len(from) + 1
    <3>1. taken + OfType(a, "count", i) = taken + n + 1
      <4> HIDE DEF n
      <4> QED
        BY <1>2, <1>3, <2>2
    <3> QED
      BY <1>1, <1>4, <2>2, <3>1
  <2>3. CASE i \in 1 .. Len(from) /\ i \in 0 .. Len(from)
    BY <1>1, <1>2, <1>6, <2>3 DEF Way
  <2> QED
    BY <2>1, <2>2, <2>3
<1>7. taken + OfType(a, "count", Len(a)) = taken + n + 1
  <2> HIDE DEF n
  <2> QED
    BY <1>1, <1>2, <1>3
<1>8. ASSUME NEW i \in 1 .. Len(b), b[i].type = "get_count"
      PROVE  held[taken + n + 1 + OfType(b, "get_count", i)] = b[i].ids[1]
  <2>1. to[i + 1].type = "get_count" /\ i + 1 \in 1 .. Len(to) /\ b[i] = to[i + 1]
    BY <1>5, <1>8
  <2>2. held[taken + n + OfType(to, "get_count", i + 1)] = to[i + 1].ids[1]
    BY <2>1 DEF Way
  <2>3. taken + n + 1 + OfType(b, "get_count", i) = taken + n + OfType(to, "get_count", i + 1)
    <3> HIDE DEF n
    <3> QED
      BY <1>3, <1>5
  <2> QED
    BY <2>1, <2>2, <2>3
<1>9. Len(held) = taken + n + 1 + OfType(b, "get_count", Len(b))
  <2> HIDE DEF n, asked
  <2> QED
    BY <1>3, <1>5
<1>10. Way(held, taken, a, b)
  BY <1>6, <1>7, <1>8, <1>9 DEF Way
<1> QED
  BY <1>10 DEF a, b

-----------------------------------------------------------------------------
(* Branches *)

(* The branch of a count. *)
LEMMA PathFacts ==
    ASSUME NEW c \in Counts
    PROVE  /\ Path[c] \in Seq(Counts) /\ Len(Path[c]) \in Nat \ {0}
           /\ Path[c][1] = Genesis /\ Height(c) = Len(Path[c]) - 1 /\ Height(c) \in Nat
           /\ Genesis \in Branch(c)
<1>1. /\ Path[c] \in Seq(Counts) /\ Path[c] # <<>> /\ Path[c][1] = Genesis
  BY DownloadAssumption
<1>2. Len(Path[c]) \in Nat \ {0} /\ 1 \in 1 .. Len(Path[c])
  BY <1>1
<1>3. Genesis \in Branch(c)
  BY <1>1, <1>2, RangeFacts DEF Branch
<1> QED
  BY <1>1, <1>2, <1>3 DEF Height

(* A part of a branch is a list of counts. *)
LEMMA PartFacts ==
    ASSUME NEW c \in Counts, NEW m \in Nat \ {0}, NEW n \in Int, n <= Len(Path[c])
    PROVE  SubSeq(Path[c], m, n) \in Seq(Counts)
<1>1. Path[c] \in Seq(Counts) /\ Len(Path[c]) \in Nat
  BY PathFacts
<1>2. CASE m > n
  <2>1. SubSeq(Path[c], m, n) = <<>>
    BY <1>1, <1>2
  <2> QED
    BY <2>1
<1>3. CASE m <= n
  <2>1. n \in 1 .. Len(Path[c]) /\ m \in 1 .. n
    BY <1>1, <1>3
  <2>2. \A i \in m .. n : Path[c][i] \in Counts
    BY <1>1, <2>1
  <2> QED
    BY <1>1, <2>1, <2>2
<1> QED
  BY <1>1, <1>2, <1>3

(* Turning a list round. *)
LEMMA ReverseFacts ==
    ASSUME NEW s \in Seq(Counts)
    PROVE  Reverse(s) \in Seq(Counts)
<1>1. \A i \in 1 .. Len(s) : s[Len(s) - i + 1] \in Counts /\ Len(s) \in Nat
  <2> TAKE i \in 1 .. Len(s)
  <2>1. Len(s) - i + 1 \in 1 .. Len(s)
    OBVIOUS
  <2> QED
    BY <2>1
<1>2. [i \in 1 .. Len(s) |-> s[Len(s) - i + 1]] \in [1 .. Len(s) -> Counts]
  BY <1>1
<1>3. Len(s) \in Nat
  OBVIOUS
<1> DEFINE r == [i \in 1 .. Len(s) |-> s[Len(s) - i + 1]]
<1>4. r \in Seq(Counts)
  <2> HIDE DEF r
  <2>1. r \in [1 .. Len(s) -> Counts]
    BY <1>2 DEF r
  <2> QED
    BY <1>3, <2>1
<1> QED
  BY <1>4 DEF Reverse

(* A locator is a list of counts that ends with the genesis count.          *)
LEMMA LocatorFacts ==
    ASSUME NEW start \in Counts, tip \in Counts
    PROVE  /\ FindCommonAncestor(Locator(start)) \in Requests
           /\ FindCommonAncestor(Locator(start)).type = "find_common_ancestor"
           /\ Genesis \in Range(FindCommonAncestor(Locator(start)).ids)
<1> DEFINE below == IF Height(start) - 1 <= Height(tip)
                      THEN Reverse(SubSeq(Path[tip], 2, Height(start))) ELSE <<>>
<1>1. Genesis \in Counts
  BY DownloadAssumption
<1>2. below \in Seq(Counts)
  <2>1. Height(start) - 1 <= Height(tip) => SubSeq(Path[tip], 2, Height(start)) \in Seq(Counts)
    <3>1. /\ Height(tip) = Len(Path[tip]) - 1 /\ Len(Path[tip]) \in Nat
          /\ Height(start) \in Int /\ 2 \in Nat \ {0}
      BY PathFacts
    <3>2. Height(start) - 1 <= Height(tip) => Height(start) <= Len(Path[tip])
      BY <3>1
    <3> QED
      BY <3>1, <3>2, PartFacts
  <2>2. CASE Height(start) - 1 <= Height(tip)
    BY <2>1, <2>2, ReverseFacts
  <2>3. CASE ~ (Height(start) - 1 <= Height(tip))
    <3>1. below = <<>>
      BY <2>3
    <3> HIDE DEF below
    <3> QED
      BY <3>1
  <2> QED
    BY <2>2, <2>3
<1> HIDE DEF below
<1>3. Locator(start) = IF start = Genesis THEN <<Genesis>>
                                          ELSE <<start>> \o below \o <<Genesis>>
  BY DEF Locator, below
<1>4. /\ Locator(start) \in Seq(Counts)
      /\ Len(Locator(start)) \in Nat \ {0}
      /\ Locator(start)[Len(Locator(start))] = Genesis
  <2>1. CASE start = Genesis
    <3>1. Locator(start) = <<Genesis>>
      BY <1>3, <2>1
    <3> QED
      BY <1>1, <3>1
  <2>2. CASE start # Genesis
    <3> DEFINE s == <<start>> \o below
    <3>1. s \in Seq(Counts)
      BY <1>2
    <3>2. Locator(start) = Append(s, Genesis)
      <4>1. s \o <<Genesis>> = Append(s, Genesis)
        <5> HIDE DEF s
        <5> QED
          BY <1>1, <3>1
      <4> QED
        BY <1>3, <2>2, <4>1
    <3> HIDE DEF s
    <3> QED
      BY <1>1, <3>1, <3>2
  <2> QED
    BY <2>1, <2>2
<1>5. Genesis \in Range(Locator(start))
  <2>1. Len(Locator(start)) \in 1 .. Len(Locator(start))
    BY <1>4
  <2> QED
    BY <1>4, <2>1, RangeFacts
<1>6. Locator(start) \in Seq(Counts) \ {<<>>}
  BY <1>4
<1> QED
  BY <1>4, <1>5, <1>6 DEF FindCommonAncestor, Requests

(* Two nonnegative numbers have a smaller one. *)
LEMMA MinOfTwo ==
    ASSUME NEW m \in Nat, NEW n \in Nat
    PROVE  Min({m, n}) \in {m, n} /\ Min({m, n}) <= m /\ Min({m, n}) <= n
<1>1. \E x \in {m, n} : \A y \in {m, n} : x <= y
  <2>1. m <= n \/ n <= m
    OBVIOUS
  <2> QED
    BY <2>1
<1>2. Min({m, n}) \in {m, n} /\ \A y \in {m, n} : Min({m, n}) <= y
  BY <1>1 DEF Min
<1> QED
  BY <1>2

(* A nonempty set of places has a first one. *)
LEMMA FirstPlace ==
    ASSUME NEW n \in Nat, NEW T \in SUBSET (1 .. n), T # {}
    PROVE  \E i \in T : \A j \in T : i <= j
<1>1. T \in SUBSET Nat
  OBVIOUS
<1>2. PICK i \in T : \A j \in T : ~ (<<j, i>> \in OpToRel(<, Nat))
  BY <1>1, NatLessThanWellFounded, WFMin
<1>3. \A j \in T : ~ (j < i)
  BY <1>1, <1>2 DEF OpToRel
<1> QED
  BY <1>1, <1>3

(* The answer to a locator is a list of counts of the peer's branch.        *)
LEMMA AfterFacts ==
    ASSUME NEW p \in Peers, remoteTip[p] \in 1 .. Len(Tips[p]),
           NEW ids \in Seq(Counts), Genesis \in Range(ids)
    PROVE  After(p, ids) \in Seq(Counts)
<1> DEFINE t == TipOf(p)
           First(i) == /\ ids[i] \in Branch(t)
                       /\ \A j \in 1 .. i - 1 : ids[j] \notin Branch(t)
           common == CHOOSE i \in DOMAIN ids : First(i)
           start == Height(ids[common]) + 2
           end == Min({Len(Path[t]), start + maxCountsPerInv - 1})
<1>1. t \in Counts
  <2>1. Tips[p] \in Seq(Counts)
    BY DownloadAssumption
  <2> QED
    BY <2>1 DEF TipOf
<1> HIDE DEF t
<1>2. Len(ids) \in Nat /\ DOMAIN ids = 1 .. Len(ids)
  OBVIOUS
<1>3. \E i \in DOMAIN ids : First(i)
  <2> DEFINE T == {i \in 1 .. Len(ids) : ids[i] \in Branch(t)}
  <2>1. PICK g \in 1 .. Len(ids) : ids[g] = Genesis
    BY RangeFacts
  <2>2. Genesis \in Branch(t)
    BY <1>1, PathFacts
  <2>3. T # {} /\ T \in SUBSET (1 .. Len(ids))
    BY <2>1, <2>2
  <2>4. PICK i \in T : \A j \in T : i <= j
    <3> HIDE DEF T
    <3> QED
      BY <1>2, <2>3, FirstPlace
  <2>5. i \in 1 .. Len(ids) /\ ids[i] \in Branch(t)
    BY <2>4
  <2>6. \A j \in 1 .. i - 1 : ids[j] \notin Branch(t)
    <3> TAKE j \in 1 .. i - 1
    <3>1. j \in 1 .. Len(ids) /\ ~ (i <= j)
      BY <1>2, <2>5
    <3> QED
      BY <2>4, <3>1
  <2> QED
    BY <1>2, <2>5, <2>6
<1>4. common \in DOMAIN ids
  BY <1>3
<1> HIDE DEF common
<1>5. ids[common] \in Counts
  BY <1>4
<1>6. start \in Nat \ {0} /\ start + maxCountsPerInv - 1 \in Nat /\ Len(Path[t]) \in Nat
  <2>1. Height(ids[common]) \in Nat
    BY <1>5, PathFacts
  <2>2. maxCountsPerInv \in Nat \ {0}
    BY DownloadAssumption
  <2>3. Len(Path[t]) \in Nat
    BY <1>1, PathFacts
  <2> QED
    BY <2>1, <2>2, <2>3
<1> HIDE DEF start
<1>7. end \in Int /\ end <= Len(Path[t])
  <2>1. /\ end \in {Len(Path[t]), start + maxCountsPerInv - 1}
        /\ end <= Len(Path[t])
    BY <1>6, MinOfTwo
  <2> HIDE DEF end
  <2> QED
    BY <1>6, <2>1
<1> HIDE DEF end
<1>8. SubSeq(Path[t], start, end) \in Seq(Counts)
  BY <1>1, <1>6, <1>7, PartFacts
<1>9. After(p, ids) = SubSeq(Path[t], start, end)
  BY DEF After, end, start, common, t
<1> QED
  BY <1>8, <1>9

-----------------------------------------------------------------------------
(* The shared queue *)

(* A list without repetitions, without its first member.                    *)
LEMMA TailRange ==
    ASSUME NEW S, NEW s \in Seq(S), s # <<>>,
           \A i, j \in 1 .. Len(s) : s[i] = s[j] => i = j
    PROVE  \A e : e \in Range(Tail(s)) <=> e \in Range(s) /\ e # Head(s)
<1>1. /\ Len(s) \in Nat \ {0} /\ Head(s) = s[1]
      /\ Tail(s) \in Seq(S) /\ Len(Tail(s)) = Len(s) - 1
      /\ \A i \in 1 .. Len(s) - 1 : Tail(s)[i] = s[i + 1]
  BY TailFacts
<1>2. /\ \A e : e \in Range(s) <=> \E i \in 1 .. Len(s) : s[i] = e
      /\ \A e : e \in Range(Tail(s)) <=> \E i \in 1 .. Len(s) - 1 : Tail(s)[i] = e
  <2>1. \A e : e \in Range(Tail(s)) <=> \E i \in 1 .. Len(Tail(s)) : Tail(s)[i] = e
    <3> DEFINE u == Tail(s)
    <3>1. u \in Seq(S)
      BY <1>1
    <3> HIDE DEF u
    <3>2. \A e : e \in Range(u) <=> \E i \in 1 .. Len(u) : u[i] = e
      BY <3>1, RangeFacts
    <3> QED
      BY <3>2 DEF u
  <2>2. \A e : e \in Range(s) <=> \E i \in 1 .. Len(s) : s[i] = e
    BY RangeFacts
  <2> QED
    BY <1>1, <2>1, <2>2
<1> TAKE e
<1>3. ASSUME e \in Range(Tail(s)) PROVE e \in Range(s) /\ e # Head(s)
  <2>1. PICK i \in 1 .. Len(s) - 1 : Tail(s)[i] = e
    BY <1>2, <1>3
  <2>2. i + 1 \in 1 .. Len(s) /\ i + 1 # 1 /\ 1 \in 1 .. Len(s) /\ s[i + 1] = e
    BY <1>1, <2>1
  <2> QED
    BY <1>1, <1>2, <2>2
<1>4. ASSUME e \in Range(s), e # Head(s) PROVE e \in Range(Tail(s))
  <2>1. PICK i \in 1 .. Len(s) : s[i] = e
    BY <1>2, <1>4
  <2>2. i - 1 \in 1 .. Len(s) - 1 /\ (i - 1) + 1 = i
    BY <1>1, <1>4, <2>1
  <2>3. Tail(s)[i - 1] = e
    BY <1>1, <2>1, <2>2
  <2> QED
    BY <1>2, <2>2, <2>3
<1> QED
  BY <1>3, <1>4

(* Without the entries of some counts that belong to one peer.              *)
LEMMA RemovedFacts ==
    ASSUME NEW cs, NEW p
    PROVE  /\ DOMAIN Removed(cs, p)
                = {c \in InFlight : c \in cs => globalInflightQueue[c].who # p}
           /\ \A c \in DOMAIN Removed(cs, p) : Removed(cs, p)[c] = globalInflightQueue[c]
BY DEF Removed

(* What a connection gives up, it no longer owns: it may give up the first  *)
(* count it holds, or all.                                                  *)
LEMMA FlightRemoved ==
    ASSUME FlightOK, localInflightQueue \in [Peers -> Seq(Counts)],
           NEW p \in Peers, NEW cs, NEW held \in Seq(Counts),
           \A c : c \in Range(held) <=> c \in Range(localInflightQueue[p]) /\ c \notin cs,
           localInflightQueue' = [localInflightQueue EXCEPT ![p] = held],
           globalInflightQueue' = Removed(cs, p),
           everExpired' = everExpired
    PROVE  FlightOK'
<1> DEFINE G == globalInflightQueue
           H == Removed(cs, p)
<1>1. /\ DOMAIN H = {c \in InFlight : c \in cs => G[c].who # p}
      /\ \A c \in DOMAIN H : H[c] = G[c]
  BY RemovedFacts
<1>2. /\ localInflightQueue'[p] = held
      /\ \A q \in Peers : q # p => localInflightQueue'[q] = localInflightQueue[q]
  OBVIOUS
<1>3. InFlight' = DOMAIN H /\ \A c : c \in DOMAIN H => c \in InFlight
  BY <1>1 DEF InFlight
<1>4. \A c \in InFlight : G[c] \in [who : Peers, expired : BOOLEAN] /\ c \in Counts
  BY DEF FlightOK
<1>5. H \in [DOMAIN H -> [who : Peers, expired : BOOLEAN]]
  <2>1. H = [c \in DOMAIN H |-> G[c]]
    BY DEF Removed
  <2> HIDE DEF H
  <2> QED
    BY <1>1, <1>3, <1>4, <2>1
<1> HIDE DEF H
<1>6. ASSUME NEW c \in InFlight'
      PROVE  c \in Range(localInflightQueue'[globalInflightQueue'[c].who])
  <2>1. /\ c \in InFlight /\ globalInflightQueue'[c] = G[c]
        /\ c \in cs => G[c].who # p
    BY <1>1, <1>3 DEF H
  <2>2. c \in Range(localInflightQueue[G[c].who]) /\ G[c].who \in Peers
    BY <1>4, <2>1 DEF FlightOK, OwnerIsWaiting
  <2> QED
    BY <1>2, <2>1, <2>2
<1>7. ASSUME NEW q \in Peers, NEW c \in Range(localInflightQueue'[q])
      PROVE  c \in everExpired \/ (c \in InFlight' /\ globalInflightQueue'[c].who = q)
  <2>1. c \in Range(localInflightQueue[q]) /\ (q = p => c \notin cs)
    BY <1>2, <1>7
  <2>2. c \in everExpired \/ (c \in InFlight /\ G[c].who = q)
    BY <2>1 DEF FlightOK, HeldOrExpired
  <2>3. ASSUME c \in InFlight, G[c].who = q PROVE c \in DOMAIN H /\ H[c] = G[c]
    BY <1>1, <2>1, <2>3
  <2> QED
    BY <1>3, <2>2, <2>3 DEF H
<1>8. \A c \in InFlight' : globalInflightQueue'[c].expired => c \in everExpired'
  BY <1>1, <1>3 DEF FlightOK, H
<1>9. globalInflightQueue' = H
  BY DEF H
<1>10. InFlight' \subseteq Counts
  BY <1>3, <1>4
<1> QED
  BY <1>3, <1>5, <1>6, <1>7, <1>8, <1>9, <1>10 DEF FlightOK, OwnerIsWaiting, HeldOrExpired

(* A count that nobody owns, or whose owner has waited too long, gets a new *)
(* owner, who holds it from now on.                                         *)
LEMMA FlightAdded ==
    ASSUME FlightOK, localInflightQueue \in [Peers -> Seq(Counts)],
           NEW p \in Peers, NEW c \in Counts, CanAdd(c),
           localInflightQueue'
             = [localInflightQueue EXCEPT ![p] = Append(localInflightQueue[p], c)],
           globalInflightQueue' = Added(c, p),
           everExpired' = everExpired
    PROVE  FlightOK'
<1> DEFINE G == globalInflightQueue
           H == Added(c, p)
           held == Append(localInflightQueue[p], c)
<1>1. /\ DOMAIN H = InFlight \cup {c} /\ H[c] = [who |-> p, expired |-> FALSE]
      /\ \A d \in InFlight : d # c => H[d] = G[d]
  BY DEF Added
<1>2. /\ localInflightQueue'[p] = held
      /\ \A q \in Peers : q # p => localInflightQueue'[q] = localInflightQueue[q]
  OBVIOUS
<1>3. \A e : e \in Range(held) <=> e \in Range(localInflightQueue[p]) \/ e = c
  <2> DEFINE s == localInflightQueue[p]
  <2>1. s \in Seq(Counts)
    OBVIOUS
  <2> HIDE DEF s
  <2>2. /\ Append(s, c) \in Seq(Counts) /\ Len(Append(s, c)) = Len(s) + 1 /\ Len(s) \in Nat
        /\ Append(s, c)[Len(s) + 1] = c
        /\ \A i \in 1 .. Len(s) : Append(s, c)[i] = s[i]
    BY <2>1, AppendFacts
  <2>3. /\ \A e : e \in Range(s) <=> \E i \in 1 .. Len(s) : s[i] = e
        /\ \A e : e \in Range(Append(s, c)) <=> \E i \in 1 .. Len(s) + 1 : Append(s, c)[i] = e
    <3>1. \A e : e \in Range(Append(s, c))
                   <=> \E i \in 1 .. Len(Append(s, c)) : Append(s, c)[i] = e
      BY <2>2, RangeFacts
    <3>2. \A e : e \in Range(s) <=> \E i \in 1 .. Len(s) : s[i] = e
      BY <2>1, RangeFacts
    <3> QED
      BY <2>2, <3>1, <3>2
  <2>4. 1 .. Len(s) + 1 = 1 .. Len(s) \cup {Len(s) + 1}
    BY <2>2
  <2>5. \A e : e \in Range(Append(s, c)) <=> e \in Range(s) \/ e = c
    BY <2>2, <2>3, <2>4
  <2> QED
    BY <2>5 DEF s
<1>4. InFlight' = InFlight \cup {c}
  BY <1>1 DEF InFlight
<1>5. \A d \in InFlight : G[d] \in [who : Peers, expired : BOOLEAN] /\ d \in Counts
  BY DEF FlightOK
<1>6. H \in [InFlight \cup {c} -> [who : Peers, expired : BOOLEAN]]
  <2>1. H = [d \in InFlight \cup {c} |-> IF d = c THEN [who |-> p, expired |-> FALSE] ELSE G[d]]
    BY DEF Added
  <2> HIDE DEF H
  <2> QED
    BY <1>5, <2>1
<1> HIDE DEF H, held
<1>7. ASSUME NEW d \in InFlight'
      PROVE  d \in Range(localInflightQueue'[globalInflightQueue'[d].who])
  <2>1. CASE d = c
    <3>1. globalInflightQueue'[d] = [who |-> p, expired |-> FALSE]
      BY <1>1, <2>1 DEF H
    <3>2. d \in Range(held) /\ localInflightQueue'[p] = held
      BY <1>2, <1>3, <2>1
    <3>3. globalInflightQueue'[d].who = p
      BY <3>1
    <3> QED
      BY <3>2, <3>3
  <2>2. CASE d # c
    <3>1. d \in InFlight /\ globalInflightQueue'[d] = G[d]
      BY <1>1, <1>4, <2>2 DEF H
    <3>2. d \in Range(localInflightQueue[G[d].who]) /\ G[d].who \in Peers
      BY <1>5, <3>1 DEF FlightOK, OwnerIsWaiting
    <3> QED
      BY <1>2, <1>3, <3>1, <3>2
  <2> QED
    BY <2>1, <2>2
<1>8. ASSUME NEW q \in Peers, NEW d \in Range(localInflightQueue'[q])
      PROVE  d \in everExpired \/ (d \in InFlight' /\ globalInflightQueue'[d].who = q)
  <2>1. CASE d = c /\ q = p
    BY <1>1, <1>4, <2>1 DEF H
  <2>2. CASE ~ (d = c /\ q = p)
    <3>1. d \in Range(localInflightQueue[q])
      BY <1>2, <1>3, <1>8, <2>2
    <3>2. d \in everExpired \/ (d \in InFlight /\ G[d].who = q)
      BY <3>1 DEF FlightOK, HeldOrExpired
    <3>3. ASSUME d = c, d \in InFlight PROVE d \in everExpired
      BY <3>3 DEF FlightOK, CanAdd
    <3>4. ASSUME d # c, d \in InFlight PROVE globalInflightQueue'[d] = G[d]
      BY <1>1, <3>4 DEF H
    <3> QED
      BY <1>4, <3>2, <3>3, <3>4
  <2> QED
    BY <2>1, <2>2
<1>9. \A d \in InFlight' : globalInflightQueue'[d].expired => d \in everExpired'
  <2> SUFFICES ASSUME NEW d \in InFlight', globalInflightQueue'[d].expired
               PROVE  d \in everExpired
    OBVIOUS
  <2>1. d # c
    BY <1>1 DEF H
  <2>2. d \in InFlight /\ globalInflightQueue'[d] = G[d]
    BY <1>1, <1>4, <2>1 DEF H
  <2> QED
    BY <2>2 DEF FlightOK
<1>10. globalInflightQueue' \in [InFlight' -> [who : Peers, expired : BOOLEAN]]
  BY <1>4, <1>6 DEF H
<1>11. InFlight' \subseteq Counts
  BY <1>4, <1>5
<1> QED
  BY <1>7, <1>8, <1>9, <1>10, <1>11 DEF FlightOK, OwnerIsWaiting, HeldOrExpired

-----------------------------------------------------------------------------
(* The queues of one connection *)

(* Nothing is lost when the loop goes elsewhere. *)
LEMMA LoopGoes ==
    ASSUME NEW down, NEW held, NEW r, LoopOK(down, held, r),
           NEW s \in Readers, s.at \notin {"add", "process"}
    PROVE  LoopOK(down, held, s)
BY DEF LoopOK

(* The first of the download queue is about to be requested.                *)
LEMMA LoopAdds ==
    ASSUME NEW down, NEW held, NEW r, LoopOK(down, held, r),
           down # <<>>, Len(held) < inflightQueueMax
    PROVE  /\ LoopOK(down, held, [at |-> "add", id |-> Head(down)])
           /\ [at |-> "add", id |-> Head(down)] \in Readers
<1>1. Head(down) = down[1] /\ down[1] \in Counts
  BY TailFacts DEF LoopOK
<1>2. [at |-> "add", id |-> Head(down)] \in Readers
  BY <1>1 DEF Readers
<1> QED
  BY <1>1, <1>2 DEF LoopOK

(* The first in flight is about to be processed. *)
LEMMA LoopProcesses ==
    ASSUME NEW down, NEW held, NEW r, LoopOK(down, held, r), held # <<>>
    PROVE  /\ LoopOK(down, held, [at |-> "process", id |-> held[1]])
           /\ [at |-> "process", id |-> held[1]] \in Readers
<1>1. held[1] \in Counts
  BY TailFacts DEF LoopOK
<1>2. [at |-> "process", id |-> held[1]] \in Readers
  BY <1>1 DEF Readers
<1> QED
  BY <1>1, <1>2 DEF LoopOK

(* A count that is in neither queue is put into the download queue.         *)
LEMMA LoopQueues ==
    ASSUME NEW down, NEW held, NEW r, LoopOK(down, held, r),
           NEW c \in Counts, c \notin Range(down), c \notin Range(held),
           Len(down) < downloadQueueMax,
           NEW s \in Readers, s.at \notin {"add", "process"}
    PROVE  LoopOK(Append(down, c), held, s)
<1> DEFINE d == Append(down, c)
<1>1. /\ down \in Seq(Counts) /\ held \in Seq(Counts) /\ Apart(down, held)
      /\ Len(held) <= inflightQueueMax
  BY DEF LoopOK
<1>2. /\ d \in Seq(Counts) /\ Len(d) = Len(down) + 1 /\ d[Len(down) + 1] = c
      /\ \A i \in 1 .. Len(down) : d[i] = down[i]
      /\ Len(down) \in Nat
  BY <1>1, AppendFacts
<1>3. /\ \A i \in 1 .. Len(down) : down[i] # c
      /\ \A i \in 1 .. Len(held) : held[i] # c
  BY <1>1, RangeFacts
<1> HIDE DEF d
<1>4. Len(d) <= downloadQueueMax
  BY <1>2, DownloadAssumption
<1>5. \A i \in 1 .. Len(d) : i \in 1 .. Len(down) \/ i = Len(down) + 1
  BY <1>2
<1>6. Apart(d, held)
  BY <1>1, <1>2, <1>3, <1>5 DEF Apart
<1> QED
  BY <1>1, <1>2, <1>4, <1>6 DEF LoopOK, d

(* The first of the download queue is dropped ... *)
LEMMA LoopSkips ==
    ASSUME NEW down, NEW held, NEW r, LoopOK(down, held, r), down # <<>>,
           NEW s \in Readers, s.at \notin {"add", "process"}
    PROVE  /\ LoopOK(Tail(down), held, s)
           /\ \A i \in 1 .. Len(Tail(down)) : Tail(down)[i] # Head(down)
           /\ \A i \in 1 .. Len(held) : held[i] # Head(down)
<1> DEFINE d == Tail(down)
<1>1. /\ down \in Seq(Counts) /\ held \in Seq(Counts) /\ Apart(down, held)
      /\ Len(held) <= inflightQueueMax /\ Len(down) <= downloadQueueMax
  BY DEF LoopOK
<1>2. /\ d \in Seq(Counts) /\ Len(d) = Len(down) - 1 /\ Len(down) \in Nat \ {0}
      /\ \A i \in 1 .. Len(down) - 1 : d[i] = down[i + 1]
      /\ Head(down) = down[1]
  BY <1>1, TailFacts
<1> HIDE DEF d
<1>3. Len(d) <= downloadQueueMax
  BY <1>1, <1>2, DownloadAssumption
<1>4. /\ \A i \in 1 .. Len(d) : /\ i + 1 \in 1 .. Len(down) /\ i + 1 # 1
                                /\ d[i] = down[i + 1]
      /\ \A i, j \in 1 .. Len(d) : i + 1 = j + 1 => i = j
      /\ 1 \in 1 .. Len(down)
  BY <1>2
<1>5. Apart(d, held)
  <2>1. ASSUME NEW i \in 1 .. Len(d), NEW j \in 1 .. Len(d), d[i] = d[j] PROVE i = j
    <3>1. down[i + 1] = down[j + 1] /\ i + 1 \in 1 .. Len(down) /\ j + 1 \in 1 .. Len(down)
      BY <1>4, <2>1
    <3>2. i + 1 = j + 1
      BY <1>1, <3>1 DEF Apart
    <3> QED
      BY <1>4, <3>2
  <2>2. \A i \in 1 .. Len(d), j \in 1 .. Len(held) : d[i] # held[j]
    BY <1>1, <1>4 DEF Apart
  <2> QED
    BY <1>1, <2>1, <2>2 DEF Apart
<1>6. \A i \in 1 .. Len(d) : d[i] # Head(down)
  BY <1>1, <1>2, <1>4 DEF Apart
<1>7. \A i \in 1 .. Len(held) : held[i] # Head(down)
  BY <1>1, <1>2, <1>4 DEF Apart
<1> QED
  BY <1>1, <1>2, <1>3, <1>5, <1>6, <1>7 DEF LoopOK, d

(* ... or put in flight. *)
LEMMA LoopRequests ==
    ASSUME NEW down, NEW held, NEW r, LoopOK(down, held, r),
           down # <<>>, Len(held) < inflightQueueMax,
           NEW s \in Readers, s.at \notin {"add", "process"}
    PROVE  LoopOK(Tail(down), Append(held, Head(down)), s)
<1> DEFINE d == Tail(down)
           c == Head(down)
           h == Append(held, c)
<1>1. /\ LoopOK(d, held, s)
      /\ \A i \in 1 .. Len(d) : d[i] # c
      /\ \A i \in 1 .. Len(held) : held[i] # c
  BY LoopSkips
<1>2. held \in Seq(Counts) /\ c \in Counts /\ Apart(d, held) /\ d \in Seq(Counts)
      /\ Len(d) <= downloadQueueMax
  BY <1>1, TailFacts DEF LoopOK
<1> HIDE DEF c, d
<1>3. /\ h \in Seq(Counts) /\ Len(h) = Len(held) + 1 /\ h[Len(held) + 1] = c
      /\ \A i \in 1 .. Len(held) : h[i] = held[i]
      /\ Len(held) \in Nat
  BY <1>2, AppendFacts
<1> HIDE DEF h
<1>4. Len(h) <= inflightQueueMax
  BY <1>3, DownloadAssumption
<1>5. \A i \in 1 .. Len(h) : i \in 1 .. Len(held) \/ i = Len(held) + 1
  BY <1>3
<1>6. Apart(d, h)
  <2>1. \A i, j \in 1 .. Len(h) : h[i] = h[j] => i = j
    BY <1>1, <1>2, <1>3, <1>5 DEF Apart
  <2>2. \A i \in 1 .. Len(d), j \in 1 .. Len(h) : d[i] # h[j]
    BY <1>1, <1>2, <1>3, <1>5 DEF Apart
  <2> QED
    BY <1>2, <2>1, <2>2 DEF Apart
<1> QED
  BY <1>2, <1>3, <1>4, <1>6 DEF LoopOK, d, c, h

(* The first in flight is done. *)
LEMMA LoopForgets ==
    ASSUME NEW down, NEW held, NEW r, LoopOK(down, held, r), held # <<>>,
           NEW s \in Readers, s.at \notin {"add", "process"}
    PROVE  LoopOK(down, Tail(held), s)
<1> DEFINE h == Tail(held)
<1>1. /\ down \in Seq(Counts) /\ held \in Seq(Counts) /\ Apart(down, held)
      /\ Len(held) <= inflightQueueMax /\ Len(down) <= downloadQueueMax
  BY DEF LoopOK
<1>2. /\ h \in Seq(Counts) /\ Len(h) = Len(held) - 1 /\ Len(held) \in Nat \ {0}
      /\ \A i \in 1 .. Len(held) - 1 : h[i] = held[i + 1]
  BY <1>1, TailFacts
<1> HIDE DEF h
<1>3. Len(h) <= inflightQueueMax
  BY <1>1, <1>2, DownloadAssumption
<1>4. /\ \A i \in 1 .. Len(h) : i + 1 \in 1 .. Len(held) /\ h[i] = held[i + 1]
      /\ \A i, j \in 1 .. Len(h) : i + 1 = j + 1 => i = j
  BY <1>2
<1>5. Apart(down, h)
  BY <1>1, <1>4 DEF Apart
<1> QED
  BY <1>1, <1>2, <1>3, <1>5 DEF LoopOK, h

(* A connection that ends holds nothing. *)
LEMMA LoopCloses ==
    ASSUME NEW s \in Readers, s.at \notin {"add", "process"}
    PROVE  LoopOK(<<>>, <<>>, s) /\ WireOK(<<>>, s, <<>>, <<>>)
<1>1. <<>> \in Seq(Counts) /\ <<>> \in Seq(Answers) /\ <<>> \in Seq(Requests)
      /\ Len(<<>>) = 0 /\ 1 .. Len(<<>>) = {}
  OBVIOUS
<1>2. LoopOK(<<>>, <<>>, s)
  BY <1>1, DownloadAssumption DEF LoopOK, Apart
<1>3. WireOK(<<>>, s, <<>>, <<>>)
  BY <1>1, WayEmpty DEF WireOK
<1> QED
  BY <1>2, <1>3

-----------------------------------------------------------------------------
(* The invariant of a step *)

(* A step leaves the other connections alone. *)
LEMMA Assembled ==
    ASSUME DownloadIInv, NEW p \in Peers, DomainsOK', NodeOK', FlightOK',
           LoopOK(localDownloadQueue'[p], localInflightQueue'[p], reader'[p]),
           WireOK(localInflightQueue'[p], reader'[p], fromPeer'[p], toPeer'[p]),
           remoteTip'[p] \in 1 .. Len(Tips[p]),
           \A q \in Peers \ {p} :
              /\ localDownloadQueue'[q] = localDownloadQueue[q]
              /\ localInflightQueue'[q] = localInflightQueue[q]
              /\ reader'[q] = reader[q]
              /\ fromPeer'[q] = fromPeer[q] /\ toPeer'[q] = toPeer[q]
              /\ remoteTip'[q] = remoteTip[q]
    PROVE  DownloadIInv'
<1>1. ASSUME NEW q \in Peers
      PROVE  /\ LoopOK(localDownloadQueue'[q], localInflightQueue'[q], reader'[q])
             /\ WireOK(localInflightQueue'[q], reader'[q], fromPeer'[q], toPeer'[q])
             /\ remoteTip'[q] \in 1 .. Len(Tips[q])
  BY DEF DownloadIInv, PeerOK
<1>2. ASSUME NEW q \in Peers PROVE PeerOK(q)'
  BY <1>1 DEF PeerOK
<1> QED
  BY <1>2 DEF DownloadIInv

(* The shared queue is as it was. *)
LEMMA FlightSame ==
    ASSUME FlightOK, UNCHANGED <<localInflightQueue, globalInflightQueue, everExpired>>
    PROVE  FlightOK'
BY DEF FlightOK, InFlight, OwnerIsWaiting, HeldOrExpired

-----------------------------------------------------------------------------
(* The messages of one connection *)

(* How many counts a loop has taken from the answers: one or none.          *)
Taken(r) == IF r.at = "process" THEN 1 ELSE 0

(* A connection as the invariant has it. *)
LEMMA WireParts ==
    ASSUME NEW held, NEW r, NEW from, NEW to, WireOK(held, r, from, to)
    PROVE  /\ from \in Seq(Answers) /\ to \in Seq(Requests)
           /\ Taken(r) \in {0, 1} /\ Way(held, Taken(r), from, to)
           /\ \A i \in 1 .. Len(to) :
                 to[i].type = "find_common_ancestor" => Genesis \in Range(to[i].ids)
BY DEF WireOK, Taken

(* What the loop does otherwise is of no matter to it. *)
LEMMA WireGoes ==
    ASSUME NEW held, NEW r, NEW from, NEW to, WireOK(held, r, from, to),
           NEW s, (s.at = "process") <=> (r.at = "process")
    PROVE  WireOK(held, s, from, to)
BY DEF WireOK

(* A request or a locator is sent. *)
LEMMA WireSends ==
    ASSUME NEW held \in Seq(Counts), NEW r, NEW from, NEW to, WireOK(held, r, from, to),
           NEW start \in Counts, tip \in Counts
    PROVE  /\ WireOK(held, r, from, Append(to, FindCommonAncestor(Locator(start))))
           /\ Append(to, FindCommonAncestor(Locator(start))) \in Seq(Requests)
<1> DEFINE m == FindCommonAncestor(Locator(start))
           a == Append(to, m)
<1>1. /\ from \in Seq(Answers) /\ to \in Seq(Requests)
      /\ Taken(r) \in {0, 1} /\ Way(held, Taken(r), from, to)
      /\ \A i \in 1 .. Len(to) :
            to[i].type = "find_common_ancestor" => Genesis \in Range(to[i].ids)
  BY WireParts
<1>2. m \in Requests /\ m.type = "find_common_ancestor" /\ Genesis \in Range(m.ids)
  BY LocatorFacts
<1> HIDE DEF m
<1>3. /\ a \in Seq(Requests) /\ Len(a) = Len(to) + 1 /\ Len(to) \in Nat
      /\ a[Len(to) + 1] = m /\ \A i \in 1 .. Len(to) : a[i] = to[i]
  BY <1>1, <1>2, AppendFacts
<1>4. Way(held, Taken(r), from, a)
  BY <1>1, <1>2, WaySend
<1> HIDE DEF a
<1>5. \A i \in 1 .. Len(a) : i \in 1 .. Len(to) \/ i = Len(to) + 1
  BY <1>3
<1>6. \A i \in 1 .. Len(a) : a[i].type = "find_common_ancestor" => Genesis \in Range(a[i].ids)
  BY <1>1, <1>2, <1>3, <1>5
<1> QED
  BY <1>1, <1>3, <1>4, <1>6 DEF WireOK, Taken, a, m

(* A count is requested. *)
LEMMA WireRequests ==
    ASSUME NEW held \in Seq(Counts), NEW r, NEW from, NEW to, WireOK(held, r, from, to),
           NEW c \in Counts, NEW s, (s.at = "process") <=> (r.at = "process")
    PROVE  /\ WireOK(Append(held, c), s, from, Append(to, GetCount(c)))
           /\ Append(to, GetCount(c)) \in Seq(Requests)
<1> DEFINE m == GetCount(c)
           a == Append(to, m)
<1>1. /\ from \in Seq(Answers) /\ to \in Seq(Requests)
      /\ Taken(r) \in {0, 1} /\ Way(held, Taken(r), from, to)
      /\ \A i \in 1 .. Len(to) :
            to[i].type = "find_common_ancestor" => Genesis \in Range(to[i].ids)
  BY WireParts
<1>2. m \in Requests /\ m.type = "get_count" /\ m.ids[1] = c
  <2>1. <<c>> \in Seq(Counts) \ {<<>>} /\ <<c>>[1] = c
    OBVIOUS
  <2> QED
    BY <2>1 DEF GetCount, Requests
<1> HIDE DEF m
<1>3. /\ a \in Seq(Requests) /\ Len(a) = Len(to) + 1 /\ Len(to) \in Nat
      /\ a[Len(to) + 1] = m /\ \A i \in 1 .. Len(to) : a[i] = to[i]
  BY <1>1, <1>2, AppendFacts
<1>4. Way(Append(held, c), Taken(r), from, a)
  BY <1>1, <1>2, WayRequest
<1> HIDE DEF a
<1>5. \A i \in 1 .. Len(a) : i \in 1 .. Len(to) \/ i = Len(to) + 1
  BY <1>3
<1>6. \A i \in 1 .. Len(a) : a[i].type = "find_common_ancestor" => Genesis \in Range(a[i].ids)
  BY <1>1, <1>2, <1>3, <1>5
<1>7. Taken(s) = Taken(r)
  BY DEF Taken
<1> QED
  BY <1>1, <1>3, <1>4, <1>6, <1>7 DEF WireOK, Taken, a, m

(* The peer sends a list. *)
LEMMA WireTells ==
    ASSUME NEW held \in Seq(Counts), NEW r, NEW from, NEW to, WireOK(held, r, from, to),
           NEW ids \in Seq(Counts), ids # <<>>
    PROVE  /\ WireOK(held, r, Append(from, Inv(ids)), to)
           /\ Append(from, Inv(ids)) \in Seq(Answers)
<1>1. /\ from \in Seq(Answers) /\ to \in Seq(Requests)
      /\ Taken(r) \in {0, 1} /\ Way(held, Taken(r), from, to)
      /\ \A i \in 1 .. Len(to) :
            to[i].type = "find_common_ancestor" => Genesis \in Range(to[i].ids)
  BY WireParts
<1>2. Inv(ids) \in Answers /\ Inv(ids).type # "count"
  BY DEF Inv, Answers
<1>3. Way(held, Taken(r), Append(from, Inv(ids)), to)
  BY <1>1, <1>2, WayTell
<1>4. Append(from, Inv(ids)) \in Seq(Answers)
  BY <1>1, <1>2, AppendFacts
<1> QED
  BY <1>1, <1>3, <1>4 DEF WireOK, Taken

(* One ID of a list is done. *)
LEMMA WireNext ==
    ASSUME NEW held \in Seq(Counts), NEW r, NEW from, NEW to, WireOK(held, r, from, to),
           from # <<>>, Head(from).type = "inv_count",
           NEW next, next = IF Len(Head(from).ids) = 1 THEN Tail(from)
                            ELSE <<[Head(from) EXCEPT !.ids = Tail(@)]>> \o Tail(from)
    PROVE  WireOK(held, r, next, to) /\ next \in Seq(Answers)
<1>1. /\ from \in Seq(Answers) /\ to \in Seq(Requests)
      /\ Taken(r) \in {0, 1} /\ Way(held, Taken(r), from, to)
      /\ \A i \in 1 .. Len(to) :
            to[i].type = "find_common_ancestor" => Genesis \in Range(to[i].ids)
  BY WireParts
<1>2. Head(from) \in Answers /\ Tail(from) \in Seq(Answers)
  BY <1>1, TailFacts
<1>3. Way(held, Taken(r), next, to) /\ next \in Seq(Answers)
  <2>1. CASE Len(Head(from).ids) = 1
    BY <1>1, <1>2, <2>1, WayRead
  <2>2. CASE Len(Head(from).ids) # 1
    <3> DEFINE ids == Head(from).ids
               m == [Head(from) EXCEPT !.ids = Tail(@)]
    <3>1. ids \in Seq(Counts) /\ ids # <<>>
      BY <1>2 DEF Answers
    <3>2. Tail(ids) \in Seq(Counts) \ {<<>>}
      <4> HIDE DEF ids
      <4>1. Len(ids) \in Nat \ {0} /\ Tail(ids) \in Seq(Counts) /\ Len(Tail(ids)) = Len(ids) - 1
        BY <3>1, TailFacts
      <4>2. Len(Tail(ids)) # 0
        BY <2>2, <4>1 DEF ids
      <4>3. Tail(ids) # <<>>
        <5>1. Len(<<>>) = 0
          OBVIOUS
        <5> QED
          BY <4>2, <5>1
      <4> QED
        BY <4>1, <4>3
    <3>3. m \in Answers /\ m.type # "count"
      BY <1>2, <3>2 DEF Answers
    <3> HIDE DEF m
    <3>4. next = <<m>> \o Tail(from)
      BY <2>2 DEF m
    <3> QED
      BY <1>1, <3>3, <3>4, WayShortened
  <2> QED
    BY <2>1, <2>2
<1> QED
  BY <1>1, <1>3 DEF WireOK, Taken

(* A count arrives that is the first in flight. *)
LEMMA WireTakes ==
    ASSUME NEW held \in Seq(Counts), NEW r, NEW from, NEW to, WireOK(held, r, from, to),
           r.at # "process", from # <<>>, Head(from).type = "count"
    PROVE  /\ held # <<>> /\ held[1] = Head(Head(from).ids) /\ held[1] \in Counts
           /\ Tail(from) \in Seq(Answers)
           /\ WireOK(held, [at |-> "process", id |-> held[1]], Tail(from), to)
<1>1. /\ from \in Seq(Answers) /\ to \in Seq(Requests)
      /\ Taken(r) = 0 /\ Way(held, Taken(r), from, to)
      /\ \A i \in 1 .. Len(to) :
            to[i].type = "find_common_ancestor" => Genesis \in Range(to[i].ids)
  BY WireParts DEF Taken
<1>2. Head(from) \in Answers /\ Tail(from) \in Seq(Answers)
  BY <1>1, TailFacts
<1>3. Way(held, 1, Tail(from), to) /\ held # <<>> /\ held[1] = Head(from).ids[1]
  BY <1>1, WayTaken
<1>4. Head(Head(from).ids) = Head(from).ids[1]
  <2>1. Head(from).ids \in Seq(Counts) /\ Head(from).ids # <<>>
    BY <1>2 DEF Answers
  <2> QED
    BY <2>1, TailFacts
<1>5. held[1] \in Counts
  BY <1>3, TailFacts
<1>6. [at |-> "process", id |-> held[1]].at = "process"
  OBVIOUS
<1> QED
  BY <1>1, <1>2, <1>3, <1>4, <1>5, <1>6 DEF WireOK

(* The count that was taken is done. *)
LEMMA WireForgets ==
    ASSUME NEW held \in Seq(Counts), NEW r, NEW from, NEW to, WireOK(held, r, from, to),
           r.at = "process", NEW s, s.at # "process"
    PROVE  held # <<>> /\ WireOK(Tail(held), s, from, to)
<1>1. /\ from \in Seq(Answers) /\ to \in Seq(Requests)
      /\ Taken(r) = 1 /\ Way(held, Taken(r), from, to)
      /\ \A i \in 1 .. Len(to) :
            to[i].type = "find_common_ancestor" => Genesis \in Range(to[i].ids)
  BY WireParts DEF Taken
<1>2. held # <<>> /\ Way(Tail(held), 0, from, to)
  BY <1>1, WayDone
<1> QED
  BY <1>1, <1>2 DEF WireOK

(* The requests that are left when the first has been served.               *)
LEMMA LocatorsLeft ==
    ASSUME NEW to \in Seq(Requests), to # <<>>,
           \A i \in 1 .. Len(to) :
              to[i].type = "find_common_ancestor" => Genesis \in Range(to[i].ids)
    PROVE  /\ Tail(to) \in Seq(Requests) /\ Head(to) \in Requests
           /\ Head(to).type = "find_common_ancestor" => Genesis \in Range(Head(to).ids)
           /\ \A i \in 1 .. Len(Tail(to)) :
                 Tail(to)[i].type = "find_common_ancestor" => Genesis \in Range(Tail(to)[i].ids)
<1> DEFINE b == Tail(to)
<1>1. /\ b \in Seq(Requests) /\ Len(b) = Len(to) - 1 /\ Len(to) \in Nat \ {0}
      /\ \A i \in 1 .. Len(to) - 1 : b[i] = to[i + 1]
      /\ Head(to) = to[1] /\ to[1] \in Requests
  BY TailFacts
<1> HIDE DEF b
<1>2. /\ \A i \in 1 .. Len(b) : b[i] = to[i + 1] /\ i + 1 \in 1 .. Len(to)
      /\ 1 \in 1 .. Len(to)
  BY <1>1
<1> QED
  BY <1>1, <1>2 DEF b

(* The peer serves a count. *)
LEMMA WireAnswers ==
    ASSUME NEW held \in Seq(Counts), NEW r, NEW from, NEW to, WireOK(held, r, from, to),
           to # <<>>, Head(to).type = "get_count"
    PROVE  LET a == Append(from, TheCount(Head(Head(to).ids))) IN
           /\ a \in Seq(Answers) /\ Tail(to) \in Seq(Requests)
           /\ WireOK(held, r, a, Tail(to))
<1> DEFINE m == TheCount(Head(Head(to).ids))
           a == Append(from, m)
<1>1. /\ from \in Seq(Answers) /\ to \in Seq(Requests)
      /\ Taken(r) \in {0, 1} /\ Way(held, Taken(r), from, to)
      /\ \A i \in 1 .. Len(to) :
            to[i].type = "find_common_ancestor" => Genesis \in Range(to[i].ids)
  BY WireParts
<1>2. /\ Tail(to) \in Seq(Requests) /\ Head(to) \in Requests
      /\ \A i \in 1 .. Len(Tail(to)) :
            Tail(to)[i].type = "find_common_ancestor" => Genesis \in Range(Tail(to)[i].ids)
  BY <1>1, LocatorsLeft
<1>3. m \in Answers /\ m.type = "count" /\ m.ids[1] = Head(to).ids[1]
  <2>1. Head(to).ids \in Seq(Counts) /\ Head(to).ids # <<>>
    BY <1>2 DEF Requests
  <2>2. Head(Head(to).ids) \in Counts /\ Head(Head(to).ids) = Head(to).ids[1]
    BY <2>1, TailFacts
  <2>3. \A c \in Counts : <<c>> \in Seq(Counts) \ {<<>>} /\ <<c>>[1] = c
    OBVIOUS
  <2> QED
    BY <2>2, <2>3 DEF TheCount, Answers
<1> HIDE DEF m
<1>4. a \in Seq(Answers)
  BY <1>1, <1>3, AppendFacts
<1>5. Way(held, Taken(r), a, Tail(to))
  BY <1>1, <1>3, WayAnswered
<1> HIDE DEF a
<1>6. WireOK(held, r, a, Tail(to))
  BY <1>2, <1>4, <1>5 DEF WireOK, Taken
<1> QED
  BY <1>2, <1>4, <1>6 DEF a, m

(* The peer serves a locator. *)
LEMMA WireServes ==
    ASSUME NEW held \in Seq(Counts), NEW r, NEW from, NEW to, WireOK(held, r, from, to),
           to # <<>>, Head(to).type = "find_common_ancestor"
    PROVE  /\ Tail(to) \in Seq(Requests)
           /\ WireOK(held, r, from, Tail(to))
           /\ Head(to).ids \in Seq(Counts) /\ Genesis \in Range(Head(to).ids)
<1>1. /\ from \in Seq(Answers) /\ to \in Seq(Requests)
      /\ Taken(r) \in {0, 1} /\ Way(held, Taken(r), from, to)
      /\ \A i \in 1 .. Len(to) :
            to[i].type = "find_common_ancestor" => Genesis \in Range(to[i].ids)
  BY WireParts
<1>2. /\ Tail(to) \in Seq(Requests) /\ Head(to) \in Requests
      /\ Genesis \in Range(Head(to).ids)
      /\ \A i \in 1 .. Len(Tail(to)) :
            Tail(to)[i].type = "find_common_ancestor" => Genesis \in Range(Tail(to)[i].ids)
  BY <1>1, LocatorsLeft
<1>3. Way(held, Taken(r), from, Tail(to))
  BY <1>1, WayServed
<1>4. Head(to).ids \in Seq(Counts)
  BY <1>2 DEF Requests
<1> QED
  BY <1>1, <1>2, <1>3, <1>4 DEF WireOK, Taken

-----------------------------------------------------------------------------
(* The steps of the reader loop *)

(* What the invariant says of one connection. *)
LEMMA AtPeer ==
    ASSUME DownloadIInv, NEW p \in Peers
    PROVE  /\ LoopOK(localDownloadQueue[p], localInflightQueue[p], reader[p])
           /\ WireOK(localInflightQueue[p], reader[p], fromPeer[p], toPeer[p])
           /\ remoteTip[p] \in 1 .. Len(Tips[p])
           /\ localDownloadQueue[p] \in Seq(Counts) /\ localInflightQueue[p] \in Seq(Counts)
           /\ fromPeer[p] \in Seq(Answers) /\ toPeer[p] \in Seq(Requests)
           /\ reader[p] \in Readers
           /\ tip \in Counts
BY DEF DownloadIInv, PeerOK, LoopOK, WireOK, NodeOK

(* Where the loop goes when it has no count in hand. *)
LEMMA Places ==
    \A at \in {"gone", "read", "fill"} :
        /\ [at |-> at, id |-> NoCount] \in Readers
        /\ [at |-> at, id |-> NoCount].at = at
        /\ [at |-> at, id |-> NoCount].at \notin {"add", "process"}
BY DEF Readers

(* One ID of an announced list: skipped, asked for more, or queued.         *)
LEMMA OnInvCountStep ==
    ASSUME DownloadIInv, NEW p \in Peers, OnInvCount(p)
    PROVE  DownloadIInv'
<1> DEFINE m == Head(fromPeer[p])
           id == Head(m.ids)
           next == IF Len(m.ids) = 1 THEN Tail(fromPeer[p])
                   ELSE <<[m EXCEPT !.ids = Tail(@)]>> \o Tail(fromPeer[p])
           fill == [at |-> "fill", id |-> NoCount]
           down == localDownloadQueue[p]
           held == localInflightQueue[p]
<1>1. /\ LoopOK(down, held, reader[p])
      /\ WireOK(held, reader[p], fromPeer[p], toPeer[p])
      /\ remoteTip[p] \in 1 .. Len(Tips[p])
      /\ down \in Seq(Counts) /\ held \in Seq(Counts)
      /\ fromPeer[p] \in Seq(Answers) /\ tip \in Counts
      /\ reader[p] \in Readers
  BY AtPeer
<1>2. /\ reader[p].at = "read" /\ fromPeer[p] # <<>> /\ m.type = "inv_count"
      /\ UNCHANGED <<nodeVars, localInflightQueue, globalInflightQueue, remoteVars, boundVars>>
      /\ fromPeer' = [fromPeer EXCEPT ![p] = next]
  <2>1. /\ reader[p].at = "read" /\ fromPeer[p] # <<>> /\ m.type = "inv_count"
        /\ UNCHANGED <<nodeVars, localInflightQueue, globalInflightQueue, remoteVars, boundVars>>
    BY DEF OnInvCount, Reading
  <2>2. fromPeer' = [fromPeer EXCEPT ![p] = next]
    <3>1. NextID(p)
      BY DEF OnInvCount
    <3> QED
      BY <3>1 DEF NextID
  <2> QED
    BY <2>1, <2>2
<1>3. WireOK(held, reader[p], next, toPeer[p]) /\ next \in Seq(Answers)
  BY <1>1, <1>2, WireNext
<1>4. id \in Counts
  <2>1. m \in Answers
    BY <1>1, <1>2, TailFacts
  <2>2. m.ids \in Seq(Counts) /\ m.ids # <<>>
    BY <2>1 DEF Answers
  <2> QED
    BY <2>2, TailFacts
<1>5. \/ toPeer' = toPeer
      \/ toPeer' = [toPeer EXCEPT ![p] = Append(toPeer[p], FindCommonAncestor(Locator(id)))]
  BY DEF OnInvCount, Send
<1>6. \/ localDownloadQueue' = localDownloadQueue /\ reader' = reader
      \/ /\ localDownloadQueue' = [localDownloadQueue EXCEPT ![p] = Append(down, id)]
         /\ reader' = [reader EXCEPT ![p] = fill]
         /\ ~Queued(p, id) /\ Len(down) < downloadQueueMax
  <2>1. Len(down) >= downloadQueueMax \/ Len(down) < downloadQueueMax
    <3>1. Len(down) \in Nat
      BY <1>1
    <3>2. downloadQueueMax \in Nat
      BY DownloadAssumption
    <3> HIDE DEF down
    <3> QED
      BY <3>1, <3>2
  <2> QED
    BY <2>1 DEF OnInvCount, Go
<1> HIDE DEF m, id, next
<1>7. /\ DomainsOK /\ NodeOK /\ FlightOK
  BY DEF DownloadIInv
<1>8. NodeOK' /\ FlightOK'
  BY <1>2, <1>7, FlightSame DEF NodeOK, nodeVars, boundVars
<1>9. /\ toPeer' \in [Peers -> Seq(Requests)]
      /\ WireOK(held, reader[p], fromPeer'[p], toPeer'[p])
      /\ \A q \in Peers \ {p} : toPeer'[q] = toPeer[q] /\ fromPeer'[q] = fromPeer[q]
  <2>1. fromPeer'[p] = next /\ \A q \in Peers \ {p} : fromPeer'[q] = fromPeer[q]
    BY <1>2, <1>7 DEF DomainsOK
  <2>2. CASE toPeer' = toPeer
    BY <1>3, <1>7, <2>1, <2>2 DEF DomainsOK
  <2>3. CASE toPeer' = [toPeer EXCEPT ![p] = Append(toPeer[p], FindCommonAncestor(Locator(id)))]
    <3>1. /\ WireOK(held, reader[p], next, Append(toPeer[p], FindCommonAncestor(Locator(id))))
          /\ Append(toPeer[p], FindCommonAncestor(Locator(id))) \in Seq(Requests)
      BY <1>1, <1>3, <1>4, WireSends
    <3> QED
      BY <1>7, <2>1, <2>3, <3>1 DEF DomainsOK
  <2> QED
    BY <1>5, <2>2, <2>3
<1>10. fromPeer' \in [Peers -> Seq(Answers)] /\ remoteTip' \in [Peers -> Nat]
       /\ localInflightQueue' \in [Peers -> Seq(Counts)]
  BY <1>2, <1>3, <1>7 DEF DomainsOK, remoteVars
<1>11. /\ localDownloadQueue' \in [Peers -> Seq(Counts)] /\ reader' \in [Peers -> Readers]
       /\ LoopOK(localDownloadQueue'[p], held, reader'[p])
       /\ (reader'[p].at = "process") <=> (reader[p].at = "process")
       /\ \A q \in Peers \ {p} : /\ localDownloadQueue'[q] = localDownloadQueue[q]
                                 /\ reader'[q] = reader[q]
  <2>1. CASE localDownloadQueue' = localDownloadQueue /\ reader' = reader
    BY <1>1, <1>7, <2>1 DEF DomainsOK
  <2>2. CASE /\ localDownloadQueue' = [localDownloadQueue EXCEPT ![p] = Append(down, id)]
             /\ reader' = [reader EXCEPT ![p] = fill]
             /\ ~Queued(p, id) /\ Len(down) < downloadQueueMax
    <3>1. id \notin Range(down) /\ id \notin Range(held)
      BY <2>2 DEF Queued
    <3>2. fill \in Readers /\ fill.at = "fill"
      BY DEF Readers
    <3>3. LoopOK(Append(down, id), held, fill) /\ Append(down, id) \in Seq(Counts)
      BY <1>1, <1>4, <2>2, <3>1, <3>2, LoopQueues, AppendFacts
    <3> HIDE DEF fill
    <3> QED
      BY <1>2, <1>7, <2>2, <3>2, <3>3 DEF DomainsOK
  <2> QED
    BY <1>6, <2>1, <2>2
<1>12. WireOK(held, reader'[p], fromPeer'[p], toPeer'[p])
  BY <1>9, <1>11, WireGoes
<1>13. DomainsOK'
  BY <1>9, <1>10, <1>11 DEF DomainsOK
<1> QED
  BY <1>1, <1>2, <1>8, <1>9, <1>11, <1>12, <1>13, Assembled DEF remoteVars

(* The loops that only look at their queues. *)
LEMMA FillEndsStep ==
    ASSUME DownloadIInv, NEW p \in Peers, FillEnds(p) \/ Pong(p)
    PROVE  DownloadIInv'
<1>1. PICK at \in {"read", "fill"} :
         /\ reader' = [reader EXCEPT ![p] = [at |-> at, id |-> NoCount]]
         /\ reader[p].at # "process"
         /\ UNCHANGED <<nodeVars, queueVars, toPeer, fromPeer, remoteVars, boundVars>>
  BY DEF FillEnds, Pong, Go
<1>2. DomainsOK /\ NodeOK /\ FlightOK
  BY DEF DownloadIInv
<1> DEFINE s == [at |-> at, id |-> NoCount]
<1>3. s \in Readers /\ s.at \notin {"add", "process"}
  BY DEF Readers
<1> HIDE DEF s
<1>4. reader' \in [Peers -> Readers] /\ reader'[p] = s
      /\ \A q \in Peers \ {p} : reader'[q] = reader[q]
  BY <1>1, <1>2, <1>3 DEF DomainsOK, s
<1>5. /\ LoopOK(localDownloadQueue[p], localInflightQueue[p], s)
      /\ WireOK(localInflightQueue[p], s, fromPeer[p], toPeer[p])
      /\ remoteTip[p] \in 1 .. Len(Tips[p])
  BY <1>1, <1>3, AtPeer, LoopGoes, WireGoes
<1>6. DomainsOK' /\ NodeOK' /\ FlightOK'
  BY <1>1, <1>2, <1>4, FlightSame
     DEF DomainsOK, NodeOK, nodeVars, queueVars, remoteVars, boundVars
<1> QED
  BY <1>1, <1>4, <1>5, <1>6, Assembled DEF queueVars, remoteVars

(* The first count of the download queue: dropped, or taken in hand.        *)
LEMMA FillStep ==
    ASSUME DownloadIInv, NEW p \in Peers, Fill(p)
    PROVE  DownloadIInv'
<1> DEFINE down == localDownloadQueue[p]
           held == localInflightQueue[p]
           id == Head(down)
           s == [at |-> "add", id |-> id]
<1>1. /\ LoopOK(down, held, reader[p])
      /\ WireOK(held, reader[p], fromPeer[p], toPeer[p])
      /\ remoteTip[p] \in 1 .. Len(Tips[p]) /\ down \in Seq(Counts)
      /\ reader[p] \in Readers
  BY AtPeer
<1>2. DomainsOK /\ NodeOK /\ FlightOK
  BY DEF DownloadIInv
<1>3. /\ reader[p].at = "fill" /\ Len(held) < inflightQueueMax /\ down # <<>>
      /\ UNCHANGED <<nodeVars, localInflightQueue, globalInflightQueue, toPeer, fromPeer,
                     remoteVars, boundVars>>
      /\ \/ /\ localDownloadQueue' = [localDownloadQueue EXCEPT ![p] = Tail(down)]
            /\ reader' = reader
         \/ /\ reader' = [reader EXCEPT ![p] = s]
            /\ localDownloadQueue' = localDownloadQueue
  BY DEF Fill, Go
<1>4. Tail(down) \in Seq(Counts) /\ LoopOK(Tail(down), held, reader[p])
  BY <1>1, <1>3, LoopSkips, TailFacts
<1>5. LoopOK(down, held, s) /\ s \in Readers /\ s.at = "add"
  BY <1>1, <1>3, LoopAdds
<1> HIDE DEF s
<1>6. WireOK(held, s, fromPeer[p], toPeer[p])
  BY <1>1, <1>3, <1>5, WireGoes
<1>7. /\ localDownloadQueue' \in [Peers -> Seq(Counts)] /\ reader' \in [Peers -> Readers]
      /\ LoopOK(localDownloadQueue'[p], held, reader'[p])
      /\ WireOK(held, reader'[p], fromPeer[p], toPeer[p])
      /\ \A q \in Peers \ {p} : /\ localDownloadQueue'[q] = localDownloadQueue[q]
                                /\ reader'[q] = reader[q]
  <2>1. CASE /\ localDownloadQueue' = [localDownloadQueue EXCEPT ![p] = Tail(down)]
             /\ reader' = reader
    BY <1>1, <1>2, <1>4, <2>1 DEF DomainsOK
  <2>2. CASE /\ reader' = [reader EXCEPT ![p] = s]
             /\ localDownloadQueue' = localDownloadQueue
    BY <1>2, <1>5, <1>6, <2>2 DEF DomainsOK
  <2> QED
    BY <1>3, <2>1, <2>2
<1>8. DomainsOK' /\ NodeOK' /\ FlightOK'
  BY <1>2, <1>3, <1>7, FlightSame DEF DomainsOK, NodeOK, nodeVars, remoteVars, boundVars
<1> QED
  BY <1>1, <1>3, <1>7, <1>8, Assembled DEF remoteVars

(* The count in hand is put in flight and requested.                        *)
LEMMA RequestStep ==
    ASSUME DownloadIInv, NEW p \in Peers, Request(p)
    PROVE  DownloadIInv'
<1> DEFINE down == localDownloadQueue[p]
           held == localInflightQueue[p]
           id == Head(down)
           s == [at |-> "fill", id |-> NoCount]
<1>1. /\ LoopOK(down, held, reader[p])
      /\ WireOK(held, reader[p], fromPeer[p], toPeer[p])
      /\ remoteTip[p] \in 1 .. Len(Tips[p])
      /\ down \in Seq(Counts) /\ held \in Seq(Counts)
  BY AtPeer
<1>2. DomainsOK /\ NodeOK /\ FlightOK
  BY DEF DownloadIInv
<1>3. /\ reader[p].at = "add" /\ down # <<>> /\ reader[p].id = id /\ id \in Counts
      /\ Len(held) < inflightQueueMax
  <2>1. reader[p].at = "add"
    BY DEF Request
  <2>2. down # <<>> /\ reader[p].id = down[1] /\ Len(held) < inflightQueueMax
    BY <1>1, <2>1 DEF LoopOK
  <2> QED
    BY <1>1, <2>1, <2>2, TailFacts
<1>4. /\ CanAdd(id)
      /\ globalInflightQueue' = Added(id, p)
      /\ localDownloadQueue' = [localDownloadQueue EXCEPT ![p] = Tail(down)]
      /\ localInflightQueue' = [localInflightQueue EXCEPT ![p] = Append(held, id)]
      /\ toPeer' = [toPeer EXCEPT ![p] = Append(toPeer[p], GetCount(id))]
      /\ reader' = [reader EXCEPT ![p] = s]
      /\ UNCHANGED <<nodeVars, fromPeer, remoteVars, boundVars>>
  BY <1>3 DEF Request, Send, Go
<1>5. s \in Readers /\ s.at = "fill"
  BY DEF Readers
<1> HIDE DEF s
<1>6. LoopOK(Tail(down), Append(held, id), s)
  BY <1>1, <1>3, <1>5, LoopRequests
<1>7. /\ WireOK(Append(held, id), s, fromPeer[p], Append(toPeer[p], GetCount(id)))
      /\ Append(toPeer[p], GetCount(id)) \in Seq(Requests)
  BY <1>1, <1>3, <1>5, WireRequests
<1>8. Tail(down) \in Seq(Counts) /\ Append(held, id) \in Seq(Counts)
  BY <1>1, <1>3, TailFacts, AppendFacts
<1>9. FlightOK'
  BY <1>2, <1>3, <1>4, FlightAdded DEF DomainsOK, boundVars
<1>10. DomainsOK' /\ NodeOK'
  <2> HIDE DEF id, down, held
  <2> QED
    BY <1>2, <1>4, <1>5, <1>7, <1>8 DEF DomainsOK, NodeOK, nodeVars, remoteVars
<1>11. /\ localDownloadQueue'[p] = Tail(down) /\ localInflightQueue'[p] = Append(held, id)
       /\ toPeer'[p] = Append(toPeer[p], GetCount(id)) /\ reader'[p] = s
       /\ fromPeer'[p] = fromPeer[p] /\ remoteTip'[p] = remoteTip[p]
       /\ \A q \in Peers \ {p} :
             /\ localDownloadQueue'[q] = localDownloadQueue[q]
             /\ localInflightQueue'[q] = localInflightQueue[q]
             /\ reader'[q] = reader[q]
             /\ fromPeer'[q] = fromPeer[q] /\ toPeer'[q] = toPeer[q]
             /\ remoteTip'[q] = remoteTip[q]
  <2> HIDE DEF id
  <2> QED
    BY <1>2, <1>4 DEF DomainsOK, remoteVars
<1> HIDE DEF id, down, held
<1> QED
  BY <1>1, <1>6, <1>7, <1>9, <1>10, <1>11, Assembled

(* An orphan: the peer's next answer, dropped before it is processed.       *)
LEMMA OnOrphanStep ==
    ASSUME DownloadIInv, NEW p \in Peers, OnOrphan(p)
    PROVE  DownloadIInv'
<1> DEFINE held == localInflightQueue[p]
           from == fromPeer[p]
           to == toPeer[p]
           id == Head(Head(from).ids)
           asked == Append(to, FindCommonAncestor(Locator(tip)))
           s == [at |-> "fill", id |-> NoCount]
           taken == [at |-> "process", id |-> held[1]]
<1>1. /\ LoopOK(localDownloadQueue[p], held, reader[p])
      /\ WireOK(held, reader[p], from, to)
      /\ remoteTip[p] \in 1 .. Len(Tips[p])
      /\ held \in Seq(Counts) /\ tip \in Counts
  BY AtPeer
<1>2. DomainsOK /\ NodeOK /\ FlightOK
  BY DEF DownloadIInv
<1>3. /\ reader[p].at = "read" /\ from # <<>> /\ Head(from).type = "count"
      /\ held # <<>> /\ Head(held) = id
      /\ localInflightQueue' = [localInflightQueue EXCEPT ![p] = RemoveFirst(held, id)]
      /\ globalInflightQueue' = Removed({id}, p)
      /\ toPeer' = [toPeer EXCEPT ![p] = asked]
      /\ fromPeer' = [fromPeer EXCEPT ![p] = Tail(from)]
      /\ reader' = [reader EXCEPT ![p] = s]
      /\ UNCHANGED <<nodeVars, localDownloadQueue, remoteVars, boundVars>>
  BY DEF OnOrphan, Reading, Expected, Forget, Send, Received, Go
<1>4. /\ s \in Readers /\ s.at \notin {"add", "process"} /\ s.at # "process"
      /\ taken.at = "process"
  BY DEF Readers
<1>5. RemoveFirst(held, id) = Tail(held) /\ Tail(held) \in Seq(Counts)
  BY <1>1, <1>3, RemoveHead, TailFacts
<1>6. Tail(from) \in Seq(Answers) /\ WireOK(held, taken, Tail(from), to)
  BY <1>1, <1>3, WireTakes
<1> HIDE DEF s, taken
<1>7. WireOK(Tail(held), s, Tail(from), to)
  BY <1>1, <1>4, <1>6, WireForgets
<1>8. WireOK(Tail(held), s, Tail(from), asked) /\ asked \in Seq(Requests)
  BY <1>1, <1>5, <1>7, WireSends
<1>9. LoopOK(localDownloadQueue[p], Tail(held), s)
  BY <1>1, <1>3, <1>4, LoopForgets
<1> HIDE DEF asked, id
<1>10. FlightOK'
  <2>1. \A i, j \in 1 .. Len(held) : held[i] = held[j] => i = j
    BY <1>1 DEF LoopOK, Apart
  <2>2. \A c : c \in Range(Tail(held)) <=> c \in Range(held) /\ c \notin {id}
    BY <1>1, <1>3, <2>1, TailRange
  <2>3. everExpired' = everExpired /\ localInflightQueue \in [Peers -> Seq(Counts)]
    BY <1>2, <1>3 DEF boundVars, DomainsOK
  <2>4. localInflightQueue' = [localInflightQueue EXCEPT ![p] = Tail(held)]
    BY <1>3, <1>5
  <2> QED
    BY <1>2, <1>3, <1>5, <2>2, <2>3, <2>4, FlightRemoved
<1> HIDE DEF held, from, to
<1>11. DomainsOK' /\ NodeOK'
  BY <1>2, <1>3, <1>4, <1>5, <1>6, <1>8 DEF DomainsOK, NodeOK, nodeVars, remoteVars
<1>12. /\ localInflightQueue'[p] = Tail(held) /\ toPeer'[p] = asked
       /\ fromPeer'[p] = Tail(from) /\ reader'[p] = s
       /\ localDownloadQueue' = localDownloadQueue /\ remoteTip' = remoteTip
       /\ \A q \in Peers \ {p} :
             /\ localInflightQueue'[q] = localInflightQueue[q] /\ reader'[q] = reader[q]
             /\ fromPeer'[q] = fromPeer[q] /\ toPeer'[q] = toPeer[q]
  BY <1>2, <1>3, <1>5 DEF DomainsOK, remoteVars
<1> QED
  BY <1>1, <1>8, <1>9, <1>10, <1>11, <1>12, Assembled

(* A count is taken from the answers: the first one in flight.              *)
LEMMA OnCountStep ==
    ASSUME DownloadIInv, NEW p \in Peers, OnCount(p)
    PROVE  DownloadIInv'
<1> DEFINE held == localInflightQueue[p]
           from == fromPeer[p]
           s == [at |-> "process", id |-> held[1]]
<1>1. /\ LoopOK(localDownloadQueue[p], held, reader[p])
      /\ WireOK(held, reader[p], from, toPeer[p])
      /\ remoteTip[p] \in 1 .. Len(Tips[p])
      /\ held \in Seq(Counts)
  BY AtPeer
<1>2. DomainsOK /\ NodeOK /\ FlightOK
  BY DEF DownloadIInv
<1>3. /\ reader[p].at = "read" /\ from # <<>> /\ Head(from).type = "count"
      /\ fromPeer' = [fromPeer EXCEPT ![p] = Tail(from)]
      /\ reader' = [reader EXCEPT ![p] = [at |-> "process", id |-> Head(Head(from).ids)]]
      /\ UNCHANGED <<nodeVars, queueVars, toPeer, remoteVars, boundVars>>
  BY DEF OnCount, Reading, Received, Go
<1>4. /\ held # <<>> /\ held[1] = Head(Head(from).ids)
      /\ Tail(from) \in Seq(Answers) /\ WireOK(held, s, Tail(from), toPeer[p])
  BY <1>1, <1>3, WireTakes
<1>5. LoopOK(localDownloadQueue[p], held, s) /\ s \in Readers
  BY <1>1, <1>4, LoopProcesses
<1>6. reader' = [reader EXCEPT ![p] = s]
  BY <1>3, <1>4
<1> HIDE DEF s, held, from
<1>7. DomainsOK' /\ NodeOK' /\ FlightOK'
  BY <1>2, <1>3, <1>4, <1>5, <1>6, FlightSame
     DEF DomainsOK, NodeOK, nodeVars, queueVars, remoteVars, boundVars
<1>8. /\ fromPeer'[p] = Tail(from) /\ reader'[p] = s
      /\ \A q \in Peers \ {p} : reader'[q] = reader[q] /\ fromPeer'[q] = fromPeer[q]
  BY <1>2, <1>3, <1>6 DEF DomainsOK
<1> QED
  BY <1>1, <1>3, <1>4, <1>5, <1>7, <1>8, Assembled DEF held, queueVars, remoteVars

(* The count in hand is processed, and no longer in flight.                 *)
LEMMA CountProcessedStep ==
    ASSUME DownloadIInv, NEW p \in Peers, CountProcessed(p)
    PROVE  DownloadIInv'
<1> DEFINE held == localInflightQueue[p]
           id == reader[p].id
           s == [at |-> "fill", id |-> NoCount]
<1>1. /\ LoopOK(localDownloadQueue[p], held, reader[p])
      /\ WireOK(held, reader[p], fromPeer[p], toPeer[p])
      /\ remoteTip[p] \in 1 .. Len(Tips[p])
      /\ held \in Seq(Counts)
  BY AtPeer
<1>2. DomainsOK /\ NodeOK /\ FlightOK
  BY DEF DownloadIInv
<1>3. /\ reader[p].at = "process"
      /\ processed' = processed \cup {id} /\ stored' = stored \cup {id}
      /\ (tip' = id \/ tip' = tip)
      /\ localInflightQueue' = [localInflightQueue EXCEPT ![p] = RemoveFirst(held, id)]
      /\ globalInflightQueue' = Removed({id}, p)
      /\ reader' = [reader EXCEPT ![p] = s]
      /\ UNCHANGED <<localDownloadQueue, toPeer, fromPeer, remoteVars, boundVars>>
  BY DEF CountProcessed, Forget, Go
<1>4. held # <<>> /\ id = Head(held) /\ id \in Counts
  BY <1>1, <1>3, TailFacts DEF LoopOK
<1>5. s \in Readers /\ s.at \notin {"add", "process"} /\ s.at # "process"
  BY DEF Readers
<1>6. RemoveFirst(held, id) = Tail(held) /\ Tail(held) \in Seq(Counts)
  BY <1>1, <1>4, RemoveHead, TailFacts
<1> HIDE DEF s, id
<1>7. WireOK(Tail(held), s, fromPeer[p], toPeer[p])
  BY <1>1, <1>3, <1>5, WireForgets
<1>8. LoopOK(localDownloadQueue[p], Tail(held), s)
  BY <1>1, <1>4, <1>5, LoopForgets
<1>9. FlightOK'
  <2>1. \A i, j \in 1 .. Len(held) : held[i] = held[j] => i = j
    BY <1>1 DEF LoopOK, Apart
  <2>2. \A c : c \in Range(Tail(held)) <=> c \in Range(held) /\ c \notin {id}
    BY <1>1, <1>4, <2>1, TailRange
  <2>3. everExpired' = everExpired /\ localInflightQueue \in [Peers -> Seq(Counts)]
    BY <1>2, <1>3 DEF boundVars, DomainsOK
  <2>4. localInflightQueue' = [localInflightQueue EXCEPT ![p] = Tail(held)]
    BY <1>3, <1>6
  <2> QED
    BY <1>2, <1>3, <1>6, <2>2, <2>3, <2>4, FlightRemoved
<1>10. NodeOK'
  BY <1>2, <1>3, <1>4 DEF NodeOK
<1> HIDE DEF held
<1>11. DomainsOK'
  BY <1>2, <1>3, <1>5, <1>6 DEF DomainsOK, remoteVars
<1>12. /\ localInflightQueue'[p] = Tail(held) /\ reader'[p] = s
       /\ \A q \in Peers \ {p} :
             localInflightQueue'[q] = localInflightQueue[q] /\ reader'[q] = reader[q]
  BY <1>2, <1>3, <1>6 DEF DomainsOK
<1> QED
  BY <1>1, <1>3, <1>7, <1>8, <1>9, <1>10, <1>11, <1>12, Assembled DEF remoteVars

-----------------------------------------------------------------------------
(* The steps that end or begin a connection, and those of the other end *)

(* Nothing of an ended connection is left, in its queues or in the shared   *)
(* one.                                                                     *)
LEMMA CloseStep ==
    ASSUME DownloadIInv, NEW p \in Peers, Close(p), NodeOK',
           UNCHANGED <<remoteVars, everExpired>>
    PROVE  DownloadIInv'
<1> DEFINE held == localInflightQueue[p]
           s == [at |-> "gone", id |-> NoCount]
<1>1. held \in Seq(Counts) /\ remoteTip[p] \in 1 .. Len(Tips[p])
  BY AtPeer
<1>2. DomainsOK /\ FlightOK
  BY DEF DownloadIInv
<1>3. /\ globalInflightQueue' = Removed(Range(held), p)
      /\ localInflightQueue' = [localInflightQueue EXCEPT ![p] = <<>>]
      /\ localDownloadQueue' = [localDownloadQueue EXCEPT ![p] = <<>>]
      /\ toPeer' = [toPeer EXCEPT ![p] = <<>>]
      /\ fromPeer' = [fromPeer EXCEPT ![p] = <<>>]
      /\ reader' = [reader EXCEPT ![p] = s]
  BY DEF Close, Go
<1>4. s \in Readers /\ s.at \notin {"add", "process"}
  BY DEF Readers
<1>5. <<>> \in Seq(Counts) /\ <<>> \in Seq(Answers) /\ <<>> \in Seq(Requests)
  OBVIOUS
<1>6. \A c : c \in Range(<<>>) <=> c \in Range(held) /\ c \notin Range(held)
  BY DEF Range
<1>7. FlightOK'
  BY <1>2, <1>3, <1>5, <1>6, FlightRemoved DEF DomainsOK
<1> HIDE DEF s, held
<1>8. LoopOK(<<>>, <<>>, s) /\ WireOK(<<>>, s, <<>>, <<>>)
  BY <1>4, LoopCloses
<1>9. DomainsOK'
  BY <1>2, <1>3, <1>4, <1>5 DEF DomainsOK, remoteVars
<1>10. /\ localInflightQueue'[p] = <<>> /\ localDownloadQueue'[p] = <<>>
       /\ toPeer'[p] = <<>> /\ fromPeer'[p] = <<>> /\ reader'[p] = s
       /\ \A q \in Peers \ {p} :
             /\ localDownloadQueue'[q] = localDownloadQueue[q]
             /\ localInflightQueue'[q] = localInflightQueue[q] /\ reader'[q] = reader[q]
             /\ fromPeer'[q] = fromPeer[q] /\ toPeer'[q] = toPeer[q]
  BY <1>2, <1>3 DEF DomainsOK
<1> QED
  BY <1>1, <1>7, <1>8, <1>9, <1>10, Assembled DEF remoteVars

(* The three ways a connection ends. *)
LEMMA EndStep ==
    ASSUME DownloadIInv, NEW p \in Peers, Refuse(p) \/ Stall(p) \/ Drop(p)
    PROVE  DownloadIInv'
<1>1. /\ NodeOK /\ reader[p].id \in Counts \cup {NoCount}
      /\ LoopOK(localDownloadQueue[p], localInflightQueue[p], reader[p])
  BY AtPeer DEF DownloadIInv, LoopOK, Readers
<1>2. Close(p) /\ UNCHANGED <<processed, tip, remoteVars, everExpired>>
  BY DEF Refuse, Stall, Drop, nodeVars, boundVars
<1>3. \/ stored' = stored
      \/ reader[p].at = "process" /\ stored' = stored \cup {reader[p].id}
  BY DEF Refuse, Stall, Drop, nodeVars
<1>4. reader[p].at = "process" => reader[p].id \in Counts
  BY <1>1, TailFacts DEF LoopOK
<1>5. NodeOK'
  BY <1>1, <1>2, <1>3, <1>4 DEF NodeOK
<1> QED
  BY <1>2, <1>5, CloseStep

(* A new connection asks where the branches part.                           *)
LEMMA ConnectStep ==
    ASSUME DownloadIInv, NEW p \in Peers, Connect(p)
    PROVE  DownloadIInv'
<1> DEFINE s == [at |-> "read", id |-> NoCount]
           asked == Append(toPeer[p], FindCommonAncestor(Locator(tip)))
<1>1. /\ LoopOK(localDownloadQueue[p], localInflightQueue[p], reader[p])
      /\ WireOK(localInflightQueue[p], reader[p], fromPeer[p], toPeer[p])
      /\ remoteTip[p] \in 1 .. Len(Tips[p])
      /\ localInflightQueue[p] \in Seq(Counts) /\ tip \in Counts
  BY AtPeer
<1>2. DomainsOK /\ NodeOK /\ FlightOK
  BY DEF DownloadIInv
<1>3. /\ reader[p].at = "gone"
      /\ reader' = [reader EXCEPT ![p] = s]
      /\ toPeer' = [toPeer EXCEPT ![p] = asked]
      /\ UNCHANGED <<nodeVars, queueVars, fromPeer, remoteTip, boundVars>>
  BY DEF Connect, Connected, Go, Send
<1>4. s \in Readers /\ s.at \notin {"add", "process"}
  BY DEF Readers
<1> HIDE DEF s
<1>5. LoopOK(localDownloadQueue[p], localInflightQueue[p], s)
  BY <1>1, <1>4, LoopGoes
<1>6. /\ WireOK(localInflightQueue[p], reader[p], fromPeer[p], asked)
      /\ asked \in Seq(Requests)
  BY <1>1, WireSends
<1> HIDE DEF asked
<1>7. WireOK(localInflightQueue[p], s, fromPeer[p], asked)
  BY <1>3, <1>4, <1>6, WireGoes
<1>8. DomainsOK' /\ NodeOK' /\ FlightOK'
  BY <1>2, <1>3, <1>4, <1>6, FlightSame
     DEF DomainsOK, NodeOK, nodeVars, queueVars, boundVars
<1>9. /\ reader'[p] = s /\ toPeer'[p] = asked
      /\ \A q \in Peers \ {p} : reader'[q] = reader[q] /\ toPeer'[q] = toPeer[q]
  BY <1>2, <1>3 DEF DomainsOK
<1> QED
  BY <1>1, <1>3, <1>5, <1>7, <1>8, <1>9, Assembled DEF queueVars

(* Steps of the other end: only the messages and its tip change.            *)
LEMMA ServeStep ==
    ASSUME DownloadIInv, NEW p \in Peers, NEW from \in Seq(Answers), NEW to \in Seq(Requests),
           WireOK(localInflightQueue[p], reader[p], from, to),
           fromPeer' = [fromPeer EXCEPT ![p] = from],
           toPeer' = [toPeer EXCEPT ![p] = to],
           UNCHANGED <<nodeVars, queueVars, reader, remoteTip, boundVars>>
    PROVE  DownloadIInv'
<1>1. /\ LoopOK(localDownloadQueue[p], localInflightQueue[p], reader[p])
      /\ remoteTip[p] \in 1 .. Len(Tips[p])
  BY AtPeer
<1>2. DomainsOK /\ NodeOK /\ FlightOK
  BY DEF DownloadIInv
<1>3. DomainsOK' /\ NodeOK' /\ FlightOK'
  BY <1>2, FlightSame DEF DomainsOK, NodeOK, nodeVars, queueVars, boundVars
<1>4. /\ fromPeer'[p] = from /\ toPeer'[p] = to
      /\ \A q \in Peers \ {p} : fromPeer'[q] = fromPeer[q] /\ toPeer'[q] = toPeer[q]
  BY <1>2 DEF DomainsOK
<1> QED
  BY <1>1, <1>3, <1>4, Assembled DEF queueVars

(* The tip of a peer is a count. *)
LEMMA TipFacts ==
    ASSUME NEW p \in Peers, NEW i \in 1 .. Len(Tips[p])
    PROVE  Tips[p][i] \in Counts
BY DownloadAssumption

(* A count is served, the last of a list with the tip behind it.            *)
LEMMA OnGetCountStep ==
    ASSUME DownloadIInv, NEW p \in Peers, OnGetCount(p)
    PROVE  DownloadIInv'
<1> DEFINE held == localInflightQueue[p]
           m == TheCount(Head(Head(toPeer[p]).ids))
           n == Inv(<<TipOf(p)>>)
           one == Append(fromPeer[p], m)
           two == Append(one, n)
           to == Tail(toPeer[p])
<1>1. /\ WireOK(held, reader[p], fromPeer[p], toPeer[p])
      /\ remoteTip[p] \in 1 .. Len(Tips[p])
      /\ held \in Seq(Counts) /\ fromPeer[p] \in Seq(Answers)
  BY AtPeer
<1>2. /\ toPeer[p] # <<>> /\ Head(toPeer[p]).type = "get_count"
      /\ toPeer' = [toPeer EXCEPT ![p] = to]
      /\ UNCHANGED <<nodeVars, queueVars, reader, remoteTip, boundVars>>
      /\ \/ fromPeer' = [fromPeer EXCEPT ![p] = fromPeer[p] \o <<m>>]
         \/ fromPeer' = [fromPeer EXCEPT ![p] = fromPeer[p] \o <<m, n>>]
  BY DEF OnGetCount, Asked, Served, Tell
<1>3. one \in Seq(Answers) /\ to \in Seq(Requests) /\ WireOK(held, reader[p], one, to)
  BY <1>1, <1>2, WireAnswers
<1> HIDE DEF to
<1>4. <<TipOf(p)>> \in Seq(Counts) /\ <<TipOf(p)>> # <<>>
  <2>1. TipOf(p) \in Counts
    BY <1>1, TipFacts DEF TipOf
  <2> QED
    BY <2>1
<1>5. two \in Seq(Answers) /\ WireOK(held, reader[p], two, to)
  <2> HIDE DEF one
  <2> QED
    BY <1>1, <1>3, <1>4, WireTells
<1>6. fromPeer[p] \o <<m>> = one /\ fromPeer[p] \o <<m, n>> = two
  <2> DEFINE f == fromPeer[p]
  <2>1. f \in Seq(Answers)
    BY <1>1
  <2> HIDE DEF f, m, n
  <2>2. f \o <<m>> = Append(f, m) /\ f \o <<m, n>> = Append(Append(f, m), n)
    BY <2>1
  <2> QED
    BY <2>2 DEF f
<1> HIDE DEF one, two, m, n
<1>7. fromPeer' = [fromPeer EXCEPT ![p] = one] \/ fromPeer' = [fromPeer EXCEPT ![p] = two]
  BY <1>2, <1>6
<1> QED
  BY <1>2, <1>3, <1>5, <1>7, ServeStep DEF held

(* A locator is served with the counts after the common one.                *)
LEMMA OnFindCommonAncestorStep ==
    ASSUME DownloadIInv, NEW p \in Peers, OnFindCommonAncestor(p)
    PROVE  DownloadIInv'
<1> DEFINE held == localInflightQueue[p]
           ids == After(p, Head(toPeer[p]).ids)
           told == Append(fromPeer[p], Inv(ids))
           to == Tail(toPeer[p])
<1>1. /\ WireOK(held, reader[p], fromPeer[p], toPeer[p])
      /\ remoteTip[p] \in 1 .. Len(Tips[p])
      /\ held \in Seq(Counts) /\ fromPeer[p] \in Seq(Answers)
      /\ DomainsOK
  BY AtPeer DEF DownloadIInv
<1>2. /\ toPeer[p] # <<>> /\ Head(toPeer[p]).type = "find_common_ancestor"
      /\ toPeer' = [toPeer EXCEPT ![p] = to]
      /\ UNCHANGED <<nodeVars, queueVars, reader, remoteTip, boundVars>>
      /\ \/ fromPeer' = fromPeer
         \/ ids # <<>> /\ fromPeer' = [fromPeer EXCEPT ![p] = fromPeer[p] \o <<Inv(ids)>>]
  BY DEF OnFindCommonAncestor, Asked, Served, Tell
<1>3. /\ to \in Seq(Requests) /\ WireOK(held, reader[p], fromPeer[p], to)
      /\ Head(toPeer[p]).ids \in Seq(Counts) /\ Genesis \in Range(Head(toPeer[p]).ids)
  BY <1>1, <1>2, WireServes
<1>4. ids \in Seq(Counts)
  BY <1>1, <1>3, AfterFacts
<1> HIDE DEF to, ids
<1>5. ids # <<>> => told \in Seq(Answers) /\ WireOK(held, reader[p], told, to)
  BY <1>1, <1>3, <1>4, WireTells
<1>6. fromPeer[p] \o <<Inv(ids)>> = told
  <2> DEFINE f == fromPeer[p]
             m == Inv(ids)
  <2>1. f \in Seq(Answers)
    BY <1>1
  <2> HIDE DEF f, m
  <2>2. f \o <<m>> = Append(f, m)
    BY <2>1
  <2> QED
    BY <2>2 DEF f, m
<1>7. fromPeer = [fromPeer EXCEPT ![p] = fromPeer[p]]
  BY <1>1 DEF DomainsOK
<1> HIDE DEF told
<1>8. CASE fromPeer' = fromPeer
  BY <1>1, <1>2, <1>3, <1>7, <1>8, ServeStep DEF held
<1>9. CASE ids # <<>> /\ fromPeer' = [fromPeer EXCEPT ![p] = fromPeer[p] \o <<Inv(ids)>>]
  <2>1. fromPeer' = [fromPeer EXCEPT ![p] = told]
    BY <1>6, <1>9
  <2> QED
    BY <1>2, <1>3, <1>5, <1>9, <2>1, ServeStep DEF held
<1> QED
  BY <1>2, <1>8, <1>9

(* A new tip is announced. *)
LEMMA AnnounceStep ==
    ASSUME DownloadIInv, NEW p \in Peers, Announce(p)
    PROVE  DownloadIInv'
<1> DEFINE held == localInflightQueue[p]
           next == Tips[p][remoteTip[p] + 1]
           told == Append(fromPeer[p], Inv(<<next>>))
<1>1. /\ LoopOK(localDownloadQueue[p], held, reader[p])
      /\ WireOK(held, reader[p], fromPeer[p], toPeer[p])
      /\ remoteTip[p] \in 1 .. Len(Tips[p])
      /\ held \in Seq(Counts) /\ fromPeer[p] \in Seq(Answers)
  BY AtPeer
<1>2. DomainsOK /\ NodeOK /\ FlightOK
  BY DEF DownloadIInv
<1>3. /\ remoteTip[p] < Len(Tips[p])
      /\ remoteTip' = [remoteTip EXCEPT ![p] = remoteTip[p] + 1]
      /\ \/ fromPeer' = fromPeer
         \/ fromPeer' = [fromPeer EXCEPT ![p] = fromPeer[p] \o <<Inv(<<next>>)>>]
      /\ UNCHANGED <<nodeVars, queueVars, reader, toPeer, continuationCountID, boundVars>>
  BY DEF Announce, Tell
<1>4. remoteTip[p] + 1 \in 1 .. Len(Tips[p]) /\ remoteTip[p] + 1 \in Nat
  <2>1. Len(Tips[p]) \in Nat
    BY DownloadAssumption
  <2> QED
    BY <1>1, <1>3, <2>1
<1>5. next \in Counts
  BY <1>4, TipFacts
<1> HIDE DEF next
<1>6. told \in Seq(Answers) /\ WireOK(held, reader[p], told, toPeer[p])
  <2>1. <<next>> \in Seq(Counts) /\ <<next>> # <<>>
    BY <1>5
  <2> QED
    BY <1>1, <2>1, WireTells
<1>7. fromPeer[p] \o <<Inv(<<next>>)>> = told
  <2> DEFINE f == fromPeer[p]
             m == Inv(<<next>>)
  <2>1. f \in Seq(Answers)
    BY <1>1
  <2> HIDE DEF f, m
  <2>2. f \o <<m>> = Append(f, m)
    BY <2>1
  <2> QED
    BY <2>2 DEF f, m
<1> HIDE DEF told, held
<1>8. /\ fromPeer' \in [Peers -> Seq(Answers)]
      /\ WireOK(held, reader[p], fromPeer'[p], toPeer[p])
      /\ \A q \in Peers \ {p} : fromPeer'[q] = fromPeer[q]
  <2>1. CASE fromPeer' = fromPeer
    BY <1>1, <1>2, <2>1 DEF DomainsOK
  <2>2. CASE fromPeer' = [fromPeer EXCEPT ![p] = fromPeer[p] \o <<Inv(<<next>>)>>]
    BY <1>2, <1>6, <1>7, <2>2 DEF DomainsOK
  <2> QED
    BY <1>3, <2>1, <2>2
<1>9. /\ remoteTip' \in [Peers -> Nat] /\ remoteTip'[p] \in 1 .. Len(Tips[p])
      /\ \A q \in Peers \ {p} : remoteTip'[q] = remoteTip[q]
  BY <1>2, <1>3, <1>4 DEF DomainsOK
<1>10. DomainsOK' /\ NodeOK' /\ FlightOK'
  BY <1>2, <1>3, <1>8, <1>9, FlightSame DEF DomainsOK, NodeOK, nodeVars, queueVars, boundVars
<1> QED
  BY <1>1, <1>3, <1>8, <1>9, <1>10, Assembled DEF queueVars, held

(* A count in flight has waited too long: history remembers it.             *)
LEMMA ExpireStep ==
    ASSUME DownloadIInv, NEW c \in Counts, Expire(c)
    PROVE  DownloadIInv'
<1>1. DomainsOK /\ NodeOK /\ FlightOK /\ \A p \in Peers : PeerOK(p)
  BY DEF DownloadIInv
<1>2. /\ c \in InFlight
      /\ everExpired' = everExpired \cup {c}
      /\ globalInflightQueue' = [globalInflightQueue EXCEPT ![c].expired = TRUE]
      /\ UNCHANGED <<nodeVars, localDownloadQueue, localInflightQueue, reader, toPeer,
                     fromPeer, remoteVars>>
  BY DEF Expire
<1>3. globalInflightQueue \in [InFlight -> [who : Peers, expired : BOOLEAN]]
  BY <1>1 DEF FlightOK
<1>4. /\ InFlight' = InFlight
      /\ globalInflightQueue' \in [InFlight -> [who : Peers, expired : BOOLEAN]]
      /\ \A d \in InFlight : /\ globalInflightQueue'[d].who = globalInflightQueue[d].who
                             /\ d # c => globalInflightQueue'[d] = globalInflightQueue[d]
  BY <1>2, <1>3 DEF InFlight
<1>5. FlightOK'
  <2>1. /\ InFlight' \subseteq Counts
        /\ globalInflightQueue' \in [InFlight' -> [who : Peers, expired : BOOLEAN]]
    BY <1>1, <1>4 DEF FlightOK
  <2>2. OwnerIsWaiting'
    BY <1>1, <1>2, <1>4 DEF FlightOK, OwnerIsWaiting
  <2>3. HeldOrExpired'
    BY <1>1, <1>2, <1>4 DEF FlightOK, HeldOrExpired
  <2>4. (\A d \in InFlight : globalInflightQueue[d].expired => d \in everExpired)'
    BY <1>1, <1>2, <1>4 DEF FlightOK
  <2> QED
    BY <2>1, <2>2, <2>3, <2>4 DEF FlightOK
<1>6. DomainsOK' /\ NodeOK'
  BY <1>1, <1>2 DEF DomainsOK, NodeOK, nodeVars, remoteVars
<1>7. \A p \in Peers : PeerOK(p)'
  BY <1>1, <1>2 DEF PeerOK, LoopOK, WireOK, remoteVars
<1> QED
  BY <1>5, <1>6, <1>7 DEF DownloadIInv

-----------------------------------------------------------------------------
(* The invariant holds initially and is kept *)

(* Nobody is connected, nothing is held. *)
LEMMA DownloadInit == Init => DownloadIInv
<1> SUFFICES ASSUME Init PROVE DownloadIInv
  OBVIOUS
<1> DEFINE s == [at |-> "gone", id |-> NoCount]
<1>1. s \in Readers /\ s.at \notin {"add", "process"}
  BY DEF Readers
<1>2. <<>> \in Seq(Counts) /\ <<>> \in Seq(Answers) /\ <<>> \in Seq(Requests)
  OBVIOUS
<1>3. /\ localDownloadQueue = [p \in Peers |-> <<>>]
      /\ localInflightQueue = [p \in Peers |-> <<>>]
      /\ reader = [p \in Peers |-> s]
      /\ toPeer = [p \in Peers |-> <<>>] /\ fromPeer = [p \in Peers |-> <<>>]
      /\ remoteTip = [p \in Peers |-> 1]
      /\ InFlight = {} /\ globalInflightQueue = [c \in {} |-> NoCount]
      /\ processed = {Genesis} /\ stored = {Genesis} /\ tip = Genesis
  BY DEF Init, InFlight
<1> HIDE DEF s
<1>4. DomainsOK
  BY <1>1, <1>2, <1>3 DEF DomainsOK
<1>5. NodeOK
  BY <1>3, DownloadAssumption DEF NodeOK
<1>6. FlightOK
  <2>1. \A p \in Peers : Range(localInflightQueue[p]) = {}
    BY <1>3 DEF Range
  <2>2. globalInflightQueue \in [InFlight -> [who : Peers, expired : BOOLEAN]]
    BY <1>3
  <2> QED
    BY <1>3, <2>1, <2>2 DEF FlightOK, OwnerIsWaiting, HeldOrExpired
<1>7. ASSUME NEW p \in Peers PROVE PeerOK(p)
  <2>1. LoopOK(<<>>, <<>>, s) /\ WireOK(<<>>, s, <<>>, <<>>)
    BY <1>1, LoopCloses
  <2>2. 1 \in 1 .. Len(Tips[p])
    BY DownloadAssumption
  <2> QED
    BY <1>3, <2>1, <2>2 DEF PeerOK
<1> QED
  BY <1>4, <1>5, <1>6, <1>7 DEF DownloadIInv

(* One step of each kind. *)
LEMMA DownloadStep == DownloadIInv /\ [Next]_vars => DownloadIInv'
<1> SUFFICES ASSUME DownloadIInv, [Next]_vars PROVE DownloadIInv'
  OBVIOUS
<1>1. ASSUME NEW p \in Peers, Read(p) PROVE DownloadIInv'
  BY <1>1, OnInvCountStep, FillStep, FillEndsStep, RequestStep, OnOrphanStep, OnCountStep,
     CountProcessedStep, EndStep DEF Read
<1>2. ASSUME NEW p \in Peers, Serve(p) PROVE DownloadIInv'
  BY <1>2, OnGetCountStep, OnFindCommonAncestorStep DEF Serve
<1>3. ASSUME NEW p \in Peers, Connect(p) PROVE DownloadIInv'
  BY <1>3, ConnectStep
<1>4. ASSUME NEW p \in Peers, Announce(p) PROVE DownloadIInv'
  BY <1>4, AnnounceStep
<1>5. ASSUME NEW p \in Peers, Pong(p) PROVE DownloadIInv'
  BY <1>5, FillEndsStep
<1>6. ASSUME NEW p \in Peers, Stall(p) \/ Drop(p) PROVE DownloadIInv'
  BY <1>6, EndStep
<1>7. ASSUME NEW c \in Counts, Expire(c) PROVE DownloadIInv'
  BY <1>7, ExpireStep
<1>8. CASE UNCHANGED vars
  BY <1>8 DEF vars, nodeVars, queueVars, remoteVars, boundVars, DownloadIInv, DomainsOK, NodeOK,
        FlightOK, InFlight, OwnerIsWaiting, HeldOrExpired, PeerOK, LoopOK, WireOK
<1> QED
  BY <1>1, <1>2, <1>3, <1>4, <1>5, <1>6, <1>7, <1>8 DEF Next

-----------------------------------------------------------------------------
(* What follows *)

(* Two sequences without common members, one behind the other.              *)
LEMMA ApartIsInjective ==
    ASSUME NEW down \in Seq(Counts), NEW held \in Seq(Counts), Apart(down, held)
    PROVE  IsInjective(down \o held)
<1> DEFINE both == down \o held
           n == Len(down)
<1>1. /\ n \in Nat /\ Len(held) \in Nat /\ DOMAIN both = 1 .. n + Len(held)
      /\ \A i \in 1 .. n + Len(held) :
            both[i] = IF i <= n THEN down[i] ELSE held[i - n]
  OBVIOUS
<1>2. /\ \A i, j \in 1 .. n : down[i] = down[j] => i = j
      /\ \A i, j \in 1 .. Len(held) : held[i] = held[j] => i = j
      /\ \A i \in 1 .. n, j \in 1 .. Len(held) : down[i] # held[j]
  BY DEF Apart
<1> HIDE DEF both, n
<1>3. ASSUME NEW i \in 1 .. n + Len(held), NEW j \in 1 .. n + Len(held), both[i] = both[j]
      PROVE  i = j
  <2>1. /\ i <= n => i \in 1 .. n /\ both[i] = down[i]
        /\ ~(i <= n) => i - n \in 1 .. Len(held) /\ both[i] = held[i - n]
    BY <1>1
  <2>2. /\ j <= n => j \in 1 .. n /\ both[j] = down[j]
        /\ ~(j <= n) => j - n \in 1 .. Len(held) /\ both[j] = held[j - n]
    BY <1>1
  <2>3. CASE i <= n /\ j <= n
    BY <1>2, <1>3, <2>1, <2>2, <2>3
  <2>4. CASE ~(i <= n) /\ ~(j <= n)
    <3>1. i - n = j - n
      BY <1>2, <1>3, <2>1, <2>2, <2>4
    <3> QED
      BY <1>1, <3>1
  <2>5. CASE (i <= n /\ ~(j <= n)) \/ (~(i <= n) /\ j <= n)
    BY <1>2, <1>3, <2>1, <2>2, <2>5
  <2> QED
    BY <2>3, <2>4, <2>5
<1> QED
  BY <1>1, <1>3 DEF IsInjective, both

(* What each connection and the shared queue hold, from the invariant.      *)
LEMMA QueuesFollow == DownloadIInv => DownloadInv
<1> SUFFICES ASSUME DownloadIInv PROVE DownloadInv
  OBVIOUS
<1>1. DomainsOK /\ NodeOK /\ FlightOK
  BY DEF DownloadIInv
<1>2. ASSUME NEW p \in Peers
      PROVE  /\ Len(localDownloadQueue[p]) <= downloadQueueMax
             /\ Len(localInflightQueue[p]) <= inflightQueueMax
             /\ IsInjective(localDownloadQueue[p] \o localInflightQueue[p])
  <2>1. /\ LoopOK(localDownloadQueue[p], localInflightQueue[p], reader[p])
        /\ localDownloadQueue[p] \in Seq(Counts) /\ localInflightQueue[p] \in Seq(Counts)
    BY AtPeer
  <2>2. Apart(localDownloadQueue[p], localInflightQueue[p])
    BY <2>1 DEF LoopOK
  <2> QED
    BY <2>1, <2>2, ApartIsInjective DEF LoopOK
<1>3. \A c \in InFlight : c \in Counts /\ globalInflightQueue[c].who \in Peers
  BY <1>1 DEF FlightOK
<1>4. DownloadTypeOK
  BY <1>1, <1>2, <1>3 DEF DownloadTypeOK, DomainsOK, NodeOK, Readers
<1> QED
  BY <1>1, <1>4 DEF DownloadInv, FlightOK

(* The order of what is under way, from the invariant.                      *)
LEMMA OrderFollows == DownloadIInv => InFlightIsUnderWay
<1> SUFFICES ASSUME DownloadIInv, NEW p \in Peers
             PROVE  LET held == localInflightQueue[p]
                        taken == IF reader[p].at = "process" THEN 1 ELSE 0
                        answered == taken + OfType(fromPeer[p], "count", Len(fromPeer[p]))
                    IN  /\ Len(held) = answered + OfType(toPeer[p], "get_count", Len(toPeer[p]))
                        /\ taken = 1 => held[1] = reader[p].id
                        /\ \A i \in DOMAIN fromPeer[p] :
                              fromPeer[p][i].type = "count" =>
                                held[taken + OfType(fromPeer[p], "count", i)]
                                  = fromPeer[p][i].ids[1]
                        /\ \A i \in DOMAIN toPeer[p] :
                              toPeer[p][i].type = "get_count" =>
                                held[answered + OfType(toPeer[p], "get_count", i)]
                                  = toPeer[p][i].ids[1]
  BY DEF InFlightIsUnderWay
<1> DEFINE taken == IF reader[p].at = "process" THEN 1 ELSE 0
<1>1. /\ LoopOK(localDownloadQueue[p], localInflightQueue[p], reader[p])
      /\ WireOK(localInflightQueue[p], reader[p], fromPeer[p], toPeer[p])
      /\ fromPeer[p] \in Seq(Answers) /\ toPeer[p] \in Seq(Requests)
  BY AtPeer
<1>2. Way(localInflightQueue[p], taken, fromPeer[p], toPeer[p])
  BY <1>1 DEF WireOK
<1>3. taken = 1 => localInflightQueue[p][1] = reader[p].id
  BY <1>1 DEF LoopOK
<1>4. DOMAIN fromPeer[p] = 1 .. Len(fromPeer[p]) /\ DOMAIN toPeer[p] = 1 .. Len(toPeer[p])
  BY <1>1
<1> QED
  BY <1>2, <1>3, <1>4 DEF Way

(* Two connections hold one count only after it expired, from the           *)
(* invariant.                                                               *)
LEMMA OnceFollows == DownloadIInv => OneRequestPerCount
BY DEF DownloadIInv, FlightOK, HeldOrExpired, OneRequestPerCount

-----------------------------------------------------------------------------
(* Theorems *)

(* The invariant holds in every state. *)
LEMMA DownloadInvariant == Spec => []DownloadIInv
BY DownloadInit, DownloadStep, PTL DEF Spec

(* The local queues of a connection keep to their limits and hold no count  *)
(* twice (peer.go, onInvCount and processDownloadQueue), and an entry of    *)
(* the shared queue always belongs to a connection that still waits for the *)
(* count: no download is blocked by a connection that ended or gave up.     *)
THEOREM QueuesFit == Spec => []DownloadInv
BY DownloadInvariant, QueuesFollow, PTL

(* What a connection holds in flight is what its peer was asked and has not *)
(* answered, what it answered and what is being processed, in this order    *)
(* (peer.go, processDownloadQueue and onCount), whatever others request,    *)
(* expire or lose meanwhile.                                                *)
THEOREM AnswersInOrder == Spec => []InFlightIsUnderWay
BY DownloadInvariant, OrderFollows, PTL

(* So a peer that answers every request in turn is never ended as           *)
(* misbehaving (peer.go, onCount): the count at the head of its answers is  *)
(* the first one in flight.                                                 *)
THEOREM HonestPeersStay ==
    Spec => [](\A p \in Peers :
                  Reading(p, "count") => Expected(p, Head(Head(fromPeer[p]).ids)))
<1>1. DownloadIInv => \A p \in Peers :
         Reading(p, "count") => Expected(p, Head(Head(fromPeer[p]).ids))
  <2> SUFFICES ASSUME DownloadIInv, NEW p \in Peers, Reading(p, "count")
               PROVE  Expected(p, Head(Head(fromPeer[p]).ids))
    OBVIOUS
  <2>1. /\ WireOK(localInflightQueue[p], reader[p], fromPeer[p], toPeer[p])
        /\ localInflightQueue[p] \in Seq(Counts)
    BY AtPeer
  <2>2. localInflightQueue[p] # <<>>
        /\ localInflightQueue[p][1] = Head(Head(fromPeer[p]).ids)
    BY <2>1, WireTakes DEF Reading
  <2> QED
    BY <2>1, <2>2, TailFacts DEF Expected
<1> QED
  BY <1>1, DownloadInvariant, PTL

(* The shared queue does its work: a count is requested from a second peer  *)
(* only after the first request waited too long (stage_queue.go, Add).      *)
THEOREM AskedOnce == Spec => []OneRequestPerCount
BY DownloadInvariant, OnceFollows, PTL
=============================================================================
