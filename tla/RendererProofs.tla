--------------------------- MODULE RendererProofs ---------------------------
(***************************************************************************)
(* Proofs about the work of the renderer and of a peer, for every set of   *)
(* considerations, any size of the queue, of the counts and of the         *)
(* channels: what is submitted is the count its header was made for, and   *)
(* who has heard of everything works on the tip.                           *)
(***************************************************************************)
EXTENDS Renderer, FiniteSetTheorems, TLAPS

-----------------------------------------------------------------------------
(* The inductive invariant                                                  *)

(* A sequence, of whatever elements. *)
IsSeq(s) == s \in Seq({s[i] : i \in DOMAIN s})

(* A count whose header commits to its considerations. *)
Whole(w) ==
    w = [header |-> [previous |-> w.header.previous, root |-> w.cns], cns |-> w.cns]

(* Places of a worker that gets no messages. *)
Unregistered == {"away", "new"}

(* The processor is moving the tip. *)
Reorganising == job.step \in {"ledger", "queue", "send"}

(* The length of the best branch so far.  No count on the way to another    *)
(* branch is longer, but for the last one.                                  *)
Bound == IF Reorganising /\ job.redo # <<>> THEN Len(job.old) ELSE Len(tip)

(* A branch that is no longer than the best. *)
IsCount(c) == IsSeq(c) /\ Len(c) <= Bound

(* Places of the workers, and tables with a row for each. *)
LoopsOK ==
    /\ at \in [Workers -> Unregistered \cup {"select", "read", "calling"}]
    /\ seen = [a \in Workers |-> seen[a]]
    /\ work = [a \in Workers |-> work[a]]
    /\ tipChangeChan = [a \in Workers |-> tipChangeChan[a]]

(* Every worker's count is whole, and on a branch not longer than the best. *)
WorkOK ==
    \A a \in Workers :
        /\ work[a] # None => Whole(work[a]) /\ IsCount(work[a].header.previous)
        /\ at[a] = "calling" => Whole(work[a]) /\ IsCount(work[a].header.previous)
        /\ at[a] = "read" => IsCount(seen[a])
        /\ at[a] \in Unregistered => work[a] = None /\ tipChangeChan[a] = <<>>

(* Messages are about such branches too. *)
ChannelsOK ==
    \A a \in Workers :
        /\ IsSeq(tipChangeChan[a])
        /\ \A i \in 1 .. Len(tipChangeChan[a]) : IsCount(tipChangeChan[a][i].count)

(* What is on its way to the peer, at the peer, or on its way back. *)
Items == Range(toPeer) \cup ({peerWork, submission} \ {None})

(* One piece of work is under way to the peer at most, and what carries the *)
(* ID of the current work has its header.                                   *)
PeerOK ==
    /\ IsSeq(toPeer) /\ Len(toPeer) <= 1
    /\ at[W] = "read" => toPeer = <<>>
    /\ workID # None => Whole(work[W]) /\ IsCount(work[W].header.previous)
    /\ \A m \in Items : m.id \in WorkIDs
    /\ \A m \in Items : m.id = workID => m.header = work[W].header

(* The stored counts; between two calls the tip is the longest. *)
CountsOK ==
    /\ IsSeq(tip)
    /\ \A c \in stored : IsSeq(c)
    /\ ~Reorganising => \A c \in stored : Len(c) <= Len(tip)

(* The call in progress, and the worker that waits for it. *)
JobOK ==
    /\ job = [undo |-> job.undo, redo |-> job.redo, step |-> job.step,
              sending |-> job.sending, message |-> job.message,
              caller |-> job.caller, old |-> job.old]
    /\ job.step = "none" => job = NoJob
    /\ job.step \in {"none", "ledger", "queue", "send", "announce"}
    /\ job.caller # None => job.caller \in Workers /\ at[job.caller] = "calling"
    /\ job.step = "announce" => job.caller = None
    /\ \A b \in job.sending : b \in Workers /\ at[b] \in {"select", "read", "calling"}

(* The last message of a reorganisation that leads to this tip. *)
Final(t) == [count |-> t, connect |-> TRUE, more |-> FALSE]

(* Where the reorganisation ends. *)
Target == IF job.redo = <<>> THEN tip ELSE job.redo[Len(job.redo)]

(* The way to the better branch, or back: it is no longer than the best     *)
(* branch and one count, it comes by the old tip at its end at most, and    *)
(* its last step connects.                                                  *)
PlanOK ==
    Reorganising =>
        /\ IsSeq(job.redo) /\ IsSeq(job.old)
        /\ job.undo \in Nat /\ job.undo <= Len(tip)
        /\ job.redo = <<>> => job.undo = 0
        /\ \A i \in 1 .. Len(job.redo) :
              /\ IsSeq(job.redo[i])
              /\ Len(job.redo[i]) = Len(tip) - job.undo + i
              /\ i < Len(job.redo) => job.redo[i] # job.old
        /\ Len(Target) \in {Len(job.old), Len(job.old) + 1}
        /\ job.redo # <<>> => Len(tip) <= Len(job.old)
        /\ \A c \in stored : c = Target \/ Len(c) <= Len(job.old)
        /\ job.step = "ledger" => job.redo # <<>>
        /\ job.step # "ledger" =>
              /\ job.redo # <<>> => tip # job.old
              /\ IsCount(job.message.count)
              /\ job.redo = <<>> => job.message = Final(tip)

(* Who has been told of the tip: everyone, unless a reorganisation is under *)
(* way that has moved it; then those who got its last message.              *)
Told(a) ==
    /\ at[a] \notin Unregistered
    /\ \/ ~Reorganising
       \/ job.step = "ledger" /\ tip = job.old
       \/ job.step = "send" /\ job.redo = <<>> /\ a \notin job.sending

(* They work on the tip, or find it last in their channel. *)
ToldOK ==
    \A a \in Workers : Told(a) =>
        IF tipChangeChan[a] = <<>>
          THEN /\ work[a] # None => work[a].header.previous = tip
               /\ at[a] = "read" => seen[a] = tip
          ELSE tipChangeChan[a][Len(tipChangeChan[a])] = Final(tip)

(* The inductive invariant. *)
RendererIInv ==
    LoopsOK /\ WorkOK /\ ChannelsOK /\ PeerOK /\ CountsOK /\ JobOK /\ PlanOK /\ ToldOK

-----------------------------------------------------------------------------
(* Sequences                                                                *)

(* A sequence is one of its own elements. *)
LEMMA SequenceIsSeq ==
    ASSUME NEW S, NEW s \in Seq(S)
    PROVE  IsSeq(s)
<1>1. s \in Seq({s[i] : i \in DOMAIN s})
  <2> DEFINE T == {s[i] : i \in DOMAIN s}
  <2>1. Len(s) \in Nat /\ DOMAIN s = 1 .. Len(s)
    OBVIOUS
  <2>2. s = [i \in 1 .. Len(s) |-> s[i]]
    OBVIOUS
  <2>3. \A i \in 1 .. Len(s) : s[i] \in T
    BY <2>1
  <2> HIDE DEF T
  <2>4. s \in [1 .. Len(s) -> T]
    BY <2>2, <2>3
  <2>5. s \in Seq(T)
    BY <2>1, <2>4
  <2> QED
    BY <2>5 DEF T
<1> QED
  BY <1>1 DEF IsSeq

(* Length, positions and ends of a sequence. *)
LEMMA IsSeqFacts ==
    ASSUME NEW s, IsSeq(s)
    PROVE  /\ Len(s) \in Nat /\ DOMAIN s = 1 .. Len(s)
           /\ s = <<>> <=> Len(s) = 0
           /\ Len(s) > 0 => /\ Last(s) = s[Len(s)] /\ Head(s) = s[1]
                            /\ IsSeq(Tail(s)) /\ Len(Tail(s)) = Len(s) - 1
                            /\ \A i \in 1 .. Len(s) - 1 : Tail(s)[i] = s[i + 1]
                            /\ IsSeq(Front(s)) /\ Len(Front(s)) = Len(s) - 1
<1> DEFINE S == {s[i] : i \in DOMAIN s}
<1>1. s \in Seq(S)
  BY DEF IsSeq
<1> HIDE DEF S
<1>2. /\ Len(s) \in Nat /\ DOMAIN s = 1 .. Len(s)
      /\ s = <<>> <=> Len(s) = 0
  BY <1>1
<1>3. ASSUME Len(s) > 0
      PROVE  /\ Tail(s) \in Seq(S) /\ Len(Tail(s)) = Len(s) - 1
             /\ \A i \in 1 .. Len(s) - 1 : Tail(s)[i] = s[i + 1]
             /\ Head(s) = s[1]
  BY <1>1, <1>3
<1>4. ASSUME Len(s) > 0
      PROVE  Front(s) \in Seq(S) /\ Len(Front(s)) = Len(s) - 1
  <2>1. /\ Len(s) - 1 \in Nat /\ Front(s) = SubSeq(s, 1, Len(s) - 1)
        /\ \A i \in 1 .. Len(s) - 1 : s[i] \in S
    BY <1>1, <1>2, <1>4 DEF Front
  <2> QED
    BY <2>1
<1>5. Last(s) = s[Len(s)]
  BY DEF Last
<1>6. ASSUME Len(s) > 0 PROVE IsSeq(Tail(s)) /\ IsSeq(Front(s))
  BY <1>3, <1>4, <1>6, SequenceIsSeq
<1> QED
  BY <1>2, <1>3, <1>4, <1>5, <1>6

(* The empty one. *)
LEMMA EmptyIsSeq == IsSeq(<<>>) /\ Len(<<>>) = 0
<1>1. <<>> \in Seq({})
  OBVIOUS
<1>2. IsSeq(<<>>)
  BY <1>1, SequenceIsSeq
<1> QED
  BY <1>2

(* One more element. *)
LEMMA AppendIsSeq ==
    ASSUME NEW s, IsSeq(s), NEW e
    PROVE  /\ IsSeq(Append(s, e)) /\ Len(Append(s, e)) = Len(s) + 1
           /\ Append(s, e)[Len(s) + 1] = e
           /\ \A i \in 1 .. Len(s) : Append(s, e)[i] = s[i]
<1> DEFINE S == {s[i] : i \in DOMAIN s}
           T == S \cup {e}
<1>1. s \in Seq(T) /\ e \in T
  BY DEF IsSeq
<1> HIDE DEF S, T
<1>2. /\ Append(s, e) \in Seq(T) /\ Len(Append(s, e)) = Len(s) + 1
      /\ Append(s, e)[Len(s) + 1] = e
      /\ \A i \in 1 .. Len(s) : Append(s, e)[i] = s[i]
  BY <1>1
<1>3. IsSeq(Append(s, e))
  BY <1>2, SequenceIsSeq
<1> QED
  BY <1>2, <1>3

(* The first elements of one. *)
LEMMA PrefixIsSeq ==
    ASSUME NEW s, IsSeq(s), NEW n \in 0 .. Len(s)
    PROVE  /\ IsSeq(SubSeq(s, 1, n)) /\ Len(SubSeq(s, 1, n)) = n
           /\ n = Len(s) => SubSeq(s, 1, n) = s
<1> DEFINE S == {s[i] : i \in DOMAIN s}
<1>1. s \in Seq(S)
  BY DEF IsSeq
<1> HIDE DEF S
<1>2. Len(s) \in Nat /\ n \in Nat /\ n <= Len(s)
  BY <1>1
<1>3. \A i \in 1 .. n : s[i] \in S
  BY <1>1, <1>2
<1>4. SubSeq(s, 1, n) \in Seq(S) /\ Len(SubSeq(s, 1, n)) = n
  BY <1>1, <1>2, <1>3
<1>5. n = Len(s) => SubSeq(s, 1, n) = s
  BY <1>1
<1> QED
  BY <1>4, <1>5, SequenceIsSeq

-----------------------------------------------------------------------------
(* Plans                                                                    *)

(* What two branches share is as long as the shorter one at most, and that  *)
(* long only if one is the beginning of the other.                          *)
LEMMA SharedFacts ==
    ASSUME NEW c, IsSeq(c), NEW d, IsSeq(d)
    PROVE  /\ Shared(c, d) \in 0 .. Len(c) /\ Shared(c, d) \in 0 .. Len(d)
           /\ Len(d) <= Len(c) /\ SubSeq(c, 1, Len(d)) = d => Shared(c, d) = Len(d)
           /\ Len(d) = Len(c) /\ c # d => Shared(c, d) # Len(c)
<1> DEFINE both == {h \in DOMAIN c \cap DOMAIN d : SubSeq(c, 1, h) = SubSeq(d, 1, h)}
<1>1. /\ Len(c) \in Nat /\ DOMAIN c = 1 .. Len(c) /\ SubSeq(c, 1, Len(c)) = c
      /\ Len(d) \in Nat /\ DOMAIN d = 1 .. Len(d) /\ SubSeq(d, 1, Len(d)) = d
  BY IsSeqFacts, PrefixIsSeq
<1>2. /\ IsFiniteSet(1 .. Len(c)) /\ Cardinality(1 .. Len(c)) = Len(c)
      /\ IsFiniteSet(1 .. Len(d)) /\ Cardinality(1 .. Len(d)) = Len(d)
  <2>1. \A n \in Nat : IsFiniteSet(1 .. n) /\ Cardinality(1 .. n) = n
    <3> TAKE n \in Nat
    <3>1. Cardinality(1 .. n) = IF 1 > n THEN 0 ELSE n - 1 + 1
      BY FS_Interval
    <3>2. IsFiniteSet(1 .. n)
      BY FS_Interval
    <3> QED
      BY <3>1, <3>2
  <2> QED
    BY <1>1, <2>1
<1>3. both \in SUBSET (1 .. Len(c)) /\ both \in SUBSET (1 .. Len(d))
  BY <1>1
<1>4. Shared(c, d) = Cardinality(both)
  BY DEF Shared
<1> HIDE DEF both
<1>5. /\ Cardinality(both) \in Nat
      /\ Cardinality(both) <= Len(c) /\ Cardinality(both) <= Len(d)
      /\ Cardinality(both) = Len(c) => both = 1 .. Len(c)
  BY <1>2, <1>3, FS_Subset, FS_CardinalityType
<1>6. ASSUME Len(d) <= Len(c), SubSeq(c, 1, Len(d)) = d PROVE Cardinality(both) = Len(d)
  <2>1. ASSUME NEW h \in 1 .. Len(d) PROVE SubSeq(c, 1, h) = SubSeq(d, 1, h)
    <3> DEFINE S == {c[i] : i \in DOMAIN c}
    <3>1. c \in Seq(S)
      BY DEF IsSeq
    <3> HIDE DEF S
    <3>2. h \in Nat /\ h <= Len(d) /\ h <= Len(c)
      BY <1>1, <1>6
    <3>3. \A i \in 1 .. Len(d) : SubSeq(c, 1, Len(d))[i] = c[i]
      BY <1>1, <1>6, <3>1
    <3>4. \A i \in 1 .. Len(d) : d[i] = c[i]
      BY <1>6, <3>3
    <3>5. /\ SubSeq(c, 1, h) = [i \in 1 .. h |-> c[i]]
          /\ SubSeq(d, 1, h) = [i \in 1 .. h |-> d[i]]
      BY <3>2
    <3>6. \A i \in 1 .. h : i \in 1 .. Len(d)
      BY <1>1, <3>2
    <3> QED
      BY <3>4, <3>5, <3>6
  <2>2. 1 .. Len(d) \subseteq 1 .. Len(c)
    BY <1>1, <1>6
  <2>3. both = 1 .. Len(d)
    BY <1>1, <2>1, <2>2 DEF both
  <2> QED
    BY <1>2, <2>3
<1>7. ASSUME Len(d) = Len(c), c # d PROVE Cardinality(both) # Len(c)
  <2>1. SUFFICES ASSUME both = 1 .. Len(c), Len(c) # 0 PROVE FALSE
    <3>1. Len(c) = 0 => c = d
      BY <1>7, IsSeqFacts
    <3> QED
      BY <1>5, <1>7, <3>1
  <2>2. Len(c) \in both
    BY <1>1, <2>1
  <2> QED
    BY <1>1, <1>7, <2>2 DEF both
<1>8. Shared(c, d) \in 0 .. Len(c) /\ Shared(c, d) \in 0 .. Len(d)
  BY <1>1, <1>4, <1>5
<1> QED
  BY <1>4, <1>6, <1>7, <1>8

(* The plans there are: to a count one longer than the tip, or back to the  *)
(* old tip, which is not the tip and not shorter.                           *)
LEMMA PlanFacts ==
    ASSUME NEW c, IsSeq(c), NEW old, IsSeq(old), IsSeq(tip), NEW caller,
           \/ old = tip /\ Len(c) = Len(tip) + 1
           \/ c = old /\ tip # old /\ Len(tip) <= Len(old)
    PROVE  LET p == Plan(c, caller, old) IN
           /\ p.undo \in Nat /\ p.undo <= Len(tip)
           /\ IsSeq(p.redo) /\ p.redo # <<>>
           /\ \A i \in 1 .. Len(p.redo) :
                 /\ IsSeq(p.redo[i])
                 /\ Len(p.redo[i]) = Len(tip) - p.undo + i
                 /\ i < Len(p.redo) => p.redo[i] # old
           /\ p.redo[Len(p.redo)] = c
<1> DEFINE common == Shared(c, tip)
           redo == [i \in 1 .. Len(c) - common |-> SubSeq(c, 1, common + i)]
<1>1. /\ Len(c) \in Nat /\ Len(tip) \in Nat /\ Len(old) \in Nat
      /\ common \in Nat /\ common <= Len(c) /\ common <= Len(tip)
  BY IsSeqFacts, SharedFacts
<1>2. common < Len(c)
  <2>1. CASE old = tip /\ Len(c) = Len(tip) + 1
    BY <1>1, <2>1
  <2>2. CASE c = old /\ tip # old /\ Len(tip) <= Len(old)
    <3>1. CASE Len(tip) = Len(c)
      BY <1>1, <2>2, <3>1, SharedFacts
    <3>2. CASE Len(tip) # Len(c)
      BY <1>1, <2>2, <3>2
    <3> QED
      BY <3>1, <3>2
  <2> QED
    BY <2>1, <2>2
<1>3. /\ Plan(c, caller, old).undo = Len(tip) - common
      /\ Plan(c, caller, old).redo = redo
  BY DEF Plan
<1> HIDE DEF common
<1>4. \A i \in 1 .. Len(c) - common :
         IsSeq(SubSeq(c, 1, common + i)) /\ Len(SubSeq(c, 1, common + i)) = common + i
  <2> TAKE i \in 1 .. Len(c) - common
  <2>1. common + i \in 0 .. Len(c)
    BY <1>1
  <2> QED
    BY <2>1, PrefixIsSeq
<1>5. IsSeq(redo) /\ Len(redo) = Len(c) - common /\ redo # <<>>
  <2> DEFINE S == {SubSeq(c, 1, common + i) : i \in 1 .. Len(c) - common}
             n == Len(c) - common
  <2>1. n \in Nat /\ n > 0
    BY <1>1, <1>2
  <2>2. redo \in [1 .. n -> S]
    OBVIOUS
  <2> HIDE DEF S, n, redo
  <2>3. redo \in Seq(S) /\ Len(redo) = n /\ redo # <<>>
    BY <2>1, <2>2
  <2> QED
    BY <2>3, SequenceIsSeq DEF n
<1>6. ASSUME NEW i \in 1 .. Len(c) - common, i < Len(c) - common
      PROVE  SubSeq(c, 1, common + i) # old
  <2>1. SUFFICES ASSUME SubSeq(c, 1, common + i) = old PROVE FALSE
    OBVIOUS
  <2>2. Len(old) = common + i
    BY <1>4, <2>1
  <2>3. CASE old = tip /\ Len(c) = Len(tip) + 1
    <3>1. common = Len(tip)
      BY <1>1, <2>1, <2>2, <2>3, SharedFacts DEF common
    <3> QED
      BY <1>1, <2>2, <2>3, <3>1
  <2>4. CASE c = old
    BY <1>1, <1>6, <2>2, <2>4
  <2> QED
    BY <2>3, <2>4
<1>7. redo[Len(redo)] = c
  <2>1. common + (Len(c) - common) = Len(c) /\ Len(c) - common \in 1 .. Len(c) - common
    BY <1>1, <1>2
  <2>2. SubSeq(c, 1, Len(c)) = c
    BY <1>1, PrefixIsSeq
  <2> QED
    BY <1>5, <2>1, <2>2
<1>8. Len(tip) - (Len(tip) - common) = common /\ Len(tip) - common \in Nat
      /\ Len(tip) - common <= Len(tip)
  BY <1>1
<1>9. \A i \in 1 .. Len(redo) :
         IsSeq(redo[i]) /\ Len(redo[i]) = common + i /\ (i < Len(redo) => redo[i] # old)
  BY <1>4, <1>5, <1>6
<1> HIDE DEF redo
<1> QED
  BY <1>3, <1>5, <1>7, <1>8, <1>9

-----------------------------------------------------------------------------
(* New work                                                                 *)

(* A set with another element has one element more at most. *)
LEMMA OneMore ==
    ASSUME NEW T, IsFiniteSet(T), NEW x
    PROVE  /\ IsFiniteSet(T \cup {x}) /\ Cardinality(T \cup {x}) \in Nat
           /\ Cardinality(T \cup {x}) <= Cardinality(T) + 1
<1>1. Cardinality(T) \in Nat
  BY FS_CardinalityType
<1>2. /\ IsFiniteSet(T \cup {x})
      /\ Cardinality(T \cup {x}) = IF x \in T THEN Cardinality(T) ELSE Cardinality(T) + 1
  BY FS_AddElement
<1> QED
  BY <1>1, <1>2

(* While nothing is on its way to the peer, at most three IDs are taken.    *)
LEMMA FreshID ==
    ASSUME toPeer = <<>>
    PROVE  (CHOOSE i \in WorkIDs : i \notin Outstanding) \in WorkIDs \ Outstanding
<1> DEFINE taken == {workID, peerWork.id, submission.id}
<1>1. Range(toPeer) = {}
  BY DEF Range
<1>2. Outstanding \subseteq taken
  BY <1>1 DEF Outstanding
<1>3. IsFiniteSet(taken) /\ Cardinality(taken) <= 3
  <2> DEFINE T1 == {} \cup {workID}
             T2 == T1 \cup {peerWork.id}
             T3 == T2 \cup {submission.id}
  <2>1. IsFiniteSet({}) /\ Cardinality({}) = 0
    BY FS_EmptySet
  <2>2. taken = T3
    OBVIOUS
  <2>3. /\ IsFiniteSet(T1) /\ Cardinality(T1) \in Nat
        /\ Cardinality(T1) <= Cardinality({}) + 1
    BY <2>1, OneMore
  <2>4. /\ IsFiniteSet(T2) /\ Cardinality(T2) \in Nat
        /\ Cardinality(T2) <= Cardinality(T1) + 1
    <3> HIDE DEF T1
    <3> QED
      BY <2>3, OneMore
  <2>5. /\ IsFiniteSet(T3) /\ Cardinality(T3) \in Nat
        /\ Cardinality(T3) <= Cardinality(T2) + 1
    <3> HIDE DEF T2
    <3> QED
      BY <2>4, OneMore
  <2> HIDE DEF T1, T2, T3
  <2>6. IsFiniteSet(T3) /\ Cardinality(T3) <= 3
    BY <2>1, <2>3, <2>4, <2>5
  <2> QED
    BY <2>2, <2>6
<1> HIDE DEF taken
<1>4. ~ WorkIDs \subseteq Outstanding
  <2>1. SUFFICES ASSUME WorkIDs \in SUBSET taken PROVE FALSE
    BY <1>2
  <2>2. Cardinality(WorkIDs) <= Cardinality(taken) /\ Cardinality(WorkIDs) \in Nat
        /\ Cardinality(taken) \in Nat
    BY <1>3, <2>1, FS_Subset, FS_CardinalityType
  <2> QED
    BY <1>3, <2>2, RendererAssumption
<1> QED
  BY <1>4

(* A count that is made commits to its considerations. *)
LEMMA NextCountIsWhole ==
    ASSUME NEW previous
    PROVE  /\ Whole(NextCount(previous))
           /\ NextCount(previous).header.previous = previous
  BY DEF NextCount, Whole

(* The renderer and the peer's loop are two workers. *)
LEMMA WorkersDiffer == R # W /\ R \in Workers /\ W \in Workers /\ None \notin Workers
                       /\ None \notin WorkIDs
  BY RendererAssumption DEF Workers

(* New work is a whole count on the branch that was found; the peer's has   *)
(* an ID of its own.                                                        *)
LEMMA StartFacts ==
    ASSUME LoopsOK, WorkOK, PeerOK, NEW a \in Workers, NEW previous, Start(a, previous),
           IsCount(previous), a = W => toPeer = <<>>,
           UNCHANGED <<peerWork, submission>>, Bound' = Bound, a = R => at'[W] = at[W],
           a = W => at'[W] # "read"
    PROVE  /\ work' = [b \in Workers |-> IF b = a THEN NextCount(previous) ELSE work[b]]
           /\ PeerOK'
<1>1. work' = [b \in Workers |-> IF b = a THEN NextCount(previous) ELSE work[b]]
  BY DEF Start, LoopsOK
<1>2. PeerOK'
  <2>1. CASE a = R
    <3>1. UNCHANGED <<workID, toPeer>> /\ work'[W] = work[W] /\ Items' = Items
      BY <1>1, <2>1, WorkersDiffer DEF Start, Items
    <3> QED
      BY <2>1, <3>1 DEF PeerOK, IsCount
  <2>2. CASE a = W
    <3> DEFINE id == CHOOSE i \in WorkIDs : i \notin Outstanding
               item == [id |-> id, header |-> NextCount(previous).header]
    <3>1. /\ workID' = id /\ toPeer' = Append(toPeer, item) /\ toPeer = <<>>
          /\ work'[W] = NextCount(previous)
      BY <1>1, <2>2, WorkersDiffer DEF Start
    <3>2. id \in WorkIDs /\ id \notin Outstanding
      BY <3>1, FreshID
    <3> HIDE DEF id
    <3>3. IsSeq(toPeer') /\ Len(toPeer') = 1 /\ toPeer'[1] = item /\ DOMAIN toPeer' = 1 .. 1
      <4>1. /\ IsSeq(Append(<<>>, item)) /\ Len(Append(<<>>, item)) = 1
            /\ Append(<<>>, item)[1] = item
        <5>1. /\ IsSeq(<<>>) /\ Len(<<>>) = 0 /\ Len(<<>>) + 1 = 1
          BY EmptyIsSeq
        <5> HIDE DEF item
        <5>2. /\ IsSeq(Append(<<>>, item)) /\ Len(Append(<<>>, item)) = Len(<<>>) + 1
              /\ Append(<<>>, item)[Len(<<>>) + 1] = item
          BY <5>1, AppendIsSeq
        <5> QED
          BY <5>1, <5>2
      <4> QED
        BY <3>1, <4>1, IsSeqFacts
    <3>4. Items' = {item} \cup ({peerWork, submission} \ {None})
      BY <3>3 DEF Items, Range
    <3>5. \A m \in {peerWork, submission} \ {None} : m \in Items /\ m.id \in Outstanding
      BY DEF Items, Outstanding
    <3>6. \A m \in Items' : m.id \in WorkIDs /\ (m.id = workID' => m.header = work'[W].header)
      BY <3>1, <3>2, <3>4, <3>5 DEF PeerOK
    <3>7. (Whole(work[W]) /\ IsCount(work[W].header.previous))'
      <4>1. work'[W].header.previous = previous /\ Whole(work'[W])
        BY <3>1, NextCountIsWhole
      <4>2. IsSeq(previous) /\ Len(previous) <= Bound
        BY DEF IsCount
      <4>3. IsSeq(work'[W].header.previous) /\ Len(work'[W].header.previous) <= Bound'
        BY <4>1, <4>2
      <4> QED
        BY <4>1, <4>3 DEF IsCount
    <3>8. Len(toPeer') <= 1
      BY <3>3
    <3> QED
      BY <2>2, <3>3, <3>6, <3>7, <3>8 DEF PeerOK
  <2> QED
    BY <2>1, <2>2 DEF Workers
<1> QED
  BY <1>1, <1>2

-----------------------------------------------------------------------------
(* What a step leaves alone                                                 *)

(* The bound is a length, that of the tip between two calls. *)
LEMMA BoundIsNat ==
    ASSUME CountsOK, PlanOK
    PROVE  /\ Bound \in Nat /\ IsCount(tip)
           /\ ~Reorganising => Bound = Len(tip)
<1>1. IsSeq(tip) /\ Len(tip) \in Nat
  BY IsSeqFacts DEF CountsOK
<1>2. ASSUME Reorganising, job.redo # <<>>
      PROVE  Len(job.old) \in Nat /\ Len(tip) <= Len(job.old)
  BY <1>2, IsSeqFacts DEF PlanOK
<1> QED
  BY <1>1, <1>2 DEF Bound, IsCount

(* A worker's step leaves the processor's plan as it is. *)
LEMMA PlanKeeps ==
    ASSUME CountsOK, PlanOK, UNCHANGED <<tip, stored, job>>
    PROVE  /\ CountsOK' /\ PlanOK' /\ Bound' = Bound
           /\ Reorganising' <=> Reorganising
<1>1. Bound' = Bound /\ (Reorganising' <=> Reorganising)
  BY DEF Bound, Reorganising
<1>2. CountsOK'
  BY <1>1 DEF CountsOK
<1>3. Target' = Target /\ Final(tip)' = Final(tip)
  BY DEF Target, Final
<1>4. PlanOK'
  BY <1>1, <1>3 DEF PlanOK, IsCount
<1> QED
  BY <1>1, <1>2, <1>4

(* A processor's step answers a worker at most. *)
LEMMA WorkersKeep ==
    ASSUME LoopsOK, WorkOK, ChannelsOK, PeerOK, CountsOK, PlanOK,
           UNCHANGED <<seen, tipChangeChan, peerVars>>,
           at' = [b \in Workers |-> at'[b]], work' = [b \in Workers |-> work'[b]],
           \A b \in Workers : at'[b] = at[b] \/ (at[b] = "calling" /\ at'[b] = "select"),
           \A b \in Workers :
              \/ work'[b] = work[b]
              \/ b = R /\ work'[b] = None /\ at[b] = "calling" /\ at'[b] = "select",
           \A n \in Nat : n <= Bound => n <= Bound'
    PROVE  LoopsOK' /\ WorkOK' /\ ChannelsOK' /\ PeerOK'
<1>1. \A c : IsSeq(c) /\ Len(c) <= Bound => Len(c) <= Bound'
  BY IsSeqFacts
<1>2. LoopsOK'
  <2>1. at' \in [Workers -> Unregistered \cup {"select", "read", "calling"}]
    BY DEF LoopsOK
  <2> QED
    BY <2>1 DEF LoopsOK
<1>3. WorkOK'
  <2> SUFFICES ASSUME NEW b \in Workers
               PROVE  /\ work'[b] # None =>
                            Whole(work'[b]) /\ IsSeq(work'[b].header.previous)
                            /\ Len(work'[b].header.previous) <= Bound'
                      /\ at'[b] = "calling" =>
                            Whole(work'[b]) /\ IsSeq(work'[b].header.previous)
                            /\ Len(work'[b].header.previous) <= Bound'
                      /\ at'[b] = "read" => IsSeq(seen[b]) /\ Len(seen[b]) <= Bound'
                      /\ at'[b] \in Unregistered => work'[b] = None /\ tipChangeChan[b] = <<>>
    BY DEF WorkOK, IsCount, Whole
  <2>1. at[b] # "calling" \/ at'[b] # "calling" \/ work'[b] = work[b]
    OBVIOUS
  <2> QED
    BY <1>1, <2>1 DEF WorkOK, IsCount, Unregistered
<1>4. ChannelsOK'
  BY <1>1 DEF ChannelsOK, IsCount
<1>5. PeerOK'
  <2>1. UNCHANGED <<workID, toPeer, peerWork, submission>> /\ work'[W] = work[W] /\ Items' = Items
    BY WorkersDiffer DEF peerVars, Items
  <2>2. at'[W] = "read" => at[W] = "read"
    BY WorkersDiffer
  <2>3. workID # None => /\ Whole(work[W]) /\ IsSeq(work[W].header.previous)
                         /\ Len(work[W].header.previous) <= Bound'
    BY <1>1 DEF PeerOK, IsCount
  <2> QED
    BY <2>1, <2>2, <2>3 DEF PeerOK, IsCount, Whole
<1> QED
  BY <1>2, <1>3, <1>4, <1>5

(* ProcessCount's answer to a worker that waits for it, or to nobody.       *)
LEMMA AnswerFacts ==
    ASSUME LoopsOK, NEW caller, caller = None \/ (caller \in Workers /\ at[caller] = "calling"),
           Answer(caller)
    PROVE  /\ at' = [b \in Workers |-> at'[b]] /\ work' = [b \in Workers |-> work'[b]]
           /\ \A b \in Workers : at'[b] = at[b] \/ (at[b] = "calling" /\ at'[b] = "select")
           /\ \A b \in Workers :
                 \/ work'[b] = work[b]
                 \/ b = R /\ work'[b] = None /\ at[b] = "calling" /\ at'[b] = "select"
<1>1. CASE caller = None
  <2>1. at' = at /\ work' = work
    BY <1>1 DEF Answer
  <2>2. at = [b \in Workers |-> at[b]]
    BY DEF LoopsOK
  <2>3. work = [b \in Workers |-> work[b]]
    BY DEF LoopsOK
  <2>4. at' = [b \in Workers |-> at'[b]]
    BY <2>1, <2>2
  <2>5. work' = [b \in Workers |-> work'[b]]
    BY <2>1, <2>3
  <2> HIDE DEF Workers
  <2> QED
    BY <2>1, <2>4, <2>5
<1>2. CASE caller \in Workers /\ at[caller] = "calling"
  <2>1. /\ caller # None /\ at' = [at EXCEPT ![caller] = "select"]
        /\ work' = IF caller = R THEN [work EXCEPT ![R] = None] ELSE work
    BY <1>2, WorkersDiffer DEF Answer
  <2>2. at' = [b \in Workers |-> IF b = caller THEN "select" ELSE at[b]]
    BY <2>1 DEF LoopsOK
  <2>3. work' = [b \in Workers |-> IF b = caller /\ b = R THEN None ELSE work[b]]
    BY <2>1 DEF LoopsOK
  <2>4. \A b \in Workers : /\ at'[b] = IF b = caller THEN "select" ELSE at[b]
                           /\ work'[b] = IF b = caller /\ b = R THEN None ELSE work[b]
    BY <2>2, <2>3
  <2>5. at' = [b \in Workers |-> at'[b]]
    BY <2>2
  <2>6. work' = [b \in Workers |-> work'[b]]
    BY <2>3
  <2>7. \A b \in Workers :
           \/ work'[b] = work[b]
           \/ b = R /\ work'[b] = None /\ at[b] = "calling" /\ at'[b] = "select"
    BY <1>2, <2>4
  <2>8. \A b \in Workers : at'[b] = at[b] \/ (at[b] = "calling" /\ at'[b] = "select")
    BY <1>2, <2>4
  <2> QED
    BY <2>5, <2>6, <2>7, <2>8
<1> QED
  BY <1>1, <1>2

(* Who has been told before, and works on the same tip. *)
LEMMA ToldKeep ==
    ASSUME ToldOK, UNCHANGED <<tip, seen, tipChangeChan>>,
           \A b \in Workers : at'[b] = at[b] \/ (at[b] = "calling" /\ at'[b] = "select"),
           \A b \in Workers : work'[b] = work[b] \/ work'[b] = None,
           \A b \in Workers : Told(b)' => Told(b)
    PROVE  ToldOK'
  BY DEF ToldOK, Final

(* A step of a worker that leaves the caller waiting. *)
LEMMA JobKeeps ==
    ASSUME JobOK, job' = job,
           \A b \in Workers : at[b] = "calling" => at'[b] = "calling",
           \A b \in Workers : at[b] \in {"select", "read", "calling"} =>
                              at'[b] \in {"select", "read", "calling"}
    PROVE  JobOK'
  BY DEF JobOK, NoJob

-----------------------------------------------------------------------------
(* The steps of the workers                                                 *)

(* A worker that starts on a count it was told of, or found: it is whole,   *)
(* and the other worker is not disturbed.                                   *)
LEMMA StartKeeps ==
    ASSUME RendererIInv, NEW a \in Workers, NEW previous, Start(a, previous),
           IsCount(previous), a = W => toPeer = <<>>,
           at[a] \in {"select", "read"},
           at' = [b \in Workers |-> IF b = a THEN "select" ELSE at[b]],
           UNCHANGED <<tip, stored, job, peerWork, submission>>
    PROVE  /\ work' = [b \in Workers |-> IF b = a THEN NextCount(previous) ELSE work[b]]
           /\ work'[a].header.previous = previous
           /\ PeerOK' /\ CountsOK' /\ PlanOK' /\ JobOK' /\ Bound' = Bound
           /\ Reorganising' <=> Reorganising
           /\ \A b \in Workers :
                 /\ work'[b] # None => (Whole(work[b]) /\ IsCount(work[b].header.previous))'
                 /\ at'[b] = "calling" => (Whole(work[b]) /\ IsCount(work[b].header.previous))'
<1>1. CountsOK' /\ PlanOK' /\ Bound' = Bound /\ (Reorganising' <=> Reorganising)
  BY PlanKeeps DEF RendererIInv
<1>2. JobOK'
  BY JobKeeps DEF RendererIInv
<1>3. \A b \in Workers : at'[b] = IF b = a THEN "select" ELSE at[b]
  OBVIOUS
<1>4. /\ work' = [b \in Workers |-> IF b = a THEN NextCount(previous) ELSE work[b]]
      /\ PeerOK'
  BY <1>1, <1>3, WorkersDiffer, StartFacts DEF RendererIInv
<1>5. /\ work'[a].header.previous = previous /\ Whole(work'[a])
  BY <1>4, NextCountIsWhole
<1>6. IsSeq(previous) /\ Len(previous) <= Bound'
  BY <1>1 DEF IsCount
<1>7. ASSUME NEW b \in Workers
      PROVE  /\ work'[b] # None => (Whole(work[b]) /\ IsCount(work[b].header.previous))'
             /\ at'[b] = "calling" => (Whole(work[b]) /\ IsCount(work[b].header.previous))'
  <2>1. CASE b = a
    BY <1>5, <1>6, <2>1 DEF IsCount, Whole
  <2>2. CASE b # a
    BY <1>1, <1>3, <1>4, <2>2 DEF IsCount, Whole, RendererIInv, WorkOK
  <2> QED
    BY <2>1, <2>2
<1> QED
  BY <1>1, <1>2, <1>4, <1>5, <1>7

(* A worker makes its count from what the queue gives. *)
LEMMA KeepsReadQueue ==
    ASSUME RendererIInv, NEW a \in Workers, ReadQueue(a)
    PROVE  RendererIInv'
<1>1. /\ at[a] = "read" /\ Start(a, seen[a])
      /\ seen' = [b \in Workers |-> IF b = a THEN None ELSE seen[b]]
      /\ at' = [b \in Workers |-> IF b = a THEN "select" ELSE at[b]]
      /\ UNCHANGED <<tip, stored, job, tipChangeChan, peerWork, submission>>
  BY DEF ReadQueue, RendererIInv, LoopsOK, chainVars
<1>2. IsCount(seen[a]) /\ (a = W => toPeer = <<>>)
  BY <1>1, WorkersDiffer DEF RendererIInv, WorkOK, PeerOK
<1>3. /\ work' = [b \in Workers |-> IF b = a THEN NextCount(seen[a]) ELSE work[b]]
      /\ work'[a].header.previous = seen[a]
      /\ PeerOK' /\ CountsOK' /\ PlanOK' /\ JobOK' /\ Bound' = Bound
      /\ Reorganising' <=> Reorganising
      /\ \A b \in Workers :
            /\ work'[b] # None => (Whole(work[b]) /\ IsCount(work[b].header.previous))'
            /\ at'[b] = "calling" => (Whole(work[b]) /\ IsCount(work[b].header.previous))'
  BY <1>1, <1>2, StartKeeps
<1>4. LoopsOK'
  <2>1. at' \in [Workers -> Unregistered \cup {"select", "read", "calling"}]
    BY <1>1 DEF RendererIInv, LoopsOK
  <2>2. (seen = [b \in Workers |-> seen[b]])'
    BY <1>1
  <2>3. (work = [b \in Workers |-> work[b]])'
    BY <1>3
  <2> QED
    BY <1>1, <2>1, <2>2, <2>3 DEF RendererIInv, LoopsOK
<1>5. WorkOK'
  BY <1>1, <1>3 DEF RendererIInv, WorkOK, Unregistered, IsCount
<1>6. ChannelsOK'
  BY <1>1, <1>3 DEF RendererIInv, ChannelsOK, IsCount
<1>7. ToldOK'
  <2>1. \A b \in Workers : Told(b)' => Told(b)
    BY <1>1, <1>3 DEF Told, Unregistered
  <2> QED
    BY <1>1, <1>3, <2>1 DEF RendererIInv, ToldOK, Final
<1> QED
  BY <1>3, <1>4, <1>5, <1>6, <1>7 DEF RendererIInv

(* A worker takes a message about the tip. *)
LEMMA KeepsOnTipChange ==
    ASSUME RendererIInv, NEW a \in Workers, OnTipChange(a)
    PROVE  RendererIInv'
<1> DEFINE m == Head(tipChangeChan[a])
           starts == m.connect /\ ~m.more /\ (a = R \/ work[a] # None)
<1>1. /\ at[a] = "select" /\ tipChangeChan[a] # <<>> /\ (a = W => toPeer = <<>>)
      /\ tipChangeChan' = [tipChangeChan EXCEPT ![a] = Tail(@)]
      /\ IF starts THEN Start(a, m.count) ELSE UNCHANGED <<work, workID, toPeer>>
      /\ UNCHANGED <<tip, stored, job, at, seen, peerWork, submission>>
  BY DEF OnTipChange, Selecting, chainVars
<1>2. tipChangeChan' = [b \in Workers |-> IF b = a THEN Tail(tipChangeChan[a])
                                          ELSE tipChangeChan[b]]
  BY <1>1 DEF RendererIInv, LoopsOK
<1>3. /\ IsSeq(tipChangeChan[a]) /\ Len(tipChangeChan[a]) \in Nat
      /\ Len(tipChangeChan[a]) > 0 /\ m = tipChangeChan[a][1] /\ IsCount(m.count)
      /\ IsSeq(Tail(tipChangeChan[a]))
      /\ Len(Tail(tipChangeChan[a])) = Len(tipChangeChan[a]) - 1
      /\ \A i \in 1 .. Len(tipChangeChan[a]) - 1 :
            Tail(tipChangeChan[a])[i] = tipChangeChan[a][i + 1]
  <2>1. IsSeq(tipChangeChan[a])
    BY DEF RendererIInv, ChannelsOK
  <2>2. /\ Len(tipChangeChan[a]) \in Nat /\ Len(tipChangeChan[a]) > 0
        /\ m = tipChangeChan[a][1] /\ IsSeq(Tail(tipChangeChan[a]))
        /\ Len(Tail(tipChangeChan[a])) = Len(tipChangeChan[a]) - 1
        /\ \A i \in 1 .. Len(tipChangeChan[a]) - 1 :
              Tail(tipChangeChan[a])[i] = tipChangeChan[a][i + 1]
    BY <1>1, <2>1, IsSeqFacts
  <2> HIDE DEF m
  <2>3. IsCount(m.count)
    BY <2>2 DEF RendererIInv, ChannelsOK
  <2> QED
    BY <2>1, <2>2, <2>3
<1> HIDE DEF m
<1>4. CountsOK' /\ PlanOK' /\ Bound' = Bound /\ (Reorganising' <=> Reorganising) /\ JobOK'
  <2>1. CountsOK' /\ PlanOK' /\ Bound' = Bound /\ (Reorganising' <=> Reorganising)
    BY <1>1, PlanKeeps DEF RendererIInv
  <2> QED
    BY <1>1, <2>1, JobKeeps DEF RendererIInv
<1>5. /\ work' = [b \in Workers |-> IF starts /\ b = a THEN NextCount(m.count) ELSE work[b]]
      /\ starts => work'[a].header.previous = m.count
      /\ PeerOK'
      /\ \A b \in Workers :
            /\ work'[b] # None => (Whole(work[b]) /\ IsCount(work[b].header.previous))'
            /\ at'[b] = "calling" => (Whole(work[b]) /\ IsCount(work[b].header.previous))'
  <2>1. CASE starts
    <3>1. at' = [b \in Workers |-> IF b = a THEN "select" ELSE at[b]]
      BY <1>1 DEF RendererIInv, LoopsOK
    <3>2. Start(a, m.count)
      BY <1>1, <2>1
    <3>3. /\ work' = [b \in Workers |-> IF b = a THEN NextCount(m.count) ELSE work[b]]
          /\ work'[a].header.previous = m.count
          /\ PeerOK'
          /\ \A b \in Workers :
                /\ work'[b] # None => (Whole(work[b]) /\ IsCount(work[b].header.previous))'
                /\ at'[b] = "calling" => (Whole(work[b]) /\ IsCount(work[b].header.previous))'
      BY <1>1, <1>3, <3>1, <3>2, StartKeeps
    <3> QED
      BY <2>1, <3>3
  <2>2. CASE ~starts
    <3>1. UNCHANGED <<work, workID, toPeer>>
      BY <1>1, <2>2
    <3>2. work' = [b \in Workers |-> IF starts /\ b = a THEN NextCount(m.count) ELSE work[b]]
      <4>1. work = [b \in Workers |-> work[b]]
        BY DEF RendererIInv, LoopsOK
      <4> HIDE DEF starts
      <4> QED
        BY <2>2, <3>1, <4>1
    <3>3. PeerOK'
      BY <1>1, <1>4, <3>1 DEF RendererIInv, PeerOK, Items, IsCount
    <3>4. \A b \in Workers :
            /\ work'[b] # None => (Whole(work[b]) /\ IsCount(work[b].header.previous))'
            /\ at'[b] = "calling" => (Whole(work[b]) /\ IsCount(work[b].header.previous))'
      BY <1>1, <1>4, <3>1 DEF RendererIInv, WorkOK, IsCount
    <3> HIDE DEF starts
    <3> QED
      BY <2>2, <3>2, <3>3, <3>4
  <2> QED
    BY <2>1, <2>2
<1>6. LoopsOK'
  <2>1. (work = [b \in Workers |-> work[b]])'
    BY <1>5
  <2>2. (tipChangeChan = [b \in Workers |-> tipChangeChan[b]])'
    BY <1>2
  <2> QED
    BY <1>1, <2>1, <2>2 DEF RendererIInv, LoopsOK
<1>7. WorkOK'
  BY <1>1, <1>2, <1>4, <1>5 DEF RendererIInv, WorkOK, Unregistered, IsCount
<1>8. ChannelsOK'
  <2>1. \A i \in 1 .. Len(tipChangeChan[a]) - 1 : i + 1 \in 1 .. Len(tipChangeChan[a])
    BY <1>3
  <2> QED
    BY <1>2, <1>3, <1>4, <2>1 DEF RendererIInv, ChannelsOK, IsCount
<1>9. ToldOK'
  <2> SUFFICES ASSUME NEW b \in Workers, Told(b)'
               PROVE  IF tipChangeChan'[b] = <<>>
                        THEN /\ work'[b] # None => work'[b].header.previous = tip
                             /\ at'[b] = "read" => seen'[b] = tip
                        ELSE tipChangeChan'[b][Len(tipChangeChan'[b])] = Final(tip)
    BY <1>1 DEF ToldOK, Final
  <2>1. Told(b)
    BY <1>1, <1>4 DEF Told
  <2>2. CASE b # a
    BY <1>1, <1>2, <1>5, <2>1, <2>2 DEF RendererIInv, ToldOK
  <2>3. CASE b = a
    <3>1. /\ tipChangeChan[a][Len(tipChangeChan[a])] = Final(tip)
          /\ tipChangeChan'[a] = Tail(tipChangeChan[a])
      BY <1>1, <1>2, <2>1, <2>3 DEF RendererIInv, ToldOK
    <3>2. CASE Len(tipChangeChan[a]) = 1
      <4>1. m = Final(tip) /\ tipChangeChan'[a] = <<>>
        BY <1>3, <3>1, <3>2, IsSeqFacts
      <4>2. m.count = tip /\ m.connect /\ ~m.more
        BY <4>1 DEF Final
      <4>3. starts => work'[a].header.previous = tip
        BY <1>5, <4>2
      <4>4. ~starts => work'[a] = None
        BY <1>5, <4>2, WorkersDiffer DEF Workers
      <4> HIDE DEF starts
      <4> QED
        BY <1>1, <2>3, <4>1, <4>3, <4>4
    <3>3. CASE Len(tipChangeChan[a]) # 1
      <4>1. /\ Len(tipChangeChan[a]) - 1 \in 1 .. Len(tipChangeChan[a]) - 1
            /\ Len(tipChangeChan[a]) - 1 + 1 = Len(tipChangeChan[a])
            /\ Len(tipChangeChan[a]) - 1 # 0
        <5> DEFINE n == Len(tipChangeChan[a])
        <5>1. n \in Nat /\ n > 0 /\ n # 1
          BY <1>3, <3>3
        <5> HIDE DEF n
        <5>2. n - 1 \in 1 .. n - 1 /\ n - 1 + 1 = n /\ n - 1 # 0
          BY <5>1
        <5> QED
          BY <5>2 DEF n
      <4>2. tipChangeChan'[a] # <<>>
        BY <1>3, <3>1, <4>1, IsSeqFacts
      <4> QED
        BY <1>3, <2>3, <3>1, <4>1, <4>2
    <3> QED
      BY <3>2, <3>3
  <2> QED
    BY <2>2, <2>3
<1> QED
  BY <1>4, <1>5, <1>6, <1>7, <1>8, <1>9 DEF RendererIInv

(* The renderer adds a consideration that was announced. *)
LEMMA KeepsOnNewTx ==
    ASSUME RendererIInv, OnNewTx
    PROVE  RendererIInv'
<1>1. /\ at[R] = "select"
      /\ UNCHANGED <<tip, stored, job, at, seen, tipChangeChan, workID, toPeer, peerWork, submission>>
  BY DEF OnNewTx, Selecting, chainVars, peerVars
<1>2. CountsOK' /\ PlanOK' /\ Bound' = Bound /\ (Reorganising' <=> Reorganising) /\ JobOK'
  <2>1. CountsOK' /\ PlanOK' /\ Bound' = Bound /\ (Reorganising' <=> Reorganising)
    BY <1>1, PlanKeeps DEF RendererIInv
  <2> QED
    BY <1>1, <2>1, JobKeeps DEF RendererIInv
<1>3. /\ work' = [b \in Workers |-> work'[b]]
      /\ \A b \in Workers :
            \/ work'[b] = work[b]
            \/ /\ b = R /\ work[b] # None /\ Whole(work'[b])
               /\ work'[b].header.previous = work[b].header.previous
  <2>1. CASE work' = work
    <3>1. work = [b \in Workers |-> work[b]]
      BY DEF RendererIInv, LoopsOK
    <3>2. work' = [b \in Workers |-> work'[b]]
      BY <2>1, <3>1
    <3> QED
      BY <2>1, <3>2
  <2>2. CASE /\ work[R] # None
             /\ work' = [work EXCEPT ![R].cns = Append(@, newTxChan[1]),
                                     ![R].header.root = Append(@, newTxChan[1])]
    <3> DEFINE w == work[R]
               cns == Append(w.cns, newTxChan[1])
               new == [header |-> [previous |-> w.header.previous, root |-> cns], cns |-> cns]
    <3>1. w = [header |-> [previous |-> w.header.previous, root |-> w.cns], cns |-> w.cns]
      BY <2>2, WorkersDiffer DEF RendererIInv, WorkOK, Whole
    <3>2. work = [b \in Workers |-> work[b]]
      BY DEF RendererIInv, LoopsOK
    <3>3. [[w EXCEPT !.cns = Append(@, newTxChan[1])]
               EXCEPT !.header.root = Append(@, newTxChan[1])] = new
      <4> HIDE DEF w
      <4>1. /\ w.header.root = w.cns
            /\ w.header = [previous |-> w.header.previous, root |-> w.header.root]
            /\ w = [header |-> w.header, cns |-> w.cns]
        BY <3>1
      <4>2. [w EXCEPT !.cns = Append(@, newTxChan[1])] = [header |-> w.header, cns |-> cns]
        BY <4>1
      <4>3. [w.header EXCEPT !.root = Append(@, newTxChan[1])] =
              [previous |-> w.header.previous, root |-> cns]
        <5>1. ASSUME NEW p, NEW list, NEW longer
              PROVE  [[previous |-> p, root |-> list] EXCEPT !.root = longer] =
                       [previous |-> p, root |-> longer]
          OBVIOUS
        <5>2. [w.header EXCEPT !.root = Append(@, newTxChan[1])] =
                [w.header EXCEPT !.root = cns]
          BY <4>1
        <5> HIDE DEF cns
        <5> QED
          BY <4>1, <5>1, <5>2
      <4> DEFINE x == [header |-> w.header, cns |-> cns]
      <4>4. [x EXCEPT !.header.root = Append(@, newTxChan[1])] =
              [x EXCEPT !.header = [x.header EXCEPT !.root = Append(@, newTxChan[1])]]
        OBVIOUS
      <4>5. x.header = w.header
        OBVIOUS
      <4>6. [x EXCEPT !.header = [previous |-> w.header.previous, root |-> cns]] = new
        <5> DEFINE h == [previous |-> w.header.previous, root |-> cns]
        <5>1. new = [header |-> h, cns |-> cns]
          OBVIOUS
        <5> HIDE DEF h, cns, new
        <5>2. [x EXCEPT !.header = h] = [header |-> h, cns |-> cns]
          OBVIOUS
        <5> QED
          BY <5>1, <5>2 DEF h
      <4> HIDE DEF cns, new
      <4> QED
        BY <4>2, <4>3, <4>4, <4>5, <4>6
    <3>4. work' = [b \in Workers |-> IF b = R
                     THEN [[w EXCEPT !.cns = Append(@, newTxChan[1])]
                              EXCEPT !.header.root = Append(@, newTxChan[1])]
                     ELSE work[b]]
      BY <2>2, <3>2, WorkersDiffer
    <3> HIDE DEF w, new
    <3>5. work' = [b \in Workers |-> IF b = R THEN new ELSE work[b]]
      BY <3>3, <3>4
    <3>6. Whole(new) /\ new.header.previous = w.header.previous
      BY DEF Whole, new
    <3>7. work' = [b \in Workers |-> work'[b]]
      BY <3>5
    <3> QED
      BY <2>2, <3>5, <3>6, <3>7 DEF w
  <2> QED
    BY <2>1, <2>2 DEF OnNewTx
<1>4. LoopsOK'
  BY <1>1, <1>3 DEF RendererIInv, LoopsOK
<1>5. WorkOK'
  <2> SUFFICES ASSUME NEW b \in Workers
               PROVE  /\ work'[b] # None =>
                            (Whole(work[b]) /\ IsCount(work[b].header.previous))'
                      /\ at[b] = "calling" =>
                            (Whole(work[b]) /\ IsCount(work[b].header.previous))'
                      /\ at[b] = "read" => IsCount(seen[b])'
                      /\ at[b] \in Unregistered => work'[b] = None /\ tipChangeChan[b] = <<>>
    BY <1>1 DEF WorkOK, IsCount
  <2> QED
    BY <1>1, <1>2, <1>3 DEF RendererIInv, WorkOK, IsCount, Whole, Unregistered
<1>6. ChannelsOK'
  BY <1>1, <1>2 DEF RendererIInv, ChannelsOK, IsCount
<1>7. PeerOK'
  <2>1. work'[W] = work[W] /\ Items' = Items
    BY <1>1, <1>3, WorkersDiffer DEF Items
  <2> QED
    BY <1>1, <1>2, <2>1 DEF RendererIInv, PeerOK, IsCount, Whole
<1>8. ToldOK'
  <2>1. \A b \in Workers : Told(b)' => Told(b)
    BY <1>1, <1>2 DEF Told
  <2> QED
    BY <1>1, <1>3, <2>1 DEF RendererIInv, ToldOK, Final
<1> QED
  BY <1>2, <1>4, <1>5, <1>6, <1>7, <1>8 DEF RendererIInv

(* The tip is on the best branch so far, so whoever reads it may build on it. *)
LEMMA KeepsReadTip ==
    ASSUME RendererIInv, NEW a \in Workers, ReadTip(a), at[a] = "select",
           a = W => toPeer = <<>>
    PROVE  RendererIInv'
<1>1. /\ seen' = [b \in Workers |-> IF b = a THEN tip ELSE seen[b]]
      /\ at' = [b \in Workers |-> IF b = a THEN "read" ELSE at[b]]
      /\ UNCHANGED <<tip, stored, job, work, tipChangeChan, workID, toPeer, peerWork, submission>>
  BY DEF ReadTip, RendererIInv, LoopsOK, chainVars, peerVars
<1>2. CountsOK' /\ PlanOK' /\ Bound' = Bound /\ (Reorganising' <=> Reorganising) /\ JobOK'
  <2>1. CountsOK' /\ PlanOK' /\ Bound' = Bound /\ (Reorganising' <=> Reorganising)
    BY <1>1, PlanKeeps DEF RendererIInv
  <2> QED
    BY <1>1, <2>1, JobKeeps DEF RendererIInv
<1>3. LoopsOK'
  <2>1. at' \in [Workers -> Unregistered \cup {"select", "read", "calling"}]
    BY <1>1 DEF RendererIInv, LoopsOK
  <2>2. (seen = [b \in Workers |-> seen[b]])'
    BY <1>1
  <2> QED
    BY <1>1, <2>1, <2>2 DEF RendererIInv, LoopsOK
<1>4. WorkOK'
  <2>1. IsSeq(tip) /\ Len(tip) <= Bound
    BY BoundIsNat DEF RendererIInv, IsCount
  <2> QED
    BY <1>1, <1>2, <2>1 DEF RendererIInv, WorkOK, IsCount, Unregistered
<1>5. ChannelsOK'
  BY <1>1, <1>2 DEF RendererIInv, ChannelsOK, IsCount
<1>6. PeerOK'
  <2>1. Items' = Items /\ (at'[W] = "read" => toPeer = <<>>)
    BY <1>1, WorkersDiffer DEF Items, RendererIInv, PeerOK
  <2> QED
    BY <1>1, <1>2, <2>1 DEF RendererIInv, PeerOK, IsCount
<1>7. ToldOK'
  <2>1. \A b \in Workers : Told(b)' => Told(b)
    BY <1>1, <1>2 DEF Told, Unregistered
  <2> QED
    BY <1>1, <2>1 DEF RendererIInv, ToldOK, Final
<1> QED
  BY <1>2, <1>3, <1>4, <1>5, <1>6, <1>7 DEF RendererIInv

(* A worker finds the tip. *)
LEMMA KeepsReads ==
    ASSUME RendererIInv, FindTip \/ OnGetWork
    PROVE  RendererIInv'
<1>1. CASE FindTip
  BY <1>1, KeepsReadTip, WorkersDiffer DEF FindTip, Idle, Selecting
<1>2. CASE OnGetWork
  BY <1>2, KeepsReadTip, WorkersDiffer DEF OnGetWork, Selecting
<1> QED
  BY <1>1, <1>2

(* The renderer has found a hash. *)
LEMMA KeepsSolve ==
    ASSUME RendererIInv, Solve
    PROVE  RendererIInv'
<1>1. /\ at[R] = "select" /\ work[R] # None
      /\ at' = [b \in Workers |-> IF b = R THEN "calling" ELSE at[b]]
      /\ UNCHANGED <<tip, stored, job, seen, work, tipChangeChan, workID, toPeer, peerWork,
                     submission>>
  BY DEF Solve, Idle, Selecting, RendererIInv, LoopsOK, chainVars, peerVars
<1>2. CountsOK' /\ PlanOK' /\ Bound' = Bound /\ (Reorganising' <=> Reorganising) /\ JobOK'
  <2>1. CountsOK' /\ PlanOK' /\ Bound' = Bound /\ (Reorganising' <=> Reorganising)
    BY <1>1, PlanKeeps DEF RendererIInv
  <2> QED
    BY <1>1, <2>1, JobKeeps DEF RendererIInv
<1>3. LoopsOK'
  BY <1>1 DEF RendererIInv, LoopsOK
<1>4. WorkOK'
  BY <1>1, <1>2 DEF RendererIInv, WorkOK, IsCount, Unregistered
<1>5. ChannelsOK'
  BY <1>1, <1>2 DEF RendererIInv, ChannelsOK, IsCount
<1>6. PeerOK'
  <2>1. Items' = Items /\ at'[W] = at[W]
    BY <1>1, WorkersDiffer DEF Items
  <2> QED
    BY <1>1, <1>2, <2>1 DEF RendererIInv, PeerOK, IsCount
<1>7. ToldOK'
  <2>1. \A b \in Workers : Told(b)' => Told(b)
    BY <1>1, <1>2 DEF Told, Unregistered
  <2> QED
    BY <1>1, <2>1 DEF RendererIInv, ToldOK, Final
<1> QED
  BY <1>2, <1>3, <1>4, <1>5, <1>6, <1>7 DEF RendererIInv

(* What is submitted for the current work has its header, so the count that *)
(* is put together with it is the one the work was.                         *)
LEMMA KeepsOnSubmitWork ==
    ASSUME RendererIInv, OnSubmitWork
    PROVE  RendererIInv'
<1>1. /\ at[W] = "select" /\ submission # None /\ submission' = None
      /\ UNCHANGED <<tip, stored, job, seen, tipChangeChan, workID, toPeer, peerWork>>
  BY DEF OnSubmitWork, Selecting, chainVars
<1>2. /\ submission.id = workID =>
            /\ Whole(work[W]) /\ IsCount(work[W].header.previous)
            /\ submission.header = work[W].header
  <2>1. submission \in Items
    BY <1>1 DEF Items
  <2> QED
    BY <2>1, WorkersDiffer DEF RendererIInv, PeerOK
<1>3. /\ work' = work
      /\ at' = [b \in Workers |-> IF b = W /\ submission.id = workID THEN "calling" ELSE at[b]]
  <2>1. CASE submission.id = workID
    <3>1. /\ work' = [work EXCEPT ![W].header = work[W].header]
          /\ at' = [at EXCEPT ![W] = "calling"]
      BY <1>2, <2>1 DEF OnSubmitWork
    <3>2. work[W] = [header |-> work[W].header, cns |-> work[W].cns]
      BY <1>2, <2>1 DEF Whole
    <3>3. [work[W] EXCEPT !.header = work[W].header] = work[W]
      BY <3>2
    <3>4. work' = [work EXCEPT ![W] = [work[W] EXCEPT !.header = work[W].header]]
      BY <3>1
    <3>5. work = [b \in Workers |-> work[b]]
      BY DEF RendererIInv, LoopsOK
    <3>6. work' = work
      BY <3>3, <3>4, <3>5
    <3> QED
      BY <2>1, <3>1, <3>6 DEF RendererIInv, LoopsOK
  <2>2. CASE submission.id # workID
    BY <2>2 DEF OnSubmitWork, RendererIInv, LoopsOK
  <2> QED
    BY <2>1, <2>2
<1>4. CountsOK' /\ PlanOK' /\ Bound' = Bound /\ (Reorganising' <=> Reorganising) /\ JobOK'
  <2>1. CountsOK' /\ PlanOK' /\ Bound' = Bound /\ (Reorganising' <=> Reorganising)
    BY <1>1, PlanKeeps DEF RendererIInv
  <2> QED
    BY <1>1, <1>3, <2>1, JobKeeps DEF RendererIInv
<1>5. LoopsOK'
  BY <1>1, <1>3 DEF RendererIInv, LoopsOK
<1>6. WorkOK'
  BY <1>1, <1>2, <1>3, <1>4 DEF RendererIInv, WorkOK, IsCount, Unregistered
<1>7. ChannelsOK'
  BY <1>1, <1>4 DEF RendererIInv, ChannelsOK, IsCount
<1>8. PeerOK'
  <2>1. Items' \subseteq Items /\ at'[W] \in {"calling", at[W]}
    BY <1>1, <1>3, WorkersDiffer DEF Items
  <2> QED
    BY <1>1, <1>3, <1>4, <2>1 DEF RendererIInv, PeerOK, IsCount
<1>9. ToldOK'
  <2>1. \A b \in Workers : Told(b)' => Told(b)
    BY <1>1, <1>3, <1>4 DEF Told, Unregistered
  <2> QED
    BY <1>1, <1>3, <2>1 DEF RendererIInv, ToldOK, Final
<1> QED
  BY <1>4, <1>5, <1>6, <1>7, <1>8, <1>9 DEF RendererIInv

(* The peer hands back what it was given. *)
LEMMA KeepsPeer ==
    ASSUME RendererIInv, PeerGetsWork \/ PeerSolves
    PROVE  RendererIInv'
<1>1. UNCHANGED <<tip, stored, job, at, seen, work, tipChangeChan, workID>>
  BY DEF PeerGetsWork, PeerSolves, chainVars
<1>2. CountsOK' /\ PlanOK' /\ Bound' = Bound /\ (Reorganising' <=> Reorganising) /\ JobOK'
  <2>1. CountsOK' /\ PlanOK' /\ Bound' = Bound /\ (Reorganising' <=> Reorganising)
    BY <1>1, PlanKeeps DEF RendererIInv
  <2> QED
    BY <1>1, <2>1, JobKeeps DEF RendererIInv
<1>3. LoopsOK' /\ WorkOK' /\ ChannelsOK'
  BY <1>1, <1>2 DEF RendererIInv, LoopsOK, WorkOK, ChannelsOK, IsCount
<1>4. PeerOK'
  <2>1. /\ Items' \subseteq Items /\ IsSeq(toPeer') /\ Len(toPeer') <= 1
        /\ toPeer = <<>> => toPeer' = <<>>
    <3>1. CASE PeerSolves
      BY <3>1 DEF PeerSolves, Items, RendererIInv, PeerOK
    <3>2. CASE PeerGetsWork
      <4>1. /\ toPeer # <<>> /\ peerWork' = Head(toPeer) /\ toPeer' = Tail(toPeer)
            /\ submission' = submission /\ IsSeq(toPeer) /\ Len(toPeer) <= 1
        BY <3>2 DEF PeerGetsWork, RendererIInv, PeerOK
      <4>2. /\ Len(toPeer) = 1 /\ Head(toPeer) = toPeer[1] /\ DOMAIN toPeer = 1 .. Len(toPeer)
            /\ IsSeq(Tail(toPeer)) /\ Len(Tail(toPeer)) = 0
        <5>1. Len(toPeer) \in Nat /\ Len(toPeer) # 0 /\ Len(toPeer) <= 1
          BY <4>1, IsSeqFacts
        <5>2. \A n \in Nat : n # 0 /\ n <= 1 => n = 1
          OBVIOUS
        <5>3. Len(toPeer) = 1
          BY <5>1, <5>2, Zenon
        <5> QED
          BY <4>1, <5>3, IsSeqFacts
      <4>3. toPeer' = <<>>
        BY <4>1, <4>2, IsSeqFacts
      <4>4. peerWork' \in Range(toPeer) /\ Range(toPeer') = {}
        BY <4>1, <4>2, <4>3 DEF Range
      <4> QED
        BY <4>1, <4>2, <4>3, <4>4 DEF Items
    <3> QED
      BY <3>1, <3>2
  <2> QED
    BY <1>1, <1>2, <2>1 DEF RendererIInv, PeerOK, IsCount
<1>5. ToldOK'
  <2>1. \A b \in Workers : Told(b)' => Told(b)
    BY <1>1, <1>2 DEF Told
  <2> QED
    BY <1>1, <2>1 DEF RendererIInv, ToldOK, Final
<1> QED
  BY <1>2, <1>3, <1>4, <1>5 DEF RendererIInv

(* Who registers has heard of nothing, and has no work. *)
LEMMA KeepsRegister ==
    ASSUME RendererIInv, NEW a \in Workers, Register(a)
    PROVE  RendererIInv'
<1>1. /\ at[a] = "new" /\ work[a] = None /\ tipChangeChan[a] = <<>>
      /\ at' = [b \in Workers |-> IF b = a THEN "select" ELSE at[b]]
      /\ UNCHANGED <<tip, stored, job, seen, work, tipChangeChan, workID, toPeer, peerWork,
                     submission>>
  BY DEF Register, RendererIInv, LoopsOK, WorkOK, Unregistered, chainVars, peerVars
<1>2. CountsOK' /\ PlanOK' /\ Bound' = Bound /\ (Reorganising' <=> Reorganising) /\ JobOK'
  <2>1. CountsOK' /\ PlanOK' /\ Bound' = Bound /\ (Reorganising' <=> Reorganising)
    BY <1>1, PlanKeeps DEF RendererIInv
  <2> QED
    BY <1>1, <2>1, JobKeeps DEF RendererIInv
<1>3. LoopsOK'
  BY <1>1 DEF RendererIInv, LoopsOK
<1>4. WorkOK'
  BY <1>1, <1>2 DEF RendererIInv, WorkOK, IsCount, Unregistered
<1>5. ChannelsOK'
  BY <1>1, <1>2 DEF RendererIInv, ChannelsOK, IsCount
<1>6. PeerOK'
  <2>1. Items' = Items /\ at'[W] \in {"select", at[W]}
    BY <1>1, WorkersDiffer DEF Items
  <2> QED
    BY <1>1, <1>2, <2>1 DEF RendererIInv, PeerOK, IsCount
<1>7. ToldOK'
  <2>1. \A b \in Workers : b # a /\ Told(b)' => Told(b)
    BY <1>1, <1>2 DEF Told, Unregistered
  <2> QED
    BY <1>1, <2>1 DEF RendererIInv, ToldOK, Final
<1> QED
  BY <1>2, <1>3, <1>4, <1>5, <1>6, <1>7 DEF RendererIInv

-----------------------------------------------------------------------------
(* The steps of the processor                                               *)

(* A plan to a count that is one longer than the tip, or back to the old    *)
(* tip after a failure: no other count is longer than the old tip.          *)
LEMMA PlanStarts ==
    ASSUME NEW c, IsSeq(c), NEW old, IsSeq(old), IsSeq(tip), NEW caller,
           \/ old = tip /\ Len(c) = Len(tip) + 1
           \/ c = old /\ tip # old /\ Len(tip) <= Len(old),
           job' = Plan(c, caller, old), tip' = tip,
           \A d \in stored' : IsSeq(d) /\ (d = c \/ Len(d) <= Len(old)),
           caller # None => caller \in Workers /\ at'[caller] = "calling"
    PROVE  /\ CountsOK' /\ PlanOK' /\ JobOK' /\ Bound' = Len(old)
           /\ \A b : Told(b)' => tip = old /\ at'[b] \notin Unregistered
<1>1. /\ job'.undo \in Nat /\ job'.undo <= Len(tip)
      /\ IsSeq(job'.redo) /\ job'.redo # <<>>
      /\ \A i \in 1 .. Len(job'.redo) :
            /\ IsSeq(job'.redo[i])
            /\ Len(job'.redo[i]) = Len(tip) - job'.undo + i
            /\ i < Len(job'.redo) => job'.redo[i] # old
      /\ job'.redo[Len(job'.redo)] = c
  <2> DEFINE p == Plan(c, caller, old)
  <2>1. /\ p.undo \in Nat /\ p.undo <= Len(tip)
        /\ IsSeq(p.redo) /\ p.redo # <<>>
        /\ \A i \in 1 .. Len(p.redo) :
              /\ IsSeq(p.redo[i])
              /\ Len(p.redo[i]) = Len(tip) - p.undo + i
              /\ i < Len(p.redo) => p.redo[i] # old
        /\ p.redo[Len(p.redo)] = c
    BY PlanFacts
  <2>2. job' = p
    OBVIOUS
  <2> HIDE DEF p
  <2> QED
    BY <2>1, <2>2
<1>2. /\ job' = [undo |-> job'.undo, redo |-> job'.redo, step |-> job'.step,
                 sending |-> job'.sending, message |-> job'.message,
                 caller |-> job'.caller, old |-> job'.old]
      /\ job'.step = "ledger" /\ job'.caller = caller /\ job'.old = old /\ job'.sending = {}
  BY DEF Plan
<1>3. Reorganising' /\ Bound' = Len(old)
  BY <1>1, <1>2 DEF Reorganising, Bound
<1>4. CountsOK'
  BY <1>3 DEF CountsOK
<1>5. Len(c) \in {Len(old), Len(old) + 1} /\ Len(tip) <= Len(old)
  BY IsSeqFacts
<1>6. Target' = c
  BY <1>1 DEF Target
<1>7. PlanOK'
  BY <1>1, <1>2, <1>5, <1>6 DEF PlanOK
<1>8. JobOK'
  BY <1>2 DEF JobOK
<1>9. \A b : Told(b)' => tip = old /\ at'[b] \notin Unregistered
  BY <1>2, <1>3 DEF Told
<1> QED
  BY <1>3, <1>4, <1>7, <1>8, <1>9

(* A count one longer than the tip at most. *)
LEMMA KeepsAccept ==
    ASSUME RendererIInv, job = NoJob, NEW c, IsSeq(c), Len(c) <= Len(tip) + 1,
           NEW caller, caller = None \/ (caller \in Workers /\ at[caller] = "calling"),
           Accept(c, caller), UNCHANGED <<seen, tipChangeChan, peerVars>>
    PROVE  RendererIInv'
<1>1. /\ tip' = tip /\ stored' = stored \cup {c} /\ ~Reorganising /\ job.step = "none"
      /\ IsSeq(tip) /\ Len(tip) \in Nat /\ Len(c) \in Nat /\ Bound = Len(tip)
  <2>1. ~Reorganising /\ job.step = "none"
    BY DEF Reorganising, NoJob
  <2> QED
    BY <2>1, IsSeqFacts DEF Accept, RendererIInv, CountsOK, Bound
<1>2. CASE c \in stored \/ Len(c) <= Len(tip)
  <2>1. Answer(caller) /\ job' = job
    BY <1>2 DEF Accept
  <2>2. /\ at' = [b \in Workers |-> at'[b]] /\ work' = [b \in Workers |-> work'[b]]
        /\ \A b \in Workers : at'[b] = at[b] \/ (at[b] = "calling" /\ at'[b] = "select")
        /\ \A b \in Workers :
              \/ work'[b] = work[b]
              \/ b = R /\ work'[b] = None /\ at[b] = "calling" /\ at'[b] = "select"
    BY <2>1, AnswerFacts DEF RendererIInv
  <2>3. ~Reorganising' /\ Bound' = Bound
    BY <1>1, <2>1 DEF Reorganising, Bound
  <2>4. LoopsOK' /\ WorkOK' /\ ChannelsOK' /\ PeerOK'
    BY <2>2, <2>3, WorkersKeep DEF RendererIInv
  <2>5. CountsOK'
    BY <1>1, <1>2, <2>3 DEF RendererIInv, CountsOK
  <2>6. PlanOK'
    BY <2>3 DEF PlanOK
  <2>7. JobOK'
    BY <2>1, <1>1 DEF RendererIInv, JobOK, NoJob
  <2>8. ToldOK'
    <3>1. \A b \in Workers : Told(b)' => Told(b)
      BY <1>1, <2>2 DEF Told, Unregistered
    <3> QED
      BY <1>1, <2>2, <3>1, ToldKeep DEF RendererIInv
  <2> QED
    BY <2>4, <2>5, <2>6, <2>7, <2>8 DEF RendererIInv
<1>3. CASE ~(c \in stored \/ Len(c) <= Len(tip))
  <2>1. job' = Plan(c, caller, tip) /\ at' = at /\ work' = work
    BY <1>3 DEF Accept
  <2>2. /\ Len(c) = Len(tip) + 1
        /\ \A d \in stored' : IsSeq(d) /\ (d = c \/ Len(d) <= Len(tip))
    BY <1>1, <1>3 DEF RendererIInv, CountsOK
  <2>3. caller # None => caller \in Workers /\ at'[caller] = "calling"
    BY <2>1
  <2>4. /\ CountsOK' /\ PlanOK' /\ JobOK' /\ Bound' = Len(tip)
        /\ \A b : Told(b)' => at'[b] \notin Unregistered
    BY <1>1, <2>1, <2>2, <2>3, PlanStarts
  <2>5. /\ at' = [b \in Workers |-> at'[b]] /\ work' = [b \in Workers |-> work'[b]]
    <3>1. at = [b \in Workers |-> at[b]]
      BY DEF RendererIInv, LoopsOK
    <3>2. work = [b \in Workers |-> work[b]]
      BY DEF RendererIInv, LoopsOK
    <3> HIDE DEF Workers
    <3> QED
      BY <2>1, <3>1, <3>2
  <2>6. LoopsOK' /\ WorkOK' /\ ChannelsOK' /\ PeerOK'
    BY <1>1, <2>1, <2>4, <2>5, WorkersKeep DEF RendererIInv
  <2>7. ToldOK'
    <3>1. \A b \in Workers : Told(b)' => Told(b)
      BY <1>1, <2>1, <2>4 DEF Told
    <3> QED
      BY <1>1, <2>1, <3>1, ToldKeep DEF RendererIInv
  <2> QED
    BY <2>4, <2>6, <2>7 DEF RendererIInv
<1> QED
  BY <1>2, <1>3

(* A count comes from elsewhere. *)
LEMMA KeepsReceiveCount ==
    ASSUME RendererIInv, ReceiveCount
    PROVE  RendererIInv'
<1>1. PICK parent \in stored, body \in SUBSET Considerations :
         Accept(Append(parent, [body |-> body, by |-> Others]), None)
  BY DEF ReceiveCount
<1>2. job = NoJob /\ UNCHANGED <<seen, tipChangeChan, peerVars>>
  BY DEF ReceiveCount
<1>3. ~Reorganising
  BY <1>2 DEF Reorganising, NoJob
<1>4. /\ IsSeq(parent) /\ Len(parent) <= Len(tip) /\ Len(parent) \in Nat
      /\ IsSeq(tip) /\ Len(tip) \in Nat
  BY <1>3, IsSeqFacts DEF RendererIInv, CountsOK
<1> DEFINE c == Append(parent, [body |-> body, by |-> Others])
<1>5. IsSeq(c) /\ Len(c) <= Len(tip) + 1
  BY <1>4, AppendIsSeq
<1> HIDE DEF c
<1>6. Accept(c, None)
  BY <1>1 DEF c
<1> QED
  BY <1>2, <1>5, <1>6, KeepsAccept

(* The processor takes the count of a worker. *)
LEMMA KeepsTakeCount ==
    ASSUME RendererIInv, NEW a \in Workers, TakeCount(a)
    PROVE  RendererIInv'
<1> DEFINE c == Append(work[a].header.previous, [body |-> Range(work[a].cns), by |-> a])
<1>1. /\ job = NoJob /\ at[a] = "calling"
      /\ UNCHANGED <<seen, tipChangeChan, peerVars>>
      /\ Accept(c, a) \/ (Answer(a) /\ UNCHANGED chainVars)
  BY DEF TakeCount
<1>2. ~Reorganising /\ Bound = Len(tip) /\ Len(tip) \in Nat
  <2>1. ~Reorganising
    BY <1>1 DEF Reorganising, NoJob
  <2> QED
    BY <2>1, BoundIsNat DEF RendererIInv
<1>3. /\ IsSeq(work[a].header.previous) /\ Len(work[a].header.previous) <= Len(tip)
      /\ Len(work[a].header.previous) \in Nat
  BY <1>1, <1>2, IsSeqFacts DEF RendererIInv, WorkOK, IsCount
<1>4. CASE Accept(c, a)
  <2>1. IsSeq(c) /\ Len(c) <= Len(tip) + 1
    BY <1>2, <1>3, AppendIsSeq
  <2> HIDE DEF c
  <2> QED
    BY <1>1, <1>4, <2>1, KeepsAccept
<1>5. CASE Answer(a) /\ UNCHANGED chainVars
  <2>1. /\ at' = [b \in Workers |-> at'[b]] /\ work' = [b \in Workers |-> work'[b]]
        /\ \A b \in Workers : at'[b] = at[b] \/ (at[b] = "calling" /\ at'[b] = "select")
        /\ \A b \in Workers :
              \/ work'[b] = work[b]
              \/ b = R /\ work'[b] = None /\ at[b] = "calling" /\ at'[b] = "select"
    BY <1>1, <1>5, AnswerFacts DEF RendererIInv
  <2>2. CountsOK' /\ PlanOK' /\ Bound' = Bound /\ (Reorganising' <=> Reorganising)
    BY <1>5, PlanKeeps DEF RendererIInv, chainVars
  <2>3. LoopsOK' /\ WorkOK' /\ ChannelsOK' /\ PeerOK'
    BY <1>1, <2>1, <2>2, WorkersKeep DEF RendererIInv
  <2>4. JobOK'
    BY <1>1, <1>5 DEF RendererIInv, JobOK, NoJob, chainVars
  <2>5. ToldOK'
    <3>1. \A b \in Workers : Told(b)' => Told(b)
      BY <1>2, <2>1, <2>2 DEF Told, Unregistered
    <3> QED
      BY <1>1, <1>5, <2>1, <3>1, ToldKeep DEF RendererIInv, chainVars
  <2> QED
    BY <2>2, <2>3, <2>4, <2>5 DEF RendererIInv
<1> QED
  BY <1>1, <1>4, <1>5

(* A step of the processor that answers nobody. *)
LEMMA WorkersStay ==
    ASSUME LoopsOK, WorkOK, ChannelsOK, PeerOK, CountsOK, PlanOK,
           UNCHANGED <<at, work, seen, tipChangeChan, peerVars>>,
           \A n \in Nat : n <= Bound => n <= Bound'
    PROVE  LoopsOK' /\ WorkOK' /\ ChannelsOK' /\ PeerOK'
<1>1. at' = at /\ work' = work
  OBVIOUS
<1>2. at = [b \in Workers |-> at[b]]
  BY DEF LoopsOK
<1>3. work = [b \in Workers |-> work[b]]
  BY DEF LoopsOK
<1>4. at' = [b \in Workers |-> at'[b]] /\ work' = [b \in Workers |-> work'[b]]
  <2> HIDE DEF Workers
  <2> QED
    BY <1>1, <1>2, <1>3
<1> QED
  BY <1>1, <1>4, WorkersKeep

(* A disconnected count leaves a tip below the old one; a connected one is  *)
(* not the old tip unless it is the last, whose message is the final one.   *)
LEMMA LedgerStepFacts ==
    ASSUME RendererIInv, LedgerStep
    PROVE  /\ CountsOK' /\ PlanOK' /\ JobOK'
           /\ job'.step = "queue"
           /\ \A n \in Nat : n <= Bound => n <= Bound'
<1>1. /\ job.step = "ledger" /\ job.redo # <<>> /\ Reorganising
      /\ UNCHANGED <<stored, at>>
  BY DEF LedgerStep, Working, Reorganising, RendererIInv, PlanOK
<1>2. /\ IsSeq(tip) /\ Len(tip) \in Nat /\ \A c \in stored : IsSeq(c)
      /\ IsSeq(job.redo) /\ Len(job.redo) \in Nat /\ Len(job.redo) > 0
      /\ IsSeq(job.old) /\ Len(job.old) \in Nat
      /\ job.undo \in Nat /\ job.undo <= Len(tip) /\ Len(tip) <= Len(job.old)
      /\ \A i \in 1 .. Len(job.redo) :
            /\ IsSeq(job.redo[i])
            /\ Len(job.redo[i]) = Len(tip) - job.undo + i
            /\ i < Len(job.redo) => job.redo[i] # job.old
      /\ Target = job.redo[Len(job.redo)]
      /\ Len(Target) \in {Len(job.old), Len(job.old) + 1}
      /\ \A c \in stored : c = Target \/ Len(c) <= Len(job.old)
      /\ Bound = Len(job.old)
  BY <1>1, IsSeqFacts DEF RendererIInv, CountsOK, PlanOK, Target, Bound
<1>3. /\ job = [undo |-> job.undo, redo |-> job.redo, step |-> job.step,
                sending |-> job.sending, message |-> job.message,
                caller |-> job.caller, old |-> job.old]
      /\ job.caller # None => job.caller \in Workers /\ at[job.caller] = "calling"
      /\ \A b \in job.sending : b \in Workers /\ at[b] \in {"select", "read", "calling"}
  BY DEF RendererIInv, JobOK
<1>4. CASE job.undo > 0
  <2> DEFINE msg == [count |-> tip, connect |-> FALSE, more |-> FALSE]
  <2>1. /\ tip' = Front(tip)
        /\ job' = [job EXCEPT !.step = "queue", !.undo = @ - 1, !.message = msg]
    BY <1>4 DEF LedgerStep
  <2>2. IsSeq(tip') /\ Len(tip') = Len(tip) - 1
    BY <1>2, <1>4, <2>1, IsSeqFacts
  <2>3. msg.count = tip
    OBVIOUS
  <2> HIDE DEF msg
  <2>4. job' = [undo |-> job.undo - 1, redo |-> job.redo, step |-> "queue",
                sending |-> job.sending, message |-> msg,
                caller |-> job.caller, old |-> job.old]
    BY <1>3, <2>1
  <2>5. /\ job'.undo = job.undo - 1 /\ job'.redo = job.redo /\ job'.step = "queue"
        /\ job'.sending = job.sending
        /\ job'.message = msg /\ job'.caller = job.caller /\ job'.old = job.old
        /\ job' = [undo |-> job'.undo, redo |-> job'.redo, step |-> job'.step,
                   sending |-> job'.sending, message |-> job'.message,
                   caller |-> job'.caller, old |-> job'.old]
    BY <2>4
  <2>6. Reorganising' /\ Bound' = Bound /\ Target' = Target
    BY <1>1, <1>2, <2>5 DEF Reorganising, Bound, Target
  <2>7. CountsOK'
    BY <1>1, <1>2, <2>2, <2>6 DEF CountsOK
  <2>8. JobOK'
    BY <1>1, <1>3, <2>5 DEF JobOK
  <2>9. /\ job'.undo \in Nat /\ job'.undo <= Len(tip')
        /\ \A i \in 1 .. Len(job'.redo) : Len(job'.redo[i]) = Len(tip') - job'.undo + i
        /\ Len(tip') <= Len(job'.old) /\ tip' # job'.old
    <3>1. job.undo - 1 \in Nat /\ job.undo - 1 <= Len(tip')
      BY <1>2, <1>4, <2>2
    <3>2. Len(tip') < Len(job.old)
      BY <1>2, <2>2
    <3>3. \A i \in 1 .. Len(job.redo) : Len(job.redo[i]) = Len(tip') - (job.undo - 1) + i
      <4> TAKE i \in 1 .. Len(job.redo)
      <4>1. Len(job.redo[i]) = Len(tip) - job.undo + i /\ i \in Nat
        BY <1>2
      <4> QED
        BY <1>2, <2>2, <4>1
    <3>4. tip' # job.old /\ Len(tip') <= Len(job.old)
      BY <1>2, <2>2, <3>2
    <3> QED
      BY <2>5, <3>1, <3>3, <3>4
  <2>10. IsCount(job.message.count)'
    BY <1>2, <2>3, <2>5, <2>6 DEF IsCount
  <2>11. PlanOK'
    BY <1>1, <1>2, <2>5, <2>6, <2>9, <2>10 DEF PlanOK
  <2> QED
    BY <2>5, <2>6, <2>7, <2>8, <2>11
<1>5. CASE ~(job.undo > 0)
  <2> DEFINE msg == [count |-> Head(job.redo), connect |-> TRUE, more |-> Len(job.redo) > 1]
  <2>1. /\ tip' = Head(job.redo)
        /\ job' = [job EXCEPT !.step = "queue", !.redo = Tail(@), !.message = msg]
    BY <1>5 DEF LedgerStep
  <2>2. /\ Head(job.redo) = job.redo[1] /\ IsSeq(Tail(job.redo))
        /\ Len(Tail(job.redo)) = Len(job.redo) - 1
        /\ \A i \in 1 .. Len(job.redo) - 1 : Tail(job.redo)[i] = job.redo[i + 1]
    BY <1>2, IsSeqFacts
  <2>3. IsSeq(tip') /\ Len(tip') = Len(tip) + 1 /\ job.undo = 0
    <3>1. 1 \in 1 .. Len(job.redo) /\ job.undo = 0
      BY <1>2, <1>5
    <3> QED
      BY <1>2, <2>1, <2>2, <3>1
  <2>4. msg.count = tip' /\ (Len(job.redo) = 1 => msg = Final(tip'))
    <3>1. Len(job.redo) = 1 => (Len(job.redo) > 1) = FALSE
      OBVIOUS
    <3>2. msg.count = tip'
      BY <2>1
    <3>3. Len(job.redo) = 1 => msg = [count |-> Head(job.redo), connect |-> TRUE, more |-> FALSE]
      BY <3>1
    <3> HIDE DEF msg
    <3> QED
      BY <2>1, <3>2, <3>3 DEF Final
  <2> HIDE DEF msg
  <2>5. job' = [undo |-> job.undo, redo |-> Tail(job.redo), step |-> "queue",
                sending |-> job.sending, message |-> msg,
                caller |-> job.caller, old |-> job.old]
    BY <1>3, <2>1
  <2>6. /\ job'.undo = 0 /\ job'.redo = Tail(job.redo) /\ job'.step = "queue"
        /\ job'.sending = job.sending
        /\ job'.message = msg /\ job'.caller = job.caller /\ job'.old = job.old
        /\ job' = [undo |-> job'.undo, redo |-> job'.redo, step |-> job'.step,
                   sending |-> job'.sending, message |-> job'.message,
                   caller |-> job'.caller, old |-> job'.old]
    BY <2>3, <2>5
  <2>7. Reorganising'
    BY <2>6 DEF Reorganising
  <2>8. CountsOK'
    BY <1>1, <1>2, <2>3, <2>7 DEF CountsOK
  <2>9. JobOK'
    BY <1>1, <1>3, <2>6 DEF JobOK
  <2>10. \A i \in 1 .. Len(job.redo) - 1 :
            /\ i + 1 \in 1 .. Len(job.redo)
            /\ IsSeq(job'.redo[i])
            /\ Len(job'.redo[i]) = Len(tip) + (i + 1)
            /\ i < Len(job.redo) - 1 => job'.redo[i] # job.old
    <3> TAKE i \in 1 .. Len(job.redo) - 1
    <3>1. /\ i + 1 \in 1 .. Len(job.redo) /\ i \in Nat
          /\ i < Len(job.redo) - 1 => i + 1 < Len(job.redo)
      BY <1>2
    <3>2. job'.redo[i] = job.redo[i + 1]
      BY <2>2, <2>6
    <3> QED
      BY <1>2, <2>3, <3>1, <3>2
  <2>11. CASE Len(job.redo) = 1
    <3>1. job'.redo = <<>>
      <4>1. IsSeq(job'.redo) /\ Len(job'.redo) = 0
        BY <2>2, <2>6, <2>11
      <4> QED
        BY <4>1, IsSeqFacts
    <3>2. Target' = Target /\ Bound' = Len(tip') /\ Target = tip'
      BY <1>2, <2>1, <2>2, <2>11, <3>1 DEF Target, Bound
    <3>3. IsCount(job.message.count)' /\ job'.message = Final(tip')
      BY <2>3, <2>4, <2>6, <2>11, <3>2 DEF IsCount
    <3>4. Len(job'.redo) = 0 /\ Len(tip') >= Len(job.old)
      BY <1>2, <2>2, <2>3, <2>6, <2>11, <3>2
    <3>5. PlanOK'
      <4>1. Final(tip)' = Final(tip')
        BY DEF Final
      <4>2. \A i \in 1 .. Len(job'.redo) : FALSE
        BY <3>4
      <4> QED
        BY <1>1, <1>2, <2>2, <2>3, <2>6, <3>1, <3>2, <3>3, <4>1, <4>2 DEF PlanOK
    <3>6. \A n \in Nat : n <= Bound => n <= Bound'
      BY <1>2, <2>3, <3>2, <3>4
    <3> QED
      BY <2>6, <2>8, <2>9, <3>5, <3>6
  <2>12. CASE Len(job.redo) # 1
    <3>0. Len(job.redo) >= 2
      <4> DEFINE n == Len(job.redo)
      <4>1. n \in Nat /\ n > 0 /\ n # 1
        BY <1>2, <2>12
      <4> HIDE DEF n
      <4>2. n >= 2
        BY <4>1
      <4> QED
        BY <4>2 DEF n
    <3>1. /\ Len(job'.redo) \in Nat /\ Len(job'.redo) > 0 /\ Len(job'.redo) = Len(job.redo) - 1
          /\ job'.redo # <<>>
      <4>1. Len(job'.redo) = Len(job.redo) - 1 /\ IsSeq(job'.redo)
        BY <2>2, <2>6
      <4>2. Len(job'.redo) \in Nat /\ Len(job'.redo) > 0
        BY <1>2, <3>0, <4>1
      <4> QED
        BY <4>1, <4>2, IsSeqFacts
    <3>2. Target' = Target /\ Bound' = Bound
      <4>1. job'.redo[Len(job'.redo)] = job.redo[Len(job.redo)]
        BY <1>2, <2>2, <2>6, <3>1
      <4> QED
        BY <1>2, <2>6, <2>7, <3>1, <4>1 DEF Target, Bound
    <3>3. Len(tip') <= Len(job.old) /\ tip' # job.old
      <4>1. /\ Len(Target) = Len(tip) + Len(job.redo)
            /\ job.redo[1] # job.old
        <5>1. Len(job.redo) \in 1 .. Len(job.redo) /\ 1 \in 1 .. Len(job.redo)
              /\ 1 < Len(job.redo)
          BY <1>2, <3>0
        <5>2. Len(job.redo[Len(job.redo)]) = Len(tip) - job.undo + Len(job.redo)
          BY <1>2, <5>1
        <5>3. job.redo[1] # job.old
          BY <1>2, <5>1
        <5> QED
          BY <1>2, <2>3, <5>2, <5>3
      <4>2. Len(job.redo) >= 2 /\ Len(Target) <= Len(job.old) + 1
        BY <1>2, <3>0
      <4> QED
        BY <1>2, <2>1, <2>2, <2>3, <4>1, <4>2
    <3>4. IsCount(job.message.count)'
      BY <1>2, <2>3, <2>4, <2>6, <3>2, <3>3 DEF IsCount
    <3>5. \A i \in 1 .. Len(job'.redo) :
             /\ IsSeq(job'.redo[i])
             /\ Len(job'.redo[i]) = Len(tip') - job'.undo + i
             /\ i < Len(job'.redo) => job'.redo[i] # job'.old
      <4> TAKE i \in 1 .. Len(job'.redo)
      <4>1. i \in 1 .. Len(job.redo) - 1 /\ i \in Nat
        BY <3>1
      <4>2. /\ IsSeq(job'.redo[i]) /\ Len(job'.redo[i]) = Len(tip) + (i + 1)
            /\ i < Len(job.redo) - 1 => job'.redo[i] # job.old
        BY <2>10, <4>1
      <4>3. Len(tip') - 0 + i = Len(tip) + (i + 1)
        BY <1>2, <2>3, <4>1
      <4> QED
        BY <2>6, <3>1, <4>2, <4>3
    <3>6. /\ job'.undo \in Nat /\ job'.undo <= Len(tip')
          /\ IsSeq(job'.redo) /\ IsSeq(job'.old)
      BY <1>2, <2>2, <2>3, <2>6
    <3>7. PlanOK'
      BY <1>1, <1>2, <2>6, <3>1, <3>2, <3>3, <3>4, <3>5, <3>6 DEF PlanOK
    <3> QED
      BY <2>6, <2>8, <2>9, <3>2, <3>7
  <2> QED
    BY <2>11, <2>12
<1> QED
  BY <1>4, <1>5

(* The ledger connects or disconnects one count. *)
LEMMA KeepsLedgerStep ==
    ASSUME RendererIInv, LedgerStep
    PROVE  RendererIInv'
<1>1. /\ CountsOK' /\ PlanOK' /\ JobOK' /\ job'.step = "queue"
      /\ \A n \in Nat : n <= Bound => n <= Bound'
  BY LedgerStepFacts
<1>2. UNCHANGED <<at, work, seen, tipChangeChan, peerVars>>
  BY DEF LedgerStep
<1>3. LoopsOK' /\ WorkOK' /\ ChannelsOK' /\ PeerOK'
  BY <1>1, <1>2, WorkersStay DEF RendererIInv
<1>4. ToldOK'
  <2>1. \A b : ~Told(b)'
    BY <1>1 DEF Told, Reorganising
  <2> QED
    BY <2>1 DEF ToldOK
<1> QED
  BY <1>1, <1>3, <1>4 DEF RendererIInv

(* The failed count is the only one that may be longer than the old tip; it *)
(* is forgotten, and the way back is planned or there is none.              *)
LEMMA KeepsConnectFails ==
    ASSUME RendererIInv, ConnectFails
    PROVE  RendererIInv'
<1>1. /\ job.step = "ledger" /\ job.redo # <<>> /\ Reorganising
      /\ stored' = stored \ {Last(job.redo)}
      /\ UNCHANGED <<tip, seen, tipChangeChan, peerVars>>
      /\ IF tip = job.old THEN job' = NoJob /\ Answer(job.caller)
         ELSE job' = Plan(job.old, job.caller, job.old) /\ UNCHANGED <<at, work>>
  BY DEF ConnectFails, Working, Reorganising, RendererIInv, PlanOK
<1>2. /\ IsSeq(tip) /\ Len(tip) \in Nat /\ \A c \in stored : IsSeq(c)
      /\ IsSeq(job.redo) /\ IsSeq(job.old) /\ Len(job.old) \in Nat /\ Len(tip) <= Len(job.old)
      /\ Target = Last(job.redo)
      /\ \A c \in stored : c = Target \/ Len(c) <= Len(job.old)
      /\ Bound = Len(job.old)
  BY <1>1, IsSeqFacts DEF RendererIInv, CountsOK, PlanOK, Target, Bound, Last
<1>3. \A c \in stored' : IsSeq(c) /\ Len(c) <= Len(job.old)
  BY <1>1, <1>2
<1>4. job.caller = None \/ (job.caller \in Workers /\ at[job.caller] = "calling")
  BY DEF RendererIInv, JobOK
<1>5. CASE tip = job.old
  <2>1. job' = NoJob /\ Answer(job.caller)
    BY <1>1, <1>5
  <2>2. /\ at' = [b \in Workers |-> at'[b]] /\ work' = [b \in Workers |-> work'[b]]
        /\ \A b \in Workers : at'[b] = at[b] \/ (at[b] = "calling" /\ at'[b] = "select")
        /\ \A b \in Workers :
              \/ work'[b] = work[b]
              \/ b = R /\ work'[b] = None /\ at[b] = "calling" /\ at'[b] = "select"
    BY <1>4, <2>1, AnswerFacts DEF RendererIInv
  <2>3. ~Reorganising' /\ Bound' = Bound
    BY <1>1, <1>2, <1>5, <2>1 DEF Reorganising, Bound, NoJob
  <2>4. LoopsOK' /\ WorkOK' /\ ChannelsOK' /\ PeerOK'
    BY <1>1, <2>2, <2>3, WorkersKeep DEF RendererIInv
  <2>5. CountsOK'
    BY <1>1, <1>2, <1>3, <1>5 DEF CountsOK
  <2>6. PlanOK'
    BY <2>3 DEF PlanOK
  <2>7. JobOK'
    BY <2>1 DEF JobOK, NoJob
  <2>8. ToldOK'
    <3>1. \A b \in Workers : Told(b)' => Told(b)
      BY <1>1, <1>5, <2>2 DEF Told, Unregistered
    <3> QED
      BY <1>1, <2>2, <3>1, ToldKeep DEF RendererIInv
  <2> QED
    BY <2>4, <2>5, <2>6, <2>7, <2>8 DEF RendererIInv
<1>6. CASE tip # job.old
  <2>1. job' = Plan(job.old, job.caller, job.old) /\ UNCHANGED <<at, work>>
    BY <1>1, <1>6
  <2>2. job.caller # None => job.caller \in Workers /\ at'[job.caller] = "calling"
    BY <1>4, <2>1
  <2> DEFINE old == job.old
             caller == job.caller
  <2>3. /\ IsSeq(old) /\ job' = Plan(old, caller, old) /\ tip' = tip /\ tip # old
        /\ Len(tip) <= Len(old) /\ IsSeq(tip)
        /\ \A d \in stored' : IsSeq(d) /\ (d = old \/ Len(d) <= Len(old))
        /\ caller # None => caller \in Workers /\ at'[caller] = "calling"
        /\ Bound = Len(old)
    BY <1>1, <1>2, <1>3, <1>6, <2>1, <2>2
  <2> HIDE DEF old, caller
  <2>4. /\ CountsOK' /\ PlanOK' /\ JobOK' /\ Bound' = Len(old)
        /\ \A b : ~Told(b)'
    BY <2>3, PlanStarts
  <2>5. LoopsOK' /\ WorkOK' /\ ChannelsOK' /\ PeerOK'
    BY <1>1, <2>1, <2>3, <2>4, WorkersStay DEF RendererIInv
  <2>6. ToldOK'
    BY <2>4 DEF ToldOK
  <2> QED
    BY <2>4, <2>5, <2>6 DEF RendererIInv
<1> QED
  BY <1>5, <1>6

(* The plan and the last message stay while the queue is changed and the    *)
(* messages are sent.                                                       *)
LEMMA PlanMoves ==
    ASSUME RendererIInv, NEW step \in {"ledger", "queue", "send"},
           job.step \in {"queue", "send"},
           step = "ledger" => job.redo # <<>>,
           NEW sending, job' = [job EXCEPT !.step = step, !.sending = sending],
           \A b \in sending : b \in Workers /\ at[b] \in {"select", "read", "calling"},
           UNCHANGED <<tip, stored, at>>
    PROVE  /\ CountsOK' /\ PlanOK' /\ JobOK' /\ Bound' = Bound /\ Reorganising'
           /\ job'.step = step /\ job'.sending = sending
           /\ job'.redo = job.redo /\ job'.old = job.old
<1>1. job' = [undo |-> job.undo, redo |-> job.redo, step |-> step,
              sending |-> sending, message |-> job.message,
              caller |-> job.caller, old |-> job.old]
  BY DEF RendererIInv, JobOK
<1>2. /\ job'.undo = job.undo /\ job'.redo = job.redo /\ job'.step = step
      /\ job'.sending = sending /\ job'.message = job.message
      /\ job'.caller = job.caller /\ job'.old = job.old
      /\ job' = [undo |-> job'.undo, redo |-> job'.redo, step |-> job'.step,
                 sending |-> job'.sending, message |-> job'.message,
                 caller |-> job'.caller, old |-> job'.old]
  BY <1>1
<1>3. Reorganising /\ Reorganising'
  BY <1>2 DEF Reorganising
<1>4. Bound' = Bound /\ Target' = Target /\ Final(tip)' = Final(tip)
  BY <1>2, <1>3 DEF Bound, Target, Final
<1>5. CountsOK'
  BY <1>3 DEF RendererIInv, CountsOK
<1>6. JobOK'
  BY <1>2 DEF RendererIInv, JobOK
<1>7. PlanOK'
  BY <1>2, <1>3, <1>4 DEF RendererIInv, PlanOK, IsCount
<1> QED
  BY <1>2, <1>3, <1>4, <1>5, <1>6, <1>7

(* The queue follows the ledger. *)
LEMMA KeepsQueueStep ==
    ASSUME RendererIInv, QueueStep
    PROVE  RendererIInv'
<1>1. /\ job.step = "queue" /\ job' = [job EXCEPT !.step = "send", !.sending = Registered]
      /\ UNCHANGED <<tip, stored, at, work, seen, tipChangeChan, peerVars>>
  BY DEF QueueStep, Working
<1>2. /\ CountsOK' /\ PlanOK' /\ JobOK' /\ Bound' = Bound /\ Reorganising'
      /\ job'.step = "send" /\ job'.sending = Registered
  <2> DEFINE all == Registered
  <2>1. job' = [job EXCEPT !.step = "send", !.sending = all]
    BY <1>1
  <2>0. \A b \in all : b \in Workers /\ at[b] \in {"select", "read", "calling"}
    BY DEF Registered, RendererIInv, LoopsOK, Unregistered
  <2> HIDE DEF all
  <2>2. /\ CountsOK' /\ PlanOK' /\ JobOK' /\ Bound' = Bound /\ Reorganising'
        /\ job'.step = "send" /\ job'.sending = all
    BY <1>1, <2>0, <2>1, PlanMoves
  <2> QED
    BY <2>2 DEF all
<1>3. LoopsOK' /\ WorkOK' /\ ChannelsOK' /\ PeerOK'
  BY <1>1, <1>2, WorkersStay DEF RendererIInv
<1>4. ToldOK'
  <2>1. \A b \in Workers : ~Told(b)'
    BY <1>1, <1>2 DEF Told, Registered, Unregistered
  <2> QED
    BY <2>1 DEF ToldOK
<1> QED
  BY <1>2, <1>3, <1>4 DEF RendererIInv

(* Who gets the final message finds the tip last in its channel. *)
LEMMA KeepsSendTo ==
    ASSUME RendererIInv, NEW a \in Workers, SendTo(a)
    PROVE  RendererIInv'
<1>1. /\ job.step = "send" /\ a \in job.sending
      /\ tipChangeChan' = [tipChangeChan EXCEPT ![a] = Append(@, job.message)]
      /\ job' = [job EXCEPT !.sending = @ \ {a}]
      /\ UNCHANGED <<tip, stored, at, work, seen, peerVars>>
  BY DEF SendTo, Working
<1>2. tipChangeChan' = [b \in Workers |-> IF b = a THEN Append(tipChangeChan[a], job.message)
                                          ELSE tipChangeChan[b]]
  BY <1>1 DEF RendererIInv, LoopsOK
<1>3. /\ CountsOK' /\ PlanOK' /\ JobOK' /\ Bound' = Bound /\ Reorganising'
      /\ job'.step = "send" /\ job'.sending = job.sending \ {a}
      /\ job'.redo = job.redo
  <2> DEFINE others == job.sending \ {a}
  <2>1. job' = [job EXCEPT !.step = "send", !.sending = others]
    <3>1. job = [undo |-> job.undo, redo |-> job.redo, step |-> "send",
                 sending |-> job.sending, message |-> job.message,
                 caller |-> job.caller, old |-> job.old]
      BY <1>1 DEF RendererIInv, JobOK
    <3>2. job' = [job EXCEPT !.sending = others]
      BY <1>1
    <3> HIDE DEF others
    <3>3. [job EXCEPT !.step = "send"] = job
      BY <3>1
    <3>4. [job EXCEPT !.step = "send", !.sending = others] =
            [[job EXCEPT !.step = "send"] EXCEPT !.sending = others]
      OBVIOUS
    <3> QED
      BY <3>2, <3>3, <3>4
  <2>0. \A b \in others : b \in Workers /\ at[b] \in {"select", "read", "calling"}
    BY DEF RendererIInv, JobOK
  <2> HIDE DEF others
  <2>2. /\ CountsOK' /\ PlanOK' /\ JobOK' /\ Bound' = Bound /\ Reorganising'
        /\ job'.step = "send" /\ job'.sending = others /\ job'.redo = job.redo
    BY <1>1, <2>0, <2>1, PlanMoves
  <2> QED
    BY <2>2 DEF others
<1>4. /\ Reorganising /\ IsCount(job.message.count)
      /\ job.redo = <<>> => job.message = Final(tip)
  BY <1>1 DEF Reorganising, RendererIInv, PlanOK
<1>5. /\ IsSeq(tipChangeChan[a]) /\ Len(tipChangeChan[a]) \in Nat
      /\ IsSeq(tipChangeChan'[a]) /\ Len(tipChangeChan'[a]) = Len(tipChangeChan[a]) + 1
      /\ tipChangeChan'[a][Len(tipChangeChan[a]) + 1] = job.message
      /\ \A i \in 1 .. Len(tipChangeChan[a]) : tipChangeChan'[a][i] = tipChangeChan[a][i]
  <2>1. IsSeq(tipChangeChan[a]) /\ tipChangeChan'[a] = Append(tipChangeChan[a], job.message)
    BY <1>2 DEF RendererIInv, ChannelsOK
  <2> QED
    BY <2>1, IsSeqFacts, AppendIsSeq
<1>6. LoopsOK'
  BY <1>1, <1>2 DEF RendererIInv, LoopsOK
<1>7. at[a] \notin Unregistered
  BY <1>1 DEF RendererIInv, JobOK, Unregistered
<1>8. WorkOK'
  BY <1>1, <1>2, <1>3, <1>7 DEF RendererIInv, WorkOK, IsCount
<1>9. ChannelsOK'
  <2> SUFFICES ASSUME NEW b \in Workers
               PROVE  /\ IsSeq(tipChangeChan'[b])
                      /\ \A i \in 1 .. Len(tipChangeChan'[b]) :
                            IsCount(tipChangeChan[b][i].count)'
    BY DEF ChannelsOK, IsCount
  <2>1. CASE b = a
    <3> SUFFICES ASSUME NEW i \in 1 .. Len(tipChangeChan'[a])
                 PROVE  IsCount(tipChangeChan[a][i].count)'
      BY <1>5, <2>1 DEF IsCount
    <3>1. i \in 1 .. Len(tipChangeChan[a]) \/ i = Len(tipChangeChan[a]) + 1
      BY <1>5
    <3> QED
      BY <1>3, <1>4, <1>5, <3>1 DEF RendererIInv, ChannelsOK, IsCount
  <2>2. CASE b # a
    BY <1>2, <1>3, <2>2 DEF RendererIInv, ChannelsOK, IsCount
  <2> QED
    BY <2>1, <2>2
<1>10. PeerOK'
  <2>1. Items' = Items /\ workID' = workID /\ toPeer' = toPeer
    BY <1>1 DEF Items, peerVars
  <2> QED
    BY <1>1, <1>3, <2>1 DEF RendererIInv, PeerOK, IsCount
<1>11. ToldOK'
  <2> SUFFICES ASSUME NEW b \in Workers, Told(b)'
               PROVE  IF tipChangeChan'[b] = <<>>
                        THEN /\ work[b] # None => work[b].header.previous = tip
                             /\ at[b] = "read" => seen[b] = tip
                        ELSE tipChangeChan'[b][Len(tipChangeChan'[b])] = Final(tip)
    BY <1>1 DEF ToldOK, Final
  <2>1. /\ at[b] \notin Unregistered /\ job.redo = <<>>
        /\ b \notin job.sending \ {a}
    BY <1>1, <1>3 DEF Told
  <2>2. CASE b = a
    <3>1. tipChangeChan'[a] # <<>>
      BY <1>5, IsSeqFacts
    <3> QED
      BY <1>4, <1>5, <2>1, <2>2, <3>1
  <2>3. CASE b # a
    <3>1. Told(b)
      BY <1>1, <2>1, <2>3 DEF Told
    <3> QED
      BY <1>2, <2>3, <3>1 DEF RendererIInv, ToldOK
  <2> QED
    BY <2>2, <2>3
<1> QED
  BY <1>3, <1>6, <1>8, <1>9, <1>10, <1>11 DEF RendererIInv

(* The last count of the plan is the tip when its caller is answered.       *)
LEMMA KeepsSent ==
    ASSUME RendererIInv, Sent
    PROVE  RendererIInv'
<1>1. /\ job.step = "send" /\ job.sending = {} /\ Reorganising
      /\ UNCHANGED <<tip, stored, seen, tipChangeChan, peerVars>>
      /\ IF job.undo = 0 /\ job.redo = <<>>
           THEN job' = NoJob /\ Answer(job.caller)
           ELSE job' = [job EXCEPT !.step = "ledger"] /\ UNCHANGED <<at, work>>
  BY DEF Sent, Working, Reorganising
<1>2. CASE job.undo = 0 /\ job.redo = <<>>
  <2>1. job' = NoJob /\ Answer(job.caller)
    BY <1>1, <1>2
  <2>2. job.caller = None \/ (job.caller \in Workers /\ at[job.caller] = "calling")
    BY DEF RendererIInv, JobOK
  <2>3. /\ at' = [b \in Workers |-> at'[b]] /\ work' = [b \in Workers |-> work'[b]]
        /\ \A b \in Workers : at'[b] = at[b] \/ (at[b] = "calling" /\ at'[b] = "select")
        /\ \A b \in Workers :
              \/ work'[b] = work[b]
              \/ b = R /\ work'[b] = None /\ at[b] = "calling" /\ at'[b] = "select"
    BY <2>1, <2>2, AnswerFacts DEF RendererIInv
  <2>4. ~Reorganising' /\ Bound' = Bound
    BY <1>1, <1>2, <2>1 DEF Reorganising, Bound, NoJob
  <2>5. LoopsOK' /\ WorkOK' /\ ChannelsOK' /\ PeerOK'
    BY <1>1, <2>3, <2>4, WorkersKeep DEF RendererIInv
  <2>6. CountsOK'
    <3>1. \A c \in stored : IsSeq(c) /\ Len(c) <= Len(tip)
      <4>1. /\ \A c \in stored : IsSeq(c) /\ (c = tip \/ Len(c) <= Len(job.old))
            /\ IsSeq(tip) /\ Len(tip) \in {Len(job.old), Len(job.old) + 1}
            /\ IsSeq(job.old)
        BY <1>1, <1>2 DEF RendererIInv, CountsOK, PlanOK, Target
      <4> QED
        BY <4>1, IsSeqFacts
    <3> QED
      BY <1>1, <3>1 DEF RendererIInv, CountsOK
  <2>7. PlanOK'
    BY <2>4 DEF PlanOK
  <2>8. JobOK'
    BY <2>1 DEF JobOK, NoJob
  <2>9. ToldOK'
    <3>1. \A b \in Workers : Told(b)' => Told(b)
      BY <1>1, <1>2, <2>3 DEF Told, Unregistered
    <3> QED
      BY <1>1, <2>3, <3>1, ToldKeep DEF RendererIInv
  <2> QED
    BY <2>5, <2>6, <2>7, <2>8, <2>9 DEF RendererIInv
<1>3. CASE ~(job.undo = 0 /\ job.redo = <<>>)
  <2>1. job' = [job EXCEPT !.step = "ledger"] /\ UNCHANGED <<at, work>>
    BY <1>1, <1>3
  <2>2. job.redo # <<>> /\ tip # job.old
    BY <1>1, <1>3 DEF RendererIInv, PlanOK
  <2>3. job' = [job EXCEPT !.step = "ledger", !.sending = {}]
    <3>1. job = [undo |-> job.undo, redo |-> job.redo, step |-> job.step,
                 sending |-> {}, message |-> job.message,
                 caller |-> job.caller, old |-> job.old]
      BY <1>1 DEF RendererIInv, JobOK
    <3>2. job' = [undo |-> job.undo, redo |-> job.redo, step |-> "ledger",
                  sending |-> {}, message |-> job.message,
                  caller |-> job.caller, old |-> job.old]
      BY <2>1, <3>1
    <3>3. [job EXCEPT !.step = "ledger", !.sending = {}] =
            [[job EXCEPT !.step = "ledger"] EXCEPT !.sending = {}]
      OBVIOUS
    <3>4. [job' EXCEPT !.sending = {}] = job'
      BY <3>2
    <3> QED
      BY <2>1, <3>3, <3>4
  <2>4. /\ CountsOK' /\ PlanOK' /\ JobOK' /\ Bound' = Bound /\ Reorganising'
        /\ job'.step = "ledger" /\ job'.old = job.old
    BY <1>1, <2>1, <2>2, <2>3, PlanMoves
  <2>5. LoopsOK' /\ WorkOK' /\ ChannelsOK' /\ PeerOK'
    BY <1>1, <2>1, <2>4, WorkersStay DEF RendererIInv
  <2>6. ToldOK'
    <3>1. \A b \in Workers : ~Told(b)'
      BY <1>1, <2>2, <2>4 DEF Told
    <3> QED
      BY <3>1 DEF ToldOK
  <2> QED
    BY <2>4, <2>5, <2>6 DEF RendererIInv
<1> QED
  BY <1>2, <1>3

(* A consideration is announced between two counts. *)
LEMMA KeepsAnnounced ==
    ASSUME RendererIInv, \/ \E x \in Considerations : ReceiveConsideration(x)
                         \/ Announce
    PROVE  RendererIInv'
<1>1. /\ UNCHANGED <<tip, stored, at, work, seen, tipChangeChan, peerVars>>
      /\ ~Reorganising /\ job'.step \in {"none", "announce"}
  <2>1. CASE Announce
    BY <2>1 DEF Announce, Working, NoJob, Reorganising
  <2>2. CASE \E x \in Considerations : ReceiveConsideration(x)
    <3>1. PICK x \in Considerations :
             /\ job = NoJob /\ UNCHANGED <<tip, stored, at, work, seen, tipChangeChan, peerVars>>
             /\ job' = [Plan(tip, None, tip) EXCEPT !.step = "announce", !.message = x,
                           !.sending = Registered \cap {R}]
      BY <2>2 DEF ReceiveConsideration
    <3> DEFINE p == Plan(tip, None, tip)
               to == Registered \cap {R}
    <3>2. p = [undo |-> p.undo, redo |-> p.redo, step |-> p.step,
               sending |-> p.sending, message |-> p.message,
               caller |-> p.caller, old |-> p.old]
      BY DEF Plan
    <3>3. job' = [p EXCEPT !.step = "announce", !.message = x, !.sending = to]
      BY <3>1
    <3> HIDE DEF p, to
    <3>4. job'.step = "announce"
      BY <3>2, <3>3
    <3> QED
      BY <3>1, <3>4 DEF NoJob, Reorganising
  <2> QED
    BY <2>1, <2>2
<1>0. ~Reorganising'
  BY <1>1 DEF Reorganising
<1>2. Bound' = Bound
  BY <1>0, <1>1 DEF Bound
<1>3. LoopsOK' /\ WorkOK' /\ ChannelsOK' /\ PeerOK'
  BY <1>1, <1>2, WorkersStay DEF RendererIInv
<1>4. CountsOK' /\ PlanOK'
  BY <1>0, <1>1 DEF RendererIInv, CountsOK, PlanOK
<1>5. JobOK'
  <2>1. CASE Announce
    BY <2>1 DEF Announce, JobOK, NoJob
  <2>2. CASE \E x \in Considerations : ReceiveConsideration(x)
    <3>1. PICK x \in Considerations :
             job' = [Plan(tip, None, tip) EXCEPT !.step = "announce", !.message = x,
                        !.sending = Registered \cap {R}]
      BY <2>2 DEF ReceiveConsideration
    <3> DEFINE p == Plan(tip, None, tip)
               to == Registered \cap {R}
    <3>2. p = [undo |-> p.undo, redo |-> p.redo, step |-> p.step,
               sending |-> p.sending, message |-> p.message,
               caller |-> p.caller, old |-> p.old]
          /\ p.caller = None
      BY DEF Plan
    <3>3. \A b \in to : b \in Workers /\ at'[b] \in {"select", "read", "calling"}
      BY <1>1 DEF Registered, RendererIInv, LoopsOK, Unregistered
    <3>4. job' = [p EXCEPT !.step = "announce", !.message = x, !.sending = to]
      BY <3>1
    <3> HIDE DEF p, to
    <3>5. job' = [undo |-> p.undo, redo |-> p.redo, step |-> "announce",
                  sending |-> to, message |-> x, caller |-> p.caller, old |-> p.old]
      BY <3>2, <3>4
    <3> QED
      BY <3>2, <3>3, <3>5 DEF JobOK
  <2> QED
    BY <2>1, <2>2
<1>6. ToldOK'
  <2>1. \A b \in Workers : Told(b)' => Told(b)
    BY <1>1 DEF Told
  <2> QED
    BY <1>1, <2>1, ToldKeep DEF RendererIInv
<1> QED
  BY <1>3, <1>4, <1>5, <1>6 DEF RendererIInv

-----------------------------------------------------------------------------
(* The invariant, and what it says                                          *)

(* At the start no worker has work. *)
LEMMA RendererIInvInit == Init => RendererIInv
<1> SUFFICES ASSUME Init PROVE RendererIInv
  OBVIOUS
<1>1. ~Reorganising /\ IsSeq(<<>>) /\ Len(<<>>) = 0
  BY EmptyIsSeq DEF Init, Reorganising, NoJob
<1>2. /\ \A b \in Workers : at[b] \in Unregistered
      /\ at \in [Workers -> Unregistered \cup {"select", "read", "calling"}]
  BY DEF Init, Unregistered
<1>3. LoopsOK
  <2>1. seen = [a \in Workers |-> seen[a]]
    BY DEF Init
  <2>2. work = [a \in Workers |-> work[a]]
    BY DEF Init
  <2>3. tipChangeChan = [a \in Workers |-> tipChangeChan[a]]
    BY DEF Init
  <2> QED
    BY <1>2, <2>1, <2>2, <2>3 DEF LoopsOK
<1>4. WorkOK
  BY <1>2 DEF Init, WorkOK, Unregistered
<1>5. ChannelsOK
  <2>1. \A i \in 1 .. 0 : FALSE
    OBVIOUS
  <2> QED
    BY <1>1, <2>1 DEF Init, ChannelsOK
<1>6. PeerOK
  <2>1. Items = {}
    BY <1>1 DEF Init, Items, Range
  <2>2. at[W] # "read" /\ Len(toPeer) <= 1
    BY <1>1, <1>2, WorkersDiffer DEF Unregistered, Init
  <2> QED
    BY <1>1, <2>1, <2>2 DEF Init, PeerOK
<1>7. CountsOK
  BY <1>1 DEF Init, CountsOK, Genesis
<1>8. JobOK
  BY DEF Init, JobOK, NoJob
<1>9. PlanOK
  BY <1>1 DEF PlanOK
<1>10. ToldOK
  BY <1>2 DEF ToldOK, Told
<1> QED
  BY <1>3, <1>4, <1>5, <1>6, <1>7, <1>8, <1>9, <1>10 DEF RendererIInv

(* A step that changes nothing keeps it. *)
LEMMA RendererIInvStutters == RendererIInv /\ UNCHANGED vars => RendererIInv'
<1> SUFFICES ASSUME RendererIInv, UNCHANGED vars PROVE RendererIInv'
  OBVIOUS
<1>1. /\ UNCHANGED <<tip, stored, job, at, work, seen, tipChangeChan>>
      /\ UNCHANGED <<peerVars, workID, toPeer, peerWork, submission>>
  BY DEF vars, chainVars, peerVars
<1>2. CountsOK' /\ PlanOK' /\ Bound' = Bound /\ (Reorganising' <=> Reorganising)
  BY <1>1, PlanKeeps DEF RendererIInv
<1>3. JobOK'
  BY <1>1, JobKeeps DEF RendererIInv
<1>4. LoopsOK' /\ WorkOK' /\ ChannelsOK' /\ PeerOK'
  BY <1>1, <1>2, WorkersStay DEF RendererIInv
<1>5. ToldOK'
  <2>1. \A b \in Workers : Told(b)' => Told(b)
    BY <1>1, <1>2 DEF Told
  <2> QED
    BY <1>1, <2>1, ToldKeep DEF RendererIInv
<1> QED
  BY <1>2, <1>3, <1>4, <1>5 DEF RendererIInv

(* One step for each kind of action. *)
LEMMA RendererIInvStep == RendererIInv /\ [Next]_vars => RendererIInv'
<1> SUFFICES ASSUME RendererIInv, Next PROVE RendererIInv'
  BY RendererIInvStutters
<1>1. ASSUME NEW a \in Workers,
             \/ SendTo(a) \/ OnTipChange(a) \/ ReadQueue(a) \/ Register(a) \/ TakeCount(a)
      PROVE  RendererIInv'
  BY <1>1, KeepsSendTo, KeepsOnTipChange, KeepsReadQueue, KeepsRegister, KeepsTakeCount
<1>2. ASSUME LedgerStep \/ QueueStep \/ Sent \/ ConnectFails PROVE RendererIInv'
  BY <1>2, KeepsLedgerStep, KeepsQueueStep, KeepsSent, KeepsConnectFails
<1>3. ASSUME \/ Announce \/ \E x \in Considerations : ReceiveConsideration(x)
             \/ ReceiveCount
      PROVE  RendererIInv'
  BY <1>3, KeepsAnnounced, KeepsReceiveCount
<1>4. ASSUME OnNewTx \/ FindTip \/ OnGetWork \/ Solve \/ OnSubmitWork PROVE RendererIInv'
  BY <1>4, KeepsOnNewTx, KeepsReads, KeepsSolve, KeepsOnSubmitWork
<1>5. ASSUME PeerGetsWork \/ PeerSolves PROVE RendererIInv'
  BY <1>5, KeepsPeer
<1> QED
  BY <1>1, <1>2, <1>3, <1>4, <1>5 DEF Next, Proceed, Loop

(* It holds in every state. *)
LEMMA RendererIInvAlways == Spec => []RendererIInv
  BY RendererIInvInit, RendererIInvStep, PTL DEF Spec

(* Whoever has read all the processor has sent works on the tip, whatever   *)
(* was read in the middle of a reorganisation and whether it failed         *)
(* (renderer.go:120, 190; peer.go createNewWorkCount).                      *)
THEOREM WorkFollowsTip == Spec => []WorkIsCurrent
<1>1. RendererIInv => WorkIsCurrent
  <2> SUFFICES ASSUME RendererIInv, NEW a \in Workers, job = NoJob, Selecting(a),
                      tipChangeChan[a] = <<>>, work[a] # None
               PROVE  work[a].header.previous = tip
    BY DEF WorkIsCurrent
  <2>1. Told(a)
    BY DEF Told, Selecting, Unregistered, Reorganising, NoJob
  <2> QED
    BY <2>1 DEF RendererIInv, ToldOK
<1> QED
  BY <1>1, RendererIInvAlways, PTL

(* A solution, the client's own or one a peer submits for the ID of the     *)
(* current work, goes with the considerations its header was made for       *)
(* (peer.go:1784).                                                          *)
THEOREM SolutionsFit == Spec => []SubmittedIsWhole
<1>1. RendererIInv => SubmittedIsWhole
  <2> SUFFICES ASSUME RendererIInv, NEW a \in Workers, at[a] = "calling"
               PROVE  work[a].header.root = work[a].cns
    BY DEF SubmittedIsWhole
  <2>1. Whole(work[a])
    BY DEF RendererIInv, WorkOK
  <2> QED
    BY <2>1 DEF Whole
<1> QED
  BY <1>1, RendererIInvAlways, PTL
=============================================================================
