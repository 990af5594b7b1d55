--------------------------- MODULE ProcessorProofs ---------------------------
(***************************************************************************)
(* Proofs about Processor: every step the processor takes on the tables is *)
(* one the ledger allows, the plan of a reorganisation fits the tip until  *)
(* its last count, and the walks meet no missing row, for any tree of      *)
(* counts, any veto of the graph and stops at any step.  Then what the     *)
(* queue holds, and, with the graph's own veto and the two goroutines side *)
(* by side, what the indexer has made of the branch.                       *)
(***************************************************************************)
EXTENDS Indexer, LedgerProofs

LOCAL INSTANCE SequencesExt

-----------------------------------------------------------------------------
(* Walks over branches *)

(* The count below a count of a branch is the branch's count below.         *)
LEMMA PreviousOnBranch ==
    ASSUME NEW c \in Counts, NEW h \in 1 .. Height(c)
    PROVE  /\ CountAt(c, h) \in Counts \ {Genesis}
           /\ Previous(CountAt(c, h)) = CountAt(c, h - 1)
<1>1. /\ Path[c] \in Seq(Counts) /\ Height(c) \in Nat /\ Len(Path[c]) = Height(c) + 1
      /\ CountAt(c, h) \in Counts /\ Height(CountAt(c, h)) = h
  BY BranchOfCount, HeightOfCountAt, PathAssumption
<1>2. h + 1 \in 1 .. Len(Path[c])
  BY <1>1
<1>3. Path[CountAt(c, h)] = SubSeq(Path[c], 1, h + 1)
  BY <1>2, PathAssumption DEF CountAt
<1>4. /\ Len(Path[CountAt(c, h)]) = h + 1
      /\ Path[CountAt(c, h)][h] = Path[c][h]
  BY <1>1, <1>2, <1>3
<1>5. CountAt(c, h) # Genesis
  BY <1>1, BranchOfCount
<1> QED
  BY <1>1, <1>4, <1>5 DEF Previous, CountAt

(* Branches that have a count in common have all counts below it in common. *)
LEMMA SameBelow ==
    ASSUME NEW c \in Counts, NEW d \in Counts,
           NEW i \in 1 .. Len(Path[c]), i \in 1 .. Len(Path[d]), Path[c][i] = Path[d][i]
    PROVE  \A j \in 1 .. i : Path[c][j] = Path[d][j]
<1>1. Path[c] \in Seq(Counts) /\ Path[d] \in Seq(Counts)
  BY PathAssumption
<1>2. SubSeq(Path[c], 1, i) = SubSeq(Path[d], 1, i)
  <2>1. Path[Path[c][i]] = SubSeq(Path[c], 1, i) /\ Path[Path[d][i]] = SubSeq(Path[d], 1, i)
    BY PathAssumption
  <2> QED
    BY <2>1
<1>3. ASSUME NEW j \in 1 .. i
      PROVE  /\ SubSeq(Path[c], 1, i)[j] = Path[c][j]
             /\ SubSeq(Path[d], 1, i)[j] = Path[d][j]
  BY <1>1, <1>3
<1> QED
  BY <1>2, <1>3

(* The two walks of acceptCountContinue end at the last count the branches  *)
(* share: the number of counts they share is the length of a common branch, *)
(* and above it they share none.                                            *)
LEMMA SharedIsPrefix ==
    ASSUME NEW c \in Counts, NEW d \in Counts
    PROVE  /\ Shared(c, d) \in 1 .. Len(Path[c])
           /\ Shared(c, d) \in 1 .. Len(Path[d])
           /\ \A i \in 1 .. Shared(c, d) : Path[c][i] = Path[d][i]
           /\ \A i \in 1 .. Len(Path[c]) :
                 i \in 1 .. Len(Path[d]) /\ Path[c][i] = Path[d][i] => i <= Shared(c, d)
<1> DEFINE S == {i \in DOMAIN Path[c] \cap DOMAIN Path[d] : Path[c][i] = Path[d][i]}
<1>1. /\ Path[c] \in Seq(Counts) /\ Path[d] \in Seq(Counts)
      /\ Len(Path[c]) \in Nat \ {0} /\ Len(Path[d]) \in Nat \ {0}
  BY BranchOfCount, PathAssumption
<1>2. DOMAIN Path[c] = 1 .. Len(Path[c]) /\ DOMAIN Path[d] = 1 .. Len(Path[d])
  BY <1>1
<1>3. 1 \in S
  <2>1. Path[c][1] = Genesis /\ Path[d][1] = Genesis
    BY PathAssumption
  <2>2. 1 \in DOMAIN Path[c] /\ 1 \in DOMAIN Path[d]
    BY <1>1, <1>2
  <2> QED
    BY <2>1, <2>2
<1>4. S \in SUBSET (1 .. Len(Path[c])) /\ S # {}
  BY <1>2, <1>3
<1>5. PICK m \in S : \A i \in S : i <= m
  BY <1>1, <1>4, LastIn
<1>6. m \in 1 .. Len(Path[c]) /\ m \in 1 .. Len(Path[d]) /\ Path[c][m] = Path[d][m]
  BY <1>2, <1>5
<1>7. \A i \in 1 .. m : Path[c][i] = Path[d][i]
  BY <1>6, SameBelow
<1>8. S = 1 .. m
  <2>1. ASSUME NEW i \in S PROVE i \in 1 .. m
    BY <1>2, <1>5, <1>6, <2>1
  <2>2. ASSUME NEW i \in 1 .. m PROVE i \in S
    BY <1>1, <1>2, <1>6, <1>7, <2>2
  <2> QED
    BY <2>1, <2>2
<1>9. Shared(c, d) = m
  <2>1. m \in Nat /\ m >= 1
    BY <1>1, <1>6
  <2>2. Cardinality(1 .. m) = m
    BY <2>1, FS_Interval
  <2> QED
    BY <1>8, <2>2 DEF Shared
<1>10. ASSUME NEW i \in 1 .. Len(Path[c]), i \in 1 .. Len(Path[d]), Path[c][i] = Path[d][i]
       PROVE  i <= m
  BY <1>2, <1>5, <1>10
<1> QED
  BY <1>6, <1>7, <1>9, <1>10

(* The first position of a sequence is gone from its tail. *)
LEMMA TailFacts ==
    ASSUME NEW S, NEW s \in Seq(S), s # <<>>
    PROVE  /\ Tail(s) \in Seq(S) /\ Len(s) \in Nat \ {0}
           /\ Len(Tail(s)) = Len(s) - 1
           /\ Head(s) = s[1] /\ Head(s) \in S
           /\ \A i \in 1 .. Len(Tail(s)) : Tail(s)[i] = s[i + 1]
  OBVIOUS

(* What follows the first n positions of a sequence, forwards and backwards. *)
LEMMA RestFacts ==
    ASSUME NEW S, NEW s \in Seq(S), NEW n \in 0 .. Len(s)
    PROVE  LET rest == SubSeq(s, n + 1, Len(s)) IN
           /\ rest \in Seq(S) /\ Reverse(rest) \in Seq(S)
           /\ Len(rest) = Len(s) - n /\ Len(Reverse(rest)) = Len(s) - n
           /\ \A i \in 1 .. Len(s) - n :
                 /\ rest[i] = s[n + i]
                 /\ Reverse(rest)[i] = s[Len(s) - i + 1]
<1> DEFINE rest == SubSeq(s, n + 1, Len(s))
<1>1. Len(s) \in Nat /\ n \in Nat /\ n <= Len(s)
  OBVIOUS
<1>2. /\ rest \in Seq(S) /\ Len(rest) = Len(s) - n
      /\ \A i \in 1 .. Len(s) - n : rest[i] = s[n + i]
  BY <1>1
<1>3. Reverse(rest) = [i \in 1 .. Len(rest) |-> rest[Len(rest) - i + 1]]
  BY DEF Reverse
<1> HIDE DEF rest
<1>4. /\ Reverse(rest) \in Seq(S) /\ Len(Reverse(rest)) = Len(rest)
  <2>1. \A i \in 1 .. Len(rest) : Len(rest) - i + 1 \in 1 .. Len(rest)
    BY <1>1, <1>2
  <2>2. \A i \in 1 .. Len(rest) : rest[Len(rest) - i + 1] \in S
    BY <1>2, <2>1
  <2>3. Len(rest) \in Nat
    BY <1>2
  <2>4. Reverse(rest) \in [1 .. Len(rest) -> S]
    BY <1>3, <2>2
  <2> QED
    BY <2>3, <2>4
<1>5. ASSUME NEW i \in 1 .. Len(s) - n
      PROVE  Reverse(rest)[i] = s[Len(s) - i + 1]
  <2>1. Reverse(rest)[i] = rest[Len(rest) - i + 1]
    BY <1>2, <1>3
  <2>2. Len(s) - n - i + 1 \in 1 .. Len(s) - n /\ n + (Len(s) - n - i + 1) = Len(s) - i + 1
    BY <1>1
  <2> QED
    BY <1>2, <2>1, <2>2
<1> QED
  BY <1>2, <1>4, <1>5 DEF rest

-----------------------------------------------------------------------------
(* The invariant *)

(* The genesis count and the tip are accepted, and what is accepted is      *)
(* stored, with what is below it.                                           *)
StorageOK ==
    /\ when \in [Counts -> Nat \cup {NotStored}]
    /\ now \in Nat
    /\ Known(Genesis) /\ when[Genesis] # NotStored
    /\ Known(tip)
    /\ KnownIsRooted

(* What acceptCountContinue is called with: the new count, stored and with  *)
(* an accepted parent, or the old tip.                                      *)
JobOK ==
    job # NoJob =>
        /\ job \in Jobs
        /\ job.new # Genesis /\ when[job.new] # NotStored /\ Known(Previous(job.new))
        /\ Known(job.oldTip)
        /\ job.id = IF job.restoring THEN job.oldTip ELSE job.new

(* The plan: from the tip down to height f, where the branch of the count   *)
(* leaves the branch of the tip, and from there up to the count.            *)
PlanFrom(f) ==
    /\ f \in 0 .. Height(tip) /\ f < Height(job.id)
    /\ CountAt(tip, f) = CountAt(job.id, f)
    /\ Len(job.undo) = Height(tip) - f
    /\ \A i \in 1 .. Len(job.undo) : job.undo[i] = CountAt(tip, Height(tip) - i + 1)
    /\ Len(job.redo) = Height(job.id) - f
    /\ \A i \in 1 .. Len(job.redo) : job.redo[i] = CountAt(job.id, f + i)

PlanOK == Reorganizing => \E f \in Nat : PlanFrom(f)

(* The whole of it. *)
ProcessorIInv == TypedChain /\ StorageOK /\ JobOK /\ PlanOK

(* Every count of the branch of an accepted count is accepted and stored.   *)
LEMMA BranchIsKnown ==
    ASSUME StorageOK, NEW c \in Counts, Known(c), NEW h \in 0 .. Height(c)
    PROVE  Known(CountAt(c, h)) /\ when[CountAt(c, h)] # NotStored
<1> DEFINE T == {i \in 1 .. Height(c) : ~Known(CountAt(c, i - 1))}
<1>1. Height(c) \in Nat /\ CountAt(c, Height(c)) = c
  BY BranchOfCount
<1>2. \A i \in 0 .. Height(c) : Known(CountAt(c, i))
  <2> SUFFICES ASSUME T # {} PROVE FALSE
    <3> SUFFICES ASSUME NEW i \in 0 .. Height(c), ~Known(CountAt(c, i)) PROVE T # {}
      OBVIOUS
    <3>1. i # Height(c)
      BY <1>1
    <3>2. i + 1 \in 1 .. Height(c) /\ (i + 1) - 1 = i
      BY <1>1, <3>1
    <3>3. i + 1 \in T
      BY <3>2
    <3> QED
      BY <3>3
  <2>1. PICK m \in T : \A i \in T : i <= m
    BY <1>1, LastIn
  <2>2. m \in 1 .. Height(c) /\ ~Known(CountAt(c, m - 1))
    OBVIOUS
  <2>3. Known(CountAt(c, m))
    <3>1. CASE m = Height(c)
      BY <1>1, <3>1
    <3>2. CASE m # Height(c)
      <4>1. m + 1 \in 1 .. Height(c) /\ (m + 1) - 1 = m /\ ~(m + 1 <= m)
        BY <1>1, <2>2, <3>2
      <4>2. m + 1 \notin T
        BY <2>1, <4>1
      <4> QED
        BY <4>1, <4>2
    <3> QED
      BY <3>1, <3>2
  <2>4. CountAt(c, m) \in Counts \ {Genesis} /\ Previous(CountAt(c, m)) = CountAt(c, m - 1)
    BY <2>2, PreviousOnBranch
  <2> QED
    BY <2>2, <2>3, <2>4 DEF StorageOK, KnownIsRooted
<1>3. CountAt(c, h) \in Counts
  BY BranchOfCount
<1> QED
  BY <1>2, <1>3 DEF StorageOK, KnownIsRooted

(* Cumulative work grows along a branch: nothing has less than the genesis  *)
(* count, and everything else has more.                                     *)
LEMMA GenesisIsWorst ==
    ASSUME NEW c \in Counts, c # Genesis
    PROVE  PointWork[Genesis] < PointWork[c]
<1> DEFINE T == {i \in Nat : /\ i \in 1 .. Height(c)
                           /\ PointWork[CountAt(c, i)] <= PointWork[Genesis]}
<1>1. /\ Height(c) \in Nat \ {0} /\ CountAt(c, Height(c)) = c /\ CountAt(c, 0) = Genesis
      /\ PointWork \in [Counts -> Nat] /\ Genesis \in Counts
  BY BranchOfCount, WorkAssumption, PathAssumption
<1> SUFFICES ASSUME ~(PointWork[Genesis] < PointWork[c]) PROVE FALSE
  OBVIOUS
<1>2. Height(c) \in T
  BY <1>1
<1>3. T # {}
  BY <1>2
<1>4. PICK i \in T : \A j \in T : i <= j
  BY <1>3, LeastIn
<1>5. \A j \in T : ~(j < i)
  BY <1>4
<1>6. i \in 1 .. Height(c) /\ PointWork[CountAt(c, i)] <= PointWork[Genesis]
  OBVIOUS
<1>7. /\ CountAt(c, i) \in Counts \ {Genesis} /\ Previous(CountAt(c, i)) = CountAt(c, i - 1)
      /\ CountAt(c, i - 1) \in Counts
  BY <1>1, <1>6, PreviousOnBranch, BranchOfCount
<1>8. PointWork[CountAt(c, i - 1)] < PointWork[Genesis]
  BY <1>1, <1>6, <1>7, WorkAssumption
<1>9. i - 1 # 0
  BY <1>1, <1>8
<1>10. i - 1 \in T
  BY <1>1, <1>6, <1>7, <1>8, <1>9
<1> QED
  BY <1>5, <1>6, <1>10

-----------------------------------------------------------------------------
(* Each step keeps the invariant *)

(* The client starts with the genesis count.                                *)
LEMMA ProcessorIInvInit == Init => ProcessorIInv
<1> SUFFICES ASSUME Init PROVE ProcessorIInv
  OBVIOUS
<1>1. TypedChain
  BY TypedChainInit DEF Init
<1>2. Genesis \in Counts /\ NotStored \notin Nat
  BY PathAssumption, WorkAssumption
<1>3. /\ when \in [Counts -> Nat \cup {NotStored}] /\ now \in Nat
      /\ when[Genesis] # NotStored
  BY <1>2 DEF Init
<1>4. /\ Known(Genesis) /\ \A c \in Counts \ {Genesis} : ~Known(c)
      /\ tip = Genesis
  BY <1>2 DEF Init, LedgerInit, Known
<1>5. StorageOK
  BY <1>3, <1>4 DEF StorageOK, KnownIsRooted
<1>6. JobOK /\ PlanOK
  BY DEF Init, JobOK, PlanOK, Reorganizing
<1> QED
  BY <1>1, <1>5, <1>6 DEF ProcessorIInv

(* What the storage gives is kept by a step that only adds an accepted      *)
(* count on top of an accepted one, or flags a count again.                 *)
LEMMA StorageKept ==
    ASSUME StorageOK, TypeOK, UNCHANGED <<when, now>>, NEW c \in Counts, NEW t,
           t # "UNKNOWN", branchType' = [branchType EXCEPT ![c] = t],
           when[c] # NotStored, c # Genesis => Known(Previous(c)),
           (tip' = tip) \/ (tip' = c) \/ (tip # Genesis /\ tip' = Previous(tip))
    PROVE  StorageOK' /\ \A d \in Counts : Known(d) => Known(d)'
<1>1. \A d \in Counts : Known(d)' <=> (d = c \/ Known(d))
  BY DEF TypeOK, Known
<1>2. \A d \in Counts \ {Genesis} : Previous(d) \in Counts
  BY PreviousOfCount
<1>3. KnownIsRooted'
  BY <1>1, <1>2 DEF StorageOK, KnownIsRooted
<1>4. Genesis \in Counts /\ tip \in Counts
  BY PathAssumption DEF TypeOK
<1>5. Known(tip)'
  <2>1. tip # Genesis => Previous(tip) \in Counts /\ Known(Previous(tip))
    BY <1>2, <1>4 DEF StorageOK, KnownIsRooted
  <2>2. tip' \in Counts /\ (tip' = c \/ Known(tip'))
    BY <1>4, <2>1 DEF StorageOK
  <2>3. Known(tip') => branchType[tip'] # "UNKNOWN"
    BY DEF Known
  <2>4. branchType'[tip'] # "UNKNOWN"
    BY <2>2, <2>3 DEF TypeOK
  <2> QED
    BY <2>4 DEF Known
<1> QED
  BY <1>1, <1>3, <1>4, <1>5 DEF StorageOK

(* The job goes on with the same counts while what is known stays known.    *)
LEMMA JobKept ==
    ASSUME JobOK, job # NoJob, UNCHANGED when, \A d \in Counts : Known(d) => Known(d)',
           job' \in Jobs,
           job'.new = job.new, job'.oldTip = job.oldTip,
           job'.id = IF job'.restoring THEN job'.oldTip ELSE job'.new
    PROVE  JobOK'
<1>1. /\ job \in Jobs /\ job.new \in Counts \ {Genesis} /\ job.oldTip \in Counts
      /\ when[job.new] # NotStored /\ Known(Previous(job.new)) /\ Known(job.oldTip)
  BY DEF JobOK, Jobs
<1>2. Previous(job.new) \in Counts
  BY <1>1, PreviousOfCount
<1>3. branchType'[Previous(job.new)] # "UNKNOWN" /\ branchType'[job.oldTip] # "UNKNOWN"
  BY <1>1, <1>2 DEF Known
<1> QED
  BY <1>1, <1>3 DEF JobOK, Known

(* A new count is stored.                                                   *)
LEMMA ProcessCountKeeps ==
    ASSUME ProcessorIInv, NEW c \in Counts \ {Genesis}, ProcessCount(c)
    PROVE  ProcessorIInv'
<1>1. /\ TypedChain /\ StorageOK /\ tip \in Counts /\ Known(tip)
      /\ UNCHANGED <<ledgerVars, now>> /\ ~Known(c) /\ Known(Previous(c))
      /\ when' = [when EXCEPT ![c] = now]
      /\ job' = [id |-> c, stage |-> "compare", undo |-> <<>>, redo |-> <<>>,
                 new |-> c, oldTip |-> tip, restoring |-> FALSE]
  BY DEF ProcessorIInv, ProcessCount, AcceptCount, TypedChain, TypeOK, StorageOK
<1>2. UNCHANGED <<tip, heightIndex, branchType, cnIndex, pkIndex, imbalance>>
  BY <1>1 DEF ledgerVars
<1>3. TypedChain'
  BY <1>1, <1>2 DEF TypedChain, TypeOK, ChainIndexed
<1>4. now \in Nat /\ NotStored \notin Nat
  BY <1>1, WorkAssumption DEF StorageOK
<1>5. /\ when' \in [Counts -> Nat \cup {NotStored}] /\ when'[c] # NotStored
      /\ \A d \in Counts : when[d] # NotStored => when'[d] # NotStored
  BY <1>1, <1>4 DEF StorageOK
<1>6. StorageOK'
  <2>1. \A d : Known(d)' <=> Known(d)
    BY <1>2 DEF Known
  <2>2. Genesis \in Counts
    BY PathAssumption
  <2>3. KnownIsRooted'
    BY <1>1, <1>5, <2>1 DEF StorageOK, KnownIsRooted
  <2>4. Known(tip)' /\ Known(Genesis)'
    BY <1>1, <1>2, <2>1 DEF StorageOK, Known
  <2> QED
    BY <1>1, <1>2, <1>4, <1>5, <2>2, <2>3, <2>4 DEF StorageOK
<1>7. JobOK'
  <2>1. job' \in Jobs
    BY <1>1 DEF Jobs
  <2> QED
    BY <1>1, <1>2, <1>5, <2>1 DEF JobOK, Known
<1>8. PlanOK'
  BY <1>1 DEF PlanOK, Reorganizing
<1> QED
  BY <1>3, <1>6, <1>7, <1>8 DEF ProcessorIInv

(* A step that leaves the tables and the storage alone.                     *)
LEMMA TablesKept ==
    ASSUME TypedChain, StorageOK, UNCHANGED <<ledgerVars, when>>, now' \in Nat
    PROVE  TypedChain' /\ StorageOK'
<1>1. UNCHANGED <<tip, heightIndex, branchType, cnIndex, pkIndex, imbalance>>
  BY DEF ledgerVars
<1>2. TypedChain'
  BY <1>1 DEF TypedChain, TypeOK, ChainIndexed
<1> QED
  BY <1>1, <1>2 DEF StorageOK, KnownIsRooted, Known

(* The call ends: the count is the tip, or the client is stopped.           *)
LEMMA EndOfJobKeeps ==
    ASSUME ProcessorIInv, UNCHANGED <<ledgerVars, when, now>>, job' = NoJob
    PROVE  ProcessorIInv'
<1>1. TypedChain' /\ StorageOK'
  BY TablesKept DEF ProcessorIInv, StorageOK
<1>2. JobOK' /\ PlanOK'
  BY DEF JobOK, PlanOK, Reorganizing
<1> QED
  BY <1>1, <1>2 DEF ProcessorIInv

(* What the job is called with is an accepted or a new count.               *)
LEMMA JobCount ==
    ASSUME ProcessorIInv, job # NoJob
    PROVE  /\ job \in Jobs /\ job.id \in Counts /\ when[job.id] # NotStored
           /\ job.id # Genesis => Known(Previous(job.id))
<1>1. /\ StorageOK /\ job \in Jobs /\ job.new \in Counts \ {Genesis} /\ job.oldTip \in Counts
      /\ when[job.new] # NotStored /\ Known(Previous(job.new)) /\ Known(job.oldTip)
      /\ job.id = IF job.restoring THEN job.oldTip ELSE job.new
  BY DEF ProcessorIInv, JobOK, Jobs
<1>2. /\ when[job.oldTip] # NotStored
      /\ job.oldTip # Genesis => Known(Previous(job.oldTip))
  BY <1>1 DEF StorageOK, KnownIsRooted
<1> QED
  BY <1>1, <1>2

(* A count that is no better than the tip is flagged.                       *)
LEMMA SetAsideKeeps ==
    ASSUME ProcessorIInv, SetAside
    PROVE  ProcessorIInv'
<1>1. /\ job # NoJob /\ UNCHANGED <<when, now>> /\ job' = NoJob
      /\ branchType' = [branchType EXCEPT ![job.id] = "SIDE"] /\ tip' = tip
      /\ SetBranchType(job.id) /\ TypedChain /\ StorageOK /\ TypeOK
  BY DEF SetAside, Continuing, SetBranchType, ProcessorIInv, TypedChain
<1>2. /\ job.id \in Counts /\ when[job.id] # NotStored
      /\ job.id # Genesis => Known(Previous(job.id))
  BY <1>1, JobCount
<1>3. TypedChain'
  BY <1>1, <1>2, TypedChainStep DEF LedgerNext
<1>4. StorageOK'
  BY <1>1, <1>2, StorageKept
<1>5. JobOK' /\ PlanOK'
  BY <1>1 DEF JobOK, PlanOK, Reorganizing
<1> QED
  BY <1>3, <1>4, <1>5 DEF ProcessorIInv

(* The walks end at the fork: the plan is made from the tip down to it and  *)
(* up to the count.                                                         *)
LEMMA ReorganizeKeeps ==
    ASSUME ProcessorIInv, Reorganize
    PROVE  ProcessorIInv' /\ job' \in Jobs
<1> DEFINE c == job.id
           n == Shared(tip, Previous(c))
           undo == Reverse(SubSeq(Path[tip], n + 1, Len(Path[tip])))
           redo == SubSeq(Path[c], n + 1, Len(Path[c]))
<1>1. /\ job # NoJob /\ UNCHANGED <<ledgerVars, when, now>> /\ c # tip /\ Better(c, tip)
      /\ job' = [job EXCEPT !.stage = "reorganize", !.undo = undo, !.redo = redo]
      /\ TypedChain /\ StorageOK /\ JobOK /\ tip \in Counts
  BY DEF Reorganize, Continuing, ProcessorIInv, TypedChain, TypeOK
<1>2. job \in Jobs /\ c \in Counts
  BY <1>1, JobCount
<1>3. c # Genesis
  <2> SUFFICES ASSUME c = Genesis PROVE FALSE
    OBVIOUS
  <2>1. PointWork[c] < PointWork[tip]
    BY <1>1, GenesisIsWorst
  <2>2. PointWork[c] \in Nat /\ PointWork[tip] \in Nat
    BY <1>1, <1>2, WorkAssumption
  <2>3. PointWork[c] >= PointWork[tip]
    BY <1>1, <2>2 DEF Better, Compare, Header
  <2> QED
    BY <2>1, <2>2, <2>3
<1>4. /\ Previous(c) \in Counts /\ Height(c) = Height(Previous(c)) + 1
      /\ Height(c) \in Nat /\ Height(Previous(c)) \in Nat /\ Height(tip) \in Nat
      /\ Len(Path[c]) = Height(c) + 1 /\ Len(Path[tip]) = Height(tip) + 1
      /\ Len(Path[Previous(c)]) = Height(c)
      /\ Path[c] \in Seq(Counts) /\ Path[tip] \in Seq(Counts)
      /\ \A h \in 0 .. Height(Previous(c)) : CountAt(c, h) = CountAt(Previous(c), h)
  BY <1>1, <1>2, <1>3, StepFacts, BranchOfCount, PathAssumption
<1>5. /\ n \in 1 .. Height(tip) + 1 /\ n \in 1 .. Height(c)
      /\ Path[tip][n] = Path[Previous(c)][n]
  <2>1. /\ n \in 1 .. Len(Path[tip]) /\ n \in 1 .. Len(Path[Previous(c)])
        /\ \A i \in 1 .. n : Path[tip][i] = Path[Previous(c)][i]
    BY <1>1, <1>4, SharedIsPrefix
  <2> HIDE DEF n
  <2>2. n \in 1 .. Height(tip) + 1 /\ n \in 1 .. Height(c)
    BY <1>4, <2>1
  <2>3. n \in 1 .. n
    BY <1>4, <2>2
  <2> QED
    BY <2>1, <2>2, <2>3
<1> HIDE DEF n
<1>6. PICK f \in Nat : n = f + 1
  BY <1>4, <1>5
<1>7. /\ f \in 0 .. Height(tip) /\ f < Height(c) /\ f \in 0 .. Height(Previous(c))
      /\ CountAt(tip, f) = CountAt(c, f)
  <2>1. f \in 0 .. Height(tip) /\ f < Height(c) /\ f \in 0 .. Height(Previous(c))
    BY <1>4, <1>5, <1>6
  <2>2. CountAt(c, f) = CountAt(Previous(c), f)
    BY <1>4, <2>1
  <2>3. CountAt(tip, f) = CountAt(Previous(c), f)
    BY <1>5, <1>6 DEF CountAt
  <2> QED
    BY <2>1, <2>2, <2>3
<1>8. /\ undo \in Seq(Counts) /\ Len(undo) = Height(tip) - f
      /\ \A i \in 1 .. Len(undo) : undo[i] = CountAt(tip, Height(tip) - i + 1)
  <2>1. /\ n \in 0 .. Len(Path[tip]) /\ Len(Path[tip]) - n = Height(tip) - f
        /\ Len(Path[tip]) = Height(tip) + 1
    BY <1>4, <1>5, <1>6
  <2>2. /\ undo \in Seq(Counts) /\ Len(undo) = Len(Path[tip]) - n
        /\ \A i \in 1 .. Len(Path[tip]) - n : undo[i] = Path[tip][Len(Path[tip]) - i + 1]
    BY <1>4, <2>1, RestFacts
  <2> HIDE DEF undo
  <2>3. ASSUME NEW i \in 1 .. Len(undo)
        PROVE  undo[i] = CountAt(tip, Height(tip) - i + 1)
    <3>1. undo[i] = Path[tip][Len(Path[tip]) - i + 1]
      BY <2>2
    <3>2. i \in Int
      BY <1>4, <1>6, <2>1, <2>2
    <3>3. Len(Path[tip]) - i + 1 = Height(tip) - i + 1 + 1
      BY <1>4, <2>1, <3>2
    <3> QED
      BY <3>1, <3>3 DEF CountAt
  <2> QED
    BY <2>1, <2>2, <2>3
<1>9. /\ redo \in Seq(Counts) /\ Len(redo) = Height(c) - f
      /\ \A i \in 1 .. Len(redo) : redo[i] = CountAt(c, f + i)
  <2>1. /\ n \in 0 .. Len(Path[c]) /\ Len(Path[c]) - n = Height(c) - f
        /\ Len(Path[c]) = Height(c) + 1
    BY <1>4, <1>5, <1>6
  <2>2. /\ redo \in Seq(Counts) /\ Len(redo) = Len(Path[c]) - n
        /\ \A i \in 1 .. Len(Path[c]) - n : redo[i] = Path[c][n + i]
    BY <1>4, <2>1, RestFacts
  <2> HIDE DEF redo
  <2>3. ASSUME NEW i \in 1 .. Len(redo)
        PROVE  redo[i] = CountAt(c, f + i)
    <3>1. redo[i] = Path[c][n + i]
      BY <2>2
    <3>2. i \in Int
      BY <1>4, <1>6, <2>1, <2>2
    <3>3. n + i = f + i + 1
      BY <1>6, <3>2
    <3> QED
      BY <3>1, <3>3 DEF CountAt
  <2> QED
    BY <2>1, <2>2, <2>3
<1> HIDE DEF undo, redo
<1>10. /\ job' \in Jobs /\ job'.id = c /\ job'.undo = undo /\ job'.redo = redo
       /\ job'.new = job.new /\ job'.oldTip = job.oldTip /\ job'.restoring = job.restoring
  BY <1>1, <1>2, <1>8, <1>9 DEF Jobs
<1>11. TypedChain' /\ StorageOK'
  BY <1>1, TablesKept DEF StorageOK
<1>12. JobOK'
  <2>1. \A d \in Counts : Known(d) => Known(d)'
    BY <1>1 DEF Known, ledgerVars
  <2>2. job'.id = IF job'.restoring THEN job'.oldTip ELSE job'.new
    BY <1>1, <1>10 DEF JobOK
  <2> QED
    BY <1>1, <1>10, <2>1, <2>2, JobKept
<1>13. PlanFrom(f)'
  <2>1. tip' = tip /\ job'.id = job.id /\ job'.undo = undo /\ job'.redo = redo
    BY <1>1, <1>10 DEF ledgerVars
  <2> QED
    BY <1>7, <1>8, <1>9, <2>1 DEF PlanFrom, CountAt, Height
<1>14. PlanOK'
  BY <1>13 DEF PlanOK
<1> QED
  BY <1>10, <1>11, <1>12, <1>14 DEF ProcessorIInv

(* Where the plan stands: the first count to disconnect is the tip, and     *)
(* with none left the first one to connect is on top of it.                 *)
LEMMA PlanFits ==
    ASSUME ProcessorIInv, NEW f \in Nat, PlanFrom(f), job # NoJob
    PROVE  /\ job.undo \in Seq(Counts) /\ job.redo \in Seq(Counts)
           /\ job.undo # <<>> => Head(job.undo) = tip /\ tip # Genesis /\ f < Height(tip)
           /\ job.undo = <<>> => f = Height(tip)
           /\ job.redo # <<>> /\ Head(job.redo) \in Counts \ {Genesis}
           /\ Head(job.redo) = CountAt(job.id, f + 1)
           /\ job.undo = <<>> => Previous(Head(job.redo)) = tip
<1>1. /\ job \in Jobs /\ job.id \in Counts /\ tip \in Counts
      /\ job.undo \in Seq(Counts) /\ job.redo \in Seq(Counts)
  BY JobCount DEF Jobs, ProcessorIInv, TypedChain, TypeOK
<1>2. /\ Height(tip) \in Nat /\ Height(job.id) \in Nat /\ CountAt(tip, Height(tip)) = tip
  BY <1>1, BranchOfCount
<1>3. f + 1 \in 1 .. Height(job.id) /\ (f + 1) - 1 = f
  BY <1>2 DEF PlanFrom
<1>4. /\ CountAt(job.id, f + 1) \in Counts \ {Genesis}
      /\ Previous(CountAt(job.id, f + 1)) = CountAt(tip, f)
  BY <1>1, <1>3, PreviousOnBranch DEF PlanFrom
<1>5. /\ Len(job.redo) \in Nat \ {0} /\ Len(job.undo) = Height(tip) - f
      /\ 1 \in 1 .. Len(job.redo)
  BY <1>2, <1>3 DEF PlanFrom
<1>6. job.redo # <<>> /\ Head(job.redo) = CountAt(job.id, f + 1)
  BY <1>1, <1>5 DEF PlanFrom
<1>7. ASSUME job.undo # <<>>
      PROVE  Head(job.undo) = tip /\ tip # Genesis /\ f < Height(tip)
  <2>1. Len(job.undo) \in Nat \ {0} /\ Head(job.undo) = job.undo[1]
    BY <1>1, <1>7, TailFacts
  <2>2. 1 \in 1 .. Len(job.undo) /\ Height(tip) - 1 + 1 = Height(tip)
    BY <1>2, <2>1
  <2>3. Head(job.undo) = CountAt(tip, Height(tip))
    BY <2>1, <2>2 DEF PlanFrom
  <2>4. f < Height(tip)
    BY <1>2, <1>5, <2>1
  <2> QED
    BY <1>1, <1>2, <2>3, <2>4, BranchOfCount
<1>8. ASSUME job.undo = <<>>
      PROVE  f = Height(tip)
  BY <1>2, <1>5, <1>8
<1> QED
  BY <1>1, <1>2, <1>4, <1>6, <1>7, <1>8

(* A count is taken off the tip: the rest of the plan starts one below.     *)
LEMMA DisconnectKeeps ==
    ASSUME ProcessorIInv, Disconnect
    PROVE  /\ ProcessorIInv' /\ LedgerNext /\ job' \in Jobs
           /\ Head(job.undo) = tip /\ tip # Genesis
<1>1. /\ job # NoJob /\ Reorganizing /\ job.undo # <<>> /\ UNCHANGED <<when, now>>
      /\ DisconnectCount(Head(job.undo))
      /\ job' = [job EXCEPT !.undo = Tail(job.undo)]
      /\ TypedChain /\ StorageOK /\ JobOK /\ tip \in Counts /\ TypeOK
  BY DEF Disconnect, Reorganizing, ProcessorIInv, TypedChain, TypeOK
<1>2. PICK f \in Nat : PlanFrom(f)
  BY <1>1 DEF ProcessorIInv, PlanOK
<1>3. /\ job.undo \in Seq(Counts) /\ Head(job.undo) = tip /\ tip # Genesis
      /\ f < Height(tip)
  BY <1>1, <1>2, PlanFits
<1>4. /\ DisconnectCount(tip) /\ tip' = Previous(tip)
      /\ branchType' = [branchType EXCEPT ![tip] = "SIDE"]
  BY <1>1, <1>3 DEF DisconnectCount
<1>5. TypedChain' /\ LedgerNext
  BY <1>1, <1>3, <1>4, TypedChainDisconnect DEF LedgerNext
<1>6. when[tip] # NotStored /\ Known(Previous(tip))
  BY <1>1, <1>3 DEF StorageOK, KnownIsRooted
<1>7. StorageOK' /\ \A d \in Counts : Known(d) => Known(d)'
  BY <1>1, <1>3, <1>4, <1>6, StorageKept
<1>8. /\ Tail(job.undo) \in Seq(Counts)
      /\ Len(job.undo) \in Nat \ {0} /\ Len(Tail(job.undo)) = Len(job.undo) - 1
      /\ \A i \in 1 .. Len(Tail(job.undo)) : Tail(job.undo)[i] = job.undo[i + 1]
  BY <1>1, <1>3, TailFacts
<1>9. job \in Jobs
  BY <1>1 DEF JobOK
<1>10. /\ job' \in Jobs /\ job'.undo = Tail(job.undo) /\ job'.redo = job.redo
       /\ job'.id = job.id /\ job'.new = job.new /\ job'.oldTip = job.oldTip
       /\ job'.restoring = job.restoring
  BY <1>1, <1>8, <1>9 DEF Jobs
<1>11. JobOK'
  BY <1>1, <1>7, <1>10, JobKept DEF JobOK
<1>12. PlanFrom(f)'
  <2>1. /\ Height(tip) = Height(Previous(tip)) + 1 /\ Height(Previous(tip)) \in Nat
        /\ \A h \in 0 .. Height(Previous(tip)) : CountAt(tip, h) = CountAt(Previous(tip), h)
    BY <1>1, <1>3, StepFacts
  <2> DEFINE b == Previous(tip)
             undo == Tail(job.undo)
  <2>2. f \in 0 .. Height(b) /\ CountAt(b, f) = CountAt(job.id, f) /\ f < Height(job.id)
    BY <1>2, <1>3, <2>1 DEF PlanFrom
  <2>3. Len(undo) = Height(b) - f
    BY <1>2, <1>8, <2>1 DEF PlanFrom
  <2>4. ASSUME NEW i \in 1 .. Len(undo)
        PROVE  undo[i] = CountAt(b, Height(b) - i + 1)
    <3>1. undo[i] = job.undo[i + 1] /\ i + 1 \in 1 .. Len(job.undo)
      BY <1>8
    <3>2. job.undo[i + 1] = CountAt(tip, Height(tip) - (i + 1) + 1)
      BY <1>2, <3>1 DEF PlanFrom
    <3>3. /\ Height(tip) - (i + 1) + 1 = Height(b) - i + 1
          /\ Height(b) - i + 1 \in 0 .. Height(b)
      BY <2>1, <2>2, <2>3
    <3> QED
      BY <2>1, <3>1, <3>2, <3>3
  <2>5. /\ Len(job.redo) = Height(job.id) - f
        /\ \A i \in 1 .. Len(job.redo) : job.redo[i] = CountAt(job.id, f + i)
    BY <1>2 DEF PlanFrom
  <2>6. tip' = b /\ job'.undo = undo /\ job'.redo = job.redo /\ job'.id = job.id
    BY <1>4, <1>10
  <2> HIDE DEF undo, b
  <2> QED
    BY <2>2, <2>3, <2>4, <2>5, <2>6 DEF PlanFrom, CountAt, Height
<1>13. PlanOK'
  BY <1>12 DEF PlanOK
<1> QED
  BY <1>3, <1>5, <1>7, <1>10, <1>11, <1>13 DEF ProcessorIInv

(* A count is put on top of the tip: the rest of the plan starts there, and *)
(* with the last one the call ends.                                         *)
LEMMA ConnectKeeps ==
    ASSUME ProcessorIInv, NEW vetoed, Connect(vetoed)
    PROVE  /\ ProcessorIInv' /\ LedgerNext
           /\ Len(job.redo) > 1 => job' \in Jobs
<1> DEFINE c == Head(job.redo)
<1>1. /\ job # NoJob /\ Reorganizing /\ job.undo = <<>> /\ UNCHANGED <<when, now>>
      /\ ConnectCount(c)
      /\ job' = IF Len(job.redo) > 1 THEN [job EXCEPT !.redo = Tail(job.redo)] ELSE NoJob
      /\ TypedChain /\ StorageOK /\ JobOK /\ tip \in Counts /\ TypeOK
  BY DEF Connect, Reorganizing, ProcessorIInv, TypedChain, TypeOK
<1>2. PICK f \in Nat : PlanFrom(f)
  BY <1>1 DEF ProcessorIInv, PlanOK
<1>3. /\ job.redo \in Seq(Counts) /\ job.redo # <<>> /\ c \in Counts \ {Genesis}
      /\ c = CountAt(job.id, f + 1) /\ Previous(c) = tip /\ f = Height(tip)
  BY <1>1, <1>2, PlanFits
<1>4. /\ tip' = c /\ branchType' = [branchType EXCEPT ![c] = "MAIN"]
  BY <1>1 DEF ConnectCount
<1>5. TypedChain' /\ LedgerNext
  BY <1>1, <1>3, TypedChainConnect DEF LedgerNext
<1>6. /\ job \in Jobs /\ job.id \in Counts /\ when[job.id] # NotStored
      /\ job.id # Genesis => Known(Previous(job.id))
  BY <1>1, JobCount
<1>7. /\ Height(job.id) \in Nat /\ f < Height(job.id) /\ CountAt(job.id, Height(job.id)) = job.id
      /\ job.id # Genesis
  BY <1>2, <1>6, BranchOfCount DEF PlanFrom
<1>8. when[c] # NotStored
  <2>1. CASE f + 1 = Height(job.id)
    BY <1>3, <1>6, <1>7, <2>1
  <2>2. CASE f + 1 # Height(job.id)
    <3>1. /\ Previous(job.id) \in Counts /\ Height(job.id) = Height(Previous(job.id)) + 1
          /\ Height(Previous(job.id)) \in Nat
          /\ \A h \in 0 .. Height(Previous(job.id)) :
                CountAt(job.id, h) = CountAt(Previous(job.id), h)
      BY <1>6, <1>7, StepFacts
    <3>2. f + 1 \in 0 .. Height(Previous(job.id))
      BY <1>7, <2>2, <3>1
    <3>3. c = CountAt(Previous(job.id), f + 1)
      BY <1>3, <3>1, <3>2
    <3> QED
      BY <1>1, <1>6, <1>7, <3>1, <3>2, <3>3, BranchIsKnown
  <2> QED
    BY <2>1, <2>2
<1>9. StorageOK' /\ \A d \in Counts : Known(d) => Known(d)'
  <2>1. Known(Previous(c))
    BY <1>1, <1>3 DEF StorageOK
  <2> QED
    BY <1>1, <1>3, <1>4, <1>8, <2>1, StorageKept
<1>10. CASE Len(job.redo) > 1
  <2>1. /\ Tail(job.redo) \in Seq(Counts)
        /\ Len(job.redo) \in Nat \ {0} /\ Len(Tail(job.redo)) = Len(job.redo) - 1
        /\ \A i \in 1 .. Len(Tail(job.redo)) : Tail(job.redo)[i] = job.redo[i + 1]
    BY <1>3, TailFacts
  <2>2. /\ job' \in Jobs /\ job'.redo = Tail(job.redo) /\ job'.undo = <<>>
        /\ job'.id = job.id /\ job'.new = job.new /\ job'.oldTip = job.oldTip
        /\ job'.restoring = job.restoring
    BY <1>1, <1>6, <1>10, <2>1 DEF Jobs
  <2>3. JobOK'
    BY <1>1, <1>9, <2>2, JobKept DEF JobOK
  <2>4. Height(c) = f + 1 /\ CountAt(c, f + 1) = c
    BY <1>1, <1>3, StepFacts
  <2>5. /\ Len(job.redo) = Height(job.id) - f
        /\ \A i \in 1 .. Len(job.redo) : job.redo[i] = CountAt(job.id, f + i)
    BY <1>2 DEF PlanFrom
  <2> DEFINE redo == Tail(job.redo)
  <2>6. /\ f + 1 \in 0 .. Height(c) /\ f + 1 < Height(job.id)
        /\ CountAt(c, f + 1) = CountAt(job.id, f + 1)
        /\ Len(redo) = Height(job.id) - (f + 1)
        /\ Len(<<>>) = Height(c) - (f + 1)
    BY <1>3, <1>7, <1>10, <2>1, <2>4, <2>5
  <2>7. ASSUME NEW i \in 1 .. Len(redo)
        PROVE  redo[i] = CountAt(job.id, (f + 1) + i)
    <3>1. redo[i] = job.redo[i + 1] /\ i + 1 \in 1 .. Len(job.redo)
      BY <2>1
    <3>2. f + (i + 1) = (f + 1) + i
      BY <2>1
    <3> QED
      BY <2>5, <3>1, <3>2
  <2> HIDE DEF redo, c
  <2>8. tip' = c /\ job'.undo = <<>> /\ job'.redo = redo /\ job'.id = job.id
    BY <1>4, <2>2 DEF redo
  <2>9. PlanFrom(f + 1)'
    <3>1. \A i \in 1 .. Len(<<>>) : <<>>[i] = CountAt(c, Height(c) - i + 1)
      OBVIOUS
    <3> QED
      BY <2>6, <2>7, <2>8, <3>1 DEF PlanFrom, CountAt, Height
  <2>10. PlanOK'
    BY <2>9 DEF PlanOK
  <2> QED
    BY <1>5, <1>9, <2>2, <2>3, <2>10 DEF ProcessorIInv
<1>11. CASE ~(Len(job.redo) > 1)
  <2>1. JobOK' /\ PlanOK'
    BY <1>1, <1>11 DEF JobOK, PlanOK, Reorganizing
  <2> QED
    BY <1>5, <1>9, <1>11, <2>1 DEF ProcessorIInv
<1> QED
  BY <1>10, <1>11

(* The ledger refuses a count: the old tip is tried instead, once.          *)
LEMMA ConnectFailsKeeps ==
    ASSUME ProcessorIInv, NEW vetoed, ConnectFails(vetoed)
    PROVE  ProcessorIInv' /\ (~job.restoring => job' \in Jobs)
<1>1. /\ job # NoJob /\ UNCHANGED <<ledgerVars, when, now>>
      /\ job' = IF job.restoring THEN NoJob
                ELSE [job EXCEPT !.id = job.oldTip, !.stage = "compare", !.redo = <<>>,
                                 !.restoring = TRUE]
  BY DEF ConnectFails, Reorganizing
<1>2. CASE job.restoring
  BY <1>1, <1>2, EndOfJobKeeps
<1>3. CASE ~job.restoring
  <2>1. TypedChain /\ StorageOK /\ JobOK /\ job \in Jobs
    BY <1>1 DEF ProcessorIInv, JobOK
  <2>2. TypedChain' /\ StorageOK'
    BY <1>1, <2>1, TablesKept DEF StorageOK
  <2>3. /\ job' \in Jobs /\ job'.new = job.new /\ job'.oldTip = job.oldTip
        /\ job'.id = job.oldTip /\ job'.restoring = TRUE /\ job'.stage = "compare"
    <3>1. job' = [job EXCEPT !.id = job.oldTip, !.stage = "compare", !.redo = <<>>,
                             !.restoring = TRUE]
      BY <1>1, <1>3
    <3>2. <<>> \in Seq(Counts) /\ job.oldTip \in Counts
      BY <2>1 DEF Jobs
    <3>3. job' \in Jobs
      BY <2>1, <3>1, <3>2 DEF Jobs
    <3>4. /\ job'.new = job.new /\ job'.oldTip = job.oldTip /\ job'.id = job.oldTip
          /\ job'.stage = "compare"
      BY <2>1, <3>1 DEF Jobs
    <3>5. job'.restoring = TRUE
      BY <2>1, <3>1 DEF Jobs
    <3> QED
      BY <3>3, <3>4, <3>5
  <2>4. \A d \in Counts : Known(d) => Known(d)'
    BY <1>1 DEF Known, ledgerVars
  <2>5. JobOK'
    BY <1>1, <2>1, <2>3, <2>4, JobKept
  <2>6. PlanOK'
    BY <2>3 DEF PlanOK, Reorganizing
  <2> QED
    BY <2>2, <2>3, <2>5, <2>6 DEF ProcessorIInv
<1>4. job.restoring \in BOOLEAN
  BY <1>1 DEF ProcessorIInv, JobOK, Jobs
<1> QED
  BY <1>2, <1>3, <1>4

(* The queue, the clock: the tables, the storage and the job stay.          *)
LEMMA ElseKeeps ==
    ASSUME ProcessorIInv, UNCHANGED <<ledgerVars, when, job>>, now' \in Nat
    PROVE  ProcessorIInv'
<1>1. TypedChain' /\ StorageOK'
  BY TablesKept DEF ProcessorIInv
<1>2. UNCHANGED <<tip, branchType, when, job>>
  BY DEF ledgerVars
<1>3. JobOK'
  BY <1>2 DEF ProcessorIInv, JobOK, Known
<1>4. PlanOK'
  BY <1>2 DEF ProcessorIInv, PlanOK, PlanFrom, Reorganizing, CountAt, Height
<1> QED
  BY <1>1, <1>3, <1>4 DEF ProcessorIInv

(* Every step of the processor keeps the invariant and is, on the tables, a *)
(* step of the ledger or none.                                              *)
LEMMA ProcessorStep ==
    ASSUME ProcessorIInv, [Next]_vars
    PROVE  ProcessorIInv' /\ [LedgerNext]_ledgerVars
<1>0. now \in Nat
  BY DEF ProcessorIInv, StorageOK
<1>1. ASSUME NEW c \in Counts \ {Genesis}, ProcessCount(c)
      PROVE  ProcessorIInv' /\ UNCHANGED ledgerVars
  BY <1>1, ProcessCountKeeps DEF ProcessCount
<1>2. ASSUME IsTip PROVE ProcessorIInv' /\ UNCHANGED ledgerVars
  BY <1>2, EndOfJobKeeps DEF IsTip
<1>3. ASSUME SetAside PROVE ProcessorIInv' /\ LedgerNext
  <2>1. job.id \in Counts /\ SetBranchType(job.id)
    BY <1>3, JobCount DEF SetAside, Continuing
  <2> QED
    BY <1>3, <2>1, SetAsideKeeps DEF LedgerNext
<1>4. ASSUME Reorganize PROVE ProcessorIInv' /\ UNCHANGED ledgerVars
  BY <1>4, ReorganizeKeeps DEF Reorganize
<1>5. ASSUME Disconnect PROVE ProcessorIInv' /\ LedgerNext
  BY <1>5, DisconnectKeeps
<1>6. ASSUME NEW vetoed, Connect(vetoed) PROVE ProcessorIInv' /\ LedgerNext
  BY <1>6, ConnectKeeps
<1>7. ASSUME NEW vetoed, ConnectFails(vetoed) PROVE ProcessorIInv' /\ UNCHANGED ledgerVars
  BY <1>7, ConnectFailsKeeps DEF ConnectFails
<1>8. ASSUME NEW x, NEW vetoed, ProcessConsideration(x, vetoed)
      PROVE  ProcessorIInv' /\ UNCHANGED ledgerVars
  BY <1>0, <1>8, ElseKeeps DEF ProcessConsideration
<1>9. ASSUME Restart PROVE ProcessorIInv' /\ UNCHANGED ledgerVars
  BY <1>9, EndOfJobKeeps DEF Restart
<1>10. ASSUME Tick PROVE ProcessorIInv' /\ UNCHANGED ledgerVars
  BY <1>0, <1>10, ElseKeeps DEF Tick
<1>11. ASSUME UNCHANGED vars PROVE ProcessorIInv' /\ UNCHANGED ledgerVars
  BY <1>0, <1>11, ElseKeeps DEF vars
<1> QED
  BY <1>1, <1>2, <1>3, <1>4, <1>5, <1>6, <1>7, <1>8, <1>9, <1>10, <1>11 DEF Next, Proceed

(* The invariant holds in every state. *)
LEMMA ProcessorIInvAlways == Spec => []ProcessorIInv
<1>1. ProcessorIInv /\ [Next]_vars => ProcessorIInv'
  BY ProcessorStep
<1> QED
  BY <1>1, ProcessorIInvInit, PTL DEF Spec

-----------------------------------------------------------------------------
(* Theorems *)

(* What the processor does to the tables is what the ledger allows: each    *)
(* write is ConnectCount on top of the tip, DisconnectCount of the tip or a *)
(* flag, whatever fails, is vetoed or is interrupted.                       *)
THEOREM ProcessorUsesTheLedger == Spec => LedgerSpec
<1>1. Init => LedgerInit
  BY DEF Init
<1>2. ProcessorIInv /\ [Next]_vars => [LedgerNext]_ledgerVars
  BY ProcessorStep
<1> QED
  BY <1>1, <1>2, ProcessorIInvAlways, PTL DEF Spec, LedgerSpec

(* The walks of acceptCountContinue only meet counts that are stored and    *)
(* accepted, whatever was interrupted: GetCountHeader never returns nil.    *)
THEOREM WalksMeetHeaders == Spec => []KnownIsRooted
<1>1. ProcessorIInv => KnownIsRooted
  BY DEF ProcessorIInv, StorageOK
<1> QED
  BY <1>1, ProcessorIInvAlways, PTL

(* Every disconnect and connect of a reorganisation is one the ledger can   *)
(* do: "does not match tip" is never returned and Undo never panics.        *)
THEOREM PlanIsPossible == Spec => []PlanFollowsTip
<1>1. ProcessorIInv /\ UndoNeverPanics => PlanFollowsTip
  <2> SUFFICES ASSUME ProcessorIInv, UndoNeverPanics, Reorganizing
               PROVE  IF job.undo # <<>>
                        THEN Head(job.undo) = tip /\ tip # Genesis /\ Undoable(Effects(tip))
                        ELSE Previous(Head(job.redo)) = tip
    BY DEF PlanFollowsTip
  <2>1. PICK f \in Nat : PlanFrom(f)
    BY DEF ProcessorIInv, PlanOK
  <2> QED
    BY <2>1, PlanFits DEF UndoNeverPanics, Reorganizing
<1>2. Spec => []UndoNeverPanics
  BY ProcessorUsesTheLedger, TipCanBeUndone, PTL
<1> QED
  BY <1>1, <1>2, ProcessorIInvAlways, PTL

-----------------------------------------------------------------------------
(* Valid branches *)

(* A branch cut at a height is the branch of the count there.               *)
LEMMA BranchOfBranch ==
    ASSUME NEW c \in Counts, NEW h \in 0 .. Height(c)
    PROVE  \A g \in 0 .. h : CountAt(CountAt(c, h), g) = CountAt(c, g)
<1>1. /\ Path[c] \in Seq(Counts) /\ Height(c) \in Nat /\ Len(Path[c]) = Height(c) + 1
  BY BranchOfCount, PathAssumption
<1>2. h + 1 \in 1 .. Len(Path[c])
  BY <1>1
<1>3. Path[CountAt(c, h)] = SubSeq(Path[c], 1, h + 1)
  BY <1>2, PathAssumption DEF CountAt
<1>4. ASSUME NEW g \in 0 .. h PROVE SubSeq(Path[c], 1, h + 1)[g + 1] = Path[c][g + 1]
  BY <1>1, <1>2, <1>4
<1> QED
  BY <1>3, <1>4 DEF CountAt

(* What is below a valid count is valid. *)
LEMMA ValidBelow ==
    ASSUME NEW c \in ValidBranches, NEW h \in 0 .. Height(c)
    PROVE  CountAt(c, h) \in ValidBranches
<1> DEFINE d == CountAt(c, h)
<1>1. c \in Counts /\ Height(c) \in Nat
  BY BranchOfCount DEF ValidBranches
<1>2. /\ d \in Counts /\ Height(d) = h
      /\ \A g \in 0 .. h : CountAt(d, g) = CountAt(c, g)
  BY <1>1, HeightOfCountAt, BranchOfBranch
<1> HIDE DEF d
<1>3. ASSUME NEW g \in 1 .. Height(d) PROVE ValidOnParent(CountAt(d, g))
  <2>1. g \in 1 .. Height(c) /\ g \in 0 .. h
    BY <1>1, <1>2
  <2> QED
    BY <1>2, <2>1 DEF ValidBranches
<1>4. ASSUME NEW f \in 0 .. Height(d), NEW g \in 0 .. Height(d), f # g
      PROVE  Confirms(CountAt(d, f)) \cap Confirms(CountAt(d, g)) = {}
  <2>1. f \in 0 .. Height(c) /\ g \in 0 .. Height(c) /\ f \in 0 .. h /\ g \in 0 .. h
    BY <1>1, <1>2
  <2>2. Confirms(CountAt(c, f)) \cap Confirms(CountAt(c, g)) = {}
    BY <1>4, <2>1 DEF ValidBranches
  <2> QED
    BY <1>2, <2>1, <2>2
<1>5. d \in ValidBranches
  BY <1>2, <1>3, <1>4 DEF ValidBranches
<1> QED
  BY <1>5 DEF d

(* The count confirms nothing that the branch below it confirms. *)
NothingTwice(c) ==
    \A h \in 0 .. Height(Previous(c)) : Confirms(c) \cap Confirms(CountAt(c, h)) = {}

(* A count on a valid branch is valid when it is so on top of its parent    *)
(* and confirms nothing the branch confirms.                                *)
LEMMA ValidOnTop ==
    ASSUME NEW c \in Counts, c # Genesis, Previous(c) \in ValidBranches
    PROVE  c \in ValidBranches <=> ValidOnParent(c) /\ NothingTwice(c)
<1> DEFINE b == Previous(c)
<1>1. /\ b \in Counts /\ Height(c) = Height(b) + 1 /\ Height(b) \in Nat
      /\ CountAt(c, Height(c)) = c
      /\ \A h \in 0 .. Height(b) : CountAt(c, h) = CountAt(b, h)
  BY StepFacts
<1>2. ASSUME c \in ValidBranches
      PROVE  ValidOnParent(c) /\ NothingTwice(c)
  <2>1. Height(c) \in 1 .. Height(c) /\ Height(c) \in 0 .. Height(c)
    BY <1>1
  <2>2. ValidOnParent(c)
    BY <1>1, <1>2, <2>1 DEF ValidBranches
  <2>3. ASSUME NEW h \in 0 .. Height(b)
        PROVE  Confirms(c) \cap Confirms(CountAt(c, h)) = {}
    <3>1. h \in 0 .. Height(c) /\ h # Height(c)
      BY <1>1
    <3> QED
      BY <1>1, <1>2, <2>1, <3>1 DEF ValidBranches
  <2> QED
    BY <2>2, <2>3 DEF NothingTwice
<1>3. ASSUME ValidOnParent(c), NothingTwice(c)
      PROVE  c \in ValidBranches
  <2>1. ASSUME NEW h \in 1 .. Height(c) PROVE ValidOnParent(CountAt(c, h))
    <3>1. CASE h = Height(c)
      BY <1>1, <1>3, <3>1
    <3>2. CASE h # Height(c)
      <4>1. h \in 1 .. Height(b) /\ h \in 0 .. Height(b)
        BY <1>1, <3>2
      <4>2. ValidOnParent(CountAt(b, h))
        BY <4>1 DEF ValidBranches
      <4> QED
        BY <1>1, <4>1, <4>2
    <3> QED
      BY <3>1, <3>2
  <2>2. ASSUME NEW f \in 0 .. Height(c), NEW g \in 0 .. Height(c), f # g
        PROVE  Confirms(CountAt(c, f)) \cap Confirms(CountAt(c, g)) = {}
    <3>1. CASE f # Height(c) /\ g # Height(c)
      <4>1. f \in 0 .. Height(b) /\ g \in 0 .. Height(b)
        BY <1>1, <3>1
      <4>2. Confirms(CountAt(b, f)) \cap Confirms(CountAt(b, g)) = {}
        BY <2>2, <4>1 DEF ValidBranches
      <4> QED
        BY <1>1, <4>1, <4>2
    <3>2. CASE f = Height(c)
      <4>1. g \in 0 .. Height(b) /\ CountAt(c, f) = c
        BY <1>1, <2>2, <3>2
      <4> QED
        BY <1>3, <4>1 DEF NothingTwice
    <3>3. CASE g = Height(c)
      <4>1. f \in 0 .. Height(b) /\ CountAt(c, g) = c
        BY <1>1, <2>2, <3>3
      <4>2. Confirms(c) \cap Confirms(CountAt(c, f)) = {}
        BY <1>3, <4>1 DEF NothingTwice
      <4> QED
        BY <4>1, <4>2
    <3> QED
      BY <3>1, <3>2, <3>3
  <2> QED
    BY <2>1, <2>2 DEF ValidBranches
<1> QED
  BY <1>2, <1>3

(* The index that is looked up reaches back far enough: a count whose       *)
(* considerations it does not hold repeats none of the whole branch.        *)
LEMMA UnprocessedIsNew ==
    ASSUME ExactIndex, NEW c \in Counts, c # Genesis, tip = Previous(c)
    PROVE  Unprocessed(c) <=> NothingTwice(c)
<1>1. /\ tip \in Counts /\ Height(c) = Height(tip) + 1 /\ Height(tip) \in Nat
      /\ \A h \in 0 .. Height(tip) : CountAt(c, h) = CountAt(tip, h)
      /\ COUNTS_UNTIL_NEW_SERIES \in Nat \ {0}
      /\ ConsiderationsIndexed
  BY StepFacts DEF ExactIndex
<1>2. ASSUME NEW h \in 0 .. Height(tip), NEW x \in Confirms(c), x \in Confirms(CountAt(tip, h)),
             Unprocessed(c)
      PROVE  FALSE
  <2>1. CountAt(tip, h) \in Counts /\ Height(CountAt(tip, h)) = h
    BY <1>1, HeightOfCountAt
  <2>2. Height(c) < h + 2 * COUNTS_UNTIL_NEW_SERIES
    BY <1>2, <2>1, SeriesWindow
  <2>3. h \in IndexedHeights
    <3>1. h > Height(tip) - 2 * COUNTS_UNTIL_NEW_SERIES
      BY <1>1, <2>2
    <3> QED
      BY <3>1 DEF IndexedHeights
  <2>4. x \in Considerations
    BY BodyAssumption DEF Confirms, Positions
  <2>5. PICK g \in IndexedHeights : /\ x \in Confirms(CountAt(tip, g))
                                    /\ cnIndex[x] = IndexEntry(CountAt(tip, g), x)
    BY <1>1, <1>2, <2>3, <2>4 DEF ConsiderationsIndexed
  <2>6. CountAt(tip, g) \in Counts
    BY <1>1, HeightOfCountAt DEF IndexedHeights
  <2>7. cnIndex[x] # NoEntry
    BY <2>5, <2>6, IndexEntryType, ParameterAssumption
  <2> QED
    BY <1>2, <2>7 DEF Unprocessed
<1>3. ASSUME NothingTwice(c), NEW x \in Confirms(c)
      PROVE  cnIndex[x] = NoEntry
  <2>1. x \in Considerations
    BY BodyAssumption DEF Confirms, Positions
  <2>2. ASSUME NEW h \in IndexedHeights PROVE x \notin Confirms(CountAt(tip, h))
    <3>1. h \in 0 .. Height(tip)
      BY DEF IndexedHeights
    <3>2. Confirms(c) \cap Confirms(CountAt(c, h)) = {}
      BY <1>3, <3>1 DEF NothingTwice
    <3> QED
      BY <1>1, <3>1, <3>2
  <2> QED
    BY <1>1, <2>1, <2>2 DEF ConsiderationsIndexed
<1>4. ASSUME Unprocessed(c) PROVE NothingTwice(c)
  BY <1>1, <1>2, <1>4 DEF NothingTwice
<1>5. ASSUME NothingTwice(c) PROVE Unprocessed(c)
  BY <1>3, <1>5 DEF Unprocessed
<1> QED
  BY <1>4, <1>5

(* The imbalance cache tells what the history of the branch tells.          *)
LEMMA AffordableByHistory ==
    ASSUME Balanced, NEW c \in Counts, c # Genesis, tip = Previous(c)
    PROVE  Affordable(Effects(c)) <=> ValidOnParent(c)
<1> DEFINE s == EffectsOf(c)
<1>1. Effects(c) = s /\ BranchEffects(c) = s
  BY EffectsAre DEF Balanced, TypedChain, EffectsOf, BranchEffects
<1>2. /\ Len(s) \in Nat /\ \A i \in 1 .. Len(s) : s[i] \in Considerations
  BY EffectsPlaces
<1>3. DOMAIN s = 1 .. Len(s)
  <2>1. Body[c] \in Seq(Considerations) /\ Len(Body[c]) \in Nat \ {0}
    BY CountFacts
  <2>2. Tail(Body[c]) \in Seq(Considerations)
    BY <2>1
  <2>3. ASSUME Height(c) >= COUNTERPOINT_MATURITY
        PROVE  Body[CountAt(c, Height(c) - COUNTERPOINT_MATURITY)][1] \in Considerations
    <3>1. Height(c) - COUNTERPOINT_MATURITY \in 0 .. Height(c)
      BY <2>3, CountFacts
    <3> QED
      BY <3>1, CountFacts
  <2>4. s \in Seq(Considerations)
    BY <2>2, <2>3 DEF EffectsOf
  <2> HIDE DEF s
  <2> QED
    BY <2>4
<1>4. \A k \in Keys : imbalance[k] = Balance(Previous(c), k)
  BY BalancedTip
<1>5. ASSUME NEW i \in 1 .. Len(s), ~IsCounterPoint(s[i])
      PROVE  imbalance[By[s[i]]] = Balance(Previous(c), By[s[i]])
  <2>1. By[s[i]] \in Keys
    BY <1>2, <1>5, BodyAssumption DEF CheckConsideration, IsCounterPoint
  <2> QED
    BY <1>4, <2>1
<1> HIDE DEF s
<1>6. Affordable(s) <=>
        \A i \in 1 .. Len(s) :
            ~IsCounterPoint(s[i]) => Balance(Previous(c), By[s[i]]) + Net(s, By[s[i]], 1, i - 1) >= 1
  BY <1>5 DEF Affordable
<1> QED
  BY <1>1, <1>3, <1>6 DEF ValidOnParent

(* Without a veto, a count is connected exactly when its branch is valid.   *)
LEMMA ConnectableIsValid ==
    ASSUME ExactIndex, Balanced, NEW c \in Counts, c # Genesis, tip = Previous(c),
           tip \in ValidBranches
    PROVE  Connectable(c, {}) <=> c \in ValidBranches
BY UnprocessedIsNew, AffordableByHistory, ValidOnTop DEF Connectable

-----------------------------------------------------------------------------
(* The choice of the tip                                                    *)

(* Compare orders the stored counts: of two exactly one is better.          *)
LEMMA BetterIsTotal ==
    ASSUME StorageOK, NEW c \in Counts, NEW d \in Counts, c # d,
           when[c] # NotStored, when[d] # NotStored
    PROVE  Better(c, d) <=> ~Better(d, c)
<1>1. /\ PointWork[c] \in Nat /\ PointWork[d] \in Nat /\ IdOrder[c] \in Nat /\ IdOrder[d] \in Nat
      /\ IdOrder[c] # IdOrder[d]
  BY WorkAssumption
<1>2. when[c] \in Nat /\ when[d] \in Nat
  BY DEF StorageOK
<1> QED
  BY <1>1, <1>2 DEF Better, Compare, Header

(* And the better of the better is better. *)
LEMMA BetterIsTransitive ==
    ASSUME StorageOK, NEW c \in Counts, NEW d \in Counts, NEW e \in Counts,
           when[c] # NotStored, when[d] # NotStored, when[e] # NotStored,
           Better(c, d), Better(d, e)
    PROVE  Better(c, e)
<1>1. /\ PointWork[c] \in Nat /\ PointWork[d] \in Nat /\ PointWork[e] \in Nat
      /\ IdOrder[c] \in Nat /\ IdOrder[d] \in Nat /\ IdOrder[e] \in Nat
  BY WorkAssumption
<1>2. when[c] \in Nat /\ when[d] \in Nat /\ when[e] \in Nat
  BY DEF StorageOK
<1> QED
  BY <1>1, <1>2 DEF Better, Compare, Header

(* The counts of the branch of a tip. *)
OnBranch(d, c) == \E h \in 0 .. Height(c) : CountAt(c, h) = d

(* The branch of a count is the count and the branch of its parent. *)
LEMMA OnBranchOfTop ==
    ASSUME NEW c \in Counts, c # Genesis, NEW d
    PROVE  /\ OnBranch(d, c) <=> d = c \/ OnBranch(d, Previous(c))
           /\ ~OnBranch(c, Previous(c))
<1> DEFINE b == Previous(c)
<1>1. /\ b \in Counts /\ Height(c) = Height(b) + 1 /\ Height(b) \in Nat
      /\ CountAt(c, Height(c)) = c
      /\ \A h \in 0 .. Height(b) : CountAt(c, h) = CountAt(b, h)
  BY StepFacts
<1>2. ASSUME OnBranch(d, c), d # c PROVE OnBranch(d, b)
  <2>1. PICK h \in 0 .. Height(c) : CountAt(c, h) = d
    BY <1>2 DEF OnBranch
  <2>2. h \in 0 .. Height(b)
    BY <1>1, <1>2, <2>1
  <2> QED
    BY <1>1, <2>1, <2>2 DEF OnBranch
<1>3. OnBranch(c, c)
  BY <1>1 DEF OnBranch
<1>4. ASSUME OnBranch(d, b) PROVE OnBranch(d, c)
  <2>1. PICK h \in 0 .. Height(b) : CountAt(b, h) = d
    BY <1>4 DEF OnBranch
  <2>2. h \in 0 .. Height(c) /\ CountAt(c, h) = d
    BY <1>1, <2>1
  <2> QED
    BY <2>2 DEF OnBranch
<1>5. ASSUME OnBranch(c, b) PROVE FALSE
  <2>1. PICK h \in 0 .. Height(b) : CountAt(b, h) = c
    BY <1>5 DEF OnBranch
  <2>2. Height(c) = h
    BY <1>1, <2>1, HeightOfCountAt
  <2> QED
    BY <1>1, <2>2
<1> QED
  BY <1>2, <1>3, <1>4, <1>5

(* No stop and no veto: what the theorems about the choice assume. *)
Undisturbed == Restarts = FALSE /\ CycleProne = {}

(* The tip, or the one the call in progress started from and returns to     *)
(* when the new count fails.                                                *)
Best == IF job = NoJob THEN tip ELSE job.oldTip

(* Where the call is: the old tip and its branch are valid; it is still the *)
(* tip when the new count is compared, worse than the new count once the    *)
(* reorganisation has begun, and restored only when that is invalid.        *)
CallOK ==
    job # NoJob =>
        /\ job.oldTip \in ValidBranches
        /\ ~Known(job.new)
        /\ job.stage = "compare" /\ ~job.restoring => tip = job.oldTip
        /\ job.stage = "reorganize" \/ job.restoring => Better(job.new, job.oldTip)
        /\ job.restoring => job.new \notin ValidBranches

(* No accepted count is better than it. *)
NoneIsBetter == \A c \in Counts \ {Best} : Known(c) => Better(Best, c)

(* The inductive invariant of the choice. *)
ChoiceIInv ==
    /\ tip \in ValidBranches
    /\ now \in 0 .. MaxTime
    /\ BranchTypesMatch
    /\ CallOK
    /\ NoneIsBetter

(* What the other invariants give a step of the processor. *)
Ground == ProcessorIInv /\ ExactIndex /\ Balanced

(* What BranchTypesMatch says, in these words. *)
LEMMA TypesMatch ==
    BranchTypesMatch <=> \A c \in Counts : branchType[c] = "MAIN" <=> OnBranch(c, tip)
BY DEF BranchTypesMatch, OnBranch

(* At the start there is only the genesis count. *)
LEMMA ChoiceInit == Init => ChoiceIInv
<1> SUFFICES ASSUME Init PROVE ChoiceIInv
  OBVIOUS
<1>1. /\ tip = Genesis /\ Genesis \in Counts /\ Height(Genesis) = 0
      /\ CountAt(Genesis, 0) = Genesis /\ job = NoJob /\ now = 0 /\ MaxTime \in Nat
      /\ branchType = [c \in Counts |-> IF c = Genesis THEN "MAIN" ELSE "UNKNOWN"]
  BY BranchOfCount, PathAssumption, WorkAssumption DEF Init, LedgerInit
<1>2. tip \in ValidBranches
  BY <1>1 DEF ValidBranches
<1>3. BranchTypesMatch
  BY <1>1 DEF BranchTypesMatch
<1>4. CallOK
  BY <1>1 DEF CallOK
<1>5. NoneIsBetter
  BY <1>1 DEF NoneIsBetter, Best, Known
<1>6. now \in 0 .. MaxTime
  BY <1>1
<1> QED
  BY <1>2, <1>3, <1>4, <1>5, <1>6 DEF ChoiceIInv

(* A step that leaves branch, types, storage and call alone.                *)
LEMMA ChoiceElse ==
    ASSUME ChoiceIInv, UNCHANGED <<tip, branchType, when, job>>, now' \in 0 .. MaxTime
    PROVE  ChoiceIInv'
BY DEF ChoiceIInv, BranchTypesMatch, CallOK, NoneIsBetter, Best, Known, Better, Header

(* A new count is stored: the tip is the old tip. *)
LEMMA ChoiceProcessCount ==
    ASSUME Ground, ChoiceIInv, NEW c \in Counts \ {Genesis}, ProcessCount(c)
    PROVE  ChoiceIInv'
<1>1. /\ UNCHANGED <<tip, branchType, now>> /\ job = NoJob /\ ~Known(c) /\ tip \in Counts
      /\ when' = [when EXCEPT ![c] = now]
      /\ job' = [id |-> c, stage |-> "compare", undo |-> <<>>, redo |-> <<>>,
                 new |-> c, oldTip |-> tip, restoring |-> FALSE]
  BY DEF ProcessCount, AcceptCount, ledgerVars, Ground, ProcessorIInv, TypedChain, TypeOK
<1>2. Best = tip /\ Best' = tip
  BY <1>1 DEF Best
<1>3. Known(tip) /\ StorageOK
  BY DEF Ground, ProcessorIInv, StorageOK
<1>4. \A d \in Counts : Known(d) => when'[d] = when[d]
  BY <1>1, <1>3 DEF StorageOK
<1>5. NoneIsBetter'
  BY <1>1, <1>2, <1>3, <1>4 DEF ChoiceIInv, NoneIsBetter, Known, Better, Header
<1>6. CallOK'
  BY <1>1 DEF CallOK, ChoiceIInv, Known
<1>7. BranchTypesMatch'
  BY <1>1 DEF ChoiceIInv, BranchTypesMatch
<1> QED
  BY <1>1, <1>5, <1>6, <1>7 DEF ChoiceIInv

(* The facts about the call that every step of it starts from.              *)
LEMMA CallFacts ==
    ASSUME Ground, ChoiceIInv, job # NoJob
    PROVE  /\ job \in Jobs /\ tip \in Counts /\ job.oldTip \in Counts
           /\ job.new \in Counts \ {Genesis} /\ job.id \in Counts
           /\ Known(tip) /\ Known(job.oldTip) /\ ~Known(job.new)
           /\ when[tip] # NotStored /\ when[job.oldTip] # NotStored /\ when[job.new] # NotStored
           /\ job.new # tip /\ job.new # job.oldTip
           /\ job.restoring \in BOOLEAN
           /\ job.id = IF job.restoring THEN job.oldTip ELSE job.new
           /\ Best = job.oldTip
           /\ tip # job.oldTip => Better(job.oldTip, tip)
<1>1. /\ job \in Jobs /\ tip \in Counts /\ job.oldTip \in Counts
      /\ job.new \in Counts \ {Genesis} /\ job.id \in Counts
      /\ Known(tip) /\ Known(job.oldTip) /\ ~Known(job.new) /\ when[job.new] # NotStored
      /\ job.restoring \in BOOLEAN
      /\ job.id = IF job.restoring THEN job.oldTip ELSE job.new
      /\ StorageOK /\ NoneIsBetter
  BY DEF Ground, ChoiceIInv, ProcessorIInv, JobOK, Jobs, StorageOK, CallOK, TypedChain, TypeOK
<1>2. when[tip] # NotStored /\ when[job.oldTip] # NotStored
  BY <1>1 DEF StorageOK, KnownIsRooted
<1> QED
  BY <1>1, <1>2 DEF NoneIsBetter, Best

(* acceptCountContinue only meets the tip when it restores it.              *)
LEMMA ChoiceIsTip ==
    ASSUME Ground, ChoiceIInv, IsTip
    PROVE  ChoiceIInv' /\ job.restoring /\ tip = job.oldTip
<1>1. /\ job # NoJob /\ job.id = tip /\ job' = NoJob /\ UNCHANGED <<tip, branchType, when, now>>
  BY DEF IsTip, Continuing, ledgerVars
<1>2. job.restoring /\ tip = job.oldTip /\ Best = tip /\ Best' = tip
  BY <1>1, CallFacts DEF Best
<1>3. NoneIsBetter'
  BY <1>1, <1>2 DEF ChoiceIInv, NoneIsBetter, Known, Better, Header
<1>4. CallOK' /\ BranchTypesMatch'
  BY <1>1 DEF ChoiceIInv, CallOK, BranchTypesMatch
<1> QED
  BY <1>1, <1>2, <1>3, <1>4 DEF ChoiceIInv

(* Only a new count is set aside: the old tip is better than what a         *)
(* reorganisation that fails leaves.                                        *)
LEMMA ChoiceSetAside ==
    ASSUME Ground, ChoiceIInv, SetAside
    PROVE  /\ ChoiceIInv'
           /\ ~job.restoring /\ tip = job.oldTip /\ job.id = job.new
<1>1. /\ job # NoJob /\ job.stage = "compare" /\ job' = NoJob /\ job.id # tip
      /\ UNCHANGED <<when, now>> /\ ~Better(job.id, tip)
      /\ branchType' = [branchType EXCEPT ![job.id] = "SIDE"] /\ tip' = tip
  BY DEF SetAside, Continuing, SetBranchType
<1>2. ~job.restoring
  BY <1>1, CallFacts
<1>3. tip = job.oldTip /\ job.id = job.new
  BY <1>1, <1>2, CallFacts DEF ChoiceIInv, CallOK
<1>4. StorageOK /\ TypeOK /\ KnownIsRooted
  BY DEF Ground, ProcessorIInv, TypedChain, StorageOK
<1>5. Better(tip, job.new)
  BY <1>1, <1>3, <1>4, CallFacts, BetterIsTotal
<1>6. /\ \A d \in Counts : Known(d)' <=> (d = job.new \/ Known(d))
      /\ branchType' \in [Counts -> {"MAIN", "SIDE", "UNKNOWN"}]
  BY <1>1, <1>3, <1>4, CallFacts DEF Known, TypeOK
<1>7. NoneIsBetter'
  <2>1. Best' = tip /\ Best = tip
    BY <1>1, <1>3, CallFacts DEF Best
  <2> QED
    BY <1>1, <1>5, <1>6, <2>1 DEF ChoiceIInv, NoneIsBetter, Better, Header
<1>8. BranchTypesMatch'
  <2>1. ASSUME NEW h \in 0 .. Height(tip) PROVE CountAt(tip, h) # job.new
    BY <1>1, <1>4, CallFacts, BranchIsKnown
  <2>2. branchType[job.new] # "MAIN"
    BY <1>1, CallFacts DEF Known
  <2>3. \A d \in Counts : branchType'[d] = "MAIN" <=> branchType[d] = "MAIN"
    BY <1>1, <1>3, <1>4, <2>2 DEF TypeOK
  <2> QED
    BY <1>1, <2>1, <2>3 DEF ChoiceIInv, BranchTypesMatch
<1>9. CallOK'
  BY <1>1 DEF CallOK
<1> QED
  BY <1>1, <1>2, <1>3, <1>7, <1>8, <1>9 DEF ChoiceIInv

(* The plan is made: the branch stays as it is.                             *)
LEMMA ChoiceReorganize ==
    ASSUME Ground, ChoiceIInv, Reorganize
    PROVE  ChoiceIInv' /\ job' # NoJob
<1>1. /\ job # NoJob /\ job.stage = "compare" /\ Better(job.id, tip)
      /\ UNCHANGED <<tip, branchType, when, now>>
      /\ job' = [job EXCEPT !.stage = "reorganize",
                   !.undo = Reverse(SubSeq(Path[tip], Shared(tip, Previous(job.id)) + 1, Len(Path[tip]))),
                   !.redo = SubSeq(Path[job.id], Shared(tip, Previous(job.id)) + 1, Len(Path[job.id]))]
  BY DEF Reorganize, Continuing, ledgerVars
<1>2. job \in Jobs
  BY <1>1, CallFacts
<1>3. /\ job'.stage = "reorganize" /\ job'.new = job.new /\ job'.oldTip = job.oldTip
      /\ job'.restoring = job.restoring
  BY <1>1, <1>2 DEF Jobs
<1>4. Better(job.new, job.oldTip)
  <2>1. CASE job.restoring
    BY <1>1, <2>1 DEF ChoiceIInv, CallOK
  <2>2. CASE ~job.restoring
    <3>1. job.id = job.new /\ tip = job.oldTip
      BY <1>1, <2>2, CallFacts DEF ChoiceIInv, CallOK
    <3> QED
      BY <1>1, <3>1
  <2> QED
    BY <2>1, <2>2
<1>5. job' # NoJob
  BY ReorganizeKeeps, JobAssumption DEF Ground
<1>6. CallOK'
  BY <1>1, <1>3, <1>4 DEF ChoiceIInv, CallOK, Known, Better, Header
<1>7. NoneIsBetter'
  BY <1>1, <1>3, <1>5 DEF ChoiceIInv, NoneIsBetter, Best, Known, Better, Header
<1>8. BranchTypesMatch'
  BY <1>1 DEF ChoiceIInv, BranchTypesMatch
<1> QED
  BY <1>1, <1>5, <1>6, <1>7, <1>8 DEF ChoiceIInv

(* A count of the old branch is taken off: it is on a side branch now.      *)
LEMMA ChoiceDisconnect ==
    ASSUME Ground, ChoiceIInv, Disconnect
    PROVE  ChoiceIInv' /\ job' # NoJob /\ \A d \in Counts : Known(d)' <=> Known(d)
<1>1. /\ job # NoJob /\ job.stage = "reorganize" /\ UNCHANGED <<when, now>>
      /\ Head(job.undo) = tip /\ tip # Genesis /\ DisconnectCount(Head(job.undo))
      /\ job' = [job EXCEPT !.undo = Tail(job.undo)]
      /\ job' # NoJob
  BY DisconnectKeeps, JobAssumption DEF Disconnect, Reorganizing, Ground
<1>2. /\ tip' = Previous(tip) /\ branchType' = [branchType EXCEPT ![tip] = "SIDE"]
  BY <1>1 DEF DisconnectCount
<1>3. job \in Jobs /\ tip \in Counts /\ Known(tip) /\ TypeOK
  BY <1>1, CallFacts DEF Ground, ProcessorIInv, TypedChain
<1>4. /\ job'.stage = job.stage /\ job'.new = job.new /\ job'.oldTip = job.oldTip
      /\ job'.restoring = job.restoring
  BY <1>1, <1>3 DEF Jobs
<1>5. \A d \in Counts : Known(d)' <=> Known(d)
  BY <1>2, <1>3 DEF Known, TypeOK
<1>6. tip' \in ValidBranches
  <2>1. /\ Height(tip) = Height(Previous(tip)) + 1 /\ Height(Previous(tip)) \in Nat
        /\ \A h \in 0 .. Height(Previous(tip)) : CountAt(tip, h) = CountAt(Previous(tip), h)
        /\ Previous(tip) \in Counts
    BY <1>1, <1>3, StepFacts
  <2>2. /\ Height(Previous(tip)) \in 0 .. Height(tip)
        /\ CountAt(tip, Height(Previous(tip))) = Previous(tip)
    BY <2>1, BranchOfCount
  <2>3. tip \in ValidBranches
    BY DEF ChoiceIInv
  <2> QED
    BY <1>2, <2>2, <2>3, ValidBelow
<1>7. CallOK'
  <2>1. job.new \in Counts
    BY <1>1, CallFacts
  <2> QED
    BY <1>1, <1>4, <1>5, <2>1 DEF ChoiceIInv, CallOK, Better, Header
<1>8. NoneIsBetter'
  BY <1>1, <1>4, <1>5 DEF ChoiceIInv, NoneIsBetter, Best, Better, Header
<1>9. BranchTypesMatch'
  <2>1. \A c \in Counts : branchType[c] = "MAIN" <=> OnBranch(c, tip)
    BY TypesMatch DEF ChoiceIInv
  <2>2. ASSUME NEW c \in Counts
        PROVE  branchType'[c] = "MAIN" <=> OnBranch(c, tip')
    <3>1. /\ OnBranch(c, tip) <=> c = tip \/ OnBranch(c, Previous(tip))
          /\ ~OnBranch(tip, Previous(tip))
      BY <1>1, <1>3, OnBranchOfTop
    <3> QED
      BY <1>2, <1>3, <2>1, <3>1 DEF TypeOK
  <2> QED
    BY <2>2 DEF BranchTypesMatch, OnBranch
<1> QED
  BY <1>1, <1>5, <1>6, <1>7, <1>8, <1>9 DEF ChoiceIInv

(* The count that is connected next, or refused.                            *)
LEMMA NextOfPlan ==
    ASSUME Undisturbed, Ground, ChoiceIInv, Reorganizing, job.undo = <<>>,
           NEW vetoed \in SUBSET CycleProne
    PROVE  LET c == Head(job.redo) IN
           /\ c \in Counts \ {Genesis} /\ Previous(c) = tip
           /\ Connectable(c, vetoed) <=> c \in ValidBranches
           /\ job.id \in ValidBranches => c \in ValidBranches
           /\ Len(job.redo) > 1 => Known(c) /\ c # job.id
           /\ ~(Len(job.redo) > 1) => c = job.id
<1> DEFINE c == Head(job.redo)
<1>1. PICK f \in Nat : PlanFrom(f)
  BY DEF Ground, ProcessorIInv, PlanOK
<1>2. /\ c \in Counts \ {Genesis} /\ Previous(c) = tip /\ c = CountAt(job.id, f + 1)
      /\ f = Height(tip) /\ job.redo \in Seq(Counts) /\ job.redo # <<>>
  BY <1>1, PlanFits DEF Ground, Reorganizing
<1> HIDE DEF c
<1>3. vetoed = {}
  BY DEF Undisturbed
<1>4. Connectable(c, vetoed) <=> c \in ValidBranches
  BY <1>2, <1>3, ConnectableIsValid DEF Ground, ChoiceIInv
<1>5. /\ job.id \in Counts /\ Height(job.id) \in Nat /\ Len(job.redo) = Height(job.id) - f
      /\ f < Height(job.id) /\ CountAt(job.id, Height(job.id)) = job.id /\ job.id # Genesis
  <2>1. job.id \in Counts
    BY CallFacts DEF Reorganizing
  <2> QED
    BY <1>1, <2>1, BranchOfCount DEF PlanFrom
<1>6. f + 1 \in 0 .. Height(job.id)
  BY <1>5
<1>7. job.id \in ValidBranches => c \in ValidBranches
  BY <1>2, <1>6, ValidBelow
<1>8. ASSUME Len(job.redo) > 1 PROVE Known(c) /\ c # job.id
  <2>1. /\ Previous(job.id) \in Counts /\ Height(job.id) = Height(Previous(job.id)) + 1
        /\ Height(Previous(job.id)) \in Nat
        /\ \A h \in 0 .. Height(Previous(job.id)) :
              CountAt(job.id, h) = CountAt(Previous(job.id), h)
    BY <1>5, StepFacts
  <2>2. f + 1 \in 0 .. Height(Previous(job.id)) /\ f + 1 # Height(job.id)
    BY <1>5, <1>8, <2>1
  <2>3. Known(Previous(job.id)) /\ StorageOK
    BY <1>5, JobCount DEF Ground, ProcessorIInv, Reorganizing
  <2>4. Known(c)
    BY <1>2, <2>1, <2>2, <2>3, BranchIsKnown
  <2>5. Height(c) = f + 1
    BY <1>2, <1>5, <1>6, HeightOfCountAt
  <2> QED
    BY <2>2, <2>4, <2>5
<1>9. ASSUME ~(Len(job.redo) > 1) PROVE c = job.id
  <2>1. f + 1 = Height(job.id)
    BY <1>5, <1>9
  <2> QED
    BY <1>2, <1>5, <2>1
<1> QED
  BY <1>2, <1>4, <1>7, <1>8, <1>9 DEF c

(* A count of the new branch is put on top, or one of the old branch put    *)
(* back: after the last one the tip is the new count, or the old tip.       *)
LEMMA ChoiceConnect ==
    ASSUME Undisturbed, Ground, ChoiceIInv, NEW vetoed \in SUBSET CycleProne, Connect(vetoed)
    PROVE  /\ ChoiceIInv'
           /\ Len(job.redo) > 1 =>
                 /\ job' # NoJob /\ job'.new = job.new /\ job'.oldTip = job.oldTip
                 /\ \A d \in Counts : Known(d)' <=> Known(d)
           /\ ~(Len(job.redo) > 1) =>
                 /\ job' = NoJob /\ tip' = job.id /\ job.id \in ValidBranches
                 /\ \A d \in Counts : Known(d)' <=> (d = job.id \/ Known(d))
<1> DEFINE c == Head(job.redo)
<1>1. /\ job # NoJob /\ job.stage = "reorganize" /\ Reorganizing /\ job.undo = <<>>
      /\ UNCHANGED <<when, now>> /\ ConnectCount(c) /\ Connectable(c, vetoed)
      /\ job' = IF Len(job.redo) > 1 THEN [job EXCEPT !.redo = Tail(job.redo)] ELSE NoJob
  BY DEF Connect, Reorganizing
<1>2. /\ c \in Counts \ {Genesis} /\ Previous(c) = tip /\ c \in ValidBranches
      /\ Len(job.redo) > 1 => Known(c) /\ c # job.id
      /\ ~(Len(job.redo) > 1) => c = job.id
  BY <1>1, NextOfPlan
<1>3. Len(job.redo) > 1 => job' \in Jobs /\ job' # NoJob
  BY ConnectKeeps, JobAssumption DEF Ground
<1>4. /\ tip' = c /\ branchType' = [branchType EXCEPT ![c] = "MAIN"]
  BY <1>1 DEF ConnectCount
<1> HIDE DEF c
<1>5. job \in Jobs /\ tip \in Counts /\ TypeOK /\ StorageOK
  BY <1>1, CallFacts DEF Ground, ProcessorIInv, TypedChain
<1>6. \A d \in Counts : Known(d)' <=> (d = c \/ Known(d))
  BY <1>4, <1>5 DEF Known, TypeOK
<1>7. BranchTypesMatch'
  <2>1. \A d \in Counts : branchType[d] = "MAIN" <=> OnBranch(d, tip)
    BY TypesMatch DEF ChoiceIInv
  <2>2. ASSUME NEW d \in Counts
        PROVE  branchType'[d] = "MAIN" <=> OnBranch(d, tip')
    <3>1. OnBranch(d, c) <=> d = c \/ OnBranch(d, tip)
      BY <1>2, OnBranchOfTop
    <3> QED
      BY <1>2, <1>4, <1>5, <2>1, <3>1 DEF TypeOK
  <2> QED
    BY <2>2 DEF BranchTypesMatch, OnBranch
<1>8. CASE Len(job.redo) > 1
  <2>1. job' = [job EXCEPT !.redo = Tail(job.redo)] /\ Known(c)
    BY <1>1, <1>2, <1>8
  <2>2. /\ job'.stage = job.stage /\ job'.new = job.new /\ job'.oldTip = job.oldTip
        /\ job'.restoring = job.restoring
    BY <1>5, <2>1 DEF Jobs
  <2>3. \A d \in Counts : Known(d)' <=> Known(d)
    BY <1>6, <2>1
  <2>4. CallOK'
    <3>1. job.new \in Counts
      BY <1>1, CallFacts
    <3> QED
      BY <1>1, <2>2, <2>3, <3>1 DEF ChoiceIInv, CallOK, Better, Header
  <2>5. NoneIsBetter'
    BY <1>1, <1>3, <1>8, <2>2, <2>3 DEF ChoiceIInv, NoneIsBetter, Best, Better, Header
  <2> QED
    BY <1>1, <1>2, <1>3, <1>4, <1>7, <1>8, <2>2, <2>3, <2>4, <2>5 DEF ChoiceIInv
<1>9. CASE ~(Len(job.redo) > 1)
  <2>1. job' = NoJob /\ c = job.id /\ Best' = c /\ Best = job.oldTip
    BY <1>1, <1>2, <1>4, <1>9 DEF Best
  <2>2. CallOK'
    BY <2>1 DEF CallOK
  <2>3. NoneIsBetter'
    <3> SUFFICES ASSUME NEW d \in Counts \ {c}, Known(d) PROVE Better(c, d)
      BY <1>1, <1>6, <2>1 DEF NoneIsBetter, Better, Header
    <3>1. CASE job.restoring
      <4>1. c = job.oldTip
        BY <1>1, <2>1, <3>1, CallFacts
      <4> QED
        BY <2>1, <4>1 DEF ChoiceIInv, NoneIsBetter
    <3>2. CASE ~job.restoring
      <4>1. c = job.new /\ Better(c, job.oldTip)
        BY <1>1, <2>1, <3>2, CallFacts DEF ChoiceIInv, CallOK
      <4>2. CASE d = job.oldTip
        BY <4>1, <4>2
      <4>3. CASE d # job.oldTip
        <5>1. Better(job.oldTip, d)
          BY <2>1, <4>3 DEF ChoiceIInv, NoneIsBetter
        <5>2. when[d] # NotStored
          BY <1>5 DEF StorageOK, KnownIsRooted
        <5>3. /\ job.oldTip \in Counts /\ when[job.oldTip] # NotStored
              /\ when[job.new] # NotStored
          BY <1>1, CallFacts
        <5> QED
          BY <1>2, <1>5, <4>1, <5>1, <5>2, <5>3, BetterIsTransitive
      <4> QED
        BY <4>2, <4>3
    <3> QED
      BY <3>1, <3>2
  <2> QED
    BY <1>1, <1>2, <1>4, <1>6, <1>7, <1>9, <2>1, <2>2, <2>3 DEF ChoiceIInv
<1> QED
  BY <1>8, <1>9

(* Only a count of an invalid branch is refused, so never one of the old    *)
(* branch: reconnectTip succeeds.                                           *)
LEMMA ChoiceConnectFails ==
    ASSUME Undisturbed, Ground, ChoiceIInv, NEW vetoed \in SUBSET CycleProne,
           ConnectFails(vetoed)
    PROVE  /\ ChoiceIInv' /\ ~job.restoring
           /\ job' # NoJob /\ job'.new = job.new /\ job'.oldTip = job.oldTip
<1>1. /\ job # NoJob /\ job.stage = "reorganize" /\ Reorganizing /\ job.undo = <<>>
      /\ UNCHANGED <<tip, branchType, when, now>>
      /\ ~Connectable(Head(job.redo), vetoed)
      /\ job' = IF job.restoring THEN NoJob
                ELSE [job EXCEPT !.id = job.oldTip, !.stage = "compare", !.redo = <<>>,
                                 !.restoring = TRUE]
  BY DEF ConnectFails, Reorganizing, ledgerVars
<1>2. job.id \notin ValidBranches
  BY <1>1, NextOfPlan
<1>3. ~job.restoring /\ job.id = job.new /\ job \in Jobs
  <2>1. job.oldTip \in ValidBranches
    BY <1>1 DEF ChoiceIInv, CallOK
  <2> QED
    BY <1>1, <1>2, <2>1, CallFacts
<1>4. job' # NoJob
  BY <1>3, ConnectFailsKeeps, JobAssumption DEF Ground
<1>5. job'.new = job.new /\ job'.oldTip = job.oldTip
  BY <1>1, <1>3 DEF Jobs
<1>6. job'.restoring = TRUE
  BY <1>1, <1>3 DEF Jobs
<1>7. CallOK'
  BY <1>1, <1>2, <1>3, <1>5, <1>6 DEF ChoiceIInv, CallOK, Known, Better, Header
<1>8. NoneIsBetter'
  BY <1>1, <1>4, <1>5 DEF ChoiceIInv, NoneIsBetter, Best, Known, Better, Header
<1>9. BranchTypesMatch'
  BY <1>1 DEF ChoiceIInv, BranchTypesMatch
<1> QED
  BY <1>1, <1>3, <1>4, <1>5, <1>7, <1>8, <1>9 DEF ChoiceIInv

(* Every step keeps the invariant. *)
LEMMA ChoiceStep ==
    ASSUME Undisturbed, Ground, ChoiceIInv, [Next]_vars
    PROVE  ChoiceIInv'
<1>0. now \in 0 .. MaxTime /\ MaxTime \in Nat
  BY WorkAssumption DEF ChoiceIInv
<1>1. ASSUME NEW c \in Counts \ {Genesis}, ProcessCount(c) PROVE ChoiceIInv'
  BY <1>1, ChoiceProcessCount
<1>2. ASSUME IsTip PROVE ChoiceIInv'
  BY <1>2, ChoiceIsTip
<1>3. ASSUME SetAside PROVE ChoiceIInv'
  BY <1>3, ChoiceSetAside
<1>4. ASSUME Reorganize PROVE ChoiceIInv'
  BY <1>4, ChoiceReorganize
<1>5. ASSUME Disconnect PROVE ChoiceIInv'
  BY <1>5, ChoiceDisconnect
<1>6. ASSUME NEW vetoed \in SUBSET CycleProne, Connect(vetoed) PROVE ChoiceIInv'
  BY <1>6, ChoiceConnect
<1>7. ASSUME NEW vetoed \in SUBSET CycleProne, ConnectFails(vetoed) PROVE ChoiceIInv'
  BY <1>7, ChoiceConnectFails
<1>8. ASSUME NEW x, NEW vetoed, ProcessConsideration(x, vetoed) PROVE ChoiceIInv'
  BY <1>0, <1>8, ChoiceElse DEF ProcessConsideration, ledgerVars
<1>9. ~Restart
  BY DEF Restart, Undisturbed
<1>10. ASSUME Tick PROVE ChoiceIInv'
  <2>1. now' \in 0 .. MaxTime
    BY <1>0, <1>10 DEF Tick
  <2> QED
    BY <1>10, <2>1, ChoiceElse DEF Tick, ledgerVars
<1>11. ASSUME UNCHANGED vars PROVE ChoiceIInv'
  BY <1>0, <1>11, ChoiceElse DEF vars, ledgerVars
<1> QED
  BY <1>1, <1>2, <1>3, <1>4, <1>5, <1>6, <1>7, <1>8, <1>9, <1>10, <1>11 DEF Next, Proceed

(* The other invariants hold in every state. *)
LEMMA GroundAlways == Spec => []Ground
<1>1. LedgerSpec => []ExactIndex
  BY ExactIndexInit, ExactIndexStep, PTL DEF LedgerSpec
<1>2. ProcessorIInv /\ ExactIndex /\ Balanced => Ground
  BY DEF Ground
<1> QED
  BY <1>1, <1>2, ProcessorUsesTheLedger, ProcessorIInvAlways, BalancedAlways, PTL

(* And so does this one. *)
LEMMA ChoiceAlways == ASSUME Undisturbed PROVE Spec => []ChoiceIInv
<1>1. Ground /\ ChoiceIInv /\ [Next]_vars => ChoiceIInv'
  BY ChoiceStep
<1> QED
  BY <1>1, ChoiceInit, GroundAlways, PTL DEF Spec

(* "Ledger is an interface to a ledger built from the most-work point of    *)
(* counts" (ledger.go): between two calls no accepted count is better than  *)
(* the tip, whatever reorganisations failed half way.                       *)
THEOREM TipStaysBest == ASSUME Undisturbed PROVE Spec => []TipIsBest
<1>1. ChoiceIInv => TipIsBest
  BY DEF ChoiceIInv, NoneIsBetter, Best, TipIsBest
<1> QED
  BY <1>1, ChoiceAlways, PTL

(* The rows of branch types name the branch of the tip as MAIN, in the      *)
(* middle of a reorganisation and after one that failed too.                *)
THEOREM TypesFollowTip == ASSUME Undisturbed PROVE Spec => []BranchTypesMatch
<1>1. ChoiceIInv => BranchTypesMatch
  BY DEF ChoiceIInv
<1> QED
  BY <1>1, ChoiceAlways, PTL

-----------------------------------------------------------------------------
(* The processor implements Point *)

(* The state of Point: the tip chosen, the accepted counts, the count under *)
(* judgement.                                                               *)
Accepted == {c \in Counts : Known(c)}

Pending == IF job = NoJob THEN NoCount ELSE job.new

ParentOf == [c \in Counts |-> IF c = Genesis THEN c ELSE Previous(c)]

(* The comparison of Point is the processor's. *)
LEMMA SameBetter == \A c, d : Chosen!Better(c, d) <=> Better(c, d)
BY DEF Chosen!Better, Chosen!Compare, Better, Compare, Header

(* The client starts as Point does. *)
LEMMA PointInit == Init => Chosen!Init
<1> SUFFICES ASSUME Init PROVE Chosen!Init
  OBVIOUS
<1>1. /\ tip = Genesis /\ Genesis \in Counts /\ job = NoJob
      /\ branchType = [c \in Counts |-> IF c = Genesis THEN "MAIN" ELSE "UNKNOWN"]
      /\ when = [c \in Counts |-> IF c = Genesis THEN 0 ELSE NotStored]
  BY PathAssumption DEF Init, LedgerInit
<1>2. {c \in Counts : Known(c)} = {Genesis}
  BY <1>1 DEF Known
<1> QED
  BY <1>1, <1>2 DEF Chosen!Init

(* Nothing Point sees changes.                                              *)
LEMMA PointStutters ==
    ASSUME \A d \in Counts : Known(d)' <=> Known(d), UNCHANGED when,
           Best' = Best, Pending' = Pending
    PROVE  UNCHANGED Chosen!pointVars
<1>1. {c \in Counts : Known(c)}' = {c \in Counts : Known(c)}
  OBVIOUS
<1> QED
  BY <1>1 DEF Chosen!pointVars, Best, Pending

(* The end of a call is the judgement of its count.                         *)
LEMMA PointJudges ==
    ASSUME Ground, ChoiceIInv, job # NoJob, job' = NoJob, UNCHANGED when,
           \/ /\ Better(job.new, job.oldTip) /\ job.new \in ValidBranches
              /\ tip' = job.new /\ \A d \in Counts : Known(d)' <=> (d = job.new \/ Known(d))
           \/ /\ ~Better(job.new, job.oldTip)
              /\ tip' = job.oldTip /\ \A d \in Counts : Known(d)' <=> (d = job.new \/ Known(d))
           \/ /\ Better(job.new, job.oldTip) /\ job.new \notin ValidBranches
              /\ tip' = job.oldTip /\ \A d \in Counts : Known(d)' <=> Known(d)
    PROVE  Chosen!Judge
<1> DEFINE known == {c \in Counts : Known(c)}
<1>1. job.new \in Counts /\ job.new # NoCount /\ Best = job.oldTip /\ Pending = job.new
  BY CallFacts, PathAssumption DEF Pending
<1>2. Best' = tip' /\ Pending' = NoCount
  BY DEF Best, Pending
<1>3. Chosen!Better(Pending, Best) <=> Better(job.new, job.oldTip)
  BY <1>1, SameBetter
<1>4. CASE /\ Better(job.new, job.oldTip) /\ job.new \in ValidBranches
           /\ tip' = job.new /\ \A d \in Counts : Known(d)' <=> (d = job.new \/ Known(d))
  <2>1. known' = known \cup {job.new}
    BY <1>1, <1>4
  <2>2. Chosen!Prefer
    BY <1>1, <1>2, <1>3, <1>4, <2>1 DEF Chosen!Prefer, Best, Pending
  <2> QED
    BY <1>1, <1>2, <2>2 DEF Chosen!Judge, Pending
<1>5. CASE /\ ~Better(job.new, job.oldTip)
           /\ tip' = job.oldTip /\ \A d \in Counts : Known(d)' <=> (d = job.new \/ Known(d))
  <2>1. known' = known \cup {job.new}
    BY <1>1, <1>5
  <2>2. Chosen!Keep
    BY <1>1, <1>2, <1>3, <1>5, <2>1 DEF Chosen!Keep, Best, Pending
  <2> QED
    BY <1>1, <1>2, <2>2 DEF Chosen!Judge, Pending
<1>6. CASE /\ Better(job.new, job.oldTip) /\ job.new \notin ValidBranches
           /\ tip' = job.oldTip /\ \A d \in Counts : Known(d)' <=> Known(d)
  <2>1. known' = known
    BY <1>6
  <2>2. Chosen!Reject
    BY <1>1, <1>2, <1>3, <1>6, <2>1 DEF Chosen!Reject, Best, Pending
  <2> QED
    BY <1>1, <1>2, <2>2 DEF Chosen!Judge, Pending
<1> QED
  BY <1>4, <1>5, <1>6

(* Storing a new count offers it. *)
LEMMA PointOffers ==
    ASSUME Ground, ChoiceIInv, NEW c \in Counts \ {Genesis}, ProcessCount(c)
    PROVE  Chosen!Offer(c)
<1>1. /\ UNCHANGED <<tip, branchType>> /\ job = NoJob /\ ~Known(c) /\ Known(Previous(c))
      /\ when' = [when EXCEPT ![c] = now]
      /\ job' = [id |-> c, stage |-> "compare", undo |-> <<>>, redo |-> <<>>,
                 new |-> c, oldTip |-> tip, restoring |-> FALSE]
      /\ tip \in Counts /\ now \in 0 .. MaxTime
  BY DEF ProcessCount, AcceptCount, ledgerVars, Ground, ProcessorIInv, TypedChain, TypeOK,
         ChoiceIInv
<1>2. job' # NoJob
  <2>1. job' \in Jobs
    BY <1>1 DEF Jobs
  <2> QED
    BY <2>1, JobAssumption
<1>3. Best = tip /\ Best' = tip /\ Pending = NoCount /\ Pending' = c
  BY <1>1, <1>2 DEF Best, Pending
<1>4. {d \in Counts : Known(d)}' = {d \in Counts : Known(d)}
  BY <1>1 DEF Known
<1>5. ParentOf[c] \in {d \in Counts : Known(d)}
  BY <1>1, PreviousOfCount DEF ParentOf
<1>6. \E t \in 0 .. MaxTime : when' = [when EXCEPT ![c] = t]
  BY <1>1
<1> QED
  BY <1>1, <1>3, <1>4, <1>5, <1>6 DEF Chosen!Offer, Best, Pending, ParentOf

(* Every step is one of Point or changes nothing of it: offering a count is *)
(* its storing, judging it the last step of the call.                       *)
LEMMA PointStep ==
    ASSUME Undisturbed, Ground, ChoiceIInv, [Next]_vars
    PROVE  [Chosen!Next]_(Chosen!pointVars)
<1> USE DEF Chosen!Next
<1>1. ASSUME NEW c \in Counts \ {Genesis}, ProcessCount(c) PROVE Chosen!Next
  BY <1>1, PointOffers
<1>2. ASSUME IsTip PROVE Chosen!Next
  <2>1. /\ job # NoJob /\ job' = NoJob /\ UNCHANGED <<tip, branchType, when>>
        /\ job.restoring /\ tip = job.oldTip
    BY <1>2, ChoiceIsTip DEF IsTip, Continuing, ledgerVars
  <2>2. Better(job.new, job.oldTip) /\ job.new \notin ValidBranches
    BY <2>1 DEF ChoiceIInv, CallOK
  <2>3. \A d \in Counts : Known(d)' <=> Known(d)
    BY <2>1 DEF Known
  <2> QED
    BY <2>1, <2>2, <2>3, PointJudges
<1>3. ASSUME SetAside PROVE Chosen!Next
  <2>1. /\ job # NoJob /\ job' = NoJob /\ UNCHANGED <<tip, when>>
        /\ tip = job.oldTip /\ job.id = job.new /\ ~Better(job.new, job.oldTip)
        /\ branchType' = [branchType EXCEPT ![job.new] = "SIDE"]
    BY <1>3, ChoiceSetAside DEF SetAside, Continuing, SetBranchType
  <2>2. TypeOK
    BY DEF Ground, ProcessorIInv, TypedChain
  <2>3. \A d \in Counts : Known(d)' <=> (d = job.new \/ Known(d))
    BY <2>1, <2>2 DEF Known, TypeOK
  <2> QED
    BY <2>1, <2>3, PointJudges
<1>4. ASSUME Reorganize PROVE UNCHANGED Chosen!pointVars
  <2>1. /\ job # NoJob /\ job' # NoJob /\ UNCHANGED <<branchType, when>>
        /\ job'.new = job.new /\ job'.oldTip = job.oldTip
    <3>1. job \in Jobs
      BY <1>4, CallFacts DEF Reorganize, Continuing
    <3> QED
      BY <1>4, <3>1, ChoiceReorganize DEF Reorganize, Continuing, ledgerVars, Jobs
  <2> QED
    BY <2>1, PointStutters DEF Known, Best, Pending
<1>5. ASSUME Disconnect PROVE UNCHANGED Chosen!pointVars
  <2>1. /\ job # NoJob /\ job' # NoJob /\ UNCHANGED when
        /\ job'.new = job.new /\ job'.oldTip = job.oldTip
        /\ \A d \in Counts : Known(d)' <=> Known(d)
    <3>1. job \in Jobs
      BY <1>5, CallFacts DEF Disconnect, Reorganizing
    <3> QED
      BY <1>5, <3>1, ChoiceDisconnect DEF Disconnect, Reorganizing, Jobs
  <2> QED
    BY <2>1, PointStutters DEF Best, Pending
<1>6. ASSUME NEW vetoed \in SUBSET CycleProne, Connect(vetoed)
      PROVE  Chosen!Next \/ UNCHANGED Chosen!pointVars
  <2>1. job # NoJob /\ job.stage = "reorganize" /\ UNCHANGED when
    BY <1>6 DEF Connect, Reorganizing
  <2>2. CASE Len(job.redo) > 1
    <3>1. /\ job' # NoJob /\ job'.new = job.new /\ job'.oldTip = job.oldTip
          /\ \A d \in Counts : Known(d)' <=> Known(d)
      BY <1>6, <2>2, ChoiceConnect
    <3> QED
      BY <2>1, <3>1, PointStutters DEF Best, Pending
  <2>3. CASE ~(Len(job.redo) > 1)
    <3>1. /\ job' = NoJob /\ tip' = job.id /\ job.id \in ValidBranches
          /\ \A d \in Counts : Known(d)' <=> (d = job.id \/ Known(d))
      BY <1>6, <2>3, ChoiceConnect
    <3>2. Better(job.new, job.oldTip)
      BY <2>1 DEF ChoiceIInv, CallOK
    <3>3. CASE job.restoring
      <4>1. job.id = job.oldTip /\ Known(job.oldTip) /\ job.new \notin ValidBranches
        BY <2>1, <3>3, CallFacts DEF ChoiceIInv, CallOK
      <4>2. \A d \in Counts : Known(d)' <=> Known(d)
        BY <3>1, <4>1
      <4> QED
        BY <2>1, <3>1, <3>2, <4>1, <4>2, PointJudges
    <3>4. CASE ~job.restoring
      <4>1. job.id = job.new
        BY <2>1, <3>4, CallFacts
      <4> QED
        BY <2>1, <3>1, <3>2, <4>1, PointJudges
    <3> QED
      BY <3>3, <3>4
  <2> QED
    BY <2>2, <2>3
<1>7. ASSUME NEW vetoed \in SUBSET CycleProne, ConnectFails(vetoed)
      PROVE  UNCHANGED Chosen!pointVars
  <2>1. /\ job # NoJob /\ UNCHANGED <<branchType, when>>
        /\ job' # NoJob /\ job'.new = job.new /\ job'.oldTip = job.oldTip
    BY <1>7, ChoiceConnectFails DEF ConnectFails, Reorganizing, ledgerVars
  <2> QED
    BY <2>1, PointStutters DEF Known, Best, Pending
<1>8. ASSUME UNCHANGED <<tip, branchType, when, job>>
      PROVE  UNCHANGED Chosen!pointVars
  BY <1>8, PointStutters DEF Known, Best, Pending
<1>9. ~Restart
  BY DEF Restart, Undisturbed
<1> QED
  BY <1>1, <1>2, <1>3, <1>4, <1>5, <1>6, <1>7, <1>8, <1>9
     DEF Next, Proceed, ProcessConsideration, Tick, vars, ledgerVars

(* Disconnecting, connecting and, on an error, reconnectTip together amount *)
(* to one choice: the better branch if it is valid, the old tip otherwise.  *)
(* This is the safety of ImplementsPoint; that the call ends is not part of *)
(* it.                                                                      *)
THEOREM ProcessorChooses ==
    ASSUME Undisturbed
    PROVE  Spec => Chosen!Init /\ [][Chosen!Next]_(Chosen!pointVars)
<1>1. Ground /\ ChoiceIInv /\ [Next]_vars => [Chosen!Next]_(Chosen!pointVars)
  BY PointStep
<1> QED
  BY <1>1, PointInit, GroundAlways, ChoiceAlways, PTL DEF Spec

-----------------------------------------------------------------------------
(* Walks over lists *)

(* The results of a walk over n places: the first one, and each from the    *)
(* one before.                                                              *)
IsWalk(walk, n, first, step) ==
    walk[0] = first /\ \A i \in 1 .. n : walk[i] = step[i][walk[i - 1]]

(* They exist, whatever the first one and the step.                         *)
LEMMA WalkExists ==
    ASSUME NEW n \in Nat, NEW A, NEW first \in A, NEW step \in [1 .. n -> [A -> A]]
    PROVE  \E walk \in [0 .. n -> A] : IsWalk(walk, n, first, step)
<1> DEFINE Walked(walk, m) == IsWalk(walk, m, first, step)
           T == {m \in 0 .. n : \E walk \in [0 .. m -> A] : Walked(walk, m)}
<1>1. 0 \in T
  <2> DEFINE walk == [i \in 0 .. 0 |-> first]
  <2>1. walk \in [0 .. 0 -> A]
    OBVIOUS
  <2>2. Walked(walk, 0)
    BY DEF IsWalk
  <2> HIDE DEF walk, Walked
  <2> QED
    BY <2>1, <2>2
<1>2. ASSUME NEW m \in 1 .. n, m - 1 \in T PROVE m \in T
  <2>1. PICK walk \in [0 .. m - 1 -> A] : Walked(walk, m - 1)
    BY <1>2
  <2> DEFINE more == [i \in 0 .. m |-> IF i = m THEN step[m][walk[m - 1]] ELSE walk[i]]
  <2>2. m - 1 \in 0 .. m - 1 /\ walk[m - 1] \in A /\ step[m] \in [A -> A]
    BY <1>2, <2>1
  <2>3. step[m][walk[m - 1]] \in A
    BY <2>2
  <2>4. \A i \in 0 .. m : i # m => i \in 0 .. m - 1
    BY <1>2
  <2>5. more \in [0 .. m -> A]
    BY <2>1, <2>3, <2>4
  <2>6. 0 \in 0 .. m /\ 0 # m /\ m \in 0 .. m
    BY <1>2
  <2>7. \A i \in 0 .. m - 1 : more[i] = walk[i]
    BY <1>2
  <2>8. more[m] = step[m][walk[m - 1]]
    BY <2>6
  <2> HIDE DEF more
  <2>9. ASSUME NEW i \in 1 .. m PROVE more[i] = step[i][more[i - 1]]
    <3>1. i - 1 \in 0 .. m - 1
      BY <1>2
    <3>2. CASE i = m
      BY <2>7, <2>8, <3>1, <3>2
    <3>3. CASE i # m
      <4>1. i \in 1 .. m - 1 /\ i \in 0 .. m - 1
        BY <1>2, <3>3
      <4> QED
        BY <2>1, <2>7, <3>1, <4>1 DEF IsWalk
    <3> QED
      BY <3>2, <3>3
  <2>10. more[0] = first
    BY <1>2, <2>1, <2>7 DEF IsWalk
  <2>11. Walked(more, m)
    BY <2>9, <2>10 DEF IsWalk
  <2> HIDE DEF Walked
  <2> QED
    BY <1>2, <2>5, <2>11
<1> HIDE DEF Walked
<1>3. n \in T
  <2> HIDE DEF T
  <2>1. T \in SUBSET (0 .. n)
    BY DEF T
  <2>2. T = 0 .. n
    BY <1>1, <1>2, <2>1, UpTo
  <2> QED
    BY <2>2
<1>4. PICK walk \in [0 .. n -> A] : Walked(walk, n)
  BY <1>3
<1> QED
  BY <1>4 DEF Walked

(* A list and one element more. *)
LEMMA AppendFacts ==
    ASSUME NEW E, NEW s \in Seq(E), NEW x \in E
    PROVE  /\ Append(s, x) \in Seq(E) /\ Len(s) \in Nat /\ Len(Append(s, x)) = Len(s) + 1
           /\ \A i \in 1 .. Len(s) : Append(s, x)[i] = s[i]
           /\ Append(s, x)[Len(s) + 1] = x
           /\ Queued(Append(s, x)) = Queued(s) \cup {x}
<1>1. /\ Append(s, x) \in Seq(E) /\ Len(s) \in Nat /\ Len(Append(s, x)) = Len(s) + 1
      /\ \A i \in 1 .. Len(s) : Append(s, x)[i] = s[i]
      /\ Append(s, x)[Len(s) + 1] = x
      /\ DOMAIN s = 1 .. Len(s) /\ DOMAIN Append(s, x) = 1 .. Len(s) + 1
  OBVIOUS
<1>2. 1 .. Len(s) + 1 = (1 .. Len(s)) \cup {Len(s) + 1}
  BY <1>1
<1>3. Queued(Append(s, x)) = Queued(s) \cup {x}
  <2> DEFINE t == Append(s, x)
  <2> HIDE DEF t
  <2>1. /\ DOMAIN t = (1 .. Len(s)) \cup {Len(s) + 1} /\ t[Len(s) + 1] = x
        /\ \A i \in 1 .. Len(s) : t[i] = s[i]
    BY <1>1, <1>2 DEF t
  <2>2. Queued(t) = {t[i] : i \in (1 .. Len(s)) \cup {Len(s) + 1}}
    BY <2>1 DEF Queued
  <2>3. Queued(s) = {s[i] : i \in 1 .. Len(s)}
    BY <1>1 DEF Queued
  <2>4. Queued(t) = Queued(s) \cup {x}
    BY <2>1, <2>2, <2>3
  <2> QED
    BY <2>4 DEF t
<1> QED
  BY <1>1, <1>3

(* Without removes the members of the set and nothing else.                 *)
LEMMA WithoutFacts ==
    ASSUME NEW E, NEW q \in Seq(E), NEW S
    PROVE  /\ Without(q, S) \in Seq(E)
           /\ Queued(Without(q, S)) = Queued(q) \ S
<1> DEFINE n == Len(q)
           A == Seq(E)
           step == [i \in 1 .. n |-> [s \in A |-> IF q[i] \in S THEN s ELSE Append(s, q[i])]]
           Kept(k) == k = [i \in 0 .. Len(q) |->
                              IF i = 0 THEN <<>>
                              ELSE IF q[i] \in S THEN k[i - 1]
                              ELSE Append(k[i - 1], q[i])]
           kept == CHOOSE k : Kept(k)
<1>1. n \in Nat /\ <<>> \in A /\ \A i \in 1 .. n : q[i] \in E
  OBVIOUS
<1>2. step \in [1 .. n -> [A -> A]]
  <2>1. ASSUME NEW i \in 1 .. n, NEW s \in A
        PROVE  (IF q[i] \in S THEN s ELSE Append(s, q[i])) \in A
    BY <1>1, AppendFacts
  <2> HIDE DEF A
  <2> QED
    BY <2>1
<1>3. PICK k \in [0 .. n -> A] : IsWalk(k, n, <<>>, step)
  <2> HIDE DEF n, A, step
  <2>1. n \in Nat /\ <<>> \in A
    BY <1>1
  <2> QED
    BY <1>2, <2>1, WalkExists
<1>4. ASSUME NEW i \in 1 .. n
      PROVE  /\ i \in 0 .. n /\ i # 0 /\ i - 1 \in 0 .. n /\ k[i - 1] \in A
             /\ k[i] = IF q[i] \in S THEN k[i - 1] ELSE Append(k[i - 1], q[i])
  <2>1. i \in 0 .. n /\ i # 0 /\ i - 1 \in 0 .. n /\ k[i - 1] \in A
    <3> HIDE DEF A, n, step
    <3> QED
      BY <1>1, <1>3
  <2>2. k[i] = step[i][k[i - 1]]
    BY <1>3 DEF IsWalk
  <2>3. step[i][k[i - 1]] = IF q[i] \in S THEN k[i - 1] ELSE Append(k[i - 1], q[i])
    BY <2>1
  <2> QED
    BY <2>1, <2>2, <2>3
<1>5. k[0] = <<>>
  BY <1>3 DEF IsWalk
<1>6. Kept(k)
  <2>1. \A i \in 0 .. n : i # 0 => i \in 1 .. n
    BY <1>1
  <2>2. DOMAIN k = 0 .. n
    BY <1>3
  <2>3. k = [i \in 0 .. n |-> k[i]]
    BY <1>3
  <2> HIDE DEF A, step
  <2> QED
    BY <1>4, <1>5, <2>1, <2>3
<1>7. Kept(kept)
  <2> HIDE DEF Kept
  <2> QED
    BY Zenon, <1>6
<1>8. Without(q, S) = kept[n]
  BY Zenon DEF Without
<1> HIDE DEF kept
<1> DEFINE T == {i \in 0 .. n : /\ kept[i] \in Seq(E)
                              /\ Queued(kept[i]) = {q[j] : j \in 1 .. i} \ S}
<1>9. 0 \in T
  <2>1. kept[0] = <<>>
    BY <1>1, <1>7
  <2>2. 1 .. 0 = {}
    OBVIOUS
  <2>3. Queued(<<>>) = {} /\ {q[j] : j \in 1 .. 0} \ S = {}
    BY <2>2 DEF Queued
  <2>4. 0 \in 0 .. n /\ <<>> \in Seq(E)
    BY <1>1
  <2> QED
    BY <2>1, <2>3, <2>4
<1>10. ASSUME NEW i \in 1 .. n, i - 1 \in T PROVE i \in T
  <2>1. kept[i] = IF q[i] \in S THEN kept[i - 1] ELSE Append(kept[i - 1], q[i])
    <3>1. i \in 0 .. Len(q) /\ i # 0
      BY <1>1, <1>10
    <3> HIDE DEF T
    <3> QED
      BY <1>7, <3>1
  <2>2. /\ kept[i - 1] \in Seq(E) /\ q[i] \in E /\ i \in 0 .. n
        /\ Queued(kept[i - 1]) = {q[j] : j \in 1 .. i - 1} \ S
    BY <1>1, <1>10
  <2>3. 1 .. i = (1 .. i - 1) \cup {i}
    BY <1>1
  <2>4. {q[j] : j \in 1 .. i} = {q[j] : j \in 1 .. i - 1} \cup {q[i]}
    BY <2>3
  <2>5. /\ Append(kept[i - 1], q[i]) \in Seq(E)
        /\ Queued(Append(kept[i - 1], q[i])) = Queued(kept[i - 1]) \cup {q[i]}
    BY <2>2, AppendFacts
  <2>6. CASE q[i] \in S
    <3>1. Queued(kept[i]) = {q[j] : j \in 1 .. i} \ S
      BY <2>1, <2>2, <2>4, <2>6
    <3> QED
      BY <2>1, <2>2, <2>6, <3>1
  <2>7. CASE q[i] \notin S
    <3>1. Queued(kept[i]) = {q[j] : j \in 1 .. i} \ S
      BY <2>1, <2>2, <2>4, <2>5, <2>7
    <3> QED
      BY <2>1, <2>2, <2>5, <2>7, <3>1
  <2> QED
    BY <2>6, <2>7
<1>11. n \in T
  <2> HIDE DEF T, Kept
  <2>1. T \in SUBSET (0 .. n)
    BY DEF T
  <2>2. T = 0 .. n
    BY <1>1, <1>9, <1>10, <2>1, UpTo
  <2> QED
    BY <1>1, <2>2
<1>12. DOMAIN q = 1 .. n
  OBVIOUS
<1> QED
  BY <1>8, <1>11, <1>12 DEF Queued

-----------------------------------------------------------------------------
(* The imbalance cache and what reprocessQueue keeps *)

(* The cache holds imbalances of some of the keys.                          *)
Caches == UNION {[D -> Int] : D \in SUBSET Keys}

(* Affordable, over any table of imbalances. *)
AffordableOver(table, s) ==
    \A i \in 1 .. Len(s) :
        ~IsCounterPoint(s[i]) => table[By[s[i]]] + Net(s, By[s[i]], 1, i - 1) >= 1

(* The cache tells what the table and the list tell. *)
Tallies(ch, table, s) ==
    \A k \in Keys : Cached(ch, table, k) = table[k] + Net(s, k, 1, Len(s))

(* What a list gives a key depends on its places and on nothing else.       *)
LEMMA NetOfSame ==
    ASSUME NEW s, NEW t, NEW k, NEW lo, NEW hi, \A i \in lo .. hi : s[i] = t[i]
    PROVE  Net(s, k, lo, hi) = Net(t, k, lo, hi)
<1>1. /\ {i \in lo .. hi : For[s[i]] = k} = {i \in lo .. hi : For[t[i]] = k}
      /\ {i \in lo .. hi : By[s[i]] = k} = {i \in lo .. hi : By[t[i]] = k}
  OBVIOUS
<1> QED
  BY <1>1 DEF Net

(* An empty list gives nothing. *)
LEMMA NetOfNone == \A s, k : Net(s, k, 1, 0) = 0
<1> SUFFICES ASSUME NEW s, NEW k PROVE Net(s, k, 1, 0) = 0
  OBVIOUS
<1>1. 1 \in Int /\ 0 \in Int
  OBVIOUS
<1>2. \A j \in 1 .. 0 : By[s[j]] # k /\ For[s[j]] # k
  OBVIOUS
<1> QED
  BY <1>1, <1>2, NetOfNobody

(* The parties of a consideration that is not a counterpoint. *)
LEMMA PartiesAreKeys ==
    ASSUME NEW x \in Considerations
    PROVE  For[x] \in Keys /\ (~IsCounterPoint(x) => By[x] \in Keys) /\ By[x] # For[x]
BY BodyAssumption DEF CheckConsideration, IsCounterPoint

(* What a key has in the cache is a number. *)
LEMMA CachedType ==
    ASSUME NEW ch \in Caches, NEW table \in [Keys -> Int], NEW k \in Keys
    PROVE  Cached(ch, table, k) \in Int
<1>1. PICK D \in SUBSET Keys : ch \in [D -> Int]
  BY DEF Caches
<1> QED
  BY <1>1 DEF Cached

(* ImbalanceCache.Apply moves one unit.                                     *)
LEMMA AppliedFacts ==
    ASSUME NEW ch \in Caches, NEW table \in [Keys -> Int], NEW x \in Considerations,
           ~IsCounterPoint(x)
    PROVE  /\ Applied(ch, table, x) \in Caches
           /\ \A k \in Keys :
                 Cached(Applied(ch, table, x), table, k) =
                     Cached(ch, table, k)
                       + ((IF For[x] = k THEN 1 ELSE 0) - (IF By[x] = k THEN 1 ELSE 0))
<1>1. PICK D \in SUBSET Keys : ch \in [D -> Int]
  BY DEF Caches
<1>2. For[x] \in Keys /\ By[x] \in Keys /\ By[x] # For[x]
  BY PartiesAreKeys
<1> DEFINE E == D \cup {By[x], For[x]}
           new(k) == Cached(ch, table, k)
                       + (IF k = For[x] THEN 1 ELSE IF k = By[x] THEN -1 ELSE 0)
<1>3. E \in SUBSET Keys /\ DOMAIN ch = D
  BY <1>1, <1>2
<1>4. Applied(ch, table, x) = [k \in E |-> new(k)]
  BY <1>3 DEF Applied
<1>5. \A k \in Keys : Cached(ch, table, k) \in Int
  BY CachedType
<1>6. \A k \in E : new(k) \in Int
  BY <1>3, <1>5
<1>7. [k \in E |-> new(k)] \in [E -> Int]
  <2> HIDE DEF E, new
  <2> QED
    BY <1>6
<1>8. Applied(ch, table, x) \in Caches
  BY <1>3, <1>4, <1>7 DEF Caches
<1>9. ASSUME NEW k \in Keys
      PROVE  Cached(Applied(ch, table, x), table, k) =
               Cached(ch, table, k)
                 + ((IF For[x] = k THEN 1 ELSE 0) - (IF By[x] = k THEN 1 ELSE 0))
  <2>1. CASE k \in E
    <3>1. Cached(Applied(ch, table, x), table, k) = new(k)
      <4> HIDE DEF E, new
      <4> QED
        BY <1>4, <2>1 DEF Cached
    <3>2. new(k) = Cached(ch, table, k)
                 + ((IF For[x] = k THEN 1 ELSE 0) - (IF By[x] = k THEN 1 ELSE 0))
      BY <1>2, <1>5
    <3> QED
      BY <3>1, <3>2
  <2>2. CASE k \notin E
    <3>1. Cached(Applied(ch, table, x), table, k) = table[k]
      <4> HIDE DEF E, new
      <4> QED
        BY <1>4, <2>2 DEF Cached
    <3>2. Cached(ch, table, k) = table[k] /\ For[x] # k /\ By[x] # k
      BY <1>3, <2>2 DEF Cached
    <3> QED
      BY <1>5, <3>1, <3>2
  <2> QED
    BY <2>1, <2>2
<1> QED
  BY <1>8, <1>9

(* A consideration the cache can apply is affordable after the list, and    *)
(* the cache tells the list with it.                                        *)
LEMMA OneMore ==
    ASSUME NEW ch \in Caches, NEW table \in [Keys -> Int], NEW x \in Considerations,
           ~IsCounterPoint(x), NEW s \in Seq(Considerations),
           AffordableOver(table, s), Tallies(ch, table, s), CanApply(ch, table, x)
    PROVE  /\ AffordableOver(table, Append(s, x))
           /\ Tallies(Applied(ch, table, x), table, Append(s, x))
<1> DEFINE t == Append(s, x)
           n == Len(s)
<1>1. /\ n \in Nat /\ Len(t) = n + 1 /\ t[n + 1] = x
      /\ \A i \in 1 .. n : t[i] = s[i]
  BY AppendFacts
<1>2. For[x] \in Keys /\ By[x] \in Keys
  BY PartiesAreKeys
<1> HIDE DEF t, n
<1>3. ASSUME NEW k, NEW i \in 0 .. n PROVE Net(t, k, 1, i) = Net(s, k, 1, i)
  <2>1. \A j \in 1 .. i : t[j] = s[j]
    BY <1>1
  <2> QED
    BY <2>1, NetOfSame
<1>4. ASSUME NEW k
      PROVE  /\ Net(t, k, 1, n + 1) = Net(s, k, 1, n)
                  + ((IF For[x] = k THEN 1 ELSE 0) - (IF By[x] = k THEN 1 ELSE 0))
             /\ Net(s, k, 1, n) \in Int
  <2>1. n + 1 \in Nat /\ n \in 0 .. n + 1 /\ n \in 0 .. n
    BY <1>1
  <2>2. Net(t, k, 1, n + 1) = Net(t, k, 1, n) + Net(t, k, n + 1, n + 1)
    BY <2>1, NetOfParts
  <2>3. Net(t, k, n + 1, n + 1) =
          (IF For[x] = k THEN 1 ELSE 0) - (IF By[x] = k THEN 1 ELSE 0)
    BY <1>1, <2>1, NetOfOne
  <2>4. Net(s, k, 1, n) \in Int
    BY <1>1, NetType
  <2> QED
    BY <1>3, <2>1, <2>2, <2>3, <2>4
<1>5. ASSUME NEW i \in 1 .. n + 1, ~IsCounterPoint(t[i])
      PROVE  table[By[t[i]]] + Net(t, By[t[i]], 1, i - 1) >= 1
  <2>1. i - 1 \in 0 .. n
    BY <1>1
  <2>2. CASE i = n + 1
    <3>1. Cached(ch, table, By[x]) = table[By[x]] + Net(s, By[x], 1, n)
      BY <1>2 DEF Tallies, n
    <3>2. n + 1 - 1 = n
      BY <1>1
    <3> QED
      BY <1>1, <1>3, <2>1, <2>2, <3>1, <3>2 DEF CanApply
  <2>3. CASE i # n + 1
    <3>1. i \in 1 .. n
      BY <1>1, <2>3
    <3> QED
      BY <1>1, <1>3, <1>5, <2>1, <3>1 DEF AffordableOver, n
  <2> QED
    BY <2>2, <2>3
<1>6. ASSUME NEW k \in Keys
      PROVE  Cached(Applied(ch, table, x), table, k) = table[k] + Net(t, k, 1, n + 1)
  <2>1. Cached(ch, table, k) = table[k] + Net(s, k, 1, n)
    BY DEF Tallies, n
  <2>2. Cached(Applied(ch, table, x), table, k) =
          Cached(ch, table, k)
            + ((IF For[x] = k THEN 1 ELSE 0) - (IF By[x] = k THEN 1 ELSE 0))
    BY AppliedFacts
  <2>3. table[k] \in Int
    OBVIOUS
  <2>4. (IF For[x] = k THEN 1 ELSE 0) - (IF By[x] = k THEN 1 ELSE 0) \in Int
    OBVIOUS
  <2> DEFINE d == (IF For[x] = k THEN 1 ELSE 0) - (IF By[x] = k THEN 1 ELSE 0)
  <2> HIDE DEF d
  <2> QED
    BY <1>4, <2>1, <2>2, <2>3, <2>4 DEF d
<1>7. AffordableOver(table, t) /\ Tallies(Applied(ch, table, x), table, t)
  BY <1>1, <1>5, <1>6 DEF AffordableOver, Tallies
<1> QED
  BY <1>7 DEF t

(* What reprocessQueue keeps: some of the queue, all of it includable; and  *)
(* when the graph objects to nothing, in its order affordable, with the     *)
(* cache telling exactly that.                                              *)
LEMMA ReprocessedFacts ==
    ASSUME NEW q \in Seq(Considerations), \A x \in Queued(q) : ~IsCounterPoint(x),
           NEW table \in [Keys -> Int], NEW level, NEW vetoed
    PROVE  LET kept == Reprocessed(q, table, level, vetoed) IN
           /\ kept.queue \in Seq(Considerations) /\ kept.cache \in Caches
           /\ Queued(kept.queue) \subseteq Queued(q)
           /\ \A x \in Queued(kept.queue) : Includable(x, level + 1)
           /\ vetoed = {} => /\ AffordableOver(table, kept.queue)
                             /\ Tallies(kept.cache, table, kept.queue)
<1> DEFINE n == Len(q)
           A == [queue : Seq(Considerations), cache : Caches]
           first == [queue |-> <<>>, cache |-> NoCache]
           Visit(acc, x) ==
               IF ~Includable(x, level + 1) \/ ~CanApply(acc.cache, table, x)
                 THEN acc
                 ELSE [queue |-> IF x \in vetoed THEN acc.queue ELSE Append(acc.queue, x),
                       cache |-> Applied(acc.cache, table, x)]
           step == [i \in 1 .. n |-> [acc \in A |-> Visit(acc, q[i])]]
           Ran(r) == r = [i \in 0 .. Len(q) |->
                             IF i = 0 THEN first ELSE Visit(r[i - 1], q[i])]
           run == CHOOSE r : Ran(r)
<1>1. n \in Nat /\ DOMAIN q = 1 .. n
      /\ \A i \in 1 .. n : q[i] \in Considerations /\ ~IsCounterPoint(q[i])
  BY DEF Queued
<1>2. first \in A
  <2>1. NoCache \in [{} -> Int] /\ {} \in SUBSET Keys
    BY DEF NoCache
  <2>2. NoCache \in Caches
    BY <2>1 DEF Caches
  <2> QED
    BY <2>2
<1>3. ASSUME NEW acc \in A, NEW i \in 1 .. n PROVE Visit(acc, q[i]) \in A
  <2>1. acc.queue \in Seq(Considerations) /\ acc.cache \in Caches
    OBVIOUS
  <2>2. Append(acc.queue, q[i]) \in Seq(Considerations)
    BY <1>1, <2>1
  <2>3. Applied(acc.cache, table, q[i]) \in Caches
    BY <1>1, <2>1, AppliedFacts
  <2> QED
    BY <2>1, <2>2, <2>3
<1>4. step \in [1 .. n -> [A -> A]]
  <2> HIDE DEF A, Visit
  <2> QED
    BY <1>3
<1>5. PICK k \in [0 .. n -> A] : IsWalk(k, n, first, step)
  <2> HIDE DEF n, A, step, first
  <2> QED
    BY <1>1, <1>2, <1>4, WalkExists
<1>6. ASSUME NEW i \in 1 .. n
      PROVE  /\ i \in 0 .. n /\ i # 0
             /\ k[i] = Visit(k[i - 1], q[i])
  <2>1. i \in 0 .. n /\ i # 0 /\ i - 1 \in 0 .. n
    BY <1>1
  <2>2. k[i - 1] \in A
    <3> HIDE DEF A, n, step, first
    <3> QED
      BY <1>5, <2>1
  <2>3. k[i] = step[i][k[i - 1]]
    BY <1>5 DEF IsWalk
  <2>4. step[i][k[i - 1]] = Visit(k[i - 1], q[i])
    <3> HIDE DEF A, Visit
    <3> QED
      BY <2>2
  <2> QED
    BY <2>1, <2>3, <2>4
<1>7. Ran(k)
  <2>1. k[0] = first
    BY <1>5 DEF IsWalk
  <2>2. \A i \in 0 .. n : i # 0 => i \in 1 .. n
    BY <1>1
  <2>3. k = [i \in 0 .. n |-> k[i]]
    <3> HIDE DEF A, n, step, first
    <3> QED
      BY <1>5
  <2> HIDE DEF A, step, first, Visit
  <2> QED
    BY <1>6, <2>1, <2>2, <2>3
<1>8. Ran(run)
  <2> HIDE DEF Ran
  <2> QED
    BY Zenon, <1>7
<1>9. Reprocessed(q, table, level, vetoed) = run[n]
  BY Zenon DEF Reprocessed
<1> HIDE DEF run
<1> DEFINE Good(acc) ==
        /\ Queued(acc.queue) \subseteq Queued(q)
        /\ \A x \in Queued(acc.queue) : Includable(x, level + 1)
        /\ vetoed = {} => /\ AffordableOver(table, acc.queue)
                          /\ Tallies(acc.cache, table, acc.queue)
           T == {i \in 0 .. n : run[i] \in A /\ Good(run[i])}
<1>10. 0 \in T
  <2>1. run[0] = first /\ 0 \in 0 .. n
    <3>1. 0 \in 0 .. Len(q)
      BY <1>1
    <3> HIDE DEF first, Visit
    <3> QED
      BY <1>8, <3>1
  <2>2. Queued(<<>>) = {}
    BY DEF Queued
  <2>3. AffordableOver(table, <<>>)
    BY DEF AffordableOver
  <2>4. Tallies(NoCache, table, <<>>)
    <3>1. Len(<<>>) = 0 /\ DOMAIN NoCache = {}
      BY DEF NoCache
    <3>2. ASSUME NEW k1 \in Keys
          PROVE  Cached(NoCache, table, k1) = table[k1] + Net(<<>>, k1, 1, 0)
      <4>1. Cached(NoCache, table, k1) = table[k1] /\ table[k1] \in Int
        BY <3>1 DEF Cached
      <4> QED
        BY <4>1, NetOfNone
    <3> QED
      BY <3>1, <3>2 DEF Tallies
  <2>5. Good(first)
    BY <2>2, <2>3, <2>4
  <2> HIDE DEF A, Good, first
  <2> QED
    BY <1>2, <2>1, <2>5
<1>11. ASSUME NEW i \in 1 .. n, i - 1 \in T PROVE i \in T
  <2> DEFINE acc == run[i - 1]
             x == q[i]
  <2>1. run[i] = Visit(acc, x)
    <3>1. i \in 0 .. Len(q) /\ i # 0
      BY <1>1, <1>11
    <3> HIDE DEF T, Visit, first
    <3> QED
      BY <1>8, <3>1
  <2>2. acc \in A /\ Good(acc) /\ x \in Considerations /\ ~IsCounterPoint(x) /\ i \in 0 .. n
    <3> HIDE DEF A, Good, Visit, first
    <3> QED
      BY <1>1, <1>11
  <2>3. x \in Queued(q)
    BY <1>1 DEF Queued
  <2> HIDE DEF acc, x
  <2>4. run[i] \in A
    <3> HIDE DEF A, Visit
    <3> QED
      BY <1>3, <2>1, <2>2 DEF x
  <2>5. acc.queue \in Seq(Considerations) /\ acc.cache \in Caches
    BY <2>2
  <2>6. Queued(Append(acc.queue, x)) = Queued(acc.queue) \cup {x}
    BY <2>2, <2>5, AppendFacts
  <2>7. CASE ~Includable(x, level + 1) \/ ~CanApply(acc.cache, table, x)
    <3>1. run[i] = acc
      BY <2>1, <2>7
    <3> HIDE DEF A, Visit, Good
    <3> QED
      BY <2>2, <2>4, <3>1
  <2>8. CASE Includable(x, level + 1) /\ CanApply(acc.cache, table, x)
    <3> DEFINE more == IF x \in vetoed THEN acc.queue ELSE Append(acc.queue, x)
    <3>1. run[i].queue = more /\ run[i].cache = Applied(acc.cache, table, x)
      BY <2>1, <2>8
    <3>2. Queued(more) \subseteq Queued(q) /\ \A y \in Queued(more) : Includable(y, level + 1)
      BY <2>2, <2>3, <2>6, <2>8
    <3>3. ASSUME vetoed = {}
          PROVE  /\ AffordableOver(table, more)
                 /\ Tallies(Applied(acc.cache, table, x), table, more)
      <4>1. more = Append(acc.queue, x)
        BY <3>3
      <4>2. AffordableOver(table, acc.queue) /\ Tallies(acc.cache, table, acc.queue)
        BY <2>2, <3>3
      <4> HIDE DEF more
      <4> QED
        BY <2>2, <2>5, <2>8, <4>1, <4>2, OneMore
    <3>4. Good(run[i])
      <4> HIDE DEF more
      <4> QED
        BY <3>1, <3>2, <3>3
    <3> HIDE DEF A, Visit, Good
    <3> QED
      BY <2>2, <2>4, <3>4
  <2> QED
    BY <2>7, <2>8
<1>12. n \in T
  <2> HIDE DEF T, Ran
  <2>1. T \in SUBSET (0 .. n)
    BY DEF T
  <2>2. T = 0 .. n
    BY <1>1, <1>10, <1>11, <2>1, UpTo
  <2> QED
    BY <1>1, <2>2
<1>13. run[n] \in A /\ Good(run[n])
  <2> HIDE DEF A, Good
  <2> QED
    BY <1>12
<1> HIDE DEF run
<1> QED
  BY <1>9, <1>13

-----------------------------------------------------------------------------
(* The queue holds nothing the branch confirms *)

(* A series that is acceptable at two heights: they are less than two       *)
(* series apart.                                                            *)
LEMMA SeriesReach ==
    ASSUME NEW h \in Nat, NEW g \in Nat, NEW series \in Nat,
           CheckConsiderationSeries(FALSE, series, h),
           CheckConsiderationSeries(FALSE, series, g)
    PROVE  h < g + 2 * COUNTS_UNTIL_NEW_SERIES
<1> DEFINE s == COUNTS_UNTIL_NEW_SERIES
           p == h \div s
           q == g \div s
<1>1. s \in Nat \ {0}
  BY SeriesLengthAssumption
<1>2. p \in Nat /\ q \in Nat
  BY <1>1, Division
<1>3. p <= q + 1
  BY <1>2 DEF CheckConsiderationSeries, LowestSeries, SeriesAt
<1>4. h < s * p + s /\ s * q <= g
  BY <1>1, Division
<1> HIDE DEF s, p, q
<1>5. s * p <= s * (q + 1)
  BY <1>1, <1>2, <1>3
<1>6. s * (q + 1) = s * q + s
  BY <1>1, <1>2
<1>7. s * p \in Nat /\ s * q \in Nat /\ s * (q + 1) \in Nat
  BY <1>1, <1>2
<1> QED
  BY <1>1, <1>4, <1>5, <1>6, <1>7 DEF s

(* processConsideration asks the index, which may be pruned: what the next  *)
(* count may include and the index does not hold, the whole branch does not *)
(* hold.                                                                    *)
LEMMA IncludableIsNew ==
    ASSUME ExactIndex, NEW x \in Considerations, ~IsCounterPoint(x), cnIndex[x] = NoEntry,
           Includable(x, Height(tip) + 1), NEW h \in 0 .. Height(tip)
    PROVE  x \notin Confirms(CountAt(tip, h))
<1>1. tip \in Counts /\ ConsiderationsIndexed
  BY DEF ExactIndex, TypedChain, TypeOK
<1>2. /\ Height(tip) \in Nat /\ CountAt(tip, h) \in Counts /\ Height(CountAt(tip, h)) = h
      /\ COUNTS_UNTIL_NEW_SERIES \in Nat \ {0} /\ Series[x] \in Nat
  BY <1>1, BranchOfCount, HeightOfCountAt, SeriesLengthAssumption, SeriesAssumption
<1> SUFFICES ASSUME x \in Confirms(CountAt(tip, h)) PROVE FALSE
  OBVIOUS
<1>3. CheckConsiderationSeries(FALSE, Series[x], h)
  <2>1. CheckConsiderationSeries(IsCounterPoint(x), Series[x], h)
    BY <1>2, SeriesAssumption
  <2> QED
    BY <2>1 DEF CheckConsiderationSeries
<1>4. CheckConsiderationSeries(FALSE, Series[x], Height(tip) + 1)
  BY DEF Includable
<1>5. h \in Nat /\ Height(tip) + 1 \in Nat
  BY <1>2
<1>6. Height(tip) + 1 < h + 2 * COUNTS_UNTIL_NEW_SERIES
  BY <1>2, <1>3, <1>4, <1>5, SeriesReach
<1>7. h \in IndexedHeights
  <2>1. h > Height(tip) - 2 * COUNTS_UNTIL_NEW_SERIES
    BY <1>2, <1>5, <1>6
  <2> QED
    BY <2>1 DEF IndexedHeights
<1>8. PICK g \in IndexedHeights : /\ x \in Confirms(CountAt(tip, g))
                                  /\ cnIndex[x] = IndexEntry(CountAt(tip, g), x)
  BY <1>1, <1>7 DEF ConsiderationsIndexed
<1>9. CountAt(tip, g) \in Counts
  BY <1>1, HeightOfCountAt DEF IndexedHeights
<1> QED
  BY <1>8, <1>9, IndexEntryType, ParameterAssumption

(* Every variable of the queue and of the storage holds values of its kind; *)
(* a counterpoint never waits.                                              *)
QueueTyped ==
    /\ cnQueue \in Seq(Considerations)
    /\ \A x \in Queued(cnQueue) : ~IsCounterPoint(x)
    /\ cache \in Caches
    /\ now \in 0 .. MaxTime
    /\ when \in [Counts -> 0 .. MaxTime \cup {NotStored}]

(* The inductive invariant of the queue, with vetoes and stops.             *)
QueueIInv == QueueTyped /\ QueueIsUnconfirmed

(* The members of two lists put together. *)
LEMMA JoinFacts ==
    ASSUME NEW E, NEW s \in Seq(E), NEW t \in Seq(E)
    PROVE  s \o t \in Seq(E) /\ Queued(s \o t) = Queued(s) \cup Queued(t)
<1>1. /\ s \o t \in Seq(E) /\ Len(s) \in Nat /\ Len(t) \in Nat
      /\ DOMAIN s = 1 .. Len(s) /\ DOMAIN t = 1 .. Len(t)
      /\ DOMAIN (s \o t) = 1 .. Len(s) + Len(t)
      /\ \A i \in 1 .. Len(s) + Len(t) :
            (s \o t)[i] = IF i <= Len(s) THEN s[i] ELSE t[i - Len(s)]
  OBVIOUS
<1> DEFINE u == s \o t
<1>2. ASSUME NEW x \in Queued(u) PROVE x \in Queued(s) \cup Queued(t)
  <2>1. PICK i \in 1 .. Len(s) + Len(t) : x = u[i]
    BY <1>1, <1>2 DEF Queued
  <2>2. CASE i <= Len(s)
    <3>1. i \in DOMAIN s /\ x = s[i]
      BY <1>1, <2>1, <2>2
    <3> QED
      BY <3>1 DEF Queued
  <2>3. CASE ~(i <= Len(s))
    <3>1. i - Len(s) \in DOMAIN t /\ x = t[i - Len(s)]
      BY <1>1, <2>1, <2>3
    <3> QED
      BY <3>1 DEF Queued
  <2> QED
    BY <2>2, <2>3
<1>3. ASSUME NEW x \in Queued(s) PROVE x \in Queued(u)
  <2>1. PICK i \in 1 .. Len(s) : x = s[i]
    BY <1>1, <1>3 DEF Queued
  <2>2. i \in DOMAIN u /\ x = u[i]
    BY <1>1, <2>1
  <2> QED
    BY <2>2 DEF Queued
<1>4. ASSUME NEW x \in Queued(t) PROVE x \in Queued(u)
  <2>1. PICK i \in 1 .. Len(t) : x = t[i]
    BY <1>1, <1>4 DEF Queued
  <2>2. Len(s) + i \in DOMAIN u /\ x = u[Len(s) + i]
    BY <1>1, <2>1
  <2> QED
    BY <2>2 DEF Queued
<1> QED
  BY <1>1, <1>2, <1>3, <1>4

(* What a disconnected count returns to the queue: its considerations but   *)
(* the counterpoint.                                                        *)
LEMMA ReturnedFacts ==
    ASSUME NEW c \in Counts
    PROVE  /\ Tail(Body[c]) \in Seq(Considerations)
           /\ Queued(Tail(Body[c])) \subseteq Confirms(c)
           /\ \A x \in Queued(Tail(Body[c])) : ~IsCounterPoint(x)
<1>1. /\ Body[c] \in Seq(Considerations) /\ Body[c] # <<>> /\ Len(Body[c]) \in Nat
      /\ \A i \in 1 .. Len(Body[c]) : IsCounterPoint(Body[c][i]) <=> i = 1
  BY BodyAssumption DEF CheckCount, Positions
<1> DEFINE t == Tail(Body[c])
<1>2. t \in Seq(Considerations) /\ DOMAIN t = 1 .. Len(Body[c]) - 1
      /\ \A i \in 1 .. Len(Body[c]) - 1 : t[i] = Body[c][i + 1]
  BY <1>1
<1>3. ASSUME NEW x \in Queued(t)
      PROVE  x \in Confirms(c) /\ ~IsCounterPoint(x)
  <2>1. PICK i \in 1 .. Len(Body[c]) - 1 : x = t[i]
    BY <1>2, <1>3 DEF Queued
  <2>2. i + 1 \in 1 .. Len(Body[c]) /\ x = Body[c][i + 1] /\ i + 1 # 1
    BY <1>1, <1>2, <2>1
  <2> QED
    BY <1>1, <2>2 DEF Confirms, Positions
<1> QED
  BY <1>2, <1>3

(* At the start nothing waits.                                              *)
LEMMA QueueIInvInit == Init => QueueIInv
<1> SUFFICES ASSUME Init PROVE QueueIInv
  OBVIOUS
<1>1. /\ cnQueue = <<>> /\ cache = NoCache /\ now = 0 /\ MaxTime \in Nat
      /\ when = [c \in Counts |-> IF c = Genesis THEN 0 ELSE NotStored]
  BY WorkAssumption DEF Init, QueueInit
<1>2. Queued(<<>>) = {}
  BY DEF Queued
<1>3. NoCache \in Caches
  <2>1. NoCache \in [{} -> Int] /\ {} \in SUBSET Keys
    BY DEF NoCache
  <2> QED
    BY <2>1 DEF Caches
<1>4. QueueTyped
  BY <1>1, <1>2, <1>3 DEF QueueTyped
<1>5. QueueIsUnconfirmed
  BY <1>1, <1>2 DEF QueueIsUnconfirmed
<1> QED
  BY <1>4, <1>5 DEF QueueIInv

(* A step that leaves branch and queue alone. *)
LEMMA QueueElse ==
    ASSUME QueueIInv, UNCHANGED <<tip, cnQueue, cache, when>>, now' \in 0 .. MaxTime
    PROVE  QueueIInv'
BY DEF QueueIInv, QueueTyped, QueueIsUnconfirmed

(* disconnectCount puts back what is not confirmed below, for nothing is    *)
(* confirmed twice.                                                         *)
LEMMA QueueDisconnect ==
    ASSUME Ground, QueueIInv, Disconnect
    PROVE  QueueIInv'
<1> DEFINE c == tip
           b == Previous(tip)
           rest == Without(cnQueue, Confirms(tip))
<1>1. /\ UNCHANGED <<cache, when, now>> /\ c \in Counts /\ c # Genesis /\ tip' = b
      /\ cnQueue' = Tail(Body[c]) \o rest
  BY DisconnectKeeps
     DEF Disconnect, AddBatch, DisconnectCount, Ground, ProcessorIInv, TypedChain, TypeOK
<1>2. rest \in Seq(Considerations) /\ Queued(rest) = Queued(cnQueue) \ Confirms(c)
  BY WithoutFacts DEF QueueIInv, QueueTyped
<1>3. /\ Tail(Body[c]) \in Seq(Considerations) /\ Queued(Tail(Body[c])) \subseteq Confirms(c)
      /\ \A x \in Queued(Tail(Body[c])) : ~IsCounterPoint(x)
  BY <1>1, ReturnedFacts
<1>4. /\ cnQueue' \in Seq(Considerations)
      /\ Queued(cnQueue') = Queued(Tail(Body[c])) \cup Queued(rest)
  <2> DEFINE s == Tail(Body[c])
  <2>1. cnQueue' = s \o rest /\ s \in Seq(Considerations) /\ rest \in Seq(Considerations)
    BY <1>1, <1>2, <1>3
  <2> HIDE DEF s, rest
  <2>2. cnQueue' \in Seq(Considerations) /\ Queued(cnQueue') = Queued(s) \cup Queued(rest)
    BY <2>1, JoinFacts
  <2> QED
    BY <2>2 DEF s
<1>5. /\ Height(c) = Height(b) + 1 /\ Height(b) \in Nat /\ CountAt(c, Height(c)) = c
      /\ \A h \in 0 .. Height(b) : CountAt(c, h) = CountAt(b, h)
  BY <1>1, StepFacts
<1> HIDE DEF rest
<1>6. QueueTyped'
  <2>1. \A x \in Queued(cnQueue') : ~IsCounterPoint(x)
    BY <1>2, <1>3, <1>4 DEF QueueIInv, QueueTyped
  <2> QED
    BY <1>1, <1>4, <2>1 DEF QueueIInv, QueueTyped
<1>7. ASSUME NEW h \in 0 .. Height(b)
      PROVE  Queued(cnQueue') \cap Confirms(CountAt(b, h)) = {}
  <2>1. h \in 0 .. Height(c) /\ Height(c) \in 0 .. Height(c) /\ h # Height(c)
    BY <1>5
  <2>2. Confirms(CountAt(c, h)) \cap Confirms(CountAt(c, Height(c))) = {}
    BY <2>1 DEF Ground, ExactIndex, NoDoubleConfirmation
  <2>3. Queued(cnQueue) \cap Confirms(CountAt(c, h)) = {}
    BY <2>1 DEF QueueIInv, QueueIsUnconfirmed
  <2> QED
    BY <1>2, <1>3, <1>4, <1>5, <2>2, <2>3
<1>8. QueueIsUnconfirmed'
  BY <1>1, <1>7 DEF QueueIsUnconfirmed
<1> QED
  BY <1>6, <1>8 DEF QueueIInv

(* What connectCount leaves in the queue and in the cache.                  *)
LEMMA ConnectedQueue ==
    ASSUME Ground, QueueIInv, NEW vetoed, Connect(vetoed)
    PROVE  LET c    == Head(job.redo)
               rest == Without(cnQueue, Confirms(c))
               kept == Reprocessed(rest, imbalance', Height(c), vetoed)
           IN  /\ c \in Counts /\ c # Genesis /\ Previous(c) = tip /\ tip' = c
               /\ rest \in Seq(Considerations)
               /\ Queued(rest) = Queued(cnQueue) \ Confirms(c)
               /\ Len(job.redo) > 1 => cnQueue' = rest /\ cache' = cache
               /\ ~(Len(job.redo) > 1) =>
                     /\ cnQueue' = kept.queue /\ cache' = kept.cache
                     /\ cnQueue' \in Seq(Considerations) /\ cache' \in Caches
                     /\ Queued(cnQueue') \subseteq Queued(rest)
                     /\ \A x \in Queued(cnQueue') : Includable(x, Height(c) + 1)
                     /\ vetoed = {} => /\ AffordableOver(imbalance', cnQueue')
                                       /\ Tallies(cache', imbalance', cnQueue')
<1> DEFINE c == Head(job.redo)
           rest == Without(cnQueue, Confirms(c))
           kept == Reprocessed(rest, imbalance', Height(c), vetoed)
<1>1. job # NoJob /\ job.undo = <<>> /\ tip' = c /\ RemoveBatch(c, Len(job.redo) > 1, vetoed)
  BY DEF Connect, Reorganizing, ConnectCount
<1>2. c \in Counts /\ c # Genesis /\ Previous(c) = tip
  <2>1. PICK f \in Nat : PlanFrom(f)
    BY DEF Ground, ProcessorIInv, PlanOK, Connect
  <2> QED
    BY <1>1, <2>1, PlanFits DEF Ground
<1>3. rest \in Seq(Considerations) /\ Queued(rest) = Queued(cnQueue) \ Confirms(c)
  BY WithoutFacts DEF QueueIInv, QueueTyped
<1>4. \A x \in Queued(rest) : ~IsCounterPoint(x)
  BY <1>3 DEF QueueIInv, QueueTyped
<1>5. imbalance' \in [Keys -> Int]
  BY ConnectKeeps DEF Ground, ProcessorIInv, TypedChain, TypeOK
<1>6. Len(job.redo) > 1 => cnQueue' = rest /\ cache' = cache
  BY <1>1 DEF RemoveBatch
<1>7. ~(Len(job.redo) > 1) => cnQueue' = kept.queue /\ cache' = kept.cache
  BY <1>1 DEF RemoveBatch
<1> HIDE DEF rest, c
<1>8. /\ kept.queue \in Seq(Considerations) /\ kept.cache \in Caches
      /\ Queued(kept.queue) \subseteq Queued(rest)
      /\ \A x \in Queued(kept.queue) : Includable(x, Height(c) + 1)
      /\ vetoed = {} => /\ AffordableOver(imbalance', kept.queue)
                        /\ Tallies(kept.cache, imbalance', kept.queue)
  BY <1>3, <1>4, <1>5, ReprocessedFacts
<1> HIDE DEF kept
<1>9. ~(Len(job.redo) > 1) =>
         /\ cnQueue' \in Seq(Considerations) /\ cache' \in Caches
         /\ Queued(cnQueue') \subseteq Queued(rest)
         /\ \A x \in Queued(cnQueue') : Includable(x, Height(c) + 1)
         /\ vetoed = {} => /\ AffordableOver(imbalance', cnQueue')
                           /\ Tallies(cache', imbalance', cnQueue')
  BY <1>7, <1>8
<1> QED
  BY <1>1, <1>2, <1>3, <1>6, <1>7, <1>9 DEF c, rest, kept

(* connectCount takes what the count confirms out of the queue.             *)
LEMMA QueueConnect ==
    ASSUME Ground, QueueIInv, NEW vetoed, Connect(vetoed)
    PROVE  QueueIInv'
<1> DEFINE c == Head(job.redo)
           rest == Without(cnQueue, Confirms(c))
<1>1. /\ c \in Counts /\ c # Genesis /\ Previous(c) = tip /\ tip' = c
      /\ rest \in Seq(Considerations) /\ Queued(rest) = Queued(cnQueue) \ Confirms(c)
      /\ UNCHANGED <<when, now>>
  BY ConnectedQueue DEF Connect
<1>2. /\ cnQueue' \in Seq(Considerations) /\ cache' \in Caches
      /\ Queued(cnQueue') \subseteq Queued(rest)
  BY <1>1, ConnectedQueue DEF QueueIInv, QueueTyped
<1> HIDE DEF rest, c
<1>3. QueueTyped'
  BY <1>1, <1>2 DEF QueueIInv, QueueTyped
<1>4. /\ Height(c) = Height(tip) + 1 /\ Height(tip) \in Nat /\ CountAt(c, Height(c)) = c
      /\ \A h \in 0 .. Height(tip) : CountAt(c, h) = CountAt(tip, h)
  BY <1>1, StepFacts
<1>5. ASSUME NEW h \in 0 .. Height(c)
      PROVE  Queued(cnQueue') \cap Confirms(CountAt(c, h)) = {}
  <2>1. CASE h = Height(c)
    BY <1>1, <1>2, <1>4, <2>1
  <2>2. CASE h # Height(c)
    <3>1. h \in 0 .. Height(tip)
      BY <1>4, <2>2
    <3>2. Queued(cnQueue) \cap Confirms(CountAt(tip, h)) = {}
      BY <3>1 DEF QueueIInv, QueueIsUnconfirmed
    <3> QED
      BY <1>1, <1>2, <1>4, <3>1, <3>2
  <2> QED
    BY <2>1, <2>2
<1>6. QueueIsUnconfirmed'
  BY <1>1, <1>5 DEF QueueIsUnconfirmed
<1> QED
  BY <1>3, <1>6 DEF QueueIInv

(* processConsideration adds only what the branch does not confirm.         *)
LEMMA QueueProcess ==
    ASSUME Ground, QueueIInv, NEW x \in Considerations, NEW vetoed,
           ProcessConsideration(x, vetoed)
    PROVE  QueueIInv'
<1>1. /\ ~IsCounterPoint(x) /\ cnIndex[x] = NoEntry /\ Includable(x, Height(tip) + 1)
      /\ Add(x, vetoed) /\ UNCHANGED <<tip, when, now, imbalance>>
  BY DEF ProcessConsideration, ledgerVars
<1>2. imbalance \in [Keys -> Int] /\ ExactIndex
  BY DEF Ground, ProcessorIInv, TypedChain, TypeOK
<1>3. cnQueue \in Seq(Considerations) /\ cache \in Caches
  BY DEF QueueIInv, QueueTyped
<1>4. /\ cnQueue' \in Seq(Considerations) /\ cache' \in Caches
      /\ Queued(cnQueue') \subseteq Queued(cnQueue) \cup {x}
  <2>1. /\ Append(cnQueue, x) \in Seq(Considerations)
        /\ Queued(Append(cnQueue, x)) = Queued(cnQueue) \cup {x}
    BY <1>3, AppendFacts
  <2>2. Applied(cache, imbalance, x) \in Caches
    BY <1>1, <1>2, <1>3, AppliedFacts
  <2>3. /\ cnQueue' = cnQueue \/ cnQueue' = Append(cnQueue, x)
        /\ cache' = cache \/ cache' = Applied(cache, imbalance, x)
    BY <1>1 DEF Add, queueVars
  <2> QED
    BY <1>3, <2>1, <2>2, <2>3
<1>5. QueueTyped'
  BY <1>1, <1>4 DEF QueueIInv, QueueTyped
<1>6. ASSUME NEW h \in 0 .. Height(tip)
      PROVE  Queued(cnQueue') \cap Confirms(CountAt(tip, h)) = {}
  <2>1. x \notin Confirms(CountAt(tip, h))
    BY <1>1, <1>2, IncludableIsNew
  <2>2. Queued(cnQueue) \cap Confirms(CountAt(tip, h)) = {}
    BY DEF QueueIInv, QueueIsUnconfirmed
  <2> QED
    BY <1>4, <2>1, <2>2
<1>7. QueueIsUnconfirmed'
  BY <1>1, <1>6 DEF QueueIsUnconfirmed
<1> QED
  BY <1>5, <1>7 DEF QueueIInv

(* Every step keeps the invariant of the queue.                             *)
LEMMA QueueStep ==
    ASSUME Ground, QueueIInv, [Next]_vars
    PROVE  QueueIInv'
<1>0. now \in 0 .. MaxTime /\ MaxTime \in Nat
  BY WorkAssumption DEF QueueIInv, QueueTyped
<1>1. ASSUME NEW c \in Counts \ {Genesis}, ProcessCount(c) PROVE QueueIInv'
  <2>1. /\ UNCHANGED <<tip, cnQueue, cache, now>> /\ when' = [when EXCEPT ![c] = now]
    BY <1>1 DEF ProcessCount, AcceptCount, ledgerVars, queueVars
  <2>2. when' \in [Counts -> 0 .. MaxTime \cup {NotStored}]
    BY <1>0, <2>1 DEF QueueIInv, QueueTyped
  <2> QED
    BY <2>1, <2>2 DEF QueueIInv, QueueTyped, QueueIsUnconfirmed
<1>2. ASSUME IsTip \/ SetAside \/ Reorganize PROVE QueueIInv'
  BY <1>0, <1>2, QueueElse
     DEF IsTip, SetAside, Reorganize, SetBranchType, ledgerVars, queueVars
<1>3. ASSUME Disconnect PROVE QueueIInv'
  BY <1>3, QueueDisconnect
<1>4. ASSUME NEW vetoed, Connect(vetoed) PROVE QueueIInv'
  BY <1>4, QueueConnect
<1>5. ASSUME NEW vetoed, ConnectFails(vetoed) PROVE QueueIInv'
  BY <1>0, <1>5, QueueElse DEF ConnectFails, ledgerVars, queueVars
<1>6. ASSUME NEW x \in Considerations, NEW vetoed, ProcessConsideration(x, vetoed)
      PROVE  QueueIInv'
  BY <1>6, QueueProcess
<1>7. ASSUME Restart PROVE QueueIInv'
  <2>1. UNCHANGED <<tip, when, now>> /\ cnQueue' = <<>> /\ cache' = NoCache
    BY <1>7 DEF Restart, ledgerVars
  <2>2. Queued(<<>>) = {}
    BY DEF Queued
  <2>3. NoCache \in Caches
    <3>1. NoCache \in [{} -> Int] /\ {} \in SUBSET Keys
      BY DEF NoCache
    <3> QED
      BY <3>1 DEF Caches
  <2> QED
    BY <2>1, <2>2, <2>3 DEF QueueIInv, QueueTyped, QueueIsUnconfirmed
<1>8. ASSUME Tick PROVE QueueIInv'
  <2>1. now' \in 0 .. MaxTime /\ UNCHANGED <<tip, cnQueue, cache, when>>
    BY <1>0, <1>8 DEF Tick, ledgerVars, queueVars
  <2> QED
    BY <2>1, QueueElse
<1>9. ASSUME UNCHANGED vars PROVE QueueIInv'
  BY <1>0, <1>9, QueueElse DEF vars, ledgerVars, queueVars
<1> QED
  BY <1>1, <1>2, <1>3, <1>4, <1>5, <1>6, <1>7, <1>8, <1>9 DEF Next, Proceed

(* And it holds in every state. *)
LEMMA QueueAlways == Spec => []QueueIInv
<1>1. Ground /\ QueueIInv /\ [Next]_vars => QueueIInv'
  BY QueueStep
<1> QED
  BY <1>1, QueueIInvInit, GroundAlways, PTL DEF Spec

(* Every variable of the processor holds values of its kind: in particular  *)
(* the cache never grows a key that no consideration has.                   *)
THEOREM ProcessorTyped == Spec => []ProcessorTypeOK
<1>1. Ground /\ QueueIInv => ProcessorTypeOK
  <2> SUFFICES ASSUME Ground, QueueIInv PROVE ProcessorTypeOK
    OBVIOUS
  <2>1. TypeOK /\ job \in Jobs \cup {NoJob}
    BY DEF Ground, ProcessorIInv, TypedChain, JobOK
  <2>2. DOMAIN cache \subseteq Keys /\ \A k \in DOMAIN cache : cache[k] \in Int
    <3>1. PICK D \in SUBSET Keys : cache \in [D -> Int]
      BY DEF QueueIInv, QueueTyped, Caches
    <3> QED
      BY <3>1
  <2> QED
    BY <2>1, <2>2 DEF QueueIInv, QueueTyped, ProcessorTypeOK
<1> QED
  BY <1>1, GroundAlways, QueueAlways, PTL

(* What waits in the queue is not confirmed on the branch of the tip, in    *)
(* the middle of a reorganisation, with a pruned index, whatever the graph  *)
(* objects to and wherever the client stopped.                              *)
THEOREM QueueStaysUnconfirmed == Spec => []QueueIsUnconfirmed
<1>1. QueueIInv => QueueIsUnconfirmed
  BY DEF QueueIInv
<1> QED
  BY <1>1, QueueAlways, PTL

-----------------------------------------------------------------------------
(* The next count could confirm the queue *)

(* The next count may include the queue, all of it and in its order, and    *)
(* the cache tells what it leaves.                                          *)
QueueIsReady ==
    /\ \A x \in Queued(cnQueue) : Includable(x, Height(tip) + 1)
    /\ AffordableOver(imbalance, cnQueue)
    /\ Tallies(cache, imbalance, cnQueue)

(* A reorganisation comes back to the tip it left only to restore it.       *)
RedoIsNew ==
    Reorganizing /\ ~job.restoring =>
        \A i \in 1 .. Len(job.redo) : job.redo[i] # job.oldTip

(* The inductive invariant of the cache: the queue is ready whenever the    *)
(* tip is not between two tips, also at the end of a call that changed      *)
(* nothing.                                                                 *)
ReadyIInv ==
    /\ RedoIsNew
    /\ job = NoJob \/ tip = job.oldTip => QueueIsReady

(* At the start the queue is empty. *)
LEMMA ReadyInit == Init => ReadyIInv
<1> SUFFICES ASSUME Init PROVE ReadyIInv
  OBVIOUS
<1>1. cnQueue = <<>> /\ cache = NoCache /\ job = NoJob /\ imbalance \in [Keys -> Int]
  BY TypedChainInit DEF Init, QueueInit, TypedChain, TypeOK
<1>2. Queued(<<>>) = {} /\ AffordableOver(imbalance, <<>>)
  BY DEF Queued, AffordableOver
<1>3. Tallies(NoCache, imbalance, <<>>)
  <2>1. Len(<<>>) = 0 /\ DOMAIN NoCache = {}
    BY DEF NoCache
  <2>2. ASSUME NEW k \in Keys
        PROVE  Cached(NoCache, imbalance, k) = imbalance[k] + Net(<<>>, k, 1, 0)
    <3>1. Cached(NoCache, imbalance, k) = imbalance[k] /\ imbalance[k] \in Int
      BY <1>1, <2>1 DEF Cached
    <3> QED
      BY <3>1, NetOfNone
  <2> QED
    BY <2>1, <2>2 DEF Tallies
<1> QED
  BY <1>1, <1>2, <1>3 DEF ReadyIInv, RedoIsNew, Reorganizing, QueueIsReady

(* A step that leaves branch, queue and call alone. *)
LEMMA ReadyElse ==
    ASSUME ReadyIInv, UNCHANGED <<tip, imbalance, cnQueue, cache, job>>
    PROVE  ReadyIInv'
BY DEF ReadyIInv, RedoIsNew, Reorganizing, QueueIsReady

(* A plan is made: the counts to connect are above what the branches share. *)
LEMMA ReadyReorganize ==
    ASSUME Ground, ChoiceIInv, ReadyIInv, Reorganize
    PROVE  ReadyIInv'
<1> DEFINE common == Shared(tip, Previous(job.id))
<1>1. /\ job # NoJob /\ job.stage = "compare" /\ job.id # tip
      /\ UNCHANGED <<tip, imbalance, cnQueue, cache>>
      /\ job' = [job EXCEPT !.stage = "reorganize",
                   !.undo = Reverse(SubSeq(Path[tip], common + 1, Len(Path[tip]))),
                   !.redo = SubSeq(Path[job.id], common + 1, Len(Path[job.id]))]
  BY DEF Reorganize, Continuing, ledgerVars, queueVars
<1>2. /\ job \in Jobs /\ tip \in Counts /\ job.id \in Counts /\ job.oldTip \in Counts
      /\ job.restoring \in BOOLEAN
      /\ job.id = IF job.restoring THEN job.oldTip ELSE job.new
      /\ job.new # Genesis
      /\ ~job.restoring => tip = job.oldTip
  BY <1>1, CallFacts DEF ChoiceIInv, CallOK
<1>3. /\ job'.redo = SubSeq(Path[job.id], common + 1, Len(Path[job.id]))
      /\ job'.oldTip = job.oldTip /\ job'.restoring = job.restoring
  BY <1>1, <1>2 DEF Jobs
<1>4. job' # NoJob
  BY ReorganizeKeeps, JobAssumption DEF Ground
<1>5. ASSUME ~job.restoring, NEW i \in 1 .. Len(job'.redo)
      PROVE  job'.redo[i] # tip
  <2> DEFINE c == job.id
             p == Previous(c)
  <2>1. c \in Counts /\ c # Genesis /\ c # tip
    BY <1>1, <1>2, <1>5
  <2>2. /\ p \in Counts /\ Height(c) = Height(p) + 1 /\ Height(p) \in Nat
        /\ CountAt(c, Height(c)) = c
        /\ \A h \in 0 .. Height(p) : CountAt(c, h) = CountAt(p, h)
    BY <2>1, StepFacts
  <2> HIDE DEF c, p
  <2>3. /\ Len(Path[c]) = Height(c) + 1 /\ Len(Path[p]) = Height(p) + 1
        /\ Len(Path[tip]) = Height(tip) + 1 /\ Height(tip) \in Nat /\ Path[c] \in Seq(Counts)
    BY <1>2, <2>1, <2>2, BranchOfCount, PathAssumption
  <2>4. /\ common \in 1 .. Len(Path[p]) /\ common \in 1 .. Len(Path[tip])
        /\ \A j \in 1 .. Len(Path[tip]) :
              j \in 1 .. Len(Path[p]) /\ Path[tip][j] = Path[p][j] => j <= common
    BY <1>2, <2>2, SharedIsPrefix DEF c, p
  <2> HIDE DEF common
  <2>5. /\ i \in 1 .. Len(Path[c]) - common
        /\ job'.redo[i] = Path[c][common + i]
    <3>1. common \in 0 .. Len(Path[c])
      BY <2>2, <2>3, <2>4
    <3>2. job'.redo = SubSeq(Path[c], common + 1, Len(Path[c]))
      BY <1>3 DEF c
    <3> DEFINE s == Path[c]
               rest == SubSeq(s, common + 1, Len(s))
    <3> HIDE DEF s
    <3>3. s \in Seq(Counts) /\ common \in 0 .. Len(s)
      BY <2>3, <3>1 DEF s
    <3>4. /\ Len(rest) = Len(s) - common
          /\ \A l \in 1 .. Len(s) - common : rest[l] = s[common + l]
      BY <3>3, RestFacts
    <3>5. job'.redo = rest
      BY <3>2 DEF s
    <3> HIDE DEF rest
    <3>6. i \in 1 .. Len(rest)
      BY <1>5, <3>5
    <3> QED
      BY <3>4, <3>5, <3>6 DEF s
  <2> DEFINE j == common + i
  <2>6. j \in 1 .. Height(c) + 1 /\ j > common
    BY <2>2, <2>3, <2>4, <2>5
  <2> HIDE DEF j
  <2>7. j - 1 \in 0 .. Height(c) /\ job'.redo[i] = CountAt(c, j - 1)
    <3>1. j - 1 + 1 = j
      BY <2>6
    <3> QED
      BY <2>2, <2>5, <2>6, <3>1 DEF CountAt, j
  <2> SUFFICES ASSUME CountAt(c, j - 1) = tip PROVE FALSE
    BY <2>7
  <2>8. Height(tip) = j - 1
    BY <2>1, <2>7, HeightOfCountAt
  <2>9. j - 1 # Height(c)
    BY <2>1, <2>2
  <2>10. j \in 1 .. Len(Path[p]) /\ j \in 1 .. Len(Path[tip]) /\ j - 1 \in 0 .. Height(p)
    BY <2>2, <2>3, <2>6, <2>8, <2>9
  <2>11. Path[p][j] = tip
    <3>1. CountAt(p, j - 1) = tip /\ j - 1 + 1 = j
      BY <2>2, <2>6, <2>10
    <3> QED
      BY <3>1 DEF CountAt
  <2>12. Path[tip][j] = tip
    <3>1. CountAt(tip, j - 1) = tip /\ j - 1 + 1 = j
      BY <1>2, <2>6, <2>8, BranchOfCount
    <3> QED
      BY <3>1 DEF CountAt
  <2> QED
    BY <2>4, <2>6, <2>10, <2>11, <2>12
<1>6. RedoIsNew'
  BY <1>2, <1>3, <1>5 DEF RedoIsNew
<1>7. QueueIsReady => QueueIsReady'
  BY <1>1 DEF QueueIsReady
<1> QED
  BY <1>1, <1>3, <1>4, <1>6, <1>7 DEF ReadyIInv

(* Work grows along a branch: what is below a tip that is no better than    *)
(* the old one is not the old one.                                          *)
LEMMA ReadyDisconnect ==
    ASSUME Ground, ChoiceIInv, ReadyIInv, Disconnect
    PROVE  ReadyIInv'
<1>1. /\ job # NoJob /\ Reorganizing /\ Head(job.undo) = tip /\ tip # Genesis
      /\ tip' = Previous(tip) /\ job' = [job EXCEPT !.undo = Tail(job.undo)] /\ job' # NoJob
  BY DisconnectKeeps, JobAssumption DEF Disconnect, Reorganizing, Ground, DisconnectCount
<1>2. /\ job \in Jobs /\ tip \in Counts /\ job.oldTip \in Counts
      /\ tip # job.oldTip => Better(job.oldTip, tip)
  BY <1>1, CallFacts
<1>3. /\ job'.stage = job.stage /\ job'.oldTip = job.oldTip /\ job'.redo = job.redo
      /\ job'.restoring = job.restoring
  BY <1>1, <1>2 DEF Jobs
<1>4. Previous(tip) \in Counts /\ PointWork[Previous(tip)] < PointWork[tip]
      /\ PointWork[Previous(tip)] \in Nat /\ PointWork[tip] \in Nat
      /\ PointWork[job.oldTip] \in Nat
  <2>1. Previous(tip) \in Counts
    BY <1>1, <1>2, StepFacts
  <2> QED
    BY <1>1, <1>2, <2>1, WorkAssumption
<1>5. PointWork[tip] <= PointWork[job.oldTip]
  BY <1>2, <1>4 DEF Better, Compare, Header
<1>6. tip' # job.oldTip
  BY <1>1, <1>4, <1>5
<1>7. RedoIsNew'
  BY <1>1, <1>3 DEF ReadyIInv, RedoIsNew, Reorganizing
<1> QED
  BY <1>1, <1>3, <1>6, <1>7 DEF ReadyIInv

(* The last connection rebuilds the queue; before it the tip is neither the *)
(* old one nor the last.                                                    *)
LEMMA ReadyConnect ==
    ASSUME Undisturbed, Ground, ChoiceIInv, QueueIInv, ReadyIInv,
           NEW vetoed \in SUBSET CycleProne, Connect(vetoed)
    PROVE  ReadyIInv'
<1> DEFINE c == Head(job.redo)
<1>1. /\ job # NoJob /\ Reorganizing /\ job.undo = <<>>
      /\ job' = IF Len(job.redo) > 1 THEN [job EXCEPT !.redo = Tail(job.redo)] ELSE NoJob
  BY DEF Connect, Reorganizing
<1>2. vetoed = {}
  BY DEF Undisturbed
<1>3. CASE ~(Len(job.redo) > 1)
  <2>1. tip' = c /\ job' = NoJob
    BY <1>1, <1>3, ConnectedQueue
  <2>2. /\ \A x \in Queued(cnQueue') : Includable(x, Height(c) + 1)
        /\ AffordableOver(imbalance', cnQueue') /\ Tallies(cache', imbalance', cnQueue')
    BY <1>2, <1>3, ConnectedQueue
  <2> HIDE DEF c
  <2>3. QueueIsReady'
    BY <2>1, <2>2 DEF QueueIsReady
  <2> QED
    BY <2>1, <2>3 DEF ReadyIInv, RedoIsNew, Reorganizing
<1>4. CASE Len(job.redo) > 1
  <2>1. /\ tip' = c /\ c # job.id
    BY <1>1, <1>4, ConnectedQueue, NextOfPlan
  <2>2. /\ job \in Jobs /\ job.redo \in Seq(Counts) /\ job.restoring \in BOOLEAN
        /\ job.id = IF job.restoring THEN job.oldTip ELSE job.new
    BY <1>1, CallFacts DEF Jobs
  <2>3. /\ job'.stage = job.stage /\ job'.oldTip = job.oldTip /\ job'.restoring = job.restoring
        /\ job'.redo = Tail(job.redo)
    BY <1>1, <1>4, <2>2 DEF Jobs
  <2>4. job' # NoJob
    BY <1>4, ConnectKeeps, JobAssumption DEF Ground
  <2>5. /\ Len(job.redo) \in Nat /\ Len(Tail(job.redo)) = Len(job.redo) - 1
        /\ c = job.redo[1]
        /\ \A i \in 1 .. Len(Tail(job.redo)) : Tail(job.redo)[i] = job.redo[i + 1]
    BY <1>4, <2>2, TailFacts
  <2>6. c # job.oldTip
    <3>1. CASE job.restoring
      BY <2>1, <2>2, <3>1
    <3>2. CASE ~job.restoring
      <4>1. 1 \in 1 .. Len(job.redo)
        BY <1>4, <2>5
      <4> QED
        BY <1>1, <2>5, <3>2, <4>1 DEF ReadyIInv, RedoIsNew
    <3> QED
      BY <3>1, <3>2
  <2> HIDE DEF c
  <2>7. ASSUME ~job.restoring, NEW i \in 1 .. Len(Tail(job.redo))
        PROVE  Tail(job.redo)[i] # job.oldTip
    <3>1. i + 1 \in 1 .. Len(job.redo)
      BY <2>5
    <3> QED
      BY <1>1, <2>5, <2>7, <3>1 DEF ReadyIInv, RedoIsNew
  <2>8. RedoIsNew'
    BY <2>3, <2>7 DEF RedoIsNew
  <2> QED
    BY <2>1, <2>3, <2>4, <2>6, <2>8 DEF ReadyIInv
<1> QED
  BY <1>3, <1>4

(* processConsideration adds what is includable and what the cache, that is *)
(* what the queue before it, can pay.                                       *)
LEMMA ReadyProcess ==
    ASSUME Ground, QueueIInv, ReadyIInv, NEW x \in Considerations,
           ProcessConsideration(x, {})
    PROVE  ReadyIInv'
<1>1. /\ job = NoJob /\ ~IsCounterPoint(x) /\ Includable(x, Height(tip) + 1)
      /\ Add(x, {}) /\ UNCHANGED <<tip, imbalance, job>>
  BY DEF ProcessConsideration, ledgerVars
<1>2. imbalance \in [Keys -> Int] /\ cnQueue \in Seq(Considerations) /\ cache \in Caches
  BY DEF Ground, ProcessorIInv, TypedChain, TypeOK, QueueIInv, QueueTyped
<1>3. QueueIsReady
  BY <1>1 DEF ReadyIInv
<1>4. QueueIsReady'
  <2>1. CASE cnQueue' = cnQueue /\ cache' = cache
    BY <1>1, <1>3, <2>1 DEF QueueIsReady
  <2>2. CASE /\ cnQueue' = Append(cnQueue, x) /\ cache' = Applied(cache, imbalance, x)
             /\ CanApply(cache, imbalance, x)
    <3>1. Queued(cnQueue') = Queued(cnQueue) \cup {x}
      BY <1>2, <2>2, AppendFacts
    <3>2. /\ AffordableOver(imbalance, Append(cnQueue, x))
          /\ Tallies(Applied(cache, imbalance, x), imbalance, Append(cnQueue, x))
      BY <1>1, <1>2, <1>3, <2>2, OneMore DEF QueueIsReady
    <3> QED
      BY <1>1, <1>3, <2>2, <3>1, <3>2 DEF QueueIsReady
  <2> QED
    BY <1>1, <2>1, <2>2 DEF Add, queueVars
<1> QED
  BY <1>1, <1>4 DEF ReadyIInv, RedoIsNew, Reorganizing

(* Every step keeps the queue ready.                                        *)
LEMMA ReadyStep ==
    ASSUME Undisturbed, Ground, ChoiceIInv, QueueIInv, ReadyIInv, [Next]_vars
    PROVE  ReadyIInv'
<1>1. ASSUME NEW c \in Counts \ {Genesis}, ProcessCount(c) PROVE ReadyIInv'
  <2>1. /\ UNCHANGED <<tip, imbalance, cnQueue, cache>> /\ job = NoJob
        /\ job'.stage = "compare"
    BY <1>1 DEF ProcessCount, AcceptCount, ledgerVars, queueVars
  <2>2. QueueIsReady'
    BY <2>1 DEF ReadyIInv, QueueIsReady
  <2> QED
    BY <2>1, <2>2 DEF ReadyIInv, RedoIsNew, Reorganizing
<1>2. ASSUME IsTip \/ SetAside PROVE ReadyIInv'
  <2>1. /\ UNCHANGED <<tip, imbalance, cnQueue, cache>> /\ job' = NoJob
        /\ tip = job.oldTip
    BY <1>2, ChoiceIsTip, ChoiceSetAside
       DEF IsTip, SetAside, SetBranchType, ledgerVars, queueVars
  <2>2. QueueIsReady'
    BY <2>1 DEF ReadyIInv, QueueIsReady
  <2> QED
    BY <2>1, <2>2 DEF ReadyIInv, RedoIsNew, Reorganizing
<1>3. ASSUME Reorganize PROVE ReadyIInv'
  BY <1>3, ReadyReorganize
<1>4. ASSUME Disconnect PROVE ReadyIInv'
  BY <1>4, ReadyDisconnect
<1>5. ASSUME NEW vetoed \in SUBSET CycleProne, Connect(vetoed) PROVE ReadyIInv'
  BY <1>5, ReadyConnect
<1>6. ASSUME NEW vetoed \in SUBSET CycleProne, ConnectFails(vetoed) PROVE ReadyIInv'
  <2>1. /\ UNCHANGED <<tip, imbalance, cnQueue, cache>>
        /\ job # NoJob /\ job' # NoJob /\ job'.oldTip = job.oldTip /\ ~job.restoring
        /\ job' = [job EXCEPT !.id = job.oldTip, !.stage = "compare", !.redo = <<>>,
                              !.restoring = TRUE]
    BY <1>6, ChoiceConnectFails DEF ConnectFails, Reorganizing, ledgerVars, queueVars
  <2>2. job'.stage = "compare"
    <3>1. job \in Jobs
      BY <2>1, CallFacts
    <3> QED
      BY <2>1, <3>1 DEF Jobs
  <2>3. QueueIsReady => QueueIsReady'
    BY <2>1 DEF QueueIsReady
  <2> QED
    BY <2>1, <2>2, <2>3 DEF ReadyIInv, RedoIsNew, Reorganizing
<1>7. ASSUME NEW x \in Considerations, NEW vetoed \in SUBSET CycleProne,
             ProcessConsideration(x, vetoed)
      PROVE  ReadyIInv'
  <2>1. vetoed = {}
    BY DEF Undisturbed
  <2> QED
    BY <1>7, <2>1, ReadyProcess
<1>8. ~Restart
  BY DEF Restart, Undisturbed
<1>9. ASSUME Tick \/ UNCHANGED vars PROVE ReadyIInv'
  BY <1>9, ReadyElse DEF Tick, vars, ledgerVars, queueVars
<1> QED
  BY <1>1, <1>2, <1>3, <1>4, <1>5, <1>6, <1>7, <1>8, <1>9 DEF Next, Proceed

(* reprocessQueue: "remove considerations now in violation".  Between two   *)
(* calls the whole queue, in its order, could be confirmed by the next      *)
(* count, after a reorganisation that failed half way too.                  *)
THEOREM QueueStaysRenderable == ASSUME Undisturbed PROVE Spec => []QueueIsRenderable
<1>1. Ground /\ ChoiceIInv /\ QueueIInv /\ ReadyIInv /\ [Next]_vars => ReadyIInv'
  BY ReadyStep
<1>2. ReadyIInv => QueueIsRenderable
  BY DEF ReadyIInv, QueueIsReady, QueueIsRenderable, AffordableOver, Affordable
<1> QED
  BY <1>1, <1>2, ReadyInit, GroundAlways, ChoiceAlways, QueueAlways, PTL DEF Spec

-----------------------------------------------------------------------------
(* Sums over finite sets *)

(* Sums over a subset agree where the functions do.                          *)
LEMMA SumsAgree ==
    ASSUME NEW S, IsFiniteSet(S), NEW R \in SUBSET S, NEW f, NEW h, NEW a, NEW b,
           AreSums(f, S, a), AreSums(h, R, b), \A x \in R : f[x] = h[x]
    PROVE  a[R] = b[R]
<1> DEFINE T == {s \in SUBSET R : a[s] = b[s]}
<1>1. IsFiniteSet(R)
  BY FS_Subset
<1>2. {} \in T
  <2>1. {} \in SUBSET S /\ {} \in SUBSET R /\ SumFrom(f, a, {}) = 0 /\ SumFrom(h, b, {}) = 0
    BY DEF SumFrom
  <2>2. a[{}] = SumFrom(f, a, {}) /\ b[{}] = SumFrom(h, b, {})
    BY <2>1 DEF AreSums
  <2> QED
    BY <2>1, <2>2
<1>3. ASSUME NEW s \in SUBSET R, s # {}, s \ {OneOf(s)} \in T
      PROVE  s \in T
  <2>1. OneOf(s) \in R
    BY <1>1, <1>3, SubsetFacts
  <2>2. f[OneOf(s)] = h[OneOf(s)] /\ a[s \ {OneOf(s)}] = b[s \ {OneOf(s)}]
    BY <1>3, <2>1
  <2>3. s \in SUBSET S /\ a[s] = SumFrom(f, a, s) /\ b[s] = SumFrom(h, b, s)
    BY DEF AreSums
  <2>4. SumFrom(f, a, s) = SumFrom(h, b, s)
    BY <1>3, <2>2 DEF SumFrom
  <2> QED
    BY <2>3, <2>4
<1>4. T \in SUBSET (SUBSET R)
  OBVIOUS
<1> HIDE DEF T
<1>5. T = SUBSET R
  BY <1>1, <1>2, <1>3, <1>4, EverySubset
<1>6. R \in T
  BY <1>5
<1> QED
  BY <1>6 DEF T

(* Any element may be taken first.                                          *)
LEMMA AnyOrder ==
    ASSUME NEW S, IsFiniteSet(S), NEW f, NEW a, AreSums(f, S, a), \A x \in S : f[x] \in Int
    PROVE  \A y \in S : a[S] = f[y] + a[S \ {y}]
<1> DEFINE n == Cardinality(S)
           AnyFirst(s) == \A y \in s : a[s] = f[y] + a[s \ {y}]
           U == {i \in 0 .. n : \A s \in SUBSET S : Cardinality(s) <= i => AnyFirst(s)}
<1>1. ASSUME NEW s \in SUBSET S
      PROVE  /\ Cardinality(s) \in Nat /\ Cardinality(s) <= n /\ n \in Nat
             /\ Cardinality(s) = 0 <=> s = {}
             /\ s # {} => /\ OneOf(s) \in S /\ OneOf(s) \in s
  BY SubsetFacts
<1>2. n \in Nat
  BY FS_CardinalityType
<1>3. ASSUME NEW s \in SUBSET S, NEW y \in s
      PROVE  s \ {y} \in SUBSET S /\ Cardinality(s \ {y}) = Cardinality(s) - 1
  <2>1. IsFiniteSet(s)
    BY FS_Subset
  <2> QED
    BY <2>1, FS_RemoveElement
<1> HIDE DEF n
<1>4. 0 \in U
  <2>1. ASSUME NEW s \in SUBSET S, Cardinality(s) <= 0 PROVE AnyFirst(s)
    <3>1. Cardinality(s) \in Nat /\ (Cardinality(s) = 0 => s = {})
      BY <1>1
    <3>2. Cardinality(s) = 0
      BY <2>1, <3>1
    <3> QED
      BY <3>1, <3>2
  <2> HIDE DEF AnyFirst
  <2> QED
    BY <1>2, <2>1
<1>5. ASSUME NEW i \in 1 .. n, i - 1 \in U PROVE i \in U
  <2>1. ASSUME NEW s \in SUBSET S, Cardinality(s) <= i, NEW y \in s
        PROVE  a[s] = f[y] + a[s \ {y}]
    <3> DEFINE x == OneOf(s)
               both == (s \ {x}) \ {y}
    <3>1. s # {} /\ x \in s /\ x \in S /\ y \in S
      BY <1>1
    <3>2. a[s] = f[x] + a[s \ {x}]
      BY <3>1 DEF AreSums, SumFrom
    <3>3. CASE y = x
      BY <3>2, <3>3
    <3>4. CASE y # x
      <4>1. /\ s \ {x} \in SUBSET S /\ s \ {y} \in SUBSET S /\ both \in SUBSET S
            /\ Cardinality(s \ {x}) = Cardinality(s) - 1
            /\ Cardinality(s \ {y}) = Cardinality(s) - 1
        BY <1>3, <3>1
      <4>2. Cardinality(s) \in Nat
        BY <1>1
      <4>3. Cardinality(s \ {x}) <= i - 1 /\ Cardinality(s \ {y}) <= i - 1
        BY <2>1, <4>1, <4>2
      <4>4. AnyFirst(s \ {x}) /\ AnyFirst(s \ {y})
        <5> HIDE DEF AnyFirst, x
        <5> QED
          BY <1>5, <4>1, <4>3
      <4>5. both = (s \ {y}) \ {x} /\ y \in s \ {x} /\ x \in s \ {y}
        BY <3>1, <3>4
      <4>6. a[s \ {x}] = f[y] + a[both] /\ a[s \ {y}] = f[x] + a[both]
        BY <4>4, <4>5
      <4>7. f[x] \in Int /\ f[y] \in Int /\ a[both] \in Int
        BY <3>1, <4>1 DEF AreSums
      <4> HIDE DEF x, both
      <4> QED
        BY <3>2, <4>6, <4>7
    <3> QED
      BY <3>3, <3>4
  <2>2. i \in 0 .. n
    BY <1>2
  <2> QED
    BY <2>1, <2>2
<1>6. U = 0 .. n
  <2>1. U \in SUBSET (0 .. n)
    OBVIOUS
  <2> HIDE DEF U
  <2> QED
    BY <1>2, <1>4, <1>5, <2>1, UpTo
<1>7. n \in U
  BY <1>2, <1>6
<1>8. ASSUME NEW s \in SUBSET S PROVE AnyFirst(s)
  <2> HIDE DEF AnyFirst
  <2> QED
    BY <1>1, <1>7
<1>9. AnyFirst(S)
  BY <1>8
<1> QED
  BY <1>9

(* A sum is an integer, and over nothing it is zero.                        *)
LEMMA SumFacts ==
    ASSUME NEW S, IsFiniteSet(S), NEW f, \A x \in S : f[x] \in Int
    PROVE  /\ Sums!SumFunctionOnSet(f, S) \in Int
           /\ S = {} => Sums!SumFunctionOnSet(f, S) = 0
<1>1. PICK a : AreSums(f, S, a) /\ Sums!SumFunctionOnSet(f, S) = a[S]
  BY SumIs
<1>2. a[S] \in Int
  BY <1>1 DEF AreSums
<1>3. S = {} => a[S] = 0
  BY <1>1 DEF AreSums, SumFrom
<1> QED
  BY <1>1, <1>2, <1>3

(* An element more adds what the function has for it.                       *)
LEMMA SumOfMore ==
    ASSUME NEW S, IsFiniteSet(S), NEW f, \A x \in S : f[x] \in Int,
           NEW x \in S, NEW R, R = S \ {x}, NEW h, \A z \in R : h[z] = f[z]
    PROVE  Sums!SumFunctionOnSet(f, S) = f[x] + Sums!SumFunctionOnSet(h, R)
<1>1. PICK a : AreSums(f, S, a) /\ Sums!SumFunctionOnSet(f, S) = a[S]
  BY SumIs
<1>2. AreSums(f, S, a)
  BY <1>1
<1>3. a[S] = f[x] + a[R]
  BY <1>2, AnyOrder
<1>4. IsFiniteSet(R) /\ R \in SUBSET S
  BY FS_Subset
<1>5. \A z \in R : h[z] \in Int /\ f[z] = h[z]
  BY <1>4
<1>6. PICK b : AreSums(h, R, b) /\ Sums!SumFunctionOnSet(h, R) = b[R]
  BY <1>4, <1>5, SumIs
<1>7. a[R] = b[R]
  BY <1>2, <1>4, <1>5, <1>6, SumsAgree
<1> QED
  BY <1>1, <1>3, <1>6, <1>7

(* The sums of functions that agree on the set. *)
LEMMA SumOfSame ==
    ASSUME NEW S, IsFiniteSet(S), NEW f, NEW h, \A x \in S : f[x] \in Int /\ h[x] = f[x]
    PROVE  Sums!SumFunctionOnSet(f, S) = Sums!SumFunctionOnSet(h, S)
<1>1. PICK a : AreSums(f, S, a) /\ Sums!SumFunctionOnSet(f, S) = a[S]
  BY SumIs
<1>2. PICK b : AreSums(h, S, b) /\ Sums!SumFunctionOnSet(h, S) = b[S]
  <2>1. \A x \in S : h[x] \in Int
    OBVIOUS
  <2> QED
    BY <2>1, SumIs
<1>3. S \in SUBSET S
  OBVIOUS
<1> QED
  BY <1>1, <1>2, <1>3, SumsAgree

-----------------------------------------------------------------------------
(* The consideration graph *)

(* Functions on some of the elements of a set.                              *)
Partials(S) == UNION {[D -> Int] : D \in SUBSET S}

(* A missing value is zero. *)
Value(f, i) == IF i \in DOMAIN f THEN f[i] ELSE 0

GraphTyped(g) ==
    /\ g \in [imbalance : Partials(Nodes), weight : Partials(Links)]
    /\ \A e \in DOMAIN g.weight : {e[1], e[2]} \subseteq DOMAIN g.imbalance

(* What such functions are. *)
LEMMA PartialFacts ==
    ASSUME NEW S, NEW f \in Partials(S)
    PROVE  /\ DOMAIN f \subseteq S
           /\ \A i : Value(f, i) \in Int
<1>1. PICK D \in SUBSET S : f \in [D -> Int]
  BY DEF Partials
<1> QED
  BY <1>1 DEF Value

(* A function on some of the elements is one of them.                       *)
LEMMA IsPartial ==
    ASSUME NEW S, NEW D, D \subseteq S, NEW f \in [D -> Int]
    PROVE  f \in Partials(S) /\ DOMAIN f = D
BY DEF Partials

(* Adding two functions adds their values. *)
LEMMA PlusFacts ==
    ASSUME NEW S, NEW f \in Partials(S), NEW g \in Partials(S)
    PROVE  /\ G!Plus(f, g) \in Partials(S)
           /\ DOMAIN G!Plus(f, g) = DOMAIN f \cup DOMAIN g
           /\ \A i : Value(G!Plus(f, g), i) = Value(f, i) + Value(g, i)
<1> DEFINE D == DOMAIN f \cup DOMAIN g
<1>1. D \subseteq S /\ \A i : Value(f, i) \in Int /\ Value(g, i) \in Int
  BY PartialFacts
<1>2. G!Plus(f, g) = [i \in D |-> Value(f, i) + Value(g, i)]
  BY DEF G!Plus, Value
<1> HIDE DEF D
<1>3. [i \in D |-> Value(f, i) + Value(g, i)] \in [D -> Int]
  BY <1>1
<1>4. G!Plus(f, g) \in Partials(S) /\ DOMAIN G!Plus(f, g) = D
  <2>1. G!Plus(f, g) \in [D -> Int]
    BY <1>2, <1>3
  <2>2. D \subseteq S
    BY <1>1
  <2> QED
    BY <2>1, <2>2, IsPartial, Zenon
<1>5. ASSUME NEW i PROVE Value(G!Plus(f, g), i) = Value(f, i) + Value(g, i)
  <2>1. CASE i \in D
    BY <1>2, <1>4, <2>1 DEF Value
  <2>2. CASE i \notin D
    <3>1. Value(f, i) = 0 /\ Value(g, i) = 0
      BY <2>2 DEF Value, D
    <3>2. Value(G!Plus(f, g), i) = 0
      BY <1>4, <2>2 DEF Value
    <3> QED
      BY <3>1, <3>2
  <2> QED
    BY <2>1, <2>2
<1> QED
  BY <1>4, <1>5 DEF D

(* The links of a consideration: itself, and those of its place.            *)
LEMMA LinksOfFacts ==
    ASSUME NEW x \in Considerations
    PROVE  /\ \E n \in Nat : DOMAIN LinksOf(x) = 1 .. n
           /\ Sums!Range(LinksOf(x))
                 \subseteq {<<By[x], For[x]>>} \cup Sums!Range(Dimensions[x])
<1> DEFINE own == <<<<By[x], For[x]>>>>
           S == {<<By[x], For[x]>>} \cup Sums!Range(Dimensions[x])
<1>1. Dimensions[x] \in Seq(Sums!Range(Dimensions[x]))
  BY DimensionAssumption
<1>2. Dimensions[x] \in Seq(S)
  BY <1>1
<1>3. own \in Seq(S)
  OBVIOUS
<1>4. LinksOf(x) \in Seq(S)
  <2> HIDE DEF own, S
  <2>1. own \o Dimensions[x] \in Seq(S) /\ <<>> \in Seq(S)
    BY <1>2, <1>3
  <2> QED
    BY <2>1 DEF LinksOf, own
<1> HIDE DEF S
<1>5. Len(LinksOf(x)) \in Nat /\ DOMAIN LinksOf(x) = 1 .. Len(LinksOf(x))
  BY <1>4
<1>6. \A i \in DOMAIN LinksOf(x) : LinksOf(x)[i] \in S
  BY <1>4
<1> QED
  BY <1>5, <1>6 DEF Sums!Range, S

(* A count makes finitely many links.                                       *)
LEMMA LinkPlacesFinite ==
    ASSUME NEW c \in Counts
    PROVE  IsFiniteSet(LinkPlaces(c))
<1> DEFINE n == Len(Body[c])
           Places(i) == {i} \X DOMAIN LinksOf(Body[c][i])
           Upto(i) == UNION {Places(j) : j \in 1 .. i}
           T == {i \in 0 .. n : IsFiniteSet(Upto(i))}
<1>1. n \in Nat /\ \A i \in 1 .. n : Body[c][i] \in Considerations
  BY BodyAssumption
<1>2. ASSUME NEW i \in 1 .. n PROVE IsFiniteSet(Places(i))
  <2>1. PICK m \in Nat : DOMAIN LinksOf(Body[c][i]) = 1 .. m
    BY <1>1, LinksOfFacts
  <2>2. 1 \in Int /\ m \in Int
    OBVIOUS
  <2>3. IsFiniteSet(1 .. m)
    BY <2>2, FS_Interval
  <2>4. IsFiniteSet({i})
    BY FS_Singleton
  <2> QED
    BY <2>1, <2>3, <2>4, FS_Product
<1> HIDE DEF n, Places
<1>3. 0 \in T
  <2>1. Upto(0) = {}
    OBVIOUS
  <2> HIDE DEF Upto
  <2> QED
    BY <1>1, <2>1, FS_EmptySet
<1>4. ASSUME NEW i \in 1 .. n, i - 1 \in T PROVE i \in T
  <2>1. Upto(i) = Upto(i - 1) \cup Places(i)
    <3>1. 1 .. i = (1 .. i - 1) \cup {i}
      BY <1>1
    <3> QED
      BY <3>1
  <2> HIDE DEF Upto
  <2>2. IsFiniteSet(Upto(i - 1)) /\ IsFiniteSet(Places(i))
    BY <1>2, <1>4
  <2>3. IsFiniteSet(Upto(i))
    <3>1. ASSUME NEW A, NEW B, IsFiniteSet(A), IsFiniteSet(B) PROVE IsFiniteSet(A \cup B)
      BY <3>1, FS_Union
    <3> HIDE DEF Places
    <3> QED
      BY <2>1, <2>2, <3>1, Zenon
  <2> QED
    BY <1>1, <2>3
<1>5. T = 0 .. n
  <2>1. T \in SUBSET (0 .. n)
    OBVIOUS
  <2> HIDE DEF T
  <2> QED
    BY <1>1, <1>3, <1>4, <2>1, UpTo
<1>6. n \in T
  <2> HIDE DEF T
  <2> QED
    BY <1>1, <1>5
<1> QED
  BY <1>6 DEF LinkPlaces, Positions, n, Places

(* How often a count makes a link; not at all unless it is one of its own.  *)
LEMMA MakesFacts ==
    ASSUME NEW c \in Counts, NEW e
    PROVE  /\ Makes(c, e) \in Int
           /\ e \notin LinksOfCount(c) => Makes(c, e) = 0
<1> DEFINE places == {p \in LinkPlaces(c) : LinksOf(Body[c][p[1]])[p[2]] = e}
<1>1. IsFiniteSet(places) /\ Cardinality(places) \in Nat
  BY LinkPlacesFinite, FS_Subset, FS_CardinalityType
<1>2. ASSUME e \notin LinksOfCount(c) PROVE places = {}
  <2> SUFFICES ASSUME NEW p \in places PROVE FALSE
    OBVIOUS
  <2>1. PICK i \in Positions(c) : p \in {i} \X DOMAIN LinksOf(Body[c][i])
    BY DEF LinkPlaces
  <2>2. /\ Body[c][i] \in Confirms(c) /\ p[1] = i
        /\ p[2] \in DOMAIN LinksOf(Body[c][i]) /\ LinksOf(Body[c][i])[p[2]] = e
    BY <2>1 DEF Confirms
  <2>3. e \in Sums!Range(LinksOf(Body[c][i]))
    BY <2>2 DEF Sums!Range
  <2> QED
    BY <1>2, <2>2, <2>3 DEF LinksOfCount
<1>3. Cardinality({}) = 0
  BY FS_EmptySet
<1>4. Makes(c, e) = Cardinality(places)
  BY DEF Makes
<1> HIDE DEF places
<1> QED
  BY <1>1, <1>2, <1>3, <1>4

(* What a count gives a key; nothing unless the key is one of its parties.  *)
LEMMA GainFacts ==
    ASSUME NEW c \in Counts, NEW k
    PROVE  /\ Gain(c, k) \in Int
           /\ k \notin Parties(c) => Gain(c, k) = 0
<1>1. Len(Body[c]) \in Nat /\ 1 \in Int
  BY BodyAssumption
<1>2. Gain(c, k) \in Int
  BY <1>1, NetType DEF Gain
<1>3. ASSUME k \notin Parties(c) PROVE Gain(c, k) = 0
  <2>1. ASSUME NEW i \in 1 .. Len(Body[c]) PROVE For[Body[c][i]] # k /\ By[Body[c][i]] # k
    <3>1. Body[c][i] \in Confirms(c)
      BY DEF Confirms, Positions
    <3> QED
      BY <1>3, <3>1 DEF Parties
  <2> QED
    BY <1>1, <2>1, NetOfNobody DEF Gain
<1> QED
  BY <1>2, <1>3

(* The parties and the links of a count are nodes and links.                *)
LEMMA CountInGraph ==
    ASSUME NEW c \in Counts
    PROVE  /\ Parties(c) \subseteq Nodes
           /\ LinksOfCount(c) \subseteq Links
           /\ \A e \in LinksOfCount(c) : {e[1], e[2]} \subseteq Nodes
<1>1. ASSUME NEW x \in Confirms(c)
      PROVE  x \in Considerations /\ By[x] \in Keys \cup {NoKey} /\ For[x] \in Keys
  <2>1. x \in Considerations
    BY BodyAssumption DEF Confirms, Positions
  <2> QED
    BY <2>1, BodyAssumption DEF CheckConsideration
<1>2. Parties(c) \subseteq Nodes
  BY <1>1 DEF Parties, Nodes
<1>3. LinksOfCount(c) \subseteq Links
  BY DEF Links
<1>4. ASSUME NEW e \in LinksOfCount(c) PROVE {e[1], e[2]} \subseteq Nodes
  <2>1. PICK x \in Confirms(c) : e \in Sums!Range(LinksOf(x))
    BY DEF LinksOfCount
  <2>2. x \in Considerations /\ By[x] \in Keys \cup {NoKey} /\ For[x] \in Keys
    BY <1>1
  <2>3. CASE e = <<By[x], For[x]>>
    <3>1. e[1] = By[x] /\ e[2] = For[x]
      BY <2>3
    <3> QED
      BY <2>2, <3>1 DEF Nodes
  <2>4. CASE e \in Sums!Range(Dimensions[x])
    <3>1. e \in UNION {Sums!Range(Dimensions[y]) : y \in Considerations}
      BY <2>2, <2>4
    <3> QED
      BY <3>1 DEF Nodes
  <2>5. e = <<By[x], For[x]>> \/ e \in Sums!Range(Dimensions[x])
    BY <2>1, <2>2, LinksOfFacts
  <2> QED
    BY <2>3, <2>4, <2>5
<1> QED
  BY <1>2, <1>3, <1>4

(* indexConsiderations adds what the count makes and gives, or takes it     *)
(* back.                                                                    *)
LEMMA IndexedFacts ==
    ASSUME NEW c \in Counts, NEW n \in {1, -1}, GraphTyped(graph)
    PROVE  /\ GraphTyped(Indexed(c, n))
           /\ \A e : Value(Indexed(c, n).weight, e) = Value(graph.weight, e) + Makes(c, e) * n
           /\ \A k : Value(Indexed(c, n).imbalance, k)
                        = Value(graph.imbalance, k) + Gain(c, k) * n
<1> DEFINE gains == [k \in Parties(c) |-> n * Gain(c, k)]
           made == [e \in LinksOfCount(c) |-> n * Makes(c, e)]
           none == [k \in G!Ends(made) |-> 0]
           first == G!Plus(graph.imbalance, gains)
           new == Indexed(c, n)
<1>1. graph.imbalance \in Partials(Nodes) /\ graph.weight \in Partials(Links)
  BY DEF GraphTyped
<1>2. n \in Int
  OBVIOUS
<1>3. /\ gains \in Partials(Nodes)
      /\ \A k : Value(gains, k) = Gain(c, k) * n
  <2>1. \A k : Gain(c, k) \in Int /\ n * Gain(c, k) \in Int
    BY <1>2, GainFacts
  <2>2. gains \in [Parties(c) -> Int]
    BY <2>1
  <2>3. gains \in Partials(Nodes) /\ DOMAIN gains = Parties(c)
    <3>1. Parties(c) \subseteq Nodes
      BY CountInGraph
    <3> HIDE DEF gains
    <3> QED
      BY <2>2, <3>1, IsPartial
  <2>4. ASSUME NEW k PROVE Value(gains, k) = Gain(c, k) * n
    <3>1. k \notin Parties(c) => Gain(c, k) = 0
      BY GainFacts
    <3>2. Gain(c, k) \in Int
      BY <2>1
    <3>3. Value(gains, k) = IF k \in Parties(c) THEN n * Gain(c, k) ELSE 0
      BY DEF Value
    <3> QED
      BY <1>2, <3>1, <3>2, <3>3
  <2> QED
    BY <2>3, <2>4
<1>4. /\ made \in Partials(Links) /\ DOMAIN made = LinksOfCount(c)
      /\ \A e : Value(made, e) = Makes(c, e) * n
  <2>1. \A e : Makes(c, e) \in Int /\ n * Makes(c, e) \in Int
    BY <1>2, MakesFacts
  <2>2. made \in [LinksOfCount(c) -> Int]
    BY <2>1
  <2>3. made \in Partials(Links) /\ DOMAIN made = LinksOfCount(c)
    <3>1. LinksOfCount(c) \subseteq Links
      BY CountInGraph
    <3> HIDE DEF made
    <3> QED
      BY <2>2, <3>1, IsPartial
  <2>4. ASSUME NEW e PROVE Value(made, e) = Makes(c, e) * n
    <3>1. e \notin LinksOfCount(c) => Makes(c, e) = 0
      BY MakesFacts
    <3>2. Makes(c, e) \in Int
      BY <2>1
    <3>3. Value(made, e) = IF e \in LinksOfCount(c) THEN n * Makes(c, e) ELSE 0
      BY DEF Value
    <3> QED
      BY <1>2, <3>1, <3>2, <3>3
  <2> QED
    BY <2>3, <2>4
<1> HIDE DEF gains, made
<1>5. G!Ends(made) \subseteq Nodes
  <2>1. \A e \in LinksOfCount(c) : {e[1], e[2]} \subseteq Nodes
    BY CountInGraph
  <2> QED
    BY <1>4, <2>1 DEF G!Ends
<1>6. /\ none \in Partials(Nodes) /\ DOMAIN none = G!Ends(made)
      /\ \A k : Value(none, k) = 0
  <2>1. none \in [G!Ends(made) -> Int]
    OBVIOUS
  <2>2. \A k : Value(none, k) = 0
    BY DEF Value
  <2> HIDE DEF none
  <2> QED
    BY <1>5, <2>1, <2>2, IsPartial
<1>7. new = [imbalance |-> G!Plus(first, none), weight |-> G!Plus(graph.weight, made)]
  <2>1. G!SetImbalance(graph, gains) = [graph EXCEPT !.imbalance = first]
    BY DEF G!SetImbalance
  <2>2. /\ G!SetImbalance(graph, gains).imbalance = first
        /\ G!SetImbalance(graph, gains).weight = graph.weight
    <3> HIDE DEF first
    <3> QED
      BY <2>1 DEF GraphTyped
  <2>3. new = G!Link(G!SetImbalance(graph, gains), made)
    BY DEF Indexed, gains, made
  <2> QED
    BY <2>2, <2>3 DEF G!Link
<1> HIDE DEF new, none
<1>8. /\ first \in Partials(Nodes)
      /\ DOMAIN first = DOMAIN graph.imbalance \cup DOMAIN gains
      /\ \A k : Value(first, k) = Value(graph.imbalance, k) + Value(gains, k)
  BY <1>1, <1>3, PlusFacts
<1> HIDE DEF first
<1>9. /\ new.imbalance \in Partials(Nodes)
      /\ DOMAIN new.imbalance = DOMAIN first \cup DOMAIN none
      /\ \A k : Value(new.imbalance, k) = Value(first, k) + Value(none, k)
  <2>1. new.imbalance = G!Plus(first, none)
    BY <1>7
  <2>2. first \in Partials(Nodes) /\ none \in Partials(Nodes)
    BY <1>6, <1>8
  <2> QED
    <3>1. /\ G!Plus(first, none) \in Partials(Nodes)
          /\ DOMAIN G!Plus(first, none) = DOMAIN first \cup DOMAIN none
          /\ \A k : Value(G!Plus(first, none), k) = Value(first, k) + Value(none, k)
      BY <2>2, PlusFacts
    <3> QED
      BY <2>1, <3>1
<1>10. /\ new.weight \in Partials(Links)
       /\ DOMAIN new.weight = DOMAIN graph.weight \cup DOMAIN made
       /\ \A e : Value(new.weight, e) = Value(graph.weight, e) + Value(made, e)
  <2>1. new.weight = G!Plus(graph.weight, made)
    BY <1>7
  <2> QED
    <3>1. /\ G!Plus(graph.weight, made) \in Partials(Links)
          /\ DOMAIN G!Plus(graph.weight, made) = DOMAIN graph.weight \cup DOMAIN made
          /\ \A e : Value(G!Plus(graph.weight, made), e)
                       = Value(graph.weight, e) + Value(made, e)
      BY <1>1, <1>4, PlusFacts
    <3> QED
      BY <2>1, <3>1
<1>11. ASSUME NEW e \in DOMAIN new.weight PROVE {e[1], e[2]} \subseteq DOMAIN new.imbalance
  <2>1. CASE e \in DOMAIN graph.weight
    BY <1>8, <1>9, <2>1 DEF GraphTyped
  <2>2. CASE e \in DOMAIN made
    BY <1>6, <1>9, <2>2 DEF G!Ends
  <2> QED
    BY <1>10, <2>1, <2>2
<1>12. GraphTyped(new)
  <2>1. new \in [imbalance : Partials(Nodes), weight : Partials(Links)]
    BY <1>7, <1>9, <1>10
  <2> QED
    BY <1>11, <2>1 DEF GraphTyped
<1>13. ASSUME NEW k
       PROVE  Value(new.imbalance, k) = Value(graph.imbalance, k) + Gain(c, k) * n
  <2>1. Value(graph.imbalance, k) \in Int /\ Gain(c, k) * n \in Int
    BY <1>1, <1>3, PartialFacts
  <2> QED
    BY <1>3, <1>6, <1>8, <1>9, <2>1
<1>14. ASSUME NEW e
       PROVE  Value(new.weight, e) = Value(graph.weight, e) + Makes(c, e) * n
  BY <1>4, <1>10
<1> QED
  BY <1>12, <1>13, <1>14 DEF new

-----------------------------------------------------------------------------
(* What the graph is off by *)

Changes == [id : Counts, connect : BOOLEAN]

(* What every count makes of a link and gives a key.                        *)
Weights(e) == [c \in Counts |-> Makes(c, e)]
Brings(k) == [c \in Counts |-> Gain(c, k)]

(* What the messages of a channel will change, what a branch comes to, and  *)
(* how far a table is off, for any value of counts.                         *)
Change(A, m) == A[m.id] * Increment(m)
Underway(A, s) == Sums!SumFunction([i \in DOMAIN s |-> Change(A, s[i])])
Along(A, c, heights) == Sums!SumFunction([h \in heights |-> A[CountAt(c, h)]])
Off(A, f, i, s, c, heights) == Value(f, i) + Underway(A, s) - Along(A, c, heights)

(* A message changes a number. *)
LEMMA ChangeType ==
    ASSUME NEW A \in [Counts -> Int], NEW m \in Changes
    PROVE  Change(A, m) \in Int /\ Increment(m) \in {1, -1}
<1>1. m.id \in Counts /\ Increment(m) \in {1, -1}
  BY DEF Changes, Increment
<1>2. A[m.id] \in Int /\ Increment(m) \in Int
  BY <1>1
<1> QED
  BY <1>1, <1>2 DEF Change

(* A message more at the end of a channel. *)
LEMMA UnderwayMore ==
    ASSUME NEW A \in [Counts -> Int], NEW s \in Seq(Changes), NEW m \in Changes
    PROVE  /\ Underway(A, <<>>) = 0
           /\ Underway(A, s) \in Int
           /\ Underway(A, Append(s, m)) = Underway(A, s) + Change(A, m)
<1> DEFINE t == Append(s, m)
           f == [i \in DOMAIN t |-> Change(A, t[i])]
           h == [i \in DOMAIN s |-> Change(A, s[i])]
           none == [i \in DOMAIN <<>> |-> Change(A, <<>>[i])]
           n == Len(s)
<1>1. n \in Nat /\ DOMAIN s = 1 .. n /\ DOMAIN t = 1 .. n + 1 /\ t[n + 1] = m
      /\ \A i \in 1 .. n : t[i] = s[i] /\ s[i] \in Changes
  OBVIOUS
<1>2. \A i \in 1 .. n + 1 : t[i] \in Changes
  OBVIOUS
<1>3. /\ Underway(A, s) = Sums!SumFunctionOnSet(h, 1 .. n)
      /\ Underway(A, t) = Sums!SumFunctionOnSet(f, 1 .. n + 1)
  <2>1. DOMAIN h = 1 .. n /\ DOMAIN f = 1 .. n + 1
    BY <1>1
  <2> QED
    BY <2>1 DEF Underway, Sums!SumFunction
<1>4. Underway(A, <<>>) = Sums!SumFunctionOnSet(none, {})
  <2>1. DOMAIN none = {}
    OBVIOUS
  <2> QED
    BY <2>1 DEF Underway, Sums!SumFunction
<1>5. /\ \A i \in 1 .. n : h[i] = Change(A, s[i]) /\ h[i] \in Int
      /\ \A i \in 1 .. n + 1 : f[i] = Change(A, t[i]) /\ f[i] \in Int
  BY <1>1, <1>2, ChangeType
<1> HIDE DEF f, h, none, t, n
<1>6. Underway(A, <<>>) = 0
  <2>1. IsFiniteSet({}) /\ \A x \in {} : none[x] \in Int
    BY FS_EmptySet
  <2> QED
    BY <1>4, <2>1, SumFacts
<1>7. IsFiniteSet(1 .. n) /\ IsFiniteSet(1 .. n + 1)
  BY <1>1, FS_Interval
<1>8. Underway(A, s) \in Int
  BY <1>3, <1>5, <1>7, SumFacts
<1>9. Underway(A, t) = f[n + 1] + Sums!SumFunctionOnSet(h, 1 .. n)
  <2>1. (1 .. n + 1) \ {n + 1} = 1 .. n /\ n + 1 \in 1 .. n + 1
    BY <1>1
  <2>2. \A z \in 1 .. n : h[z] = f[z]
    BY <1>1, <1>5, <2>1
  <2>3. Sums!SumFunctionOnSet(f, 1 .. n + 1)
           = f[n + 1] + Sums!SumFunctionOnSet(h, 1 .. n)
    <3> DEFINE S == 1 .. n + 1
               R == 1 .. n
               x == n + 1
    <3>1. IsFiniteSet(S) /\ x \in S /\ R = S \ {x} /\ \A i \in S : f[i] \in Int
      BY <1>5, <1>7, <2>1
    <3>2. \A z \in R : h[z] = f[z]
      BY <2>2
    <3> HIDE DEF S, R, x
    <3>3. Sums!SumFunctionOnSet(f, S) = f[x] + Sums!SumFunctionOnSet(h, R)
      BY <3>1, <3>2, SumOfMore
    <3> QED
      BY <3>3 DEF S, R, x
  <2> QED
    BY <1>3, <2>1, <2>3
<1>10. f[n + 1] = Change(A, m) /\ Change(A, m) \in Int
  <2>1. n + 1 \in 1 .. n + 1
    BY <1>1
  <2> QED
    BY <1>1, <1>5, <2>1
<1> QED
  BY <1>3, <1>6, <1>8, <1>9, <1>10 DEF t

(* The messages of a channel that holds at most two.                        *)
LEMMA UnderwayFew ==
    ASSUME NEW A \in [Counts -> Int], NEW s \in Seq(Changes)
    PROVE  /\ Len(s) = 0 => Underway(A, s) = 0
           /\ Len(s) = 1 => Underway(A, s) = Change(A, s[1])
           /\ Len(s) = 2 => Underway(A, s) = Change(A, s[1]) + Change(A, s[2])
<1> DEFINE n == Len(s)
           F == [i \in DOMAIN s |-> Change(A, s[i])]
           Sum(m) == Sums!SumFunctionOnSet(F, 1 .. m)
<1>1. n \in Nat /\ DOMAIN s = 1 .. n /\ DOMAIN F = 1 .. n /\ \A i \in 1 .. n : s[i] \in Changes
  OBVIOUS
<1>2. Underway(A, s) = Sum(n)
  BY <1>1 DEF Underway, Sums!SumFunction
<1>3. \A i \in 1 .. n : F[i] = Change(A, s[i]) /\ F[i] \in Int
  BY <1>1, ChangeType
<1> HIDE DEF F
<1>4. Sum(0) = 0
  <2>1. IsFiniteSet({}) /\ 1 .. 0 = {} /\ \A x \in {} : F[x] \in Int
    BY FS_EmptySet
  <2> QED
    BY <2>1, SumFacts
<1>5. ASSUME NEW m \in 1 .. n PROVE Sum(m) = F[m] + Sum(m - 1)
  <2>1. IsFiniteSet(1 .. m)
    BY FS_Interval
  <2>2. \A i \in 1 .. m : F[i] \in Int
    BY <1>1, <1>3
  <2>3. m \in 1 .. m /\ 1 .. m - 1 = (1 .. m) \ {m}
    BY <1>1
  <2> QED
    BY <2>1, <2>2, <2>3, SumOfMore
<1> HIDE DEF n, Sum
<1>6. ASSUME n = 1 PROVE Sum(1) = Change(A, s[1])
  <2>1. 1 \in 1 .. n /\ 1 - 1 = 0
    BY <1>6
  <2>2. Sum(1) = F[1] + Sum(0) /\ F[1] = Change(A, s[1]) /\ F[1] \in Int
    BY <1>3, <1>5, <2>1
  <2> QED
    BY <1>4, <2>2
<1>7. ASSUME n = 2 PROVE Sum(2) = Change(A, s[1]) + Change(A, s[2])
  <2>1. 1 \in 1 .. n /\ 2 \in 1 .. n /\ 1 - 1 = 0 /\ 2 - 1 = 1
    BY <1>7
  <2>2. Sum(1) = F[1] + Sum(0) /\ F[1] = Change(A, s[1]) /\ F[1] \in Int
    BY <1>3, <1>5, <2>1
  <2>3. Sum(2) = F[2] + Sum(1) /\ F[2] = Change(A, s[2]) /\ F[2] \in Int
    BY <1>3, <1>5, <2>1
  <2> QED
    BY <1>4, <2>2, <2>3
<1> QED
  BY <1>2, <1>4, <1>6, <1>7 DEF n

(* The first message is read.                                               *)
LEMMA UnderwayLess ==
    ASSUME NEW A \in [Counts -> Int], NEW s \in Seq(Changes), s # <<>>, Len(s) <= 2
    PROVE  /\ Underway(A, s) = Change(A, Head(s)) + Underway(A, Tail(s))
           /\ Underway(A, Tail(s)) \in Int
           /\ Head(s) \in Changes /\ Tail(s) \in Seq(Changes)
<1> DEFINE a == Head(s)
           t == Tail(s)
<1>1. /\ a \in Changes /\ t \in Seq(Changes)
      /\ a = s[1] /\ Len(t) = Len(s) - 1 /\ Len(s) \in Nat \ {0}
      /\ \A i \in 1 .. Len(t) : t[i] = s[i + 1] /\ t[i] \in Changes
  <2>1. /\ a \in Changes /\ t \in Seq(Changes)
        /\ a = s[1] /\ Len(t) = Len(s) - 1 /\ Len(s) \in Nat \ {0}
        /\ \A i \in 1 .. Len(t) : t[i] = s[i + 1]
    BY TailFacts
  <2> HIDE DEF t
  <2>2. \A i \in 1 .. Len(t) : t[i] \in Changes
    BY <2>1
  <2> QED
    BY <2>1, <2>2
<1> HIDE DEF a, t
<1>2. Change(A, a) \in Int
  BY <1>1, ChangeType
<1>3. ASSUME Len(s) = 1
      PROVE  Underway(A, s) = Change(A, a) + Underway(A, t) /\ Underway(A, t) \in Int
  <2>1. Underway(A, s) = Change(A, s[1])
    BY <1>3, UnderwayFew
  <2>2. Len(t) = 0
    BY <1>1, <1>3
  <2>3. Underway(A, t) = 0
    BY <1>1, <2>2, UnderwayFew
  <2> QED
    BY <1>1, <1>2, <2>1, <2>3
<1>4. ASSUME Len(s) = 2
      PROVE  Underway(A, s) = Change(A, a) + Underway(A, t) /\ Underway(A, t) \in Int
  <2>1. Underway(A, s) = Change(A, s[1]) + Change(A, s[2])
    BY <1>4, UnderwayFew
  <2>2. Len(t) = 1 /\ 1 \in 1 .. Len(t) /\ 1 + 1 = 2
    BY <1>1, <1>4
  <2>3. t[1] = s[2] /\ t[1] \in Changes
    BY <1>1, <2>2
  <2>4. Underway(A, t) = Change(A, t[1]) /\ Change(A, t[1]) \in Int
    BY <1>1, <2>2, <2>3, UnderwayFew, ChangeType
  <2> QED
    BY <1>1, <1>2, <2>1, <2>3, <2>4
<1>5. Len(s) = 1 \/ Len(s) = 2
  BY <1>1
<1> QED
  BY <1>1, <1>3, <1>4, <1>5 DEF a, t

(* What the first counts of a branch come to.                               *)
LEMMA AlongFacts ==
    ASSUME NEW A \in [Counts -> Int], NEW c \in Counts, NEW n \in Int, n <= Height(c)
    PROVE  /\ Along(A, c, 0 .. n) \in Int
           /\ n < 0 => Along(A, c, 0 .. n) = 0
           /\ n >= 0 => Along(A, c, 0 .. n) = Along(A, c, 0 .. n - 1) + A[CountAt(c, n)]
           /\ \A d \in Counts :
                 n <= Height(d) /\ (\A h \in 0 .. n : CountAt(c, h) = CountAt(d, h)) =>
                    Along(A, c, 0 .. n) = Along(A, d, 0 .. n)
<1> DEFINE F(d, m) == [h \in 0 .. m |-> A[CountAt(d, h)]]
<1>1. Height(c) \in Nat /\ \A h \in 0 .. Height(c) : CountAt(c, h) \in Counts
  BY BranchOfCount
<1>2. \A d, m : Along(A, d, 0 .. m) = Sums!SumFunctionOnSet(F(d, m), 0 .. m)
  BY DEF Along, Sums!SumFunction
<1>3. ASSUME NEW d, NEW m, NEW h \in 0 .. m PROVE F(d, m)[h] = A[CountAt(d, h)]
  OBVIOUS
<1> HIDE DEF F
<1>4. \A h \in 0 .. n : F(c, n)[h] \in Int /\ A[CountAt(c, h)] \in Int
  BY <1>1, <1>3
<1>5. IsFiniteSet(0 .. n) /\ 0 \in Int
  BY FS_Interval
<1>6. Along(A, c, 0 .. n) \in Int
  BY <1>2, <1>4, <1>5, SumFacts
<1>7. ASSUME n < 0 PROVE Along(A, c, 0 .. n) = 0
  <2>1. 0 .. n = {}
    BY <1>7
  <2> DEFINE S == 0 .. n
  <2>2. IsFiniteSet(S) /\ S = {} /\ \A h \in S : F(c, n)[h] \in Int
    BY <1>4, <1>5, <2>1
  <2>3. Along(A, c, S) = Sums!SumFunctionOnSet(F(c, n), S)
    BY <1>2
  <2> HIDE DEF S
  <2>4. Along(A, c, S) = 0
    BY <2>2, <2>3, SumFacts
  <2> QED
    BY <2>4 DEF S
<1>8. ASSUME n >= 0
      PROVE  Along(A, c, 0 .. n) = Along(A, c, 0 .. n - 1) + A[CountAt(c, n)]
  <2>1. n \in 0 .. n /\ (0 .. n) \ {n} = 0 .. n - 1
    BY <1>8
  <2>2. \A z \in 0 .. n - 1 : F(c, n - 1)[z] = F(c, n)[z]
    BY <1>3, <2>1
  <2>3. Sums!SumFunctionOnSet(F(c, n), 0 .. n)
           = F(c, n)[n] + Sums!SumFunctionOnSet(F(c, n - 1), 0 .. n - 1)
    BY <1>4, <1>5, <2>1, <2>2, SumOfMore
  <2>4. Along(A, c, 0 .. n) = A[CountAt(c, n)] + Along(A, c, 0 .. n - 1)
    BY <1>2, <1>3, <2>1, <2>3
  <2>5. A[CountAt(c, n)] \in Int
    BY <1>4, <2>1
  <2>6. Along(A, c, 0 .. n - 1) \in Int
    <3>1. \A h \in 0 .. n - 1 : F(c, n - 1)[h] \in Int
      BY <1>1, <1>3
    <3>2. IsFiniteSet(0 .. n - 1)
      BY FS_Interval
    <3> QED
      BY <1>2, <3>1, <3>2, SumFacts
  <2> QED
    BY <2>4, <2>5, <2>6
<1>9. ASSUME NEW d \in Counts, n <= Height(d), \A h \in 0 .. n : CountAt(c, h) = CountAt(d, h)
      PROVE  Along(A, c, 0 .. n) = Along(A, d, 0 .. n)
  <2>1. \A h \in 0 .. n : F(c, n)[h] \in Int /\ F(d, n)[h] = F(c, n)[h]
    BY <1>3, <1>4, <1>9
  <2>2. Sums!SumFunctionOnSet(F(c, n), 0 .. n) = Sums!SumFunctionOnSet(F(d, n), 0 .. n)
    BY <1>5, <2>1, SumOfSame
  <2> QED
    BY <1>2, <2>2
<1> QED
  BY <1>6, <1>7, <1>8, <1>9

(* A message is read and done: nothing changes.                             *)
LEMMA OffFollow ==
    ASSUME NEW A \in [Counts -> Int], NEW s \in Seq(Changes), s # <<>>, Len(s) <= 2,
           NEW S, NEW f \in Partials(S), NEW g, NEW i, NEW c \in Counts,
           Value(g, i) = Value(f, i) + Change(A, Head(s))
    PROVE  Off(A, g, i, Tail(s), c, 0 .. Height(c)) = Off(A, f, i, s, c, 0 .. Height(c))
<1>1. /\ Underway(A, s) = Change(A, Head(s)) + Underway(A, Tail(s))
      /\ Underway(A, Tail(s)) \in Int /\ Head(s) \in Changes
  BY UnderwayLess
<1>2. Change(A, Head(s)) \in Int /\ Value(f, i) \in Int
  BY <1>1, ChangeType, PartialFacts
<1>3. Along(A, c, 0 .. Height(c)) \in Int
  BY BranchOfCount, AlongFacts
<1> QED
  BY <1>1, <1>2, <1>3 DEF Off

(* The heights of a branch, and of the branch with a count on top.          *)
LEMMA AlongMore ==
    ASSUME NEW A \in [Counts -> Int], NEW c \in Counts \ {Genesis}
    PROVE  /\ Along(A, c, 0 .. Height(c))
                 = Along(A, Previous(c), 0 .. Height(Previous(c))) + A[c]
           /\ Along(A, Previous(c), 0 .. Height(Previous(c))) \in Int
           /\ A[c] \in Int
<1> DEFINE d == Previous(c)
<1>1. /\ Height(c) \in Nat /\ Height(d) \in Nat /\ Height(c) = Height(d) + 1
      /\ d \in Counts /\ CountAt(c, Height(c)) = c
      /\ \A h \in 0 .. Height(d) : CountAt(c, h) = CountAt(d, h)
  BY StepFacts
<1>2. Along(A, c, 0 .. Height(c)) = Along(A, c, 0 .. Height(c) - 1) + A[CountAt(c, Height(c))]
  <2> DEFINE n == Height(c)
  <2>1. n \in Int /\ n <= Height(c) /\ n >= 0
    BY <1>1
  <2> HIDE DEF n
  <2>2. Along(A, c, 0 .. n) = Along(A, c, 0 .. n - 1) + A[CountAt(c, n)]
    BY <2>1, AlongFacts
  <2> QED
    BY <2>2 DEF n
<1>3. Along(A, c, 0 .. Height(d)) = Along(A, d, 0 .. Height(d))
  BY <1>1, AlongFacts
<1>4. Height(c) - 1 = Height(d)
  BY <1>1
<1>5. Along(A, d, 0 .. Height(d)) \in Int
  BY <1>1, AlongFacts
<1> QED
  BY <1>1, <1>2, <1>3, <1>4, <1>5

(* The channel with the message that a count was connected, or disconnected. *)
WithConnected(s, c) == Append(s, [id |-> c, connect |-> TRUE])
WithDisconnected(s, c) == Append(s, [id |-> c, connect |-> FALSE])

(* What such a message changes. *)
LEMMA UnderwaySent ==
    ASSUME NEW A \in [Counts -> Int], NEW s \in Seq(Changes), NEW c \in Counts
    PROVE  /\ Underway(A, s) \in Int /\ A[c] \in Int
           /\ Underway(A, WithConnected(s, c)) = Underway(A, s) + A[c]
           /\ Underway(A, WithDisconnected(s, c)) = Underway(A, s) - A[c]
<1> DEFINE on == [id |-> c, connect |-> TRUE]
           off == [id |-> c, connect |-> FALSE]
<1>1. on \in Changes /\ off \in Changes
  BY DEF Changes
<1>2. Change(A, on) = A[c] /\ Change(A, off) = -A[c] /\ A[c] \in Int
  BY DEF Change, Increment
<1>3. WithConnected(s, c) = Append(s, on) /\ WithDisconnected(s, c) = Append(s, off)
  BY DEF WithConnected, WithDisconnected
<1> HIDE DEF on, off
<1>4. /\ Underway(A, s) \in Int
      /\ Underway(A, Append(s, on)) = Underway(A, s) + Change(A, on)
      /\ Underway(A, Append(s, off)) = Underway(A, s) + Change(A, off)
  BY <1>1, UnderwayMore
<1>5. /\ Underway(A, WithConnected(s, c)) = Underway(A, s) + Change(A, on)
      /\ Underway(A, WithDisconnected(s, c)) = Underway(A, s) + Change(A, off)
  BY <1>3, <1>4
<1> QED
  BY <1>2, <1>4, <1>5

(* All heights of a branch. *)
HeightsOf(c) == 0 .. Height(c)

(* A count is put on top, or taken off, and announced: nothing changes.     *)
LEMMA OffAnnounced ==
    ASSUME NEW A \in [Counts -> Int], NEW s \in Seq(Changes),
           NEW S, NEW f \in Partials(S), NEW i, NEW c \in Counts \ {Genesis}
    PROVE  /\ Off(A, f, i, WithConnected(s, c), c, HeightsOf(c))
                 = Off(A, f, i, s, Previous(c), HeightsOf(Previous(c)))
           /\ Off(A, f, i, WithDisconnected(s, c), Previous(c), HeightsOf(Previous(c)))
                 = Off(A, f, i, s, c, HeightsOf(c))
<1>1. Value(f, i) \in Int
  BY PartialFacts
<1>2. /\ Along(A, c, HeightsOf(c)) = Along(A, Previous(c), HeightsOf(Previous(c))) + A[c]
      /\ Along(A, Previous(c), HeightsOf(Previous(c))) \in Int
      /\ A[c] \in Int
  BY AlongMore DEF HeightsOf
<1>3. /\ Underway(A, s) \in Int
      /\ Underway(A, WithConnected(s, c)) = Underway(A, s) + A[c]
      /\ Underway(A, WithDisconnected(s, c)) = Underway(A, s) - A[c]
  BY UnderwaySent
<1> QED
  BY <1>1, <1>2, <1>3 DEF Off

(* The count at a height is indexed. *)
LEMMA OffIndexed ==
    ASSUME NEW A \in [Counts -> Int], NEW s \in Seq(Changes), NEW S, NEW f \in Partials(S),
           NEW g, NEW i, NEW c \in Counts, NEW h \in 0 .. Height(c),
           Value(g, i) = Value(f, i) + A[CountAt(c, h)]
    PROVE  Off(A, g, i, s, c, 0 .. h) = Off(A, f, i, s, c, 0 .. h - 1)
<1>1. Height(c) \in Nat /\ CountAt(c, h) \in Counts /\ h \in Int /\ h >= 0 /\ h <= Height(c)
  BY BranchOfCount
<1>2. /\ Along(A, c, 0 .. h) = Along(A, c, 0 .. h - 1) + A[CountAt(c, h)]
      /\ A[CountAt(c, h)] \in Int
  BY <1>1, AlongFacts
<1>3. Along(A, c, 0 .. h - 1) \in Int
  <2>1. h - 1 \in Int /\ h - 1 <= Height(c)
    BY <1>1
  <2> QED
    BY <2>1, AlongFacts
<1>4. Value(f, i) \in Int
  BY PartialFacts
<1>5. Underway(A, s) \in Int
  <2>1. [id |-> c, connect |-> TRUE] \in Changes
    BY DEF Changes
  <2> QED
    BY <2>1, UnderwayMore
<1> QED
  BY <1>2, <1>3, <1>4, <1>5 DEF Off

-----------------------------------------------------------------------------
(* The indexer *)

(* The heights are some of those of the branch. *)
OfBranch(heights, c) == heights \subseteq 0 .. Height(c)

(* What the graph is off by, for any graph, channel, branch and heights.    *)
WeightOff(e, g, s, c, heights) ==
    Value(g.weight, e)
      + Sums!SumFunction([i \in DOMAIN s |-> Makes(s[i].id, e) * Increment(s[i])])
      - Sums!SumFunction([h \in heights |-> Makes(CountAt(c, h), e)])

ImbalanceOff(k, g, s, c, heights) ==
    Value(g.imbalance, k)
      + Sums!SumFunction([i \in DOMAIN s |-> Gain(s[i].id, k) * Increment(s[i])])
      - Sums!SumFunction([h \in heights |-> Gain(CountAt(c, h), k)])

(* Both are the difference of a channel and a branch. *)
LEMMA BothAreOff ==
    ASSUME NEW g, NEW s \in Seq(Changes), NEW c \in Counts, NEW heights,
           OfBranch(heights, c), NEW i
    PROVE  /\ WeightOff(i, g, s, c, heights) = Off(Weights(i), g.weight, i, s, c, heights)
           /\ ImbalanceOff(i, g, s, c, heights) = Off(Brings(i), g.imbalance, i, s, c, heights)
<1>1. ASSUME NEW j \in DOMAIN s PROVE s[j].id \in Counts
  <2>1. s[j] \in Changes
    OBVIOUS
  <2> QED
    BY <2>1 DEF Changes
<1>2. \A h \in heights : CountAt(c, h) \in Counts
  BY BranchOfCount DEF OfBranch
<1>3. \A d \in Counts : Weights(i)[d] = Makes(d, i) /\ Brings(i)[d] = Gain(d, i)
  BY DEF Weights, Brings
<1>4. /\ [j \in DOMAIN s |-> Makes(s[j].id, i) * Increment(s[j])]
            = [j \in DOMAIN s |-> Change(Weights(i), s[j])]
      /\ [j \in DOMAIN s |-> Gain(s[j].id, i) * Increment(s[j])]
            = [j \in DOMAIN s |-> Change(Brings(i), s[j])]
  BY <1>1, <1>3 DEF Change
<1>5. /\ [h \in heights |-> Makes(CountAt(c, h), i)]
            = [h \in heights |-> Weights(i)[CountAt(c, h)]]
      /\ [h \in heights |-> Gain(CountAt(c, h), i)]
            = [h \in heights |-> Brings(i)[CountAt(c, h)]]
  BY <1>2, <1>3
<1>6. /\ Underway(Weights(i), s)
            = Sums!SumFunction([j \in DOMAIN s |-> Makes(s[j].id, i) * Increment(s[j])])
      /\ Underway(Brings(i), s)
            = Sums!SumFunction([j \in DOMAIN s |-> Gain(s[j].id, i) * Increment(s[j])])
  BY <1>4 DEF Underway
<1>7. /\ Along(Weights(i), c, heights)
            = Sums!SumFunction([h \in heights |-> Makes(CountAt(c, h), i)])
      /\ Along(Brings(i), c, heights)
            = Sums!SumFunction([h \in heights |-> Gain(CountAt(c, h), i)])
  BY <1>5 DEF Along
<1> QED
  BY <1>6, <1>7 DEF Off, WeightOff, ImbalanceOff

(* The numbers a table of counts gives are numbers. *)
LEMMA TableOfCounts ==
    ASSUME NEW i
    PROVE  Weights(i) \in [Counts -> Int] /\ Brings(i) \in [Counts -> Int]
<1>1. \A c \in Counts : Makes(c, i) \in Int /\ Gain(c, i) \in Int
  BY MakesFacts, GainFacts
<1> QED
  BY <1>1 DEF Weights, Brings

(* The drifts of a state. *)
LEMMA DriftIs ==
    /\ WeightDrift = [e \in Links |-> WeightOff(e, graph, tipChangeChan, tip, Covered)]
    /\ ImbalanceDrift = [k \in Keys |-> ImbalanceOff(k, graph, tipChangeChan, tip, Covered)]
BY DEF WeightDrift, ImbalanceDrift, WeightOff, ImbalanceOff, Value, PendingWeight,
       PendingImbalance, BranchWeight, BranchImbalance

(* The drifts after a step. *)
LEMMA DriftIsThen ==
    /\ WeightDrift' = [e \in Links |-> WeightOff(e, graph', tipChangeChan', tip', Covered')]
    /\ ImbalanceDrift' = [k \in Keys |-> ImbalanceOff(k, graph', tipChangeChan', tip', Covered')]
BY DEF WeightDrift, ImbalanceDrift, WeightOff, ImbalanceOff, Value, PendingWeight,
       PendingImbalance, BranchWeight, BranchImbalance

(* What a step leaves as it is. *)
DriftStays == WeightDrift' = WeightDrift /\ ImbalanceDrift' = ImbalanceDrift

(* It is enough to look at one link and one key. *)
LEMMA DriftStaysIf ==
    ASSUME tip \in Counts, tip' \in Counts,
           tipChangeChan \in Seq(Changes), tipChangeChan' \in Seq(Changes),
           NEW before, before = Covered, OfBranch(before, tip),
           NEW after, after = Covered', OfBranch(after, tip'),
           \A i : Off(Weights(i), graph'.weight, i, tipChangeChan', tip', after)
                     = Off(Weights(i), graph.weight, i, tipChangeChan, tip, before),
           \A i : Off(Brings(i), graph'.imbalance, i, tipChangeChan', tip', after)
                     = Off(Brings(i), graph.imbalance, i, tipChangeChan, tip, before)
    PROVE  DriftStays
<1>1. \A i : /\ WeightOff(i, graph', tipChangeChan', tip', after)
                   = WeightOff(i, graph, tipChangeChan, tip, before)
             /\ ImbalanceOff(i, graph', tipChangeChan', tip', after)
                   = ImbalanceOff(i, graph, tipChangeChan, tip, before)
  <2> TAKE i
  <2>1. /\ WeightOff(i, graph, tipChangeChan, tip, before)
              = Off(Weights(i), graph.weight, i, tipChangeChan, tip, before)
        /\ ImbalanceOff(i, graph, tipChangeChan, tip, before)
              = Off(Brings(i), graph.imbalance, i, tipChangeChan, tip, before)
    BY BothAreOff
  <2>2. /\ WeightOff(i, graph', tipChangeChan', tip', after)
              = Off(Weights(i), graph'.weight, i, tipChangeChan', tip', after)
        /\ ImbalanceOff(i, graph', tipChangeChan', tip', after)
              = Off(Brings(i), graph'.imbalance, i, tipChangeChan', tip', after)
    BY BothAreOff
  <2> QED
    BY <2>1, <2>2
<1>2. /\ WeightDrift = [e \in Links |-> WeightOff(e, graph, tipChangeChan, tip, before)]
      /\ ImbalanceDrift = [k \in Keys |-> ImbalanceOff(k, graph, tipChangeChan, tip, before)]
  BY DriftIs
<1>3. /\ WeightDrift' = [e \in Links |-> WeightOff(e, graph', tipChangeChan', tip', after)]
      /\ ImbalanceDrift'
            = [k \in Keys |-> ImbalanceOff(k, graph', tipChangeChan', tip', after)]
  BY DriftIsThen
<1>4. /\ [e \in Links |-> WeightOff(e, graph', tipChangeChan', tip', after)]
            = [e \in Links |-> WeightOff(e, graph, tipChangeChan, tip, before)]
      /\ [k \in Keys |-> ImbalanceOff(k, graph', tipChangeChan', tip', after)]
            = [k \in Keys |-> ImbalanceOff(k, graph, tipChangeChan, tip, before)]
  BY <1>1
<1> QED
  BY <1>2, <1>3, <1>4 DEF DriftStays

(* Where the indexer is: it has no messages before it is registered, and as *)
(* long as nothing disturbed the catch-up its height is at most one above   *)
(* the tip, and is that when it registers.                                  *)
IndexerOK ==
    /\ stage \in {"waiting", "catchUp", "registering", "following"}
    /\ disturbed \in BOOLEAN
    /\ height \in 0 .. MaxHeight + 1
    /\ GraphTyped(graph)
    /\ pseudonym \in [Keys -> Pseudonyms \cup {NoKey}]
    /\ latestCountID \in Counts
    /\ tipChangeChan \in Seq(Changes) /\ Len(tipChangeChan) <= 2
    /\ stage # "following" => tipChangeChan = <<>>
    /\ stage = "waiting" => height = 0 /\ latestCountID = Genesis
    /\ ~disturbed /\ stage = "catchUp" => height <= Height(tip) + 1
    /\ ~disturbed /\ stage = "registering" => height = Height(tip) + 1

(* The whole of it. *)
IndexerIInv == ProcessorIInv /\ IndexerOK /\ GraphIsExact

(* What a step must do to the rest: what was missed stays missed, and while *)
(* nothing was, or the indexer follows, the drift stays.                    *)
DriftKept ==
    /\ ~disturbed' => ~disturbed
    /\ stage = "following" \/ ~disturbed' => DriftStays

(* A graph that is off by nothing stays so. *)
LEMMA ExactStays == GraphIsExact /\ DriftKept => GraphIsExact'
<1> SUFFICES ASSUME GraphIsExact, DriftKept PROVE GraphIsExact'
  OBVIOUS
<1>1. GraphIsExact' <=>
         (~disturbed' => /\ \A e \in Links : WeightDrift'[e] = 0
                         /\ \A k \in Keys : ImbalanceDrift'[k] = 0)
  BY DEF GraphIsExact
<1>2. GraphIsExact <=>
         (~disturbed => /\ \A e \in Links : WeightDrift[e] = 0
                        /\ \A k \in Keys : ImbalanceDrift[k] = 0)
  BY DEF GraphIsExact
<1>3. ASSUME ~disturbed'
      PROVE  /\ \A e \in Links : WeightDrift'[e] = 0
             /\ \A k \in Keys : ImbalanceDrift'[k] = 0
  <2>1. ~disturbed /\ WeightDrift' = WeightDrift /\ ImbalanceDrift' = ImbalanceDrift
    BY <1>3 DEF DriftKept, DriftStays
  <2> QED
    BY <1>2, <2>1
<1> QED
  BY <1>1, <1>3

(* The heights the graph covers are heights of the branch, unless the       *)
(* catch-up was disturbed.                                                  *)
LEMMA CoveredBranch ==
    ASSUME ProcessorIInv, IndexerOK, stage = "following" \/ ~disturbed
    PROVE  /\ OfBranch(Covered, tip) /\ tip \in Counts /\ Height(tip) \in Nat
           /\ Covered = IF stage = "following" THEN 0 .. Height(tip) ELSE 0 .. height - 1
<1>1. tip \in Counts /\ Height(tip) \in Nat
  BY BranchOfCount DEF ProcessorIInv, TypedChain, TypeOK
<1>2. CASE stage = "following"
  BY <1>1, <1>2 DEF Covered, OfBranch
<1>3. CASE stage # "following"
  <2>1. /\ height \in Nat
        /\ (height <= Height(tip) + 1) \/ height = 0
    BY <1>1, <1>3, PathAssumption DEF IndexerOK
  <2>2. 0 .. height - 1 \subseteq 0 .. Height(tip)
    BY <1>1, <2>1
  <2> QED
    BY <1>1, <1>3, <2>2 DEF Covered, OfBranch
<1> QED
  BY <1>2, <1>3

(* Neither the tip, nor the graph, nor the messages change. *)
LEMMA NothingCovered ==
    ASSUME ProcessorIInv, IndexerOK, UNCHANGED <<tip, graph, tipChangeChan>>,
           stage = "following" \/ ~disturbed, Covered' = Covered
    PROVE  DriftStays
<1>1. OfBranch(Covered, tip) /\ tip \in Counts /\ tipChangeChan \in Seq(Changes)
  BY CoveredBranch DEF IndexerOK
<1> DEFINE H == Covered
<1>2. H = Covered /\ H = Covered' /\ OfBranch(H, tip)
  BY <1>1
<1> HIDE DEF H
<1> QED
  BY <1>1, <1>2, DriftIs, DriftIsThen DEF DriftStays

(* The last pseudonym a key gave itself is one. *)
LEMMA PseudonymType ==
    ASSUME NEW c \in Counts, NEW k \in Keys,
           pseudonym \in [Keys -> Pseudonyms \cup {NoKey}]
    PROVE  PseudonymAfter(c, k) \in Pseudonyms \cup {NoKey}
<1> DEFINE own == {i \in Positions(c) : By[Body[c][i]] = k /\ For[Body[c][i]] \in Pseudonyms}
           last == CHOOSE i \in own : \A j \in own : j <= i
<1>1. PseudonymAfter(c, k) = IF own = {} THEN pseudonym[k] ELSE For[Body[c][last]]
  BY DEF PseudonymAfter
<1>2. own \in SUBSET (1 .. Len(Body[c])) /\ \A i \in own : For[Body[c][i]] \in Pseudonyms
  BY DEF Positions
<1>3. Len(Body[c]) \in Nat
  BY BodyAssumption
<1> HIDE DEF own
<1>4. CASE own = {}
  BY <1>1, <1>4
<1>5. CASE own # {}
  <2>1. \E i \in own : \A j \in own : j <= i
    BY <1>2, <1>3, <1>5, LastIn
  <2>2. last \in own
    BY <2>1
  <2> HIDE DEF last
  <2> QED
    BY <1>1, <1>2, <1>5, <2>2
<1> QED
  BY <1>4, <1>5

(* What indexConsiderations leaves behind. *)
LEMMA IndexingFacts ==
    ASSUME IndexerOK, NEW c \in Counts, NEW n \in {1, -1}, IndexConsiderations(c, n)
    PROVE  /\ GraphTyped(graph')
           /\ pseudonym' \in [Keys -> Pseudonyms \cup {NoKey}]
           /\ latestCountID' \in Counts
           /\ \A i : Value(graph'.weight, i) = Value(graph.weight, i) + Weights(i)[c] * n
           /\ \A i : Value(graph'.imbalance, i) = Value(graph.imbalance, i) + Brings(i)[c] * n
<1>1. /\ graph' = Indexed(c, n) /\ pseudonym' = [k \in Keys |-> PseudonymAfter(c, k)]
      /\ latestCountID' = c
      /\ GraphTyped(graph) /\ pseudonym \in [Keys -> Pseudonyms \cup {NoKey}]
  BY DEF IndexConsiderations, IndexerOK
<1>2. /\ GraphTyped(Indexed(c, n))
      /\ \A e : Value(Indexed(c, n).weight, e) = Value(graph.weight, e) + Makes(c, e) * n
      /\ \A k : Value(Indexed(c, n).imbalance, k)
                   = Value(graph.imbalance, k) + Gain(c, k) * n
  BY <1>1, IndexedFacts
<1>3. \A i : Weights(i)[c] = Makes(c, i) /\ Brings(i)[c] = Gain(c, i)
  BY DEF Weights, Brings
<1>4. \A k \in Keys : PseudonymAfter(c, k) \in Pseudonyms \cup {NoKey}
  BY <1>1, PseudonymType
<1> QED
  BY <1>1, <1>2, <1>3, <1>4

(* The initial download is over. *)
LEMMA SyncedKeeps ==
    ASSUME ProcessorIInv, IndexerOK, Synced
    PROVE  IndexerOK' /\ DriftKept
<1>1. /\ stage = "waiting" /\ stage' = "catchUp" /\ height' = Height(latestCountID)
      /\ UNCHANGED <<tip, graph, pseudonym, latestCountID, tipChangeChan, disturbed>>
  BY DEF Synced, vars, ledgerVars
<1>2. /\ height = 0 /\ latestCountID = Genesis /\ Height(Genesis) = 0
      /\ tip \in Counts /\ Height(tip) \in Nat /\ tipChangeChan = <<>>
  BY <1>1, BranchOfCount, PathAssumption DEF IndexerOK, ProcessorIInv, TypedChain, TypeOK
<1>3. height' = 0 /\ height' = height /\ 0 \in 0 .. MaxHeight + 1
  BY <1>1, <1>2, PathAssumption
<1>4. IndexerOK'
  <2>1. GraphTyped(graph') /\ Height(tip') \in Nat
    BY <1>1, <1>2 DEF IndexerOK
  <2> QED
    BY <1>1, <1>2, <1>3, <2>1 DEF IndexerOK
<1>5. Covered' = Covered
  BY <1>1, <1>3 DEF Covered
<1>6. stage = "following" \/ ~disturbed' => DriftStays
  <2>1. UNCHANGED <<tip, graph, tipChangeChan>>
    BY <1>1
  <2>2. ~disturbed' => ~disturbed
    BY <1>1
  <2> QED
    BY <1>5, <2>1, <2>2, NothingCovered
<1> QED
  BY <1>1, <1>4, <1>6 DEF DriftKept

(* The rows of the height index are those of the branch of the tip. *)
LEMMA HasHeightIs ==
    ASSUME ProcessorIInv, NEW h \in Nat
    PROVE  /\ HasHeight(h) <=> h <= Height(tip)
           /\ HasHeight(h) => /\ heightIndex[h] = CountAt(tip, h)
                              /\ heightIndex[h] \in Counts
                              /\ h \in 0 .. MaxHeight
<1>1. /\ tip \in Counts /\ Height(tip) \in Nat /\ Height(tip) \in Heights
      /\ \A i \in 0 .. Height(tip) : CountAt(tip, i) \in Counts
      /\ ChainIndexed /\ NoCount \notin Counts /\ MaxHeight \in Nat
  BY BranchOfCount, PathAssumption DEF ProcessorIInv, TypedChain, TypeOK
<1>2. h \in Heights <=> h <= MaxHeight
  BY <1>1 DEF Heights
<1>3. h <= Height(tip) => h \in Heights /\ h \in 0 .. Height(tip)
  BY <1>1, <1>2 DEF Heights
<1>4. h \in Heights => heightIndex[h] = IF h <= Height(tip) THEN CountAt(tip, h) ELSE NoCount
  BY <1>1 DEF ChainIndexed
<1>5. HasHeight(h) <=> h \in Heights /\ heightIndex[h] # NoCount
  BY DEF HasHeight
<1>6. CASE h <= Height(tip)
  BY <1>1, <1>2, <1>3, <1>4, <1>5, <1>6
<1>7. CASE ~(h <= Height(tip))
  BY <1>4, <1>5, <1>7
<1> QED
  BY <1>6, <1>7

(* A count of the branch is indexed. *)
LEMMA CatchUpKeeps ==
    ASSUME ProcessorIInv, IndexerOK, CatchUp
    PROVE  IndexerOK' /\ DriftKept
<1> DEFINE c == heightIndex[height]
<1>1. /\ stage = "catchUp" /\ HasHeight(height) /\ IndexConsiderations(c, 1)
      /\ height' = height + 1
      /\ UNCHANGED <<tip, stage, tipChangeChan, disturbed>>
  BY DEF CatchUp, vars, ledgerVars
<1>2. /\ height \in Nat /\ tip \in Counts /\ Height(tip) \in Nat
      /\ tipChangeChan \in Seq(Changes) /\ MaxHeight \in Nat
      /\ graph.weight \in Partials(Links) /\ graph.imbalance \in Partials(Nodes)
  BY BranchOfCount, PathAssumption
     DEF IndexerOK, ProcessorIInv, TypedChain, TypeOK, GraphTyped
<1>3. /\ height \in 0 .. Height(tip) /\ height \in 0 .. MaxHeight
      /\ c = CountAt(tip, height) /\ c \in Counts
  BY <1>1, <1>2, HasHeightIs
<1> HIDE DEF c
<1>4. /\ GraphTyped(graph')
      /\ pseudonym' \in [Keys -> Pseudonyms \cup {NoKey}]
      /\ latestCountID' \in Counts
      /\ \A i : Value(graph'.weight, i) = Value(graph.weight, i) + Weights(i)[c] * 1
      /\ \A i : Value(graph'.imbalance, i) = Value(graph.imbalance, i) + Brings(i)[c] * 1
  BY <1>1, <1>3, IndexingFacts
<1>5. \A i : Weights(i)[c] * 1 = Weights(i)[c] /\ Brings(i)[c] * 1 = Brings(i)[c]
  <2> TAKE i
  <2>1. Weights(i)[c] \in Int /\ Brings(i)[c] \in Int
    BY <1>3, TableOfCounts
  <2> QED
    BY <2>1
<1>6. IndexerOK'
  <2>1. height' \in 0 .. MaxHeight + 1 /\ height' <= Height(tip') + 1
    BY <1>1, <1>2, <1>3
  <2> QED
    BY <1>1, <1>4, <2>1 DEF IndexerOK
<1>7. ASSUME ~disturbed' PROVE DriftStays
  <2> DEFINE before == 0 .. height - 1
             after == 0 .. height
  <2>1. before = Covered /\ after = Covered'
    <3>1. Covered' = 0 .. height' - 1
      BY <1>1 DEF Covered
    <3>2. height' - 1 = height
      BY <1>1, <1>2
    <3> QED
      BY <1>1, <3>1, <3>2 DEF Covered
  <2>2. OfBranch(before, tip) /\ OfBranch(after, tip)
    BY <1>2, <1>3 DEF OfBranch
  <2>3. ASSUME NEW i
        PROVE  /\ Off(Weights(i), graph'.weight, i, tipChangeChan, tip, after)
                     = Off(Weights(i), graph.weight, i, tipChangeChan, tip, before)
               /\ Off(Brings(i), graph'.imbalance, i, tipChangeChan, tip, after)
                     = Off(Brings(i), graph.imbalance, i, tipChangeChan, tip, before)
    <3>1. Weights(i) \in [Counts -> Int] /\ Brings(i) \in [Counts -> Int]
      BY TableOfCounts
    <3>2. /\ Value(graph'.weight, i)
                = Value(graph.weight, i) + Weights(i)[CountAt(tip, height)]
          /\ Value(graph'.imbalance, i)
                = Value(graph.imbalance, i) + Brings(i)[CountAt(tip, height)]
      BY <1>3, <1>4, <1>5
    <3>3. Off(Weights(i), graph'.weight, i, tipChangeChan, tip, after)
             = Off(Weights(i), graph.weight, i, tipChangeChan, tip, before)
      BY <1>2, <1>3, <3>1, <3>2, OffIndexed
    <3>4. Off(Brings(i), graph'.imbalance, i, tipChangeChan, tip, after)
             = Off(Brings(i), graph.imbalance, i, tipChangeChan, tip, before)
      BY <1>2, <1>3, <3>1, <3>2, OffIndexed
    <3> QED
      BY <3>3, <3>4
  <2>4. tip' = tip /\ tipChangeChan' = tipChangeChan
    BY <1>1
  <2> HIDE DEF before, after
  <2> QED
    BY <1>2, <2>1, <2>2, <2>3, <2>4, DriftStaysIf
<1> QED
  BY <1>1, <1>6, <1>7 DEF DriftKept

(* The catch-up is over.                                                    *)
LEMMA CaughtUpKeeps ==
    ASSUME ProcessorIInv, IndexerOK, CaughtUp
    PROVE  IndexerOK' /\ DriftKept
<1>1. /\ stage = "catchUp" /\ ~HasHeight(height) /\ stage' = "registering"
      /\ UNCHANGED <<tip, height, graph, pseudonym, latestCountID, tipChangeChan, disturbed>>
  BY DEF CaughtUp, vars, ledgerVars
<1>2. height \in Nat /\ tip \in Counts /\ Height(tip) \in Nat
  BY BranchOfCount, PathAssumption DEF IndexerOK, ProcessorIInv, TypedChain, TypeOK
<1>3. ~disturbed => height = Height(tip) + 1
  <2>1. ~(height <= Height(tip))
    BY <1>1, <1>2, HasHeightIs
  <2>2. ~disturbed => height <= Height(tip) + 1
    BY <1>1 DEF IndexerOK
  <2> QED
    BY <1>2, <2>1, <2>2
<1>4. IndexerOK'
  <2>1. GraphTyped(graph') /\ (~disturbed' => height' = Height(tip') + 1)
    BY <1>1, <1>3 DEF IndexerOK
  <2> QED
    BY <1>1, <2>1 DEF IndexerOK
<1>5. Covered' = Covered
  BY <1>1 DEF Covered
<1>6. stage = "following" \/ ~disturbed' => DriftStays
  <2>1. UNCHANGED <<tip, graph, tipChangeChan>> /\ (~disturbed' => ~disturbed)
    BY <1>1
  <2> QED
    BY <1>5, <2>1, NothingCovered
<1> QED
  BY <1>1, <1>4, <1>6 DEF DriftKept

(* The indexer is registered.                                               *)
LEMMA RegisterKeeps ==
    ASSUME ProcessorIInv, IndexerOK, Register
    PROVE  IndexerOK' /\ DriftKept
<1>1. /\ stage = "registering" /\ stage' = "following"
      /\ UNCHANGED <<tip, height, graph, pseudonym, latestCountID, tipChangeChan, disturbed>>
  BY DEF Register, vars, ledgerVars
<1>2. tip \in Counts /\ Height(tip) \in Nat
  BY BranchOfCount DEF ProcessorIInv, TypedChain, TypeOK
<1>3. IndexerOK'
  <2>1. GraphTyped(graph')
    BY <1>1 DEF IndexerOK
  <2> QED
    BY <1>1, <2>1 DEF IndexerOK
<1>4. ASSUME ~disturbed PROVE Covered' = Covered
  <2>1. height = Height(tip) + 1
    BY <1>1, <1>4 DEF IndexerOK
  <2>2. height - 1 = Height(tip)
    BY <1>2, <2>1
  <2>3. Covered = 0 .. height - 1
    BY <1>1 DEF Covered
  <2>4. Covered' = 0 .. Height(tip)
    BY <1>1 DEF Covered, Height
  <2> QED
    BY <2>2, <2>3, <2>4
<1>5. stage = "following" \/ ~disturbed' => DriftStays
  <2>1. /\ UNCHANGED <<tip, graph, tipChangeChan>> /\ (~disturbed' => ~disturbed)
        /\ stage # "following"
    BY <1>1
  <2> QED
    BY <1>4, <2>1, NothingCovered
<1> QED
  BY <1>1, <1>3, <1>5 DEF DriftKept

(* A message is read. *)
LEMMA FollowKeeps ==
    ASSUME ProcessorIInv, IndexerOK, Follow
    PROVE  IndexerOK' /\ DriftKept
<1> DEFINE change == Head(tipChangeChan)
           c == change.id
           n == Increment(change)
<1>1. /\ stage = "following" /\ tipChangeChan # <<>>
      /\ IndexConsiderations(c, n) /\ tipChangeChan' = Tail(tipChangeChan)
      /\ UNCHANGED <<tip, stage, height, disturbed>>
  BY DEF Follow, vars, ledgerVars
<1>2. /\ tip \in Counts /\ Height(tip) \in Nat
      /\ tipChangeChan \in Seq(Changes) /\ Len(tipChangeChan) <= 2
      /\ graph.weight \in Partials(Links) /\ graph.imbalance \in Partials(Nodes)
  BY BranchOfCount DEF IndexerOK, ProcessorIInv, TypedChain, TypeOK, GraphTyped
<1>3. /\ change \in Changes /\ Tail(tipChangeChan) \in Seq(Changes)
      /\ Len(Tail(tipChangeChan)) <= 2
  BY <1>1, <1>2, TailFacts
<1>4. c \in Counts /\ n \in {1, -1}
  BY <1>3 DEF Changes, Increment
<1>5. /\ GraphTyped(graph')
      /\ pseudonym' \in [Keys -> Pseudonyms \cup {NoKey}]
      /\ latestCountID' \in Counts
      /\ \A i : Value(graph'.weight, i) = Value(graph.weight, i) + Weights(i)[c] * n
      /\ \A i : Value(graph'.imbalance, i) = Value(graph.imbalance, i) + Brings(i)[c] * n
  <2> HIDE DEF c, n
  <2> QED
    BY <1>1, <1>4, IndexingFacts
<1>6. \A i : /\ Value(graph'.weight, i)
                   = Value(graph.weight, i) + Change(Weights(i), Head(tipChangeChan))
             /\ Value(graph'.imbalance, i)
                   = Value(graph.imbalance, i) + Change(Brings(i), Head(tipChangeChan))
  BY <1>5 DEF Change
<1>7. IndexerOK'
  <2> HIDE DEF change, c, n
  <2> QED
    BY <1>1, <1>3, <1>5 DEF IndexerOK
<1>8. DriftStays
  <2> DEFINE H == 0 .. Height(tip)
  <2>1. H = Covered /\ H = Covered' /\ OfBranch(H, tip)
    BY <1>1 DEF Covered, OfBranch, Height
  <2>2. ASSUME NEW i
        PROVE  /\ Off(Weights(i), graph'.weight, i, Tail(tipChangeChan), tip, H)
                     = Off(Weights(i), graph.weight, i, tipChangeChan, tip, H)
               /\ Off(Brings(i), graph'.imbalance, i, Tail(tipChangeChan), tip, H)
                     = Off(Brings(i), graph.imbalance, i, tipChangeChan, tip, H)
    <3>1. Weights(i) \in [Counts -> Int] /\ Brings(i) \in [Counts -> Int]
      BY TableOfCounts
    <3> DEFINE s == tipChangeChan
               f == graph.weight
               g == graph'.weight
               fi == graph.imbalance
               gi == graph'.imbalance
    <3>2. s \in Seq(Changes) /\ s # <<>> /\ Len(s) <= 2
      BY <1>1, <1>2
    <3>3. /\ Value(g, i) = Value(f, i) + Change(Weights(i), Head(s))
          /\ Value(gi, i) = Value(fi, i) + Change(Brings(i), Head(s))
      BY <1>6
    <3>4. f \in Partials(Links) /\ fi \in Partials(Nodes)
      BY <1>2
    <3> HIDE DEF s, f, g, fi, gi
    <3>5. Off(Weights(i), g, i, Tail(s), tip, 0 .. Height(tip))
             = Off(Weights(i), f, i, s, tip, 0 .. Height(tip))
      BY <1>2, <3>1, <3>2, <3>3, <3>4, OffFollow
    <3>6. Off(Brings(i), gi, i, Tail(s), tip, 0 .. Height(tip))
             = Off(Brings(i), fi, i, s, tip, 0 .. Height(tip))
      BY <1>2, <3>1, <3>2, <3>3, <3>4, OffFollow
    <3> QED
      BY <3>5, <3>6 DEF s, f, g, fi, gi
  <2>3. tip' = tip /\ tipChangeChan' = Tail(tipChangeChan)
    BY <1>1
  <2> HIDE DEF H
  <2> QED
    BY <1>2, <1>3, <2>1, <2>2, <2>3, DriftStaysIf
<1> QED
  BY <1>1, <1>7, <1>8 DEF DriftKept

(* What the processor does to the branch, and what it says of it. *)
BranchKept == tip' = tip /\ UNCHANGED <<tipChangeChan, disturbed>>

BranchCut ==
    /\ tip # Genesis /\ tip' = Previous(tip)
    /\ Notify(tip, FALSE) /\ Disturb(tip)

BranchGrown(c) == tip' = c /\ Previous(c) = tip /\ Notify(c, TRUE) /\ Disturb(c)

(* Every step of the processor keeps what it relies on, with the answers of *)
(* the graph as with any others, and is one of these.                       *)
LEMMA ProceedIs ==
    ASSUME ProcessorIInv, ProceedStep
    PROVE  /\ ProcessorIInv'
           /\ BranchKept \/ BranchCut \/ \E c \in Counts \ {Genesis} : BranchGrown(c)
<1>1. ASSUME Quietly(IsTip \/ SetAside \/ Reorganize \/ ConnectFails(Vetoed))
      PROVE  ProcessorIInv' /\ BranchKept
  <2>1. /\ UNCHANGED <<tipChangeChan, disturbed>>
        /\ IsTip \/ SetAside \/ Reorganize \/ ConnectFails(Vetoed)
    BY <1>1 DEF Quietly
  <2>2. CASE IsTip
    BY <2>1, <2>2, EndOfJobKeeps DEF IsTip, ledgerVars, BranchKept
  <2>3. CASE SetAside
    BY <2>1, <2>3, SetAsideKeeps DEF SetAside, SetBranchType, BranchKept
  <2>4. CASE Reorganize
    BY <2>1, <2>4, ReorganizeKeeps DEF Reorganize, ledgerVars, BranchKept
  <2>5. CASE ConnectFails(Vetoed)
    BY <2>1, <2>5, ConnectFailsKeeps DEF ConnectFails, ledgerVars, BranchKept
  <2> QED
    BY <2>1, <2>2, <2>3, <2>4, <2>5
<1>2. ASSUME DisconnectAndNotify PROVE ProcessorIInv' /\ BranchCut
  <2>1. Disconnect /\ Notify(Head(job.undo), FALSE) /\ Disturb(Head(job.undo))
    BY <1>2 DEF DisconnectAndNotify
  <2>2. ProcessorIInv' /\ Head(job.undo) = tip /\ tip # Genesis
    BY <2>1, DisconnectKeeps
  <2>3. tip' = Previous(Head(job.undo))
    BY <2>1 DEF Disconnect, DisconnectCount
  <2>4. Notify(tip, FALSE) /\ Disturb(tip)
    BY <2>1, <2>2
  <2> QED
    BY <2>2, <2>3, <2>4 DEF BranchCut
<1>3. ASSUME ConnectAndNotify
      PROVE  ProcessorIInv' /\ \E c \in Counts \ {Genesis} : BranchGrown(c)
  <2> DEFINE c == Head(job.redo)
  <2>1. Connect(Vetoed) /\ Notify(c, TRUE) /\ Disturb(c)
    BY <1>3 DEF ConnectAndNotify
  <2>2. ProcessorIInv'
    BY <2>1, ConnectKeeps
  <2>3. /\ tip' = c /\ tip = Previous(c)
        /\ job # NoJob /\ Reorganizing /\ job.undo = <<>>
    BY <2>1 DEF Connect, ConnectCount, Reorganizing
  <2>4. PICK f \in Nat : PlanFrom(f)
    BY <2>3 DEF ProcessorIInv, PlanOK
  <2>5. c \in Counts \ {Genesis}
    BY <2>3, <2>4, PlanFits
  <2>6. BranchGrown(c)
    BY <2>1, <2>3 DEF BranchGrown
  <2> QED
    BY <2>2, <2>5, <2>6
<1> QED
  BY <1>1, <1>2, <1>3 DEF ProceedStep

(* A count offered, or a consideration: the branch stays. *)
LEMMA CallIs ==
    ASSUME ProcessorIInv, CallStep
    PROVE  ProcessorIInv' /\ BranchKept
<1>1. UNCHANGED <<tipChangeChan, disturbed>>
  BY DEF CallStep, indexerVars
<1>2. ASSUME NEW c \in Counts \ {Genesis}, ProcessCount(c)
      PROVE  ProcessorIInv' /\ tip' = tip
  BY <1>2, ProcessCountKeeps DEF ProcessCount, ledgerVars
<1>3. ASSUME NEW x, NEW vetoed, ProcessConsideration(x, vetoed)
      PROVE  ProcessorIInv' /\ tip' = tip
  <2>1. now \in Nat
    BY DEF ProcessorIInv, StorageOK
  <2> QED
    BY <1>3, <2>1, ElseKeeps DEF ProcessConsideration, ledgerVars
<1> QED
  BY <1>1, <1>2, <1>3 DEF CallStep, BranchKept

(* The indexer's channel after a message to it: the processor only sends    *)
(* when there is room.                                                      *)
LEMMA NotifyFacts ==
    ASSUME IndexerOK, ~Sending, NEW c \in Counts, NEW connect \in BOOLEAN, Notify(c, connect),
           NEW next, next = [id |-> c, connect |-> connect]
    PROVE  /\ tipChangeChan' \in Seq(Changes) /\ Len(tipChangeChan') <= 2
           /\ stage = "following" => tipChangeChan' = Append(tipChangeChan, next)
           /\ stage # "following" => tipChangeChan' = <<>> /\ tipChangeChan = <<>>
<1>1. tipChangeChan \in Seq(Changes) /\ Len(tipChangeChan) <= 1
  BY DEF IndexerOK, Sending
<1>2. next \in Changes
  BY DEF Changes
<1>3. CASE stage = "following"
  <2>1. tipChangeChan' = Append(tipChangeChan, next)
    BY <1>3 DEF Notify
  <2> QED
    BY <1>1, <1>2, <1>3, <2>1
<1>4. CASE stage # "following"
  <2>1. tipChangeChan' = tipChangeChan /\ tipChangeChan = <<>>
    BY <1>4 DEF Notify, IndexerOK
  <2> QED
    BY <1>1, <1>4, <2>1
<1> QED
  BY <1>3, <1>4

(* Changes of the branch above the height of an undisturbed catch-up leave  *)
(* the counts the graph covers as they are.                                 *)
LEMMA CatchUpBelow ==
    ASSUME ProcessorIInv, IndexerOK, stage # "following", ~disturbed,
           UNCHANGED <<stage, height, graph, tipChangeChan>>, tip' \in Counts,
           height - 1 <= Height(tip), height - 1 <= Height(tip'),
           \A h \in 0 .. height - 1 : CountAt(tip, h) = CountAt(tip', h)
    PROVE  DriftStays
<1> DEFINE H == 0 .. height - 1
           n == height - 1
<1>1. /\ tip \in Counts /\ Height(tip) \in Nat /\ height \in Nat
      /\ tipChangeChan \in Seq(Changes) /\ OfBranch(H, tip)
  BY CoveredBranch DEF IndexerOK
<1>2. H = Covered /\ H = Covered' /\ OfBranch(H, tip')
  <2>1. Height(tip') \in Nat
    BY BranchOfCount
  <2> QED
    BY <1>1, <2>1 DEF Covered, OfBranch
<1>3. ASSUME NEW i
      PROVE  /\ Off(Weights(i), graph.weight, i, tipChangeChan, tip', H)
                   = Off(Weights(i), graph.weight, i, tipChangeChan, tip, H)
             /\ Off(Brings(i), graph.imbalance, i, tipChangeChan, tip', H)
                   = Off(Brings(i), graph.imbalance, i, tipChangeChan, tip, H)
  <2>1. Weights(i) \in [Counts -> Int] /\ Brings(i) \in [Counts -> Int]
    BY TableOfCounts
  <2>2. n \in Int /\ n <= Height(tip) /\ n <= Height(tip')
    BY <1>1
  <2>3. \A h \in 0 .. n : CountAt(tip, h) = CountAt(tip', h)
    OBVIOUS
  <2> HIDE DEF n
  <2>4. /\ Along(Weights(i), tip, 0 .. n) = Along(Weights(i), tip', 0 .. n)
        /\ Along(Brings(i), tip, 0 .. n) = Along(Brings(i), tip', 0 .. n)
    BY <1>1, <2>1, <2>2, <2>3, AlongFacts
  <2>5. H = 0 .. n
    BY DEF n
  <2> HIDE DEF H
  <2> QED
    BY <2>4, <2>5 DEF Off
<1> HIDE DEF H
<1>4. graph' = graph /\ tipChangeChan' = tipChangeChan
  OBVIOUS
<1> QED
  BY <1>1, <1>2, <1>3, <1>4, DriftStaysIf

(* The indexer itself does nothing in a step of the processor. *)
IndexerRests == UNCHANGED <<stage, height, graph, pseudonym, latestCountID>>

(* The branch stays as it is. *)
LEMMA BranchKeptKeeps ==
    ASSUME ProcessorIInv, IndexerOK, IndexerRests, BranchKept
    PROVE  IndexerOK' /\ DriftKept
<1>1. UNCHANGED <<stage, height, graph, pseudonym, latestCountID, tip, tipChangeChan,
                  disturbed>>
  BY DEF IndexerRests, BranchKept
<1>2. IndexerOK'
  <2>1. GraphTyped(graph') /\ Height(tip') = Height(tip)
    BY <1>1 DEF IndexerOK
  <2> QED
    BY <1>1, <2>1 DEF IndexerOK
<1>3. stage = "following" \/ ~disturbed' => DriftStays
  <2>1. UNCHANGED <<tip, graph, tipChangeChan>> /\ (~disturbed' => ~disturbed)
    BY <1>1
  <2>2. Covered' = Covered
    BY <1>1 DEF Covered, Height
  <2> QED
    BY <2>1, <2>2, NothingCovered
<1> QED
  BY <1>1, <1>2, <1>3 DEF DriftKept

(* A change of the branch is a disturbance unless the indexer follows, did  *)
(* not begin, or is still below it.                                         *)
LEMMA DisturbFacts ==
    ASSUME IndexerOK, NEW c \in Counts, Disturb(c)
    PROVE  /\ disturbed' \in BOOLEAN /\ (~disturbed' => ~disturbed)
           /\ ~disturbed' => stage # "registering"
           /\ ~disturbed' /\ stage = "catchUp" => height <= Height(c)
<1>1. height \in Nat /\ Height(c) \in Nat
  BY BranchOfCount, PathAssumption DEF IndexerOK
<1> QED
  BY <1>1 DEF Disturb, IndexerOK

(* The tip is taken off. *)
LEMMA BranchCutKeeps ==
    ASSUME ProcessorIInv, IndexerOK, ~Sending, IndexerRests, BranchCut
    PROVE  IndexerOK' /\ DriftKept
<1> DEFINE next == [id |-> tip, connect |-> FALSE]
<1>1. /\ UNCHANGED <<stage, height, graph, pseudonym, latestCountID>>
      /\ tip # Genesis /\ tip' = Previous(tip) /\ Notify(tip, FALSE) /\ Disturb(tip)
  BY DEF IndexerRests, BranchCut
<1>2. /\ tip \in Counts \ {Genesis} /\ tip' \in Counts
      /\ Height(tip) \in Nat /\ Height(tip') \in Nat /\ Height(tip) = Height(tip') + 1
      /\ \A h \in 0 .. Height(tip') : CountAt(tip, h) = CountAt(tip', h)
  <2>1. tip \in Counts
    BY DEF ProcessorIInv, TypedChain, TypeOK
  <2> QED
    BY <1>1, <2>1, StepFacts
<1>3. /\ tipChangeChan' \in Seq(Changes) /\ Len(tipChangeChan') <= 2
      /\ stage = "following" => tipChangeChan' = Append(tipChangeChan, next)
      /\ stage # "following" => tipChangeChan' = <<>> /\ tipChangeChan = <<>>
  BY <1>1, <1>2, NotifyFacts
<1>4. /\ disturbed' \in BOOLEAN /\ (~disturbed' => ~disturbed)
      /\ ~disturbed' => stage # "registering"
      /\ ~disturbed' /\ stage = "catchUp" => height <= Height(tip)
  BY <1>1, <1>2, DisturbFacts
<1>5. height \in Nat /\ tipChangeChan \in Seq(Changes) /\ GraphTyped(graph)
  BY PathAssumption DEF IndexerOK
<1>6. IndexerOK'
  <2>1. GraphTyped(graph')
    BY <1>1, <1>5
  <2>2. ~disturbed' /\ stage' = "catchUp" => height' <= Height(tip') + 1
    BY <1>1, <1>2, <1>4, <1>5
  <2> QED
    BY <1>1, <1>3, <1>4, <2>1, <2>2 DEF IndexerOK
<1>7. ASSUME stage # "following", ~disturbed' PROVE DriftStays
  <2>1. height - 1 <= Height(tip') /\ height - 1 <= Height(tip)
    <3>1. stage = "waiting" => height = 0
      BY DEF IndexerOK
    <3>2. stage = "waiting" \/ stage = "catchUp"
      BY <1>4, <1>7 DEF IndexerOK
    <3> QED
      BY <1>2, <1>4, <1>5, <1>7, <3>1, <3>2
  <2>2. \A h \in 0 .. height - 1 : CountAt(tip, h) = CountAt(tip', h)
    BY <1>2, <1>5, <2>1
  <2>3. UNCHANGED <<stage, height, graph, tipChangeChan>>
    BY <1>1, <1>3, <1>7
  <2> QED
    BY <1>2, <1>4, <1>7, <2>1, <2>2, <2>3, CatchUpBelow
<1>8. ASSUME stage = "following" PROVE DriftStays
  <2> DEFINE before == 0 .. Height(tip)
             after == 0 .. Height(tip')
  <2>1. /\ before = Covered /\ after = Covered'
        /\ OfBranch(before, tip) /\ OfBranch(after, tip')
    BY <1>1, <1>8 DEF Covered, OfBranch, Height
  <2>2. ASSUME NEW i
        PROVE  /\ Off(Weights(i), graph.weight, i, Append(tipChangeChan, next), tip', after)
                     = Off(Weights(i), graph.weight, i, tipChangeChan, tip, before)
               /\ Off(Brings(i), graph.imbalance, i, Append(tipChangeChan, next), tip', after)
                     = Off(Brings(i), graph.imbalance, i, tipChangeChan, tip, before)
    <3>1. Weights(i) \in [Counts -> Int] /\ Brings(i) \in [Counts -> Int]
      BY TableOfCounts
    <3>2. graph.weight \in Partials(Links) /\ graph.imbalance \in Partials(Nodes)
      BY <1>5 DEF GraphTyped
    <3> DEFINE s == tipChangeChan
               f == graph.weight
               g == graph.imbalance
    <3>3. /\ s \in Seq(Changes) /\ f \in Partials(Links) /\ g \in Partials(Nodes)
          /\ tip \in Counts \ {Genesis} /\ Append(s, next) = WithDisconnected(s, tip)
      BY <1>2, <1>5, <3>2 DEF WithDisconnected
    <3> HIDE DEF s, f, g, next
    <3>4. Off(Weights(i), f, i, WithDisconnected(s, tip), Previous(tip), HeightsOf(Previous(tip)))
             = Off(Weights(i), f, i, s, tip, HeightsOf(tip))
      BY <3>1, <3>3, OffAnnounced
    <3>5. Off(Brings(i), g, i, WithDisconnected(s, tip), Previous(tip), HeightsOf(Previous(tip)))
             = Off(Brings(i), g, i, s, tip, HeightsOf(tip))
      BY <3>1, <3>3, OffAnnounced
    <3> QED
      BY <1>1, <3>3, <3>4, <3>5 DEF s, f, g, HeightsOf
  <2>3. graph' = graph /\ tipChangeChan' = Append(tipChangeChan, next)
    BY <1>1, <1>3, <1>8
  <2> HIDE DEF before, after, next
  <2> QED
    BY <1>2, <1>3, <1>5, <2>1, <2>2, <2>3, DriftStaysIf
<1> QED
  BY <1>4, <1>6, <1>7, <1>8 DEF DriftKept

(* A count is put on top. *)
LEMMA BranchGrownKeeps ==
    ASSUME ProcessorIInv, IndexerOK, ~Sending, IndexerRests,
           NEW c \in Counts \ {Genesis}, BranchGrown(c)
    PROVE  IndexerOK' /\ DriftKept
<1> DEFINE next == [id |-> c, connect |-> TRUE]
<1>1. /\ UNCHANGED <<stage, height, graph, pseudonym, latestCountID>>
      /\ tip' = c /\ tip = Previous(c) /\ Notify(c, TRUE) /\ Disturb(c)
  BY DEF IndexerRests, BranchGrown
<1>2. /\ tip \in Counts /\ tip' \in Counts
      /\ Height(tip) \in Nat /\ Height(tip') \in Nat /\ Height(tip') = Height(tip) + 1
      /\ \A h \in 0 .. Height(tip) : CountAt(tip, h) = CountAt(tip', h)
  BY <1>1, StepFacts
<1>3. /\ tipChangeChan' \in Seq(Changes) /\ Len(tipChangeChan') <= 2
      /\ stage = "following" => tipChangeChan' = Append(tipChangeChan, next)
      /\ stage # "following" => tipChangeChan' = <<>> /\ tipChangeChan = <<>>
  BY <1>1, NotifyFacts
<1>4. /\ disturbed' \in BOOLEAN /\ (~disturbed' => ~disturbed)
      /\ ~disturbed' => stage # "registering"
  BY <1>1, DisturbFacts
<1>5. height \in Nat /\ tipChangeChan \in Seq(Changes) /\ GraphTyped(graph)
  BY PathAssumption DEF IndexerOK
<1>6. stage # "following" /\ ~disturbed' => height - 1 <= Height(tip)
  <2>1. /\ stage = "waiting" => height = 0
        /\ stage = "catchUp" /\ ~disturbed => height <= Height(tip) + 1
        /\ stage \in {"waiting", "catchUp", "registering", "following"}
    BY DEF IndexerOK
  <2> QED
    BY <1>2, <1>4, <1>5, <2>1
<1>7. IndexerOK'
  <2>1. GraphTyped(graph')
    BY <1>1, <1>5
  <2>2. ~disturbed' /\ stage' = "catchUp" => height' <= Height(tip') + 1
    BY <1>1, <1>2, <1>5, <1>6
  <2> QED
    BY <1>1, <1>3, <1>4, <2>1, <2>2 DEF IndexerOK
<1>8. ASSUME stage # "following", ~disturbed' PROVE DriftStays
  <2>1. height - 1 <= Height(tip') /\ height - 1 <= Height(tip)
    BY <1>2, <1>5, <1>6, <1>8
  <2>2. \A h \in 0 .. height - 1 : CountAt(tip, h) = CountAt(tip', h)
    BY <1>2, <1>5, <2>1
  <2>3. UNCHANGED <<stage, height, graph, tipChangeChan>>
    BY <1>1, <1>3, <1>8
  <2> QED
    BY <1>2, <1>4, <1>8, <2>1, <2>2, <2>3, CatchUpBelow
<1>9. ASSUME stage = "following" PROVE DriftStays
  <2> DEFINE before == 0 .. Height(tip)
             after == 0 .. Height(tip')
  <2>1. /\ before = Covered /\ after = Covered'
        /\ OfBranch(before, tip) /\ OfBranch(after, tip')
    BY <1>1, <1>9 DEF Covered, OfBranch, Height
  <2>2. ASSUME NEW i
        PROVE  /\ Off(Weights(i), graph.weight, i, Append(tipChangeChan, next), tip', after)
                     = Off(Weights(i), graph.weight, i, tipChangeChan, tip, before)
               /\ Off(Brings(i), graph.imbalance, i, Append(tipChangeChan, next), tip', after)
                     = Off(Brings(i), graph.imbalance, i, tipChangeChan, tip, before)
    <3>1. Weights(i) \in [Counts -> Int] /\ Brings(i) \in [Counts -> Int]
      BY TableOfCounts
    <3>2. graph.weight \in Partials(Links) /\ graph.imbalance \in Partials(Nodes)
      BY <1>5 DEF GraphTyped
    <3> DEFINE s == tipChangeChan
               f == graph.weight
               g == graph.imbalance
    <3>3. /\ s \in Seq(Changes) /\ f \in Partials(Links) /\ g \in Partials(Nodes)
          /\ Append(s, next) = WithConnected(s, c)
      BY <1>5, <3>2 DEF WithConnected
    <3> HIDE DEF s, f, g, next
    <3>4. Off(Weights(i), f, i, WithConnected(s, c), c, HeightsOf(c))
             = Off(Weights(i), f, i, s, Previous(c), HeightsOf(Previous(c)))
      BY <3>1, <3>3, OffAnnounced
    <3>5. Off(Brings(i), g, i, WithConnected(s, c), c, HeightsOf(c))
             = Off(Brings(i), g, i, s, Previous(c), HeightsOf(Previous(c)))
      BY <3>1, <3>3, OffAnnounced
    <3> QED
      BY <1>1, <3>3, <3>4, <3>5 DEF s, f, g, HeightsOf
  <2>3. graph' = graph /\ tipChangeChan' = Append(tipChangeChan, next)
    BY <1>1, <1>3, <1>9
  <2> HIDE DEF before, after, next
  <2> QED
    BY <1>2, <1>3, <1>5, <2>1, <2>2, <2>3, DriftStaysIf
<1> QED
  BY <1>4, <1>7, <1>8, <1>9 DEF DriftKept

(* An empty graph, no branch covered: nothing is off. *)
LEMMA IndexerIInvInit == IndexerInit => IndexerIInv
<1> SUFFICES ASSUME IndexerInit PROVE IndexerIInv
  OBVIOUS
<1>1. /\ Init /\ stage = "waiting" /\ height = 0 /\ graph = G!NewGraph
      /\ pseudonym = [k \in Keys |-> NoKey] /\ latestCountID = Genesis
      /\ tipChangeChan = <<>> /\ disturbed = FALSE
  BY DEF IndexerInit
<1>2. ProcessorIInv /\ tip \in Counts
  BY <1>1, ProcessorIInvInit DEF ProcessorIInv, TypedChain, TypeOK
<1> DEFINE none == [n \in {} |-> 0]
<1>3. graph.imbalance = none /\ graph.weight = none
      /\ graph = [imbalance |-> none, weight |-> none]
  BY <1>1 DEF G!NewGraph
<1>4. none \in Partials(Nodes) /\ none \in Partials(Links) /\ DOMAIN none = {}
  <2>1. none \in [{} -> Int] /\ DOMAIN none = {}
    OBVIOUS
  <2> HIDE DEF none
  <2> QED
    BY <2>1, IsPartial
<1> HIDE DEF none
<1>5. GraphTyped(graph)
  <2>1. \A e \in DOMAIN graph.weight : {e[1], e[2]} \subseteq DOMAIN graph.imbalance
    BY <1>3, <1>4
  <2>2. graph \in [imbalance : Partials(Nodes), weight : Partials(Links)]
    BY <1>3, <1>4
  <2> QED
    BY <2>1, <2>2 DEF GraphTyped
<1>6. IndexerOK
  <2>1. 0 \in 0 .. MaxHeight + 1 /\ Genesis \in Counts
    BY PathAssumption
  <2>2. tipChangeChan \in Seq(Changes) /\ Len(tipChangeChan) <= 2
    BY <1>1
  <2>3. pseudonym \in [Keys -> Pseudonyms \cup {NoKey}]
    BY <1>1
  <2>4. disturbed \in BOOLEAN
    BY <1>1, Zenon
  <2> QED
    BY <1>1, <1>5, <2>1, <2>2, <2>3, <2>4, Zenon DEF IndexerOK
<1>7. GraphIsExact
  <2> DEFINE H == Covered
  <2>1. H = Covered /\ OfBranch(H, tip) /\ H = 0 .. -1
    <3>1. H = 0 .. -1
      BY <1>1 DEF Covered
    <3>2. H \subseteq 0 .. Height(tip)
      BY <3>1
    <3> QED
      BY <3>1, <3>2 DEF OfBranch
  <2> HIDE DEF H
  <2>2. ASSUME NEW i
        PROVE  /\ WeightOff(i, graph, tipChangeChan, tip, H) = 0
               /\ ImbalanceOff(i, graph, tipChangeChan, tip, H) = 0
    <3>1. Weights(i) \in [Counts -> Int] /\ Brings(i) \in [Counts -> Int]
      BY TableOfCounts
    <3>2. Value(graph.weight, i) = 0 /\ Value(graph.imbalance, i) = 0
      BY <1>3, <1>4 DEF Value
    <3>3. Underway(Weights(i), tipChangeChan) = 0 /\ Underway(Brings(i), tipChangeChan) = 0
      <4>1. tipChangeChan \in Seq(Changes) /\ Len(tipChangeChan) = 0
        BY <1>1
      <4> QED
        BY <3>1, <4>1, UnderwayFew
    <3>4. Along(Weights(i), tip, H) = 0 /\ Along(Brings(i), tip, H) = 0
      <4> DEFINE n == -1
      <4>1. n \in Int /\ n < 0 /\ n <= Height(tip) /\ H = 0 .. n
        BY <1>2, <2>1, BranchOfCount
      <4> HIDE DEF n
      <4>2. Along(Weights(i), tip, 0 .. n) = 0 /\ Along(Brings(i), tip, 0 .. n) = 0
        BY <1>2, <3>1, <4>1, AlongFacts
      <4> QED
        BY <4>1, <4>2
    <3>5. /\ Off(Weights(i), graph.weight, i, tipChangeChan, tip, H) = 0
          /\ Off(Brings(i), graph.imbalance, i, tipChangeChan, tip, H) = 0
      BY <3>2, <3>3, <3>4 DEF Off
    <3>6. tipChangeChan \in Seq(Changes)
      BY <1>6 DEF IndexerOK
    <3> QED
      BY <1>2, <2>1, <3>5, <3>6, BothAreOff
  <2>3. /\ WeightDrift = [e \in Links |-> WeightOff(e, graph, tipChangeChan, tip, H)]
        /\ ImbalanceDrift = [k \in Keys |-> ImbalanceOff(k, graph, tipChangeChan, tip, H)]
    BY <2>1, DriftIs
  <2> QED
    BY <2>2, <2>3 DEF GraphIsExact
<1> QED
  BY <1>2, <1>6, <1>7 DEF IndexerIInv

(* Every step of the two goroutines. *)
LEMMA IndexerStepKeeps ==
    ASSUME IndexerIInv, [IndexerNext]_allVars
    PROVE  IndexerIInv' /\ DriftKept
<1>1. ProcessorIInv /\ IndexerOK /\ GraphIsExact /\ now \in Nat
  BY DEF IndexerIInv, ProcessorIInv, StorageOK
<1>2. ASSUME UNCHANGED vars PROVE ProcessorIInv'
  BY <1>1, <1>2, ElseKeeps DEF vars
<1>3. ASSUME IndexerStep PROVE ProcessorIInv' /\ IndexerOK' /\ DriftKept
  <2>1. CASE Synced
    <3>1. UNCHANGED vars
      BY <2>1 DEF Synced
    <3> QED
      BY <1>1, <1>2, <2>1, <3>1, SyncedKeeps
  <2>2. CASE CatchUp
    <3>1. UNCHANGED vars
      BY <2>2 DEF CatchUp
    <3> QED
      BY <1>1, <1>2, <2>2, <3>1, CatchUpKeeps
  <2>3. CASE CaughtUp
    <3>1. UNCHANGED vars
      BY <2>3 DEF CaughtUp
    <3> QED
      BY <1>1, <1>2, <2>3, <3>1, CaughtUpKeeps
  <2>4. CASE Register
    <3>1. UNCHANGED vars
      BY <2>4 DEF Register
    <3> QED
      BY <1>1, <1>2, <2>4, <3>1, RegisterKeeps
  <2>5. CASE Follow
    <3>1. UNCHANGED vars
      BY <2>5 DEF Follow
    <3> QED
      BY <1>1, <1>2, <2>5, <3>1, FollowKeeps
  <2> QED
    BY <1>3, <2>1, <2>2, <2>3, <2>4, <2>5 DEF IndexerStep
<1>4. ASSUME ProceedStep PROVE ProcessorIInv' /\ IndexerOK' /\ DriftKept
  <2>1. ~Sending /\ IndexerRests
    BY <1>4 DEF ProceedStep, IndexerRests
  <2>2. /\ ProcessorIInv'
        /\ BranchKept \/ BranchCut \/ \E c \in Counts \ {Genesis} : BranchGrown(c)
    BY <1>1, <1>4, ProceedIs
  <2>3. CASE BranchKept
    BY <1>1, <2>1, <2>2, <2>3, BranchKeptKeeps
  <2>4. CASE BranchCut
    BY <1>1, <2>1, <2>2, <2>4, BranchCutKeeps
  <2>5. ASSUME NEW c \in Counts \ {Genesis}, BranchGrown(c)
        PROVE  ProcessorIInv' /\ IndexerOK' /\ DriftKept
    BY <1>1, <2>1, <2>2, <2>5, BranchGrownKeeps
  <2> QED
    BY <2>2, <2>3, <2>4, <2>5
<1>5. ASSUME CallStep PROVE ProcessorIInv' /\ IndexerOK' /\ DriftKept
  <2>1. IndexerRests
    BY <1>5 DEF CallStep, indexerVars, IndexerRests
  <2>2. ProcessorIInv' /\ BranchKept
    BY <1>1, <1>5, CallIs
  <2> QED
    BY <1>1, <2>1, <2>2, BranchKeptKeeps
<1>6. ASSUME UNCHANGED allVars PROVE ProcessorIInv' /\ IndexerOK' /\ DriftKept
  <2>1. UNCHANGED vars /\ IndexerRests /\ UNCHANGED <<tip, tipChangeChan, disturbed>>
    BY <1>6 DEF allVars, indexerVars, IndexerRests, vars, ledgerVars
  <2>2. BranchKept
    BY <2>1 DEF BranchKept
  <2> QED
    BY <1>1, <1>2, <2>1, <2>2, BranchKeptKeeps
<1>7. ProcessorIInv' /\ IndexerOK' /\ DriftKept
  BY <1>3, <1>4, <1>5, <1>6 DEF IndexerNext
<1>8. GraphIsExact'
  BY <1>1, <1>7, ExactStays
<1> QED
  BY <1>7, <1>8 DEF IndexerIInv

(* As long as the branch below the catch-up does not change before the      *)
(* indexer is registered, the graph and the messages under way hold every   *)
(* link and every imbalance of the branch of the tip, whatever the          *)
(* processor disconnects, connects or refuses: for every tree of counts and *)
(* every set of links, with the veto the graph itself gives.                *)
THEOREM IndexerIsExact == IndexerSpec => []IndexerInv
<1>1. IndexerIInv /\ [IndexerNext]_allVars => IndexerIInv'
  BY IndexerStepKeeps
<1>2. IndexerIInv => IndexerInv
  <2> SUFFICES ASSUME IndexerIInv PROVE IndexerInv
    OBVIOUS
  <2>1. IndexerOK /\ GraphIsExact
    BY DEF IndexerIInv
  <2>2. /\ DOMAIN graph.imbalance \subseteq Nodes /\ DOMAIN graph.weight \subseteq Links
        /\ \A e \in DOMAIN graph.weight : {e[1], e[2]} \subseteq DOMAIN graph.imbalance
    BY <2>1, PartialFacts DEF IndexerOK, GraphTyped
  <2> QED
    BY <2>1, <2>2 DEF IndexerInv, IndexerTypeOK, IndexerOK
<1> QED
  BY <1>1, <1>2, IndexerIInvInit, PTL DEF IndexerSpec

(* Once it is registered the indexer neither loses nor repairs anything:    *)
(* no step changes what the graph is off by, disturbed or not.              *)
THEOREM DriftStaysFixed == IndexerSpec => DriftIsFixed
<1>1. IndexerIInv /\ [IndexerNext]_allVars => IndexerIInv'
  BY IndexerStepKeeps
<1>2. IndexerIInv /\ [IndexerNext]_allVars =>
         [stage = "following" =>
            WeightDrift' = WeightDrift /\ ImbalanceDrift' = ImbalanceDrift]_allVars
  BY IndexerStepKeeps DEF DriftKept, DriftStays
<1> QED
  BY <1>1, <1>2, IndexerIInvInit, PTL DEF IndexerSpec, DriftIsFixed
=============================================================================
