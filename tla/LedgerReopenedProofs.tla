------------------------ MODULE LedgerReopenedProofs ------------------------
(***************************************************************************)
(* Proofs about the database that successive runs of the client open with  *)
(* and without -prune.  A step of such a history is a step of the ledger   *)
(* with one flag or with the other; what is to be shown does not mention   *)
(* the flag, so the lemmas about either ledger apply in turn.              *)
(***************************************************************************)
EXTENDS LedgerReopened, TLAPS

(* The lemmas about the ledger with the flag and without it. *)
P == INSTANCE LedgerProofs WITH Prune <- TRUE
F == INSTANCE LedgerProofs WITH Prune <- FALSE

-----------------------------------------------------------------------------
(* The lemmas of the two ledgers apply to this tree. *)

(* What the ledger without the flag assumes holds here. *)
LEMMA FullAssumptions ==
    /\ F!SeriesLengthAssumption /\ F!PathAssumption /\ F!BodyAssumption
    /\ F!GenesisAssumption /\ F!SeriesAssumption /\ F!ParameterAssumption
<1>1. F!SeriesLengthAssumption
  BY SeriesLengthAssumption DEF F!SeriesLengthAssumption
<1>2. F!PathAssumption
  BY PathAssumption
  DEF Full!PathAssumption, F!PathAssumption, Full!Height, F!Height, Full!Heights, F!Heights
<1>3. F!BodyAssumption
  BY BodyAssumption
  DEF Full!BodyAssumption, F!BodyAssumption, Full!CheckConsideration, F!CheckConsideration,
      Full!CheckCount, F!CheckCount, Full!IsCounterPoint, F!IsCounterPoint,
      Full!Positions, F!Positions
<1>4. F!GenesisAssumption
  BY GenesisAssumption DEF Full!GenesisAssumption, F!GenesisAssumption
<1>5. F!SeriesAssumption
  BY SeriesAssumption
  DEF Full!SeriesAssumption, F!SeriesAssumption, Full!Confirms, F!Confirms,
      Full!Positions, F!Positions, Full!IsCounterPoint, F!IsCounterPoint,
      Full!Height, F!Height, Full!CheckConsiderationSeries, F!CheckConsiderationSeries,
      Full!SeriesAt, F!SeriesAt, Full!LowestSeries, F!LowestSeries
<1>6. F!ParameterAssumption
  BY ParameterAssumption
  DEF Full!ParameterAssumption, F!ParameterAssumption, Full!Heights, F!Heights
<1> QED
  BY <1>1, <1>2, <1>3, <1>4, <1>5, <1>6

(* And what the ledger with the flag assumes. *)
LEMMA PruningAssumptions ==
    /\ P!SeriesLengthAssumption /\ P!PathAssumption /\ P!BodyAssumption
    /\ P!GenesisAssumption /\ P!SeriesAssumption /\ P!ParameterAssumption
<1>1. P!SeriesLengthAssumption
  BY SeriesLengthAssumption DEF P!SeriesLengthAssumption
<1>2. P!PathAssumption
  BY PathAssumption
  DEF Full!PathAssumption, P!PathAssumption, Full!Height, P!Height, Full!Heights, P!Heights
<1>3. P!BodyAssumption
  BY BodyAssumption
  DEF Full!BodyAssumption, P!BodyAssumption, Full!CheckConsideration, P!CheckConsideration,
      Full!CheckCount, P!CheckCount, Full!IsCounterPoint, P!IsCounterPoint,
      Full!Positions, P!Positions
<1>4. P!GenesisAssumption
  BY GenesisAssumption DEF Full!GenesisAssumption, P!GenesisAssumption
<1>5. P!SeriesAssumption
  BY SeriesAssumption
  DEF Full!SeriesAssumption, P!SeriesAssumption, Full!Confirms, P!Confirms,
      Full!Positions, P!Positions, Full!IsCounterPoint, P!IsCounterPoint,
      Full!Height, P!Height, Full!CheckConsiderationSeries, P!CheckConsiderationSeries,
      Full!SeriesAt, P!SeriesAt, Full!LowestSeries, P!LowestSeries
<1>6. P!ParameterAssumption
  BY ParameterAssumption
  DEF Full!ParameterAssumption, P!ParameterAssumption, Full!Heights, P!Heights
<1> QED
  BY <1>1, <1>2, <1>3, <1>4, <1>5, <1>6

-----------------------------------------------------------------------------
(* What does not depend on the flag is the same in all instances.           *)

(* A branch does not depend on the flag. *)
LEMMA SameBranch ==
    /\ \A c : P!Height(c) = F!Height(c) /\ Full!Height(c) = F!Height(c)
    /\ \A c : P!Previous(c) = F!Previous(c) /\ Full!Previous(c) = F!Previous(c)
    /\ \A c, h : P!CountAt(c, h) = F!CountAt(c, h) /\ Full!CountAt(c, h) = F!CountAt(c, h)
    /\ \A c : P!Positions(c) = F!Positions(c) /\ Full!Positions(c) = F!Positions(c)
    /\ P!Heights = F!Heights /\ Full!Heights = F!Heights
  BY DEF P!Height, F!Height, Full!Height, P!Previous, F!Previous, Full!Previous,
         P!CountAt, F!CountAt, Full!CountAt, P!Positions, F!Positions, Full!Positions,
         P!Heights, F!Heights, Full!Heights

(* Nor does the size of a set. *)
LEMMA SameCardinality ==
    \A S : P!Cardinality(S) = F!Cardinality(S) /\ Full!Cardinality(S) = F!Cardinality(S)
  BY DEF P!Cardinality, F!Cardinality, Full!Cardinality

(* Nor does the balance of a key. *)
LEMMA SameBalance ==
    /\ \A c, k : P!Balance(c, k) = F!Balance(c, k) /\ Full!Balance(c, k) = F!Balance(c, k)
    /\ \A s, k, lo, hi : P!Net(s, k, lo, hi) = F!Net(s, k, lo, hi)
                         /\ Full!Net(s, k, lo, hi) = F!Net(s, k, lo, hi)
    /\ \A c : P!EffectsOf(c) = F!EffectsOf(c)
<1>1. \A c : P!Settled(c) = F!Settled(c) /\ Full!Settled(c) = F!Settled(c)
  BY SameBranch DEF P!Settled, F!Settled, Full!Settled
<1>2. \A c, k : P!Balance(c, k) = F!Balance(c, k) /\ Full!Balance(c, k) = F!Balance(c, k)
  <2> TAKE c, k
  <2>1. /\ {p \in F!Settled(c) : For[Body[P!CountAt(c, p[1])][p[2]]] = k}
             = {p \in F!Settled(c) : For[Body[F!CountAt(c, p[1])][p[2]]] = k}
        /\ {p \in F!Settled(c) : By[Body[P!CountAt(c, p[1])][p[2]]] = k}
             = {p \in F!Settled(c) : By[Body[F!CountAt(c, p[1])][p[2]]] = k}
        /\ {p \in F!Settled(c) : For[Body[Full!CountAt(c, p[1])][p[2]]] = k}
             = {p \in F!Settled(c) : For[Body[F!CountAt(c, p[1])][p[2]]] = k}
        /\ {p \in F!Settled(c) : By[Body[Full!CountAt(c, p[1])][p[2]]] = k}
             = {p \in F!Settled(c) : By[Body[F!CountAt(c, p[1])][p[2]]] = k}
    BY SameBranch
  <2> QED
    BY <1>1, <2>1, SameCardinality DEF P!Balance, F!Balance, Full!Balance
<1>3. \A s, k, lo, hi : P!Net(s, k, lo, hi) = F!Net(s, k, lo, hi)
                        /\ Full!Net(s, k, lo, hi) = F!Net(s, k, lo, hi)
  <2> TAKE s, k, lo, hi
  <2> QED
    BY SameCardinality DEF P!Net, F!Net, Full!Net
<1>4. \A c : P!EffectsOf(c) = F!EffectsOf(c)
  BY SameBranch DEF P!EffectsOf, F!EffectsOf
<1> QED
  BY <1>2, <1>3, <1>4

(* Nor do the key rows of a branch. *)
LEMMA SameRows ==
    /\ \A c : P!PartyRows(c) = F!PartyRows(c) /\ Full!PartyRows(c) = F!PartyRows(c)
    /\ \A c : P!BranchRows(c) = F!BranchRows(c)
<1>1. \A c : P!PartyRows(c) = F!PartyRows(c) /\ Full!PartyRows(c) = F!PartyRows(c)
  BY SameBranch DEF P!PartyRows, F!PartyRows, Full!PartyRows
<1> QED
  BY <1>1, SameBranch DEF P!BranchRows, F!BranchRows

(* So the invariant is one and the same for both ledgers. *)
LEMMA SameInvariant ==
    /\ P!TypedChain <=> F!TypedChain
    /\ P!Balanced <=> F!Balanced
    /\ P!RowsOnBranch <=> F!RowsOnBranch
<1>1. P!TypedChain <=> F!TypedChain
  BY SameBranch
  DEF P!TypedChain, F!TypedChain, P!TypeOK, F!TypeOK, P!ChainIndexed, F!ChainIndexed
<1>2. \A c : P!Valid(c) <=> F!Valid(c)
  BY SameBranch, SameBalance DEF P!Valid, F!Valid
<1>3. P!Balanced <=> F!Balanced
  BY <1>1, <1>2, SameBranch, SameBalance
  DEF P!Balanced, F!Balanced, P!ImbalanceIsSettled, F!ImbalanceIsSettled,
      P!BranchIsValid, F!BranchIsValid
<1>4. P!RowsOnBranch <=> F!RowsOnBranch
  BY SameRows DEF P!RowsOnBranch, F!RowsOnBranch
<1> QED
  BY <1>1, <1>3, <1>4

-----------------------------------------------------------------------------
(* The operations of a run are those of the ledger with the flag of the run. *)

(* A run without -prune takes the steps of the ledger without the flag. *)
LEMMA SameFull ==
    ASSUME NEW c
    PROVE  /\ Full!ConnectCount(c) <=> F!ConnectCount(c)
           /\ Full!DisconnectCount(c) <=> F!DisconnectCount(c)
<1>1. Full!ConnectCount(c) <=> F!ConnectCount(c)
  BY DEF Full!ConnectCount, Full!Previous, Full!Unprocessed, Full!Affordable, Full!Effects,
         Full!IndexedIn, Full!Expiring, Full!IndexEntry, Full!PartyRows, Full!Net,
         Full!Confirms, Full!Positions, Full!Height, Full!IsCounterPoint, Full!Cardinality,
         F!ConnectCount, F!Previous, F!Unprocessed, F!Affordable, F!Effects,
         F!IndexedIn, F!Expiring, F!IndexEntry, F!PartyRows, F!Net,
         F!Confirms, F!Positions, F!Height, F!IsCounterPoint, F!Cardinality
<1>2. Full!DisconnectCount(c) <=> F!DisconnectCount(c)
  BY DEF Full!DisconnectCount, Full!Previous, Full!Undoable, Full!Effects,
         Full!IndexedIn, Full!Expiring, Full!IndexEntry, Full!PartyRows, Full!Net,
         Full!Confirms, Full!Positions, Full!Height, Full!Cardinality,
         F!DisconnectCount, F!Previous, F!Undoable, F!Effects,
         F!IndexedIn, F!Expiring, F!IndexEntry, F!PartyRows, F!Net,
         F!Confirms, F!Positions, F!Height, F!Cardinality
<1> QED
  BY <1>1, <1>2

(* A run with -prune takes the steps of the ledger with the flag. *)
LEMMA SamePruning ==
    ASSUME NEW c
    PROVE  /\ Pruning!ConnectCount(c) <=> P!ConnectCount(c)
           /\ Pruning!DisconnectCount(c) <=> P!DisconnectCount(c)
<1>1. Pruning!ConnectCount(c) <=> P!ConnectCount(c)
  BY DEF Pruning!ConnectCount, Pruning!Previous, Pruning!Unprocessed, Pruning!Affordable,
         Pruning!Effects, Pruning!IndexedIn, Pruning!Expiring, Pruning!IndexEntry,
         Pruning!PartyRows, Pruning!Net, Pruning!Confirms, Pruning!Positions,
         Pruning!Height, Pruning!IsCounterPoint, Pruning!Cardinality,
         P!ConnectCount, P!Previous, P!Unprocessed, P!Affordable, P!Effects,
         P!IndexedIn, P!Expiring, P!IndexEntry, P!PartyRows, P!Net,
         P!Confirms, P!Positions, P!Height, P!IsCounterPoint, P!Cardinality
<1>2. Pruning!DisconnectCount(c) <=> P!DisconnectCount(c)
  BY DEF Pruning!DisconnectCount, Pruning!Previous, Pruning!Undoable, Pruning!Effects,
         Pruning!IndexedIn, Pruning!Expiring, Pruning!IndexEntry, Pruning!PartyRows,
         Pruning!Net, Pruning!Confirms, Pruning!Positions, Pruning!Height, Pruning!Cardinality,
         P!DisconnectCount, P!Previous, P!Undoable, P!Effects,
         P!IndexedIn, P!Expiring, P!IndexEntry, P!PartyRows, P!Net,
         P!Confirms, P!Positions, P!Height, P!Cardinality
<1> QED
  BY <1>1, <1>2

(* Either ledger starts with the genesis count. *)
LEMMA SameInit == Full!LedgerInit <=> F!LedgerInit
  BY DEF Full!LedgerInit, Full!Heights, Full!Confirms, Full!IndexEntry, Full!PartyRows,
         Full!Net, Full!Positions, Full!Height, Full!Cardinality,
         F!LedgerInit, F!Heights, F!Confirms, F!IndexEntry, F!PartyRows,
         F!Net, F!Positions, F!Height, F!Cardinality

-----------------------------------------------------------------------------
(* Along any sequence of runs                                               *)

(* The inductive invariant: the tables but the indices are those of the     *)
(* branch of the tip, whose counts found their senders able to pay, and no  *)
(* key row is one of another branch.  How many rows are left depends on the *)
(* flags of the earlier runs.                                               *)
ReopenedIInv == F!Balanced /\ F!RowsOnBranch

(* The new database satisfies the invariant. *)
LEMMA ReopenedInit == Init => ReopenedIInv
<1> SUFFICES ASSUME Init PROVE ReopenedIInv
  OBVIOUS
<1>1. F!LedgerInit
  BY SameInit DEF Init
<1>2. F!Balanced
  BY <1>1, F!BalancedInit, FullAssumptions
<1>3. F!RowsOnBranch
  BY <1>1, F!RowsInit, FullAssumptions
<1> QED
  BY <1>2, <1>3 DEF ReopenedIInv

(* A step without the flag keeps it, by the lemmas about that ledger. *)
LEMMA FullStep ==
    ASSUME ReopenedIInv, F!LedgerNext
    PROVE  ReopenedIInv'
<1>1. F!Balanced /\ F!TypedChain /\ F!RowsOnBranch
  BY DEF ReopenedIInv, F!Balanced
<1>2. F!Balanced'
  BY <1>1, F!BalancedStep, FullAssumptions
<1>3. F!RowsOnBranch'
  BY <1>1, F!RowsStep, FullAssumptions
<1> QED
  BY <1>2, <1>3 DEF ReopenedIInv

(* A step with the flag keeps it, by the lemmas about the other. *)
LEMMA PruningStep ==
    ASSUME ReopenedIInv, P!LedgerNext
    PROVE  ReopenedIInv'
<1>1. P!Balanced /\ P!TypedChain /\ P!RowsOnBranch
  BY SameInvariant DEF ReopenedIInv, F!Balanced
<1>2. P!Balanced'
  BY <1>1, P!BalancedStep, PruningAssumptions
<1>3. P!RowsOnBranch'
  BY <1>1, P!RowsStep, PruningAssumptions
<1>4. (P!Balanced <=> F!Balanced)' /\ (P!RowsOnBranch <=> F!RowsOnBranch)'
  BY SameInvariant, PTL
<1> QED
  BY <1>2, <1>3, <1>4 DEF ReopenedIInv

(* So does every step of any history of runs. *)
LEMMA ReopenedStep == ReopenedIInv /\ [Next]_vars => ReopenedIInv'
<1> SUFFICES ASSUME ReopenedIInv, [Next]_vars PROVE ReopenedIInv'
  OBVIOUS
<1>1. ASSUME NEW c \in Counts \ {Genesis}, Connect(c) PROVE ReopenedIInv'
  <2>1. CASE prune
    <3>1. P!LedgerNext
      BY <1>1, <2>1, SamePruning DEF Connect, P!LedgerNext
    <3> QED
      BY <3>1, PruningStep
  <2>2. CASE ~prune
    <3>1. F!LedgerNext
      BY <1>1, <2>2, SameFull DEF Connect, F!LedgerNext
    <3> QED
      BY <3>1, FullStep
  <2> QED
    BY <2>1, <2>2
<1>2. ASSUME NEW c \in Counts \ {Genesis}, Disconnect(c) PROVE ReopenedIInv'
  <2>1. CASE prune
    <3>1. P!LedgerNext
      BY <1>2, <2>1, SamePruning DEF Disconnect, P!LedgerNext
    <3> QED
      BY <3>1, PruningStep
  <2>2. CASE ~prune
    <3>1. F!LedgerNext
      BY <1>2, <2>2, SameFull DEF Disconnect, F!LedgerNext
    <3> QED
      BY <3>1, FullStep
  <2> QED
    BY <2>1, <2>2
<1>3. ASSUME UNCHANGED <<tip, heightIndex, branchType, cnIndex, pkIndex, imbalance>>
      PROVE  ReopenedIInv'
  <2>1. F!ledgerVars' = F!ledgerVars
    BY <1>3 DEF F!ledgerVars
  <2>2. F!Balanced /\ F!TypedChain /\ F!RowsOnBranch
    BY DEF ReopenedIInv, F!Balanced
  <2>3. F!Balanced'
    BY <2>1, <2>2, F!BalancedStep, FullAssumptions
  <2>4. F!RowsOnBranch'
    BY <2>1, <2>2, F!RowsStep, FullAssumptions
  <2> QED
    BY <2>3, <2>4 DEF ReopenedIInv
<1> QED
  BY <1>1, <1>2, <1>3 DEF Next, NewLedgerDisk, vars

(* The invariant holds in every state. *)
LEMMA ReopenedAlways == Spec => []ReopenedIInv
  BY ReopenedInit, ReopenedStep, PTL DEF Spec

(* Whatever flags the runs had, the stored imbalances are those of the      *)
(* branch of the tip: pruning and restoring indices touches no imbalance.   *)
THEOREM ReopenedIsSettled == Spec => []ImbalanceIsSettled
<1>1. ReopenedIInv => ImbalanceIsSettled
  BY SameBalance
  DEF ReopenedIInv, F!Balanced, F!ImbalanceIsSettled, ImbalanceIsSettled, Full!ImbalanceIsSettled
<1> QED
  BY <1>1, ReopenedAlways, PTL

(* A run without -prune can take back the tip that a run with it connected, *)
(* and the reverse: ImbalanceCache.Undo does not reach its panic.           *)
THEOREM ReopenedCanBeUndone == Spec => []UndoNeverPanics
<1>1. ReopenedIInv => UndoNeverPanics
  <2>1. F!UndoNeverPanics <=> UndoNeverPanics
    BY DEF UndoNeverPanics, Full!UndoNeverPanics, Full!Undoable, Full!Effects, Full!Net,
           Full!Height, Full!Cardinality,
           F!UndoNeverPanics, F!Undoable, F!Effects, F!Net, F!Height, F!Cardinality
  <2> QED
    BY <2>1, F!BalancedIsUndoable, FullAssumptions DEF ReopenedIInv
<1> QED
  BY <1>1, ReopenedAlways, PTL

(* Whenever the rows of the whole branch are there, the imbalance counted   *)
(* from them at the height of the tip is the stored one: runs that pruned   *)
(* and restored rows leave none of another branch behind.                   *)
THEOREM ReopenedHistory == Spec => []HistoryAgrees
<1>1. ReopenedIInv => HistoryAgrees
  <2>1. F!HistoryAgrees <=> HistoryAgrees
    BY DEF HistoryAgrees, Full!HistoryAgrees, Full!GetPublicKeyImbalanceAt, Full!Height,
           Full!CountAt, Full!PartyRows, Full!Positions, Full!Cardinality,
           F!HistoryAgrees, F!GetPublicKeyImbalanceAt, F!Height,
           F!CountAt, F!PartyRows, F!Positions, F!Cardinality
  <2> QED
    BY <2>1, F!BalancedHistory, FullAssumptions DEF ReopenedIInv
<1> QED
  BY <1>1, ReopenedAlways, PTL
=============================================================================
