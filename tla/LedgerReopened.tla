--------------------------- MODULE LedgerReopened ---------------------------
(***************************************************************************)
(* The same database opened by successive runs of the client, each with or *)
(* without -prune: NewLedgerDisk takes the flag and keeps no record of it. *)
(***************************************************************************)
EXTENDS Rules, Sequences, FiniteSets

CONSTANTS
    Counts, Genesis, Path, Body, MaxHeight,
    Considerations, Keys, By, For, Series,
    NoCount, NoKey, NoEntry,
    COUNTERPOINT_MATURITY

VARIABLES
    tip, heightIndex, branchType, cnIndex, pkIndex, imbalance,
    prune                    \* LedgerDisk.prune of the current run

vars == <<tip, heightIndex, branchType, cnIndex, pkIndex, imbalance, prune>>

Pruning == INSTANCE Ledger WITH Prune <- TRUE
Full    == INSTANCE Ledger WITH Prune <- FALSE

(* The tree of counts is one of Ledger's. *)
ASSUME PathAssumption == Full!PathAssumption
ASSUME BodyAssumption == Full!BodyAssumption
ASSUME GenesisAssumption == Full!GenesisAssumption
ASSUME SeriesAssumption == Full!SeriesAssumption
ASSUME ParameterAssumption == Full!ParameterAssumption

Init == prune \in BOOLEAN /\ Full!LedgerInit

(* NewLedgerDisk: the tables are left as they are. *)
NewLedgerDisk(flag) ==
    /\ prune' = flag
    /\ UNCHANGED <<tip, heightIndex, branchType, cnIndex, pkIndex, imbalance>>

Connect(c) ==
    /\ IF prune THEN Pruning!ConnectCount(c) ELSE Full!ConnectCount(c)
    /\ UNCHANGED prune

Disconnect(c) ==
    /\ IF prune THEN Pruning!DisconnectCount(c) ELSE Full!DisconnectCount(c)
    /\ UNCHANGED prune

Next ==
    \/ \E c \in Counts \ {Genesis} : Connect(c) \/ Disconnect(c)
    \/ \E flag \in BOOLEAN : NewLedgerDisk(flag)

Spec == Init /\ [][Next]_vars

-----------------------------------------------------------------------------
(* client/README.md says of -prune that it "only impacts a mind's ability   *)
(* to query for history": no consideration is confirmed twice, whichever    *)
(* flags the runs were started with.                                        *)
NoDoubleConfirmation == Full!NoDoubleConfirmation

(* Whatever the flags were, a tip can be taken back without the panic in    *)
(* ImbalanceCache.Undo, and no key owes a unit.                             *)
UndoNeverPanics == Full!UndoNeverPanics
ImbalanceIsSettled == Full!ImbalanceIsSettled

(* A database whose rows are all there answers for the current height what  *)
(* the imbalance table says, also after runs that pruned and restored rows. *)
HistoryAgrees == Full!HistoryAgrees
=============================================================================
