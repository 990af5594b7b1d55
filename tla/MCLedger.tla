------------------------------ MODULE MCLedger ------------------------------
(* The ledger on the tree of MCTree. *)
EXTENDS Ledger, MCTree

(* branchType is read by no guard of the ledger, so the counts that may be  *)
(* set aside from outside are limited to two: one below, one off the trunk. *)
MCNext ==
    \/ \E c \in Counts \ {Genesis} : ConnectCount(c)
    \/ \E c \in Counts \ {Genesis} : DisconnectCount(c)
    \/ \E c \in {a2, b3} : SetBranchType(c)

MCSpec == LedgerInit /\ [][MCNext]_ledgerVars
=============================================================================
