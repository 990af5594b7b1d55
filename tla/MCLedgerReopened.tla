-------------------------- MODULE MCLedgerReopened --------------------------
(* A database reopened with and without -prune, on the tree of MCTree. *)
EXTENDS LedgerReopened, MCTree
=============================================================================
