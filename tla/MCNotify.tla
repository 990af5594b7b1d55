------------------------------ MODULE MCNotify ------------------------------
EXTENDS Notify

(* The capacities of a renderer and, for tips, of the indexer. *)
MCOneEach == [s \in Subscribers |-> 1]

(* A peer has 10 tip changes in the code; here more than the others, and    *)
(* no more than one count can bring: what matters is that it can fill.      *)
MCPeersTwo == [s \in Subscribers |-> IF s \in Peers THEN 2 ELSE 1]
=============================================================================
