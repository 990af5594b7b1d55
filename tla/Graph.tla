------------------------------- MODULE Graph --------------------------------
(***************************************************************************)
(* The consideration graph: nodes with an imbalance, and weighted links.   *)
(* A graph is a record [imbalance, weight] of two functions: the domain of *)
(* imbalance is the set of nodes that have an index, the domain of weight  *)
(* the set of links that were ever made.  The first node that is given an  *)
(* index is the root: "0", which stands for the sender of a counterpoint.  *)
(*                                                                         *)
(* Heights and times of links, groups of nodes and the ranking, which is   *)
(* numerical, are left out: nothing that changes the client's state reads  *)
(* them.                                                                   *)
(***************************************************************************)
EXTENDS Integers, FiniteSets

CONSTANT Root

NewGraph == [imbalance |-> [n \in {} |-> 0], weight |-> [e \in {} |-> 0]]

(* Adds two functions, a missing value being zero. *)
Plus(f, g) ==
    [i \in DOMAIN f \cup DOMAIN g |->
        (IF i \in DOMAIN f THEN f[i] ELSE 0) + (IF i \in DOMAIN g THEN g[i] ELSE 0)]

(* SetImbalance for every node gains has a value for. *)
SetImbalance(graph, gains) == [graph EXCEPT !.imbalance = Plus(@, gains)]

Ends(weights) == UNION {{e[1], e[2]} : e \in DOMAIN weights}

(* Mutant: the weight of a link that exists is overwritten.                 *)
Link_Overwrites(graph, weights) ==
    [imbalance |-> Plus(graph.imbalance, [n \in Ends(weights) |-> 0]),
     weight |-> [e \in DOMAIN graph.weight \cup DOMAIN weights |->
                    IF e \in DOMAIN weights THEN weights[e] ELSE graph.weight[e]]]

(* Link for every link weights has a value for.  It makes the nodes it does *)
(* not know, and never removes a link: one that is taken back stays with    *)
(* the weight that is left.                                                 *)
Link(graph, weights) ==
    [imbalance |-> Plus(graph.imbalance, [n \in Ends(weights) |-> 0]),
     weight |-> Plus(graph.weight, weights)]

(* A set the search cannot leave: it follows every link, whatever its       *)
(* weight, and skips the root.                                              *)
Closed(graph, S) ==
    \A e \in DOMAIN graph.weight : e[1] \in S /\ e[2] # Root => e[2] \in S

(* dfs visits the nodes that are in every closed set with the first one.    *)
Dfs(graph, current, target) ==
    \A S \in SUBSET (DOMAIN graph.imbalance \ {Root}) :
        current \in S /\ Closed(graph, S) => target \in S

(* IsParentDescendant: false for unknown nodes and for the root. *)
IsParentDescendant(graph, parent, descendant) ==
    /\ {parent, descendant} \subseteq DOMAIN graph.imbalance \ {Root}
    /\ Dfs(graph, parent, descendant)
=============================================================================
