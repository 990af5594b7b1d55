----------------------------- MODULE MCIndexer ------------------------------
(***************************************************************************)
(* Two branches over one root.  On one k1 considers k2, on the other k2    *)
(* considers k1: together they are a cycle, each alone is not.             *)
(*                                                                         *)
(*   g -- a1 -- a2            a1 confirms x1, a2 the place x3              *)
(*    `-- b1 -- b2 -- b3      b2 confirms x2, b3 a pseudonym               *)
(***************************************************************************)
EXTENDS Indexer, TLC

CONSTANTS g, a1, a2, b1, b2, b3

MCPath == (g :> <<g>>) @@ (a1 :> <<g, a1>>) @@ (a2 :> <<g, a1, a2>>)
       @@ (b1 :> <<g, b1>>) @@ (b2 :> <<g, b1, b2>>) @@ (b3 :> <<g, b1, b2, b3>>)

MCCounts == DOMAIN MCPath

(* name -> <<by, for>> *)
MCData == [
    pg  |-> <<"none", "k1">>, pa1 |-> <<"none", "k2">>, pa2 |-> <<"none", "k2">>,
    pb1 |-> <<"none", "k2">>, pb2 |-> <<"none", "k2">>, pb3 |-> <<"none", "k1">>,
    x1  |-> <<"k1", "k2">>,   x2  |-> <<"k2", "k1">>,   x3  |-> <<"k2", "place">>,
    x4  |-> <<"k1", "alias">>]

MCConsiderations == DOMAIN MCData
MCBy == [x \in MCConsiderations |-> MCData[x][1]]
MCFor == [x \in MCConsiderations |-> MCData[x][2]]
MCSeries == [x \in MCConsiderations |-> 1]
MCNone == [x \in MCConsiderations |-> 0]

MCDimensions == [x \in MCConsiderations |->
    IF MCFor[x] = "place"
      THEN <<<<"place", "day">>, <<"day", "none">>, <<"place", "+1">>, <<"+1", "none">>>>
      ELSE <<>>]

MCBody == (g :> <<"pg">>) @@ (a1 :> <<"pa1", "x1">>) @@ (a2 :> <<"pa2", "x3">>)
       @@ (b1 :> <<"pb1">>) @@ (b2 :> <<"pb2", "x2">>) @@ (b3 :> <<"pb3", "x4">>)

MCPointWork == [c \in MCCounts |-> Len(MCPath[c])]

MCIdOrder == (g :> 0) @@ (a1 :> 1) @@ (a2 :> 4) @@ (b1 :> 2) @@ (b2 :> 3) @@ (b3 :> 5)
=============================================================================
