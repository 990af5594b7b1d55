----------------------------- MODULE MCProcessor ----------------------------
(***************************************************************************)
(* Ten counts with two forks, two keys, series of one height (the index    *)
(* window is two heights) and counterpoints that mature one count later.   *)
(*                                                                         *)
(*   g -- a1 -- a2 -- a3      a3 and b3 tie on work                        *)
(*    |    `--- c2 -- c3      c2 overspends: the reorg fails half way      *)
(*    `-- b1 -- b2 -- b3      b2 confirms x1 and x3                        *)
(*               `--- d3      replays x3: the reorg fails at its last count*)
(***************************************************************************)
EXTENDS Processor, TLC

CONSTANTS g, a1, a2, a3, b1, b2, b3, c2, c3, d3

MCPath == (g :> <<g>>) @@ (a1 :> <<g, a1>>) @@ (a2 :> <<g, a1, a2>>)
       @@ (a3 :> <<g, a1, a2, a3>>) @@ (c2 :> <<g, a1, c2>>) @@ (c3 :> <<g, a1, c2, c3>>)
       @@ (b1 :> <<g, b1>>) @@ (b2 :> <<g, b1, b2>>) @@ (b3 :> <<g, b1, b2, b3>>)
       @@ (d3 :> <<g, b1, b2, d3>>)

MCCounts == DOMAIN MCPath

(* name -> <<by, for, series, matures, expires>> *)
MCData == [
    pg  |-> <<"none", "k1", 1, 0, 0>>, pa1 |-> <<"none", "k2", 2, 0, 0>>,
    pa2 |-> <<"none", "k2", 3, 0, 0>>, pa3 |-> <<"none", "k2", 4, 0, 0>>,
    pb1 |-> <<"none", "k1", 2, 0, 0>>, pb2 |-> <<"none", "k1", 3, 0, 0>>,
    pb3 |-> <<"none", "k1", 4, 0, 0>>,
    x1  |-> <<"k1", "k2", 2, 2, 0>>,   x2  |-> <<"k2", "k1", 3, 0, 3>>,
    x3  |-> <<"k1", "k2", 3, 0, 0>>,   x4  |-> <<"k1", "k2", 3, 2, 0>>,
    x5  |-> <<"k2", "k1", 4, 0, 3>>]

MCConsiderations == DOMAIN MCData
MCBy == [x \in MCConsiderations |-> MCData[x][1]]
MCFor == [x \in MCConsiderations |-> MCData[x][2]]
MCSeries == [x \in MCConsiderations |-> MCData[x][3]]
MCMatures == [x \in MCConsiderations |-> MCData[x][4]]
MCExpires == [x \in MCConsiderations |-> MCData[x][5]]

MCBody == (g :> <<"pg">>) @@ (a1 :> <<"pa1", "x1">>) @@ (a2 :> <<"pa2", "x2">>)
       @@ (a3 :> <<"pa3">>) @@ (c2 :> <<"pa2", "x3">>) @@ (c3 :> <<"pa3">>)
       @@ (b1 :> <<"pb1">>) @@ (b2 :> <<"pb2", "x1", "x3">>) @@ (b3 :> <<"pb3">>)
       @@ (d3 :> <<"pb3", "x3">>)

MCPointWork == [c \in MCCounts |-> Len(MCPath[c])]

MCIdOrder == (g :> 0) @@ (a1 :> 1) @@ (a2 :> 2) @@ (a3 :> 5) @@ (c2 :> 8) @@ (c3 :> 9)
          @@ (b1 :> 3) @@ (b2 :> 7) @@ (b3 :> 4) @@ (d3 :> 6)
=============================================================================
