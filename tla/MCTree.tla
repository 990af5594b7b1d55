------------------------------- MODULE MCTree -------------------------------
(***************************************************************************)
(* A tree of 15 counts for TLC, three keys, series of two heights (so the  *)
(* index window is four heights and the trunk outgrows it) and             *)
(* counterpoints that mature two counts later.                             *)
(*                                                                         *)
(*   g -- a1 -- a2 -- a3 -- a4 -- a5 -- a6        trunk                    *)
(*         |     |     |     |     `--- r6        replays x3               *)
(*         |     |     |     `- c5                replays x1               *)
(*         |     |     `------- d4                credit spent in the count*)
(*         |     `- e3, f3                        overspend: twice, too early*)
(*         `-- b2 -- b3 -- b4                     confirms x1 elsewhere    *)
(***************************************************************************)
EXTENDS Naturals, Sequences, TLC

CONSTANTS g, a1, a2, a3, a4, a5, a6, b2, b3, b4, c5, d4, e3, f3, r6

MCPath == LET trunk == <<g, a1, a2, a3, a4, a5, a6>>
              upTo(n) == SubSeq(trunk, 1, n + 1)
          IN  (g :> upTo(0)) @@ (a1 :> upTo(1)) @@ (a2 :> upTo(2)) @@ (a3 :> upTo(3))
           @@ (a4 :> upTo(4)) @@ (a5 :> upTo(5)) @@ (a6 :> upTo(6))
           @@ (b2 :> upTo(1) \o <<b2>>) @@ (b3 :> upTo(1) \o <<b2, b3>>)
           @@ (b4 :> upTo(1) \o <<b2, b3, b4>>) @@ (c5 :> upTo(4) \o <<c5>>)
           @@ (d4 :> upTo(3) \o <<d4>>) @@ (e3 :> upTo(2) \o <<e3>>)
           @@ (f3 :> upTo(2) \o <<f3>>)
           @@ (r6 :> upTo(5) \o <<r6>>)

(* Considerations: "p.." are counterpoints, "x.." move a unit.              *)
(* name -> <<by, for, series>>                                              *)
MCData == [
    pg  |-> <<"none", "k1", 1>>, pa1 |-> <<"none", "k2", 1>>,
    pa2 |-> <<"none", "k1", 2>>, pa3 |-> <<"none", "k3", 2>>,
    pa4 |-> <<"none", "k2", 3>>, pa5 |-> <<"none", "k1", 3>>,
    pa6 |-> <<"none", "k1", 4>>, pb2 |-> <<"none", "k3", 2>>,
    pb3 |-> <<"none", "k3", 2>>, pb4 |-> <<"none", "k3", 3>>,
    x1  |-> <<"k1", "k2", 2>>,   x2  |-> <<"k2", "k3", 2>>,
    x3  |-> <<"k3", "k1", 3>>,   x4  |-> <<"k1", "k3", 3>>,
    x5  |-> <<"k2", "k1", 2>>,
    x6  |-> <<"k2", "k3", 2>>,   x7  |-> <<"k3", "k2", 2>>]

MCConsiderations == DOMAIN MCData
MCBy == [x \in MCConsiderations |-> MCData[x][1]]
MCFor == [x \in MCConsiderations |-> MCData[x][2]]
MCSeries == [x \in MCConsiderations |-> MCData[x][3]]

MCBody == (g :> <<"pg">>) @@ (a1 :> <<"pa1">>) @@ (a2 :> <<"pa2", "x1">>)
       @@ (a3 :> <<"pa3", "x2">>) @@ (a4 :> <<"pa4", "x3", "x4">>)
       @@ (a5 :> <<"pa5">>) @@ (a6 :> <<"pa6">>)
       @@ (b2 :> <<"pb2">>) @@ (b3 :> <<"pb3", "x1">>) @@ (b4 :> <<"pb4">>)
       @@ (c5 :> <<"pa5", "x1">>) @@ (d4 :> <<"pb4", "x3", "x4", "x5">>)
       @@ (e3 :> <<"pb3", "x2", "x5", "x6">>)
       @@ (f3 :> <<"pb3", "x7", "x2">>) @@ (r6 :> <<"pa6", "x3">>)

MCCounts == DOMAIN MCPath
=============================================================================
