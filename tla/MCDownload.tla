----------------------------- MODULE MCDownload -----------------------------
(***************************************************************************)
(* Two peers over a tree of five counts; lists of two IDs, two requests at *)
(* a time, queues of two.  p2 has a piece of the branch of p1, disconnects *)
(* c2 and connects d2, which the ledger of the client refuses.             *)
(*                                                                         *)
(*   g -- c1 -- c2 -- c3        p1                                         *)
(*         `--- d2              p2                                         *)
(***************************************************************************)
EXTENDS Download, TLC

CONSTANTS g, c1, c2, c3, d2, p1, p2

MCPath == (g :> <<g>>) @@ (c1 :> <<g, c1>>) @@ (c2 :> <<g, c1, c2>>)
       @@ (c3 :> <<g, c1, c2, c3>>) @@ (d2 :> <<g, c1, d2>>)

MCCounts == DOMAIN MCPath

MCTips == (p1 :> <<c3>>) @@ (p2 :> <<c2, c1, d2>>)
=============================================================================
