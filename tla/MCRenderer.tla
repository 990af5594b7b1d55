----------------------------- MODULE MCRenderer -----------------------------
(* A client with a renderer, and one with a peer that renders. *)
EXTENDS Renderer, TLC

CONSTANTS x, i1, i2, i3, i4

MCClients == {{R}, {W}}

MCTipBuffer == [a \in Workers |-> 1]

(* Random numbers, of which the smallest free one is as good as any other.  *)
MCWorkIDs == {i1, i2, i3, i4}
=============================================================================
