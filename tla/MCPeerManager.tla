--------------------------- MODULE MCPeerManager ---------------------------
(***************************************************************************)
(* Two remote nodes, the second on a banned host, and two inbound          *)
(* connections from one host, with the address of one node each.           *)
(***************************************************************************)
EXTENDS PeerManager

CONSTANTS r1, r2, h1, h2, main0, o1, o2, Never

MCHost(x) == IF x \in {h1, h2} THEN "host" ELSE IF x = r1 THEN "host1" ELSE "host2"
MCAdvertised(h) == IF h = h1 THEN r1 ELSE Never
=============================================================================
