----------------------------- MODULE MCOspf6Adj -----------------------------
(* Instances of Ospf6Adj: one broadcast interface, one external router.      *)
EXTENDS Ospf6Adj

CONSTANTS n1, i1, own, lnk, area

MCNbrIf == n1 :> i1
MCKeyIf == (own :> i1) @@ (lnk :> i1)
MCRouterId == n1 :> 2
MCPeerHdrs == <<lnk, area>>
=============================================================================
