--------------------------- MODULE MCOspf6Routes ---------------------------
(* One area of three routers and a transit network, one or two advertised  *)
(* prefixes and one controller host.                                       *)
EXTENDS Ospf6Routes

CONSTANTS r0, r1, r2, t, p

MCRouters == <<r0, r1, r2>>

\* The bodies of the router LSAs: point-to-point links and links to the network.
MCRouterBodies ==
  (r0 :> {(r1 :> 1) @@ (t :> 2), (r1 :> 3) @@ (t :> 1)}) @@
  (r1 :> {(r0 :> 2) @@ (t :> 1) @@ (r2 :> 1)}) @@
  (r2 :> {(t :> 1), (r1 :> 1) @@ (t :> 1)})

MCNetworkBodies == {{r0, r2}, {r0, r1, r2}}

Prefix(m, v) == [pre |-> {p}, metric |-> m, ref |-> v, maxage |-> FALSE]

MCPrefixBodies ==
  (r0 :> {}) @@
  (r1 :> {Prefix(0, "router"), Prefix(3, "router"), [Prefix(0, "router") EXCEPT !.maxage = TRUE]}) @@
  (r2 :> {Prefix(0, t)})

MCLinkPairs == {<<t, r1>>}
============================================================================
