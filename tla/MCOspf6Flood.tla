---------------------------- MODULE MCOspf6Flood ----------------------------
(***************************************************************************)
(* A point-to-point and a broadcast interface, in two families of          *)
(* behaviours: updates and time with a neighbour that is loading, and      *)
(* database exchanges with updates among them, the first with a neighbour  *)
(* whose link has an LSA at MaxAge.                                        *)
(***************************************************************************)
EXTENDS Ospf6Flood

CONSTANTS n1, n2, i1, i2, area, lnk, rtr

MCNbrIf == (n1 :> i1) @@ (n2 :> i2)
MCKeyIf == lnk :> i2
MCRouterId == (n1 :> 2) @@ (n2 :> 3)
MCReceived == {[seq |-> 1, ck |-> 1, age |-> 0], [seq |-> 2, ck |-> 0, age |-> 0],
               [seq |-> 2, ck |-> 1, age |-> 0], [seq |-> 2, ck |-> 0, age |-> MAXAGE]}

MCInit ==
    \/ InitWith((n1 :> FULL) @@ (n2 :> LOADING), StartDb, 0, MaxDds, 0)
    \/ InitWith((n1 :> FULL) @@ (n2 :> EXSTART),
                StartDb @@ (lnk :> [First EXCEPT !.age = MAXAGE]), MaxRecv - 2, 0, MaxTicks)

MCSpec == MCInit /\ [][Next]_vars
=============================================================================
