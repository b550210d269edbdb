--------------------------- MODULE MCOspf6Restart ---------------------------
(***************************************************************************)
(* Two siblings, of which one may crash and restart.  Of the messages of a *)
(* router there are four sequences: DbDescs after a Hello, DbDescs before  *)
(* and after one with the top bit of the router id set, a DbDesc that does *)
(* not fit the interface, for each way to configure the siblings, and a    *)
(* Hello that does not, with an update, which is never stored.             *)
(***************************************************************************)
EXTENDS Ospf6Restart

Hello(id) == [type |-> "HELLO", router_id |-> id, param |-> 1]
OtherHello(id) == [type |-> "HELLO", router_id |-> id, param |-> 3]
DbDesc(id) == [type |-> "DBDESC", router_id |-> id, param |-> 2]
OtherDbDesc(id) == [type |-> "DBDESC", router_id |-> id, param |-> 3]
Update == [type |-> "LSUPDATE", router_id |-> 1, param |-> 0]

Config(on, debug) ==
  [p \in Sibs |-> [checkpoint_enabled |-> p \in on, debug_msg |-> p \in debug]]

MCInterface == [HELLO |-> 1, DBDESC |-> 2]
Both == Config({1, 2}, {1})
MCConfigs == {Both, Config({2}, {}), Config({1}, {})}
MCScripts ==
  {<<Hello(1), DbDesc(1), DbDesc(1)>>, <<DbDesc(5), Hello(5), DbDesc(5)>>,
   <<Hello(1), OtherDbDesc(1)>>, <<OtherHello(1), Update>>}

\* Siblings without checkpoints get one of the short sequences.
MCInit == Init /\ (conf # Both => script = <<Hello(1), OtherDbDesc(1)>>)

MCSpec == MCInit /\ [][Next]_vars /\ Fairness
=============================================================================
