---------------------------- MODULE MCSibSystem ----------------------------
(***************************************************************************)
(* Instances of SibSystem.  Steady is the state the system is in once      *)
(* every sibling has finished its handshake and the first election, and n  *)
(* messages have been voted on: runs about crashes start there, with the   *)
(* oldest sibling, the leader, in any slot.                                *)
(***************************************************************************)
EXTENDS SibSystem

Steady(slot, n) ==
  /\ n_ospf6_siblings = NumSibs
  /\ n_ospf6_siblings_routing = NumSibs
  /\ leader_sibling = slot[1]
  /\ state = [s \in Slots |-> IF s \in Sibs THEN "SIB_ROUTING" ELSE "NULL"]
  /\ current_egress_xid = [s \in Slots |-> IF s \in Sibs THEN FirstEgress + n ELSE 0]
  /\ waiting_on_first_egress_msg = [s \in Slots |-> s \in Sibs /\ n = 0]
  /\ is_leader = [s \in Slots |-> s = slot[1]]
  /\ queue = [s \in Slots |-> <<>>]
  /\ n_routers = 1
  /\ egress_db = IF n = 0 THEN 0 ELSE FirstEgress + n
  /\ sent = Quiet
  /\ out = <<>>
  /\ running = TRUE
  /\ peer = [s \in Slots |-> IF s \in Sibs THEN CHOOSE p \in Sibs : slot[p] = s ELSE NoSib]
  /\ toCtrl = [s \in Slots |-> <<>>]
  /\ toSib = [s \in Slots |-> <<>>]
  /\ proc = [p \in Sibs |-> [ctrl |-> [c \in conn |-> "CTRL_CONNECTED"], sc |-> "SC_READY_TO_SEND",
                            hellos |-> TRUE, sync |-> FALSE, restart_mode |-> FALSE]]
  /\ xid = [p \in Sibs |-> FirstEgress + n]
  /\ order = [p \in Sibs |-> p]
  /\ ids = {i \in Sibs \X Sibs : i[1] # i[2]}
  /\ crashes = 0
  /\ restarts = 0
  /\ wire = [i \in 1..n |-> [xid |-> FirstEgress + i - 1, val |-> Correct(FirstEgress + i - 1)]]

SteadyAt(n) == \E slot \in [Sibs -> Sibs] : (\A p, q \in Sibs : slot[p] = slot[q] => p = q) /\ Steady(slot, n)

\* The start-up without crashes and the steady state with them, in one run.
VoteInit ==
  \/ Booted /\ crashes = MaxCrashes /\ restarts = MaxRestarts
  \/ SteadyAt(1)

VoteSpec == VoteInit /\ [][SysNext]_sysVars
SteadySpec == SteadyAt(0) /\ [][SysNext]_sysVars
FairSteadySpec == SteadySpec /\ SysFairness
=============================================================================
