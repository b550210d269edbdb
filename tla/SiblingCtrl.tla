---------------------------- MODULE SiblingCtrl ----------------------------
(***************************************************************************)
(* The two state machines of an OSPFv3 sibling that decide when it elects  *)
(* a leader and when it starts to send: ctrl_client.c (one machine per     *)
(* controller connection) and sibling_ctrl.c (one per process).            *)
(*                                                                         *)
(* A process is a record: ctrl maps its connections to their states, sc is *)
(* its sibling_ctrl state, hellos says schedule_hellos_on_interfaces ran   *)
(* and sync that the next hello first takes the egress xid from Riak.      *)
(***************************************************************************)
EXTENDS Integers

CtrlStates == {"CTRL_CONNECTING", "CTRL_SENT_HELLO", "CTRL_RCVD_HELLO", "CTRL_INTERFACE_UP",
               "CTRL_LEAD_ELECT_RCVD", "CTRL_CONNECTED"}

ScStates == {"SC_INIT", "SC_LEAD_ELECT_START", "SC_ALL_INT_UP", "SC_LEAD_ELECT_COMPL",
             "SC_ALL_INT_UP_LEAD_ELECT_START", "SC_READY_TO_SEND_LEAD_ELECT_START",
             "SC_READY_TO_SEND"}

Procs(clients) == [ctrl : [clients -> CtrlStates], sc : ScStates, hellos : BOOLEAN,
                   sync : BOOLEAN, restart_mode : BOOLEAN]

\* A process that has just connected; restart is the "-r" option.
NewProc(clients, restart) ==
  [ctrl |-> [c \in clients |-> "CTRL_CONNECTING"], sc |-> "SC_INIT", hellos |-> FALSE,
   sync |-> FALSE, restart_mode |-> restart]

check_all_interface_up(ctrl) ==
  \A c \in DOMAIN ctrl : ctrl[c] \in {"CTRL_INTERFACE_UP", "CTRL_CONNECTED"}

check_all_rcvd_lead_elect(ctrl) ==
  \A c \in DOMAIN ctrl : ctrl[c] \in {"CTRL_LEAD_ELECT_RCVD", "CTRL_CONNECTED"}

\* Mutant: the states an election is started from with the interfaces up are forgotten.
PastStartOnly(sc) == sc = "SC_LEAD_ELECT_START"

past_leader_elect_start(sc) ==
  sc \in {"SC_LEAD_ELECT_START", "SC_ALL_INT_UP_LEAD_ELECT_START",
          "SC_READY_TO_SEND_LEAD_ELECT_START"}

\* sibling_ctrl_update_state(SCG_CTRL_INT_UP_REQ)
ScInterfaceUp(p) ==
  LET next == [SC_INIT |-> "SC_ALL_INT_UP",
               SC_LEAD_ELECT_START |-> "SC_ALL_INT_UP_LEAD_ELECT_START",
               SC_LEAD_ELECT_COMPL |-> "SC_READY_TO_SEND"]
  IN IF p.sc \in DOMAIN next /\ check_all_interface_up(p.ctrl)
     THEN [p EXCEPT !.sc = next[@]] ELSE p

\* ctrl_client_state_transition(CTRL_INTERFACE_UP); other states are bad ones.
InterfaceUp(p, c) ==
  LET next == [CTRL_RCVD_HELLO |-> "CTRL_INTERFACE_UP", CTRL_LEAD_ELECT_RCVD |-> "CTRL_CONNECTED"]
  IN IF p.ctrl[c] \in DOMAIN next
     THEN ScInterfaceUp([p EXCEPT !.ctrl[c] = next[@]]) ELSE p

\* sibling_ctrl_update_state(SCG_CTRL_LEAD_ELECT_RCVD_REQ): where the machine moves on,
\* ospf6_leader_elect runs.  While an election runs the request is dropped.
StartsElection(p) ==
  \/ p.sc \in {"SC_INIT", "SC_ALL_INT_UP"} /\ check_all_rcvd_lead_elect(p.ctrl)
  \/ p.sc = "SC_READY_TO_SEND" /\ check_all_interface_up(p.ctrl)

ScElectionStart(p) ==
  LET next == [SC_INIT |-> "SC_LEAD_ELECT_START",
               SC_ALL_INT_UP |-> "SC_ALL_INT_UP_LEAD_ELECT_START",
               SC_READY_TO_SEND |-> "SC_READY_TO_SEND_LEAD_ELECT_START"]
  IN IF StartsElection(p) THEN [p EXCEPT !.sc = next[@]] ELSE p

\* ctrl_client_state_transition(CTRL_LEAD_ELECT_RCVD), before and with the update.
LeadElectRcvd(p, c) ==
  LET next == [CTRL_RCVD_HELLO |-> "CTRL_LEAD_ELECT_RCVD", CTRL_INTERFACE_UP |-> "CTRL_CONNECTED",
               CTRL_CONNECTED |-> "CTRL_CONNECTED"]
  IN IF p.ctrl[c] \in DOMAIN next THEN [p EXCEPT !.ctrl[c] = next[@]] ELSE p

LeadElectTaken(p, c) ==
  p.ctrl[c] \in {"CTRL_RCVD_HELLO", "CTRL_INTERFACE_UP", "CTRL_CONNECTED"}
    /\ StartsElection(LeadElectRcvd(p, c))

LeadElect(p, c) ==
  IF LeadElectTaken(p, c) THEN ScElectionStart(LeadElectRcvd(p, c)) ELSE LeadElectRcvd(p, c)

\* sibling_ctrl_update_state(SCG_LEAD_ELECT_COMPL)
ElectionComplete(p) ==
  CASE p.sc \in {"SC_LEAD_ELECT_START", "SC_ALL_INT_UP_LEAD_ELECT_START"} ->
         [p EXCEPT !.sc = IF @ = "SC_LEAD_ELECT_START" THEN "SC_LEAD_ELECT_COMPL"
                          ELSE "SC_READY_TO_SEND",
                   !.sync = @ \/ p.restart_mode,
                   !.hellos = TRUE]
    [] p.sc = "SC_READY_TO_SEND_LEAD_ELECT_START" -> [p EXCEPT !.sc = "SC_READY_TO_SEND"]
    [] OTHER -> p
=============================================================================
