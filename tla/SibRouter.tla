----------------------------- MODULE SibRouter -----------------------------
(***************************************************************************)
(* The controller's side of the OSPFv3 siblings: controller/sib_router.c.  *)
(* One slot of ospf6_siblings[] per connection, the request handshake that *)
(* takes a slot to SIB_ROUTING, the queues of egress messages and the      *)
(* majority vote that releases one of them to the router.                  *)
(*                                                                         *)
(* The module is open: any message may arrive on any connection.  The      *)
(* sibling processes that really send them are added by SibSystem.         *)
(***************************************************************************)
EXTENDS Integers, Sequences, FiniteSets

CONSTANTS
  NumSibs,   \* num_sibs_conf, "num sibs NUM" of the configuration file
  VoterAll,  \* voter_type_conf = VOTER_ALL ("voter all"), else VOTER_ANY
  MaxSlots,  \* bound: connections that can be open at once
  MaxXid,    \* bound: largest transaction id
  MaxQueue,  \* bound: messages waiting in one msgs_rcvd_queue
  Payload,   \* message contents the vote can tell apart
  RouteSet   \* the payloads that are IPV6_ROUTE_SET requests; the rest, FORWARD_OSPF6

ASSUME NumSibsAssumption == NumSibs \in Nat \ {0}
ASSUME VoterAssumption == VoterAll \in BOOLEAN
ASSUME BoundsAssumption ==
  /\ MaxSlots \in Nat \ {0}
  /\ MaxXid \in Nat
  /\ MaxQueue \in Nat
ASSUME PayloadAssumption == RouteSet \subseteq Payload

VARIABLES
  n_ospf6_siblings,          \* slots in use, disconnected ones included
  n_ospf6_siblings_routing,
  leader_sibling,            \* a slot, or NoSlot (the NULL pointer)
  state,                     \* per slot, from here to queue
  current_egress_xid,
  waiting_on_first_egress_msg,
  is_leader,
  queue,                     \* msgs_rcvd_queue
  n_routers,
  egress_db,                 \* the egress xid kept in Riak
  sent,                      \* output: per slot, what the last step sent to it
  out,                       \* output: what the last step handed to router_forward
  running                    \* FALSE once the controller has crashed

slotVars == <<state, current_egress_xid, waiting_on_first_egress_msg, is_leader, queue>>
vars == <<n_ospf6_siblings, n_ospf6_siblings_routing, leader_sibling, slotVars,
          n_routers, egress_db, sent, out, running>>

Slots == 1..MaxSlots
NoSlot == 0
Used == 1..n_ospf6_siblings

States == {"NULL", "SIB_CONNECTING", "SIB_CONNECTED", "SIB_FEATURES_REQ_RCVD",
           "SIB_REDISTRIBUTE_REQ_RCVD", "SIB_FEATURES_REDIS_REQ_RCVD",
           "SIB_FEATURES_ADDR_REQ_RCVD", "SIB_ROUTING", "SIB_DISCONNECTED"}

\* The states in which sib_router_run reads messages of the connection.
Reading == States \ {"NULL", "SIB_CONNECTING", "SIB_DISCONNECTED"}

Xids == 0..MaxXid

\* The requests that are voted on; rfpbuf_equal compares all of a message.
Msgs == [xid : Xids, val : Payload]

\* What moves a sibling's state machines.  The address and route replies only fill
\* its tables of connected addresses and its log, so they are left out.
Replies == {"FEATURES_REPLY", "LEADER_ELECT"}

Quiet == [s \in Slots |-> <<>>]

\* sib_router_send_features_reply loops over the routers: with none connected the
\* request is taken and nothing is sent.
Reply(s, r) == IF n_routers > 0 THEN [Quiet EXCEPT ![s] = <<r>>] ELSE Quiet

Init ==
  /\ n_ospf6_siblings = 0
  /\ n_ospf6_siblings_routing = 0
  /\ leader_sibling = NoSlot
  /\ state = [s \in Slots |-> "NULL"]
  /\ current_egress_xid = [s \in Slots |-> 0]
  /\ waiting_on_first_egress_msg = [s \in Slots |-> FALSE]
  /\ is_leader = [s \in Slots |-> FALSE]
  /\ queue = [s \in Slots |-> <<>>]
  /\ n_routers = 0
  /\ egress_db = 0
  /\ sent = Quiet
  /\ out = <<>>
  /\ running = TRUE

-----------------------------------------------------------------------------
(***************************************************************************)
(* state_transition                                                        *)
(***************************************************************************)

EntersRouting(s, new) ==
  /\ state[s] \in {"SIB_FEATURES_REDIS_REQ_RCVD", "SIB_FEATURES_ADDR_REQ_RCVD"}
  /\ new = "SIB_ROUTING"

LeavesRouting(s, new) == state[s] = "SIB_ROUTING" /\ new = "SIB_DISCONNECTED"

RoutingAfter(s, new) ==
  n_ospf6_siblings_routing + (IF EntersRouting(s, new) THEN 1 ELSE 0)
                           - (IF LeavesRouting(s, new) THEN 1 ELSE 0)

\* sib_router_send_leader_elect reaches every slot below n.  A slot that was
\* destroyed has a freed rconn: reading it may or may not end the process.
send_leader_elect(s, replies, n) ==
  IF n_ospf6_siblings_routing' = NumSibs
  THEN /\ sent' = [t \in Slots |->
                     IF t \in 1..n /\ state'[t] # "SIB_DISCONNECTED"
                     THEN Append(replies[t], "LEADER_ELECT") ELSE replies[t]]
       /\ running' \in IF \E t \in 1..n : t # s /\ state[t] = "SIB_DISCONNECTED"
                       THEN BOOLEAN ELSE {TRUE}
  ELSE sent' = replies /\ running' = TRUE

NoOut == out' = <<>>

state_transition(s, new, replies) ==
  /\ n_ospf6_siblings_routing' = RoutingAfter(s, new)
  /\ state' = [state EXCEPT ![s] = new]
  /\ send_leader_elect(s, replies, n_ospf6_siblings)
  /\ NoOut

\* Mutant: the flag is raised by every request of the handshake.
RaiseWaitingAlways(s, new) ==
  waiting_on_first_egress_msg' = [waiting_on_first_egress_msg EXCEPT ![s] = TRUE]

\* The flag state_transition raises; callers that write it afterwards do not use this.
RaiseWaiting(s, new) ==
  waiting_on_first_egress_msg' =
    [waiting_on_first_egress_msg EXCEPT ![s] = @ \/ EntersRouting(s, new)]

-----------------------------------------------------------------------------
(***************************************************************************)
(* Connections: sib_listener_accept, sib_router_run, sib_router_destroy    *)
(***************************************************************************)

Disconnected == {s \in Used : state[s] = "SIB_DISCONNECTED"}

\* sib_router_reuse: the first disconnected slot.  is_leader and leader_sibling stay.
AcceptReuse(s) ==
  /\ running
  /\ s \in Disconnected
  /\ \A t \in Disconnected : s <= t
  /\ state_transition(s, "SIB_CONNECTING", Quiet)
  /\ queue' = [queue EXCEPT ![s] = <<>>]
  /\ current_egress_xid' = [current_egress_xid EXCEPT ![s] = 0]
  /\ waiting_on_first_egress_msg' = [waiting_on_first_egress_msg EXCEPT ![s] = FALSE]
  /\ UNCHANGED <<n_ospf6_siblings, leader_sibling, is_leader, n_routers, egress_db>>

\* sib_router_create: the slot pointer is stored only after state_transition has
\* run with the new count, so a leader election message sent from there reads NULL.
AcceptNew(s) ==
  /\ running
  /\ Disconnected = {}
  /\ s \in Slots
  /\ s = n_ospf6_siblings + 1
  /\ n_ospf6_siblings' = s
  /\ state' = [state EXCEPT ![s] = "SIB_CONNECTING"]
  /\ running' = (n_ospf6_siblings_routing # NumSibs)
  /\ sent' = Quiet
  /\ NoOut
  /\ UNCHANGED <<n_ospf6_siblings_routing, leader_sibling, current_egress_xid, queue,
                 waiting_on_first_egress_msg, is_leader, n_routers, egress_db>>

\* The first sib_router_run of a connection only marks it connected.
Connected(s) ==
  /\ running
  /\ state[s] = "SIB_CONNECTING"
  /\ state_transition(s, "SIB_CONNECTED", Quiet)
  /\ UNCHANGED <<n_ospf6_siblings, leader_sibling, current_egress_xid, is_leader, queue,
                 waiting_on_first_egress_msg, n_routers, egress_db>>

\* Mutant: the messages of a destroyed connection stay queued.
KeepQueue(s) == queue' = queue
FreeQueue(s) == queue' = [queue EXCEPT ![s] = <<>>]

\* sib_router_destroy.  leader_sibling and is_leader are left as they were.
Destroy(s) ==
  /\ running
  /\ state[s] \in Reading
  /\ state_transition(s, "SIB_DISCONNECTED", Quiet)
  /\ waiting_on_first_egress_msg' = [waiting_on_first_egress_msg EXCEPT ![s] = FALSE]
  /\ FreeQueue(s)
  /\ UNCHANGED <<n_ospf6_siblings, leader_sibling, current_egress_xid, is_leader,
                 n_routers, egress_db>>

\* A BGP sibling runs the same state_transition on a slot of bgp_siblings[]: it
\* never reaches SIB_ROUTING, but each of its transitions can start an election.
BgpTransition ==
  /\ running
  /\ UNCHANGED <<n_ospf6_siblings_routing, state>>
  /\ send_leader_elect(NoSlot, Quiet, n_ospf6_siblings)
  /\ NoOut
  /\ UNCHANGED <<n_ospf6_siblings, leader_sibling, current_egress_xid, is_leader, queue,
                 waiting_on_first_egress_msg, n_routers, egress_db>>

\* nb_listener_accept of controller.c: "expect only one router connection for now".
RouterAccept ==
  /\ running
  /\ n_routers = 0
  /\ n_routers' = 1
  /\ sent' = Quiet
  /\ NoOut
  /\ UNCHANGED <<n_ospf6_siblings, n_ospf6_siblings_routing, leader_sibling, slotVars,
                 egress_db, running>>

-----------------------------------------------------------------------------
(***************************************************************************)
(* The handshake requests of sib_router_process_packet                     *)
(***************************************************************************)

\* A request with another xid, or in another state, is only logged.
Ignore ==
  /\ sent' = Quiet
  /\ NoOut
  /\ UNCHANGED <<n_ospf6_siblings, n_ospf6_siblings_routing, leader_sibling, slotVars,
                 n_routers, egress_db, running>>

\* A request that is taken: the xid advances, the replies go out, the state moves on.
TakeRequest(s, new, replies) ==
  /\ current_egress_xid[s] < MaxXid
  /\ current_egress_xid' = [current_egress_xid EXCEPT ![s] = @ + 1]
  /\ state_transition(s, new, replies)
  /\ RaiseWaiting(s, new)
  /\ UNCHANGED <<n_ospf6_siblings, leader_sibling, is_leader, queue, n_routers, egress_db>>

AfterFeatures(st) ==
  CASE st = "SIB_CONNECTED" -> "SIB_FEATURES_REQ_RCVD"
    [] st = "SIB_REDISTRIBUTE_REQ_RCVD" -> "SIB_FEATURES_REDIS_REQ_RCVD"

AfterRedistribute(st) ==
  CASE st = "SIB_CONNECTED" -> "SIB_REDISTRIBUTE_REQ_RCVD"
    [] st = "SIB_FEATURES_REQ_RCVD" -> "SIB_FEATURES_REDIS_REQ_RCVD"
    [] st = "SIB_FEATURES_ADDR_REQ_RCVD" -> "SIB_ROUTING"

FeaturesRequest(s, xid) ==
  /\ running
  /\ state[s] \in Reading
  /\ IF xid = current_egress_xid[s] /\ state[s] \in {"SIB_CONNECTED", "SIB_REDISTRIBUTE_REQ_RCVD"}
     THEN TakeRequest(s, AfterFeatures(state[s]), Reply(s, "FEATURES_REPLY"))
     ELSE Ignore

RedistributeRequest(s, xid) ==
  /\ running
  /\ state[s] \in Reading
  /\ IF /\ xid = current_egress_xid[s]
        /\ state[s] \in {"SIB_CONNECTED", "SIB_FEATURES_REQ_RCVD", "SIB_FEATURES_ADDR_REQ_RCVD"}
     THEN TakeRequest(s, AfterRedistribute(state[s]), Quiet)
     ELSE Ignore

\* The state test of this request is constant (an enum member stands alone in
\* it): in any other state the xid advances without a transition.
IfAddressReq(s, xid) ==
  /\ running
  /\ state[s] \in Reading
  /\ IF xid # current_egress_xid[s] THEN Ignore
     ELSE \/ /\ state[s] = "SIB_FEATURES_REQ_RCVD"
             /\ TakeRequest(s, "SIB_FEATURES_ADDR_REQ_RCVD", Quiet)
          \/ /\ state[s] = "SIB_FEATURES_REDIS_REQ_RCVD"
             /\ TakeRequest(s, "SIB_ROUTING", Quiet)
          \/ /\ state[s] \notin {"SIB_FEATURES_REQ_RCVD", "SIB_FEATURES_REDIS_REQ_RCVD"}
             /\ current_egress_xid[s] < MaxXid
             /\ current_egress_xid' = [current_egress_xid EXCEPT ![s] = @ + 1]
             /\ sent' = Quiet
             /\ NoOut
             /\ UNCHANGED <<n_ospf6_siblings, n_ospf6_siblings_routing, leader_sibling, state,
                            waiting_on_first_egress_msg, is_leader, queue, n_routers, 
                            egress_db, running>>
-----------------------------------------------------------------------------
(***************************************************************************)
(* Egress messages and the vote                                            *)
(***************************************************************************)

NumWaiting(w) == Cardinality({t \in Used : w[t]})

\* The divisor of both majority tests.
num_hosts(w) == IF VoterAll THEN NumSibs ELSE n_ospf6_siblings_routing - NumWaiting(w)

\* Mutant: the share has to be all of the hosts.
Unanimous(k, h) == IF h >= 0 THEN k >= h ELSE FALSE

\* (float)k/h > 0.5: a zero divisor gives infinity, a negative one a negative value.
OverHalf(k, h) == IF h >= 0 THEN 2 * k > h ELSE FALSE

NonEmpty(q) == {t \in Used : q[t] # <<>>}

\* majority_have_msg_rcvd counts in its own loop index: a slot that holds a
\* message advances the index twice.  Positions are one more than the C index.
majority_have_msg_rcvd(q, w) ==
  LET Counted(t) == state[t] # "SIB_DISCONNECTED" /\ q[t] # <<>>
      scan[t \in 1..(n_ospf6_siblings + 2)] ==
        IF t > n_ospf6_siblings THEN t - 1
        ELSE scan[t + (IF Counted(t) THEN 2 ELSE 1)]
  IN OverHalf(scan[1], num_hosts(w))

\* vote_majority compares every front with that of the first queue that has one.
FirstWithMsg(q) == CHOOSE j \in NonEmpty(q) : \A t \in NonEmpty(q) : j <= t
Candidate(q) == Head(q[FirstWithMsg(q)])

\* Mutant: only the transaction ids are compared.
EqualXids(q) == {t \in NonEmpty(q) : Head(q[t]).xid = Candidate(q).xid}

EqualFronts(q) ==
  {t \in NonEmpty(q) : /\ Head(q[t]) = Candidate(q)
                       /\ t = FirstWithMsg(q) \/ state[t] # "SIB_DISCONNECTED"}

\* The key exists (reset_key wrote it) and Riak answers: the put replaces it.
db_set_egress_xid(xid) == egress_db' = xid

\* Mutant: the xid is stored before it advances.
StoreOldXid(c) ==
  egress_db' = IF leader_sibling # NoSlot THEN c[leader_sibling] - 1 ELSE egress_db

\* The leader's xid is stored only while the leader is connected.
StoreLeaderXid(c) ==
  IF leader_sibling # NoSlot /\ state[leader_sibling] # "SIB_DISCONNECTED"
  THEN db_set_egress_xid(c[leader_sibling])
  ELSE UNCHANGED egress_db

Keep(q, c) ==
  /\ queue' = q
  /\ current_egress_xid' = c
  /\ NoOut
  /\ UNCHANGED egress_db

\* Every queue loses its front and every slot's xid advances, whoever agreed.
\* Mutants: the queues are left alone; only slots that had a message advance.
PopNothing(q) == q
PopFronts(q) == [t \in Slots |-> IF t \in NonEmpty(q) THEN Tail(q[t]) ELSE q[t]]
AdvanceVoters(q, c) == [t \in Slots |-> IF t \in NonEmpty(q) THEN c[t] + 1 ELSE c[t]]
AdvanceAll(q, c) == [t \in Slots |-> IF t \in Used THEN c[t] + 1 ELSE c[t]]

Release(q, c) ==
  /\ \A t \in Used : c[t] < MaxXid
  /\ queue' = PopFronts(q)
  /\ current_egress_xid' = AdvanceAll(q, c)
  /\ out' = IF n_routers > 0 THEN <<Candidate(q)>> ELSE <<>>
  /\ StoreLeaderXid(current_egress_xid')

vote_majority(q, w, c) ==
  IF OverHalf(Cardinality(EqualFronts(q)), num_hosts(w))
  THEN Release(q, c)
  ELSE Keep(q, c)

\* The part IPV6_ROUTE_SET and FORWARD_OSPF6 share, from xids c and flags w.
Egress(s, m, c, w) ==
  LET q == [queue EXCEPT ![s] = Append(@, m)]
  IN /\ waiting_on_first_egress_msg' = w
     /\ \/ /\ m.xid = c[s]
           /\ Len(queue[s]) < MaxQueue
           /\ IF n_ospf6_siblings = NumSibs /\ majority_have_msg_rcvd(q, w)
              THEN vote_majority(q, w, c)
              ELSE Keep(q, c)
        \/ m.xid > c[s] /\ Len(queue[s]) < MaxQueue /\ Keep(q, c)
        \/ m.xid < c[s] /\ Keep(queue, c)
     /\ sent' = Quiet
     /\ UNCHANGED <<n_ospf6_siblings, n_ospf6_siblings_routing, leader_sibling, state,
                    is_leader, n_routers, running>>

Ipv6RouteSet(s, m) ==
  /\ running
  /\ state[s] \in Reading
  /\ m.val \in RouteSet
  /\ Egress(s, m, current_egress_xid, waiting_on_first_egress_msg)

\* The first FORWARD_OSPF6 of a slot that is not the leader's takes over the
\* leader's xid, whatever state the leader's slot is in.
FirstXid(s) ==
  IF waiting_on_first_egress_msg[s] /\ ~is_leader[s] /\ leader_sibling # NoSlot
  THEN [current_egress_xid EXCEPT ![s] = current_egress_xid[leader_sibling]]
  ELSE current_egress_xid

ForwardOspf6(s, m) ==
  /\ running
  /\ state[s] \in Reading
  /\ m.val \notin RouteSet
  /\ Egress(s, m, FirstXid(s), [waiting_on_first_egress_msg EXCEPT ![s] = FALSE])

\* The log line at the end reads leader_sibling->rconn->target: a NULL pointer
\* when no leader was ever announced, freed memory when its slot is disconnected.
RedistributeLeaderElect(s, leads) ==
  /\ running
  /\ state[s] \in Reading
  /\ is_leader' = [is_leader EXCEPT ![s] = leads]
  /\ leader_sibling' = IF leads THEN s ELSE leader_sibling
  /\ running' \in IF leader_sibling' = NoSlot THEN {FALSE}
                  ELSE IF state[leader_sibling'] = "SIB_DISCONNECTED" THEN BOOLEAN
                  ELSE {TRUE}
  /\ sent' = Quiet
  /\ NoOut
  /\ UNCHANGED <<n_ospf6_siblings, n_ospf6_siblings_routing, state, current_egress_xid,
                 waiting_on_first_egress_msg, queue, n_routers, egress_db>>

Next ==
  \/ RouterAccept
  \/ BgpTransition
  \/ \E s \in Slots :
       \/ AcceptReuse(s)
       \/ AcceptNew(s)
       \/ Connected(s)
       \/ Destroy(s)
       \/ \E xid \in Xids : \/ FeaturesRequest(s, xid)
                            \/ RedistributeRequest(s, xid)
                            \/ IfAddressReq(s, xid)
       \/ \E m \in Msgs : Ipv6RouteSet(s, m) \/ ForwardOspf6(s, m)
       \/ \E leads \in BOOLEAN : RedistributeLeaderElect(s, leads)

Spec == Init /\ [][Next]_vars

-----------------------------------------------------------------------------
(***************************************************************************)
(* Properties                                                              *)
(***************************************************************************)

\* The slots keep their types: the leader pointer is NULL or a slot that was created,
\* and a slot has a state exactly when it was.
TypeOK ==
  /\ n_ospf6_siblings \in 0..MaxSlots
  /\ n_ospf6_siblings_routing \in Int
  /\ leader_sibling \in Used \cup {NoSlot}
  /\ state \in [Slots -> States]
  /\ \A s \in Slots : state[s] = "NULL" <=> s \notin Used
  /\ current_egress_xid \in [Slots -> Xids]
  /\ waiting_on_first_egress_msg \in [Slots -> BOOLEAN]
  /\ is_leader \in [Slots -> BOOLEAN]
  /\ queue \in [Slots -> Seq(Msgs)]
  /\ n_routers \in {0, 1}
  /\ out \in Seq(Msgs)
  /\ egress_db \in Xids
  /\ sent \in [Slots -> Seq(Replies)]
  /\ running \in BOOLEAN

Routing == {s \in Slots : state[s] = "SIB_ROUTING"}

\* n_ospf6_siblings_routing, which starts elections and divides the vote, is the
\* number of slots in SIB_ROUTING, whatever handshakes and disconnections happened.
RoutingCount == n_ospf6_siblings_routing = Cardinality(Routing)

\* The divisor "num routing - num waiting on egress" of voter any never goes
\* negative: it counts the routing slots that have sent an egress message.
HostsCounted ==
  n_ospf6_siblings_routing - NumWaiting(waiting_on_first_egress_msg)
    = Cardinality({s \in Routing : ~waiting_on_first_egress_msg[s]})

\* A disconnected or unused slot holds no message, so it never takes part in a
\* vote: vote_majority looks at the queue of slot j without looking at its state.
VotersConnected == \A s \in Slots : queue[s] # <<>> => state[s] \in Reading

\* The inductive invariant of the proofs: the flag that subtracts a slot from the
\* hosts of a vote is only up while the slot is counted in.
WaitingRouting == \A s \in Slots : waiting_on_first_egress_msg[s] => state[s] = "SIB_ROUTING"
IInv == TypeOK /\ RoutingCount /\ WaitingRouting /\ VotersConnected
=============================================================================
