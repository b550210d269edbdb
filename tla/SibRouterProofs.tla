-------------------------- MODULE SibRouterProofs --------------------------
(***************************************************************************)
(* Proofs about SibRouter for any number of siblings, slots, messages and  *)
(* transaction ids.                                                        *)
(***************************************************************************)
EXTENDS SibRouter, TLAPS, FiniteSetTheorems, SequenceTheorems, WellFoundedInduction

USE ZenonT(20)

USE NumSibsAssumption, VoterAssumption, BoundsAssumption, PayloadAssumption

-----------------------------------------------------------------------------
(***************************************************************************)
(* Facts about the operators                                               *)
(***************************************************************************)

\* A set of slots has a first one: the slot vote_majority starts from exists.
LEMMA MinExists ==
  ASSUME NEW T, T \subseteq Nat, T # {}
  PROVE  \E x \in T : \A y \in T : x <= y
<1> DEFINE R == OpToRel(<, Nat)
<1>1. IsWellFoundedOn(R, Nat)
  BY NatLessThanWellFounded, Zenon
<1>2. \A x, y \in Nat : y < x => <<y, x>> \in R
  BY DEF OpToRel
<1> HIDE DEF R
<1>3. PICK x \in T : \A y \in T : ~(<<y, x>> \in R)
  BY <1>1, WFMin, Zenon
<1>4. ASSUME NEW y \in T PROVE x <= y
  <2>1. x \in Nat /\ y \in Nat
    OBVIOUS
  <2>2. ~(y < x)
    BY <1>2, <1>3, <2>1, Zenon
  <2>3. QED
    BY <2>1, <2>2, SMTT(20)
<1>5. QED
  BY <1>4

\* The slots that are routing form a finite set, so they can be counted.
LEMMA RoutingFinite ==
  IsFiniteSet(Routing) /\ Cardinality(Routing) \in Nat
<1>1. IsFiniteSet(Slots)
  BY FS_Interval, SMTT(20) DEF Slots
<1>2. Routing \in SUBSET Slots
  BY DEF Routing
<1>3. QED
  BY <1>1, <1>2, FS_Subset, FS_CardinalityType

\* A transition that the handlers make keeps the counter equal to the number of
\* routing slots.
LEMMA TransitionCounts ==
  ASSUME TypeOK, RoutingCount, NEW s \in Slots, NEW new,
         n_ospf6_siblings_routing' = RoutingAfter(s, new),
         state' = [state EXCEPT ![s] = new],
         new = "SIB_ROUTING" => EntersRouting(s, new),
         state[s] = "SIB_ROUTING" => LeavesRouting(s, new)
  PROVE  RoutingCount'
<1> USE DEF TypeOK, RoutingCount
<1>1. CASE new = "SIB_ROUTING"
  <2>1. s \notin Routing /\ Routing' = Routing \cup {s}
    BY <1>1 DEF EntersRouting, Routing, States
  <2>2. Cardinality(Routing') = Cardinality(Routing) + 1
    BY <2>1, RoutingFinite, FS_AddElement, Zenon
  <2>3. n_ospf6_siblings_routing' = n_ospf6_siblings_routing + 1
    BY <1>1, SMTT(20) DEF RoutingAfter, LeavesRouting
  <2>4. QED
    BY <2>2, <2>3
<1>2. CASE state[s] = "SIB_ROUTING"
  <2>1. s \in Routing /\ Routing' = Routing \ {s}
    BY <1>2 DEF LeavesRouting, Routing, States
  <2>2. Cardinality(Routing') = Cardinality(Routing) - 1
    BY <2>1, RoutingFinite, FS_RemoveElement, Zenon
  <2>3. n_ospf6_siblings_routing' = n_ospf6_siblings_routing - 1
    BY <1>2, SMTT(20) DEF RoutingAfter, LeavesRouting, EntersRouting
  <2>4. QED
    BY <2>2, <2>3
<1>3. CASE new # "SIB_ROUTING" /\ state[s] # "SIB_ROUTING"
  <2>1. Routing' = Routing
    BY <1>3 DEF Routing
  <2>2. n_ospf6_siblings_routing' = n_ospf6_siblings_routing
    BY <1>3, SMTT(20) DEF RoutingAfter, LeavesRouting, EntersRouting
  <2>3. QED
    BY <2>1, <2>2
<1>4. QED
  BY <1>1, <1>2, <1>3

\* send_leader_elect adds at most one message to what its caller sends.
LEMMA ElectTypes ==
  ASSUME NEW s, NEW replies \in [Slots -> Seq(Replies)],
         send_leader_elect(s, replies, n_ospf6_siblings)
  PROVE  sent' \in [Slots -> Seq(Replies)] /\ running' \in BOOLEAN
<1>1. sent' \in [Slots -> Seq(Replies)]
  <2>1. \A t \in Slots : /\ replies[t] \in Seq(Replies)
                         /\ Append(replies[t], "LEADER_ELECT") \in Seq(Replies)
    BY SMTT(20) DEF Replies
  <2>2. CASE n_ospf6_siblings_routing' = NumSibs
    BY <2>1, <2>2, Zenon DEF send_leader_elect
  <2>3. CASE n_ospf6_siblings_routing' # NumSibs
    BY <2>3 DEF send_leader_elect
  <2>4. QED
    BY <2>2, <2>3
<1>2. running' \in BOOLEAN
  BY Zenon DEF send_leader_elect
<1>3. QED
  BY <1>1, <1>2

\* What a transition sends, and whether it crashes, has the right type.
LEMMA TransitionTypes ==
  ASSUME TypeOK, NEW s \in Slots, NEW new \in States,
         NEW replies \in [Slots -> Seq(Replies)],
         state_transition(s, new, replies)
  PROVE  /\ n_ospf6_siblings_routing' \in Int
         /\ state' \in [Slots -> States]
         /\ out' \in Seq(Msgs)
         /\ sent' \in [Slots -> Seq(Replies)]
         /\ running' \in BOOLEAN
<1>1. n_ospf6_siblings_routing' \in Int
  BY SMTT(20) DEF TypeOK, state_transition, RoutingAfter
<1>2. state' \in [Slots -> States]
  BY DEF TypeOK, state_transition
<1>3. out' \in Seq(Msgs)
  BY SMTT(20) DEF state_transition, NoOut
<1>4. send_leader_elect(s, replies, n_ospf6_siblings)
  BY DEF state_transition
<1>5. sent' \in [Slots -> Seq(Replies)] /\ running' \in BOOLEAN
  BY <1>4, ElectTypes
<1>6. QED
  BY <1>1, <1>2, <1>3, <1>5

\* The empty output and a single reply have the right type.
LEMMA ReplyTypes ==
  ASSUME NEW s \in Slots, NEW r \in Replies
  PROVE  Quiet \in [Slots -> Seq(Replies)] /\ Reply(s, r) \in [Slots -> Seq(Replies)]
<1>1. Quiet \in [Slots -> Seq(Replies)]
  BY SMTT(20) DEF Quiet
<1>2. <<r>> \in Seq(Replies)
  BY SMTT(20)
<1>3. QED
  BY <1>1, <1>2 DEF Reply

\* vote_majority forwards the front of a queue that has one.
LEMMA CandidateType ==
  ASSUME TypeOK, NEW q \in [Slots -> Seq(Msgs)], NonEmpty(q) # {}
  PROVE  Candidate(q) \in Msgs
<1>1. NonEmpty(q) \subseteq Nat /\ NonEmpty(q) \subseteq Slots
  <2>1. n_ospf6_siblings \in 0..MaxSlots
    BY DEF TypeOK
  <2>2. Used \subseteq Nat /\ Used \subseteq Slots
    BY <2>1, SMTT(20) DEF Used, Slots
  <2>3. NonEmpty(q) \subseteq Used
    BY Zenon DEF NonEmpty
  <2>4. QED
    BY <2>2, <2>3, Zenon
<1>2. FirstWithMsg(q) \in NonEmpty(q)
  BY <1>1, MinExists, SMTT(20) DEF FirstWithMsg
<1>3. q[FirstWithMsg(q)] \in Seq(Msgs) /\ q[FirstWithMsg(q)] # <<>>
  BY <1>1, <1>2 DEF NonEmpty
<1>4. QED
  BY <1>3, SMTT(20) DEF Candidate

\* A vote leaves well-typed queues and xids and adds no message.
LEMMA VoteTypes ==
  ASSUME TypeOK, NEW q \in [Slots -> Seq(Msgs)], NEW c \in [Slots -> Xids],
         NEW w, NonEmpty(q) # {}, vote_majority(q, w, c) \/ Keep(q, c)
  PROVE  /\ queue' \in [Slots -> Seq(Msgs)]
         /\ current_egress_xid' \in [Slots -> Xids]
         /\ out' \in Seq(Msgs)
         /\ egress_db' \in Xids
         /\ \A t \in Slots : queue'[t] # <<>> => q[t] # <<>>
<1>1. CASE Keep(q, c)
  BY <1>1, SMTT(20) DEF Keep, NoOut, TypeOK
<1>2. CASE Release(q, c)
  <2>1. queue' \in [Slots -> Seq(Msgs)] /\ \A t \in Slots : queue'[t] # <<>> => q[t] # <<>>
    <3>1. \A t \in Slots : q[t] # <<>> => Tail(q[t]) \in Seq(Msgs)
      BY SMTT(20)
    <3>2. queue' = PopFronts(q)
      BY <1>2 DEF Release
    <3>3. QED
      BY <3>1, <3>2 DEF PopFronts, NonEmpty
  <2>2. current_egress_xid' \in [Slots -> Xids]
    <3>1. \A t \in Used : c[t] < MaxXid
      BY <1>2 DEF Release
    <3>2. current_egress_xid' = AdvanceAll(q, c)
      BY <1>2 DEF Release
    <3>3. QED
      BY <3>1, <3>2, SMTT(20) DEF AdvanceAll, Xids
  <2>3. out' \in Seq(Msgs)
    <3>1. <<Candidate(q)>> \in Seq(Msgs)
      BY CandidateType, SMTT(20)
    <3>2. QED
      BY <1>2, <3>1, SMTT(20) DEF Release
  <2>4. egress_db' \in Xids
    <3>1. StoreLeaderXid(current_egress_xid')
      BY <1>2 DEF Release
    <3>2. leader_sibling # NoSlot => leader_sibling \in Slots
      BY SMTT(20) DEF TypeOK, Used, Slots
    <3>3. QED
      BY <2>2, <3>1, <3>2 DEF StoreLeaderXid, db_set_egress_xid, TypeOK
  <2>5. QED
    BY <2>1, <2>2, <2>3, <2>4
<1>3. QED
  BY <1>1, <1>2 DEF vote_majority

-----------------------------------------------------------------------------
(***************************************************************************)
(* The inductive invariant, action by action                               *)
(***************************************************************************)

\* A state transition of a slot, with whatever its caller does to the slot's
\* xid, flag and queue, preserves the invariant.
LEMMA TransitionStep ==
  ASSUME IInv, NEW s \in Slots, state[s] # "NULL", NEW new \in States \ {"NULL"},
         NEW replies \in [Slots -> Seq(Replies)],
         state_transition(s, new, replies),
         new = "SIB_ROUTING" => EntersRouting(s, new),
         state[s] = "SIB_ROUTING" => LeavesRouting(s, new),
         UNCHANGED <<n_ospf6_siblings, leader_sibling, is_leader, n_routers, egress_db>>,
         current_egress_xid' \in [Slots -> Xids],
         waiting_on_first_egress_msg' \in [Slots -> BOOLEAN],
         queue' \in [Slots -> Seq(Msgs)],
         \A t \in Slots : waiting_on_first_egress_msg'[t] => state'[t] = "SIB_ROUTING",
         \A t \in Slots : queue'[t] # <<>> => state'[t] \in Reading
  PROVE  IInv'
<1>1. state' = [state EXCEPT ![s] = new] /\ n_ospf6_siblings_routing' = RoutingAfter(s, new)
  BY DEF state_transition
<1>2. TypeOK /\ RoutingCount
  BY DEF IInv
<1>3. RoutingCount'
  BY <1>1, <1>2, TransitionCounts, Zenon
<1>4. /\ n_ospf6_siblings_routing' \in Int
      /\ state' \in [Slots -> States]
      /\ out' \in Seq(Msgs)
      /\ sent' \in [Slots -> Seq(Replies)]
      /\ running' \in BOOLEAN
  BY <1>2, TransitionTypes
<1>5. \A t \in Slots : state'[t] = "NULL" <=> t \notin Used'
  BY <1>1, <1>2, SMTT(20) DEF TypeOK, Used
<1>6. TypeOK'
  BY <1>2, <1>4, <1>5, SMTT(20) DEF TypeOK, Used
<1>7. QED
  BY <1>3, <1>6 DEF IInv, WaitingRouting, VotersConnected

\* A request of the handshake that is taken preserves the invariant.
LEMMA RequestStep ==
  ASSUME IInv, NEW s \in Slots, state[s] \in Reading \ {"SIB_ROUTING"}, NEW new \in Reading,
         new = "SIB_ROUTING" => EntersRouting(s, new),
         NEW replies \in [Slots -> Seq(Replies)], TakeRequest(s, new, replies)
  PROVE  IInv'
<1>1. TypeOK /\ WaitingRouting /\ VotersConnected
  BY DEF IInv
<1>2. state' = [state EXCEPT ![s] = new]
  BY DEF TakeRequest, state_transition
<1>3. current_egress_xid' \in [Slots -> Xids]
  BY <1>1, SMTT(20) DEF TypeOK, TakeRequest, Xids
<1>4. /\ waiting_on_first_egress_msg' \in [Slots -> BOOLEAN]
      /\ \A t \in Slots : waiting_on_first_egress_msg'[t] =>
           IF t = s THEN EntersRouting(s, new) ELSE waiting_on_first_egress_msg[t]
  BY <1>1 DEF TypeOK, TakeRequest, RaiseWaiting, WaitingRouting, EntersRouting
<1>5. \A t \in Slots : waiting_on_first_egress_msg'[t] => state'[t] = "SIB_ROUTING"
  BY <1>1, <1>2, <1>4 DEF WaitingRouting, EntersRouting, TypeOK
<1>6. queue' = queue
  BY DEF TakeRequest
<1>7. \A t \in Slots : queue'[t] # <<>> => state'[t] \in Reading
  BY <1>1, <1>2, <1>6 DEF VotersConnected, TypeOK
<1>8. /\ state_transition(s, new, replies)
      /\ UNCHANGED <<n_ospf6_siblings, leader_sibling, is_leader, n_routers, egress_db>>
  BY DEF TakeRequest
<1>9. state[s] # "NULL" /\ new \in States \ {"NULL"} /\ queue' \in [Slots -> Seq(Msgs)]
  BY <1>1, <1>6 DEF Reading, TypeOK
<1>10. QED
  BY <1>3, <1>4, <1>5, <1>7, <1>8, <1>9, TransitionStep, Zenon

\* A step that changes neither states nor the number of slots keeps the counter.
LEMMA SameStates ==
  ASSUME IInv, state' = state, n_ospf6_siblings_routing' = n_ospf6_siblings_routing
  PROVE  RoutingCount'
BY DEF IInv, RoutingCount, Routing

\* A logged request preserves the invariant.
LEMMA IgnoreStep ==
  ASSUME IInv, Ignore
  PROVE  IInv'
<1>1. RoutingCount'
  BY SameStates DEF Ignore, slotVars
<1>2. TypeOK'
  BY ReplyTypes, SMTT(20) DEF IInv, TypeOK, Ignore, slotVars, NoOut, Used, Quiet
<1>3. QED
  BY <1>1, <1>2 DEF IInv, WaitingRouting, VotersConnected, Ignore, slotVars

\* An egress message, voted on or only queued, preserves the invariant.
LEMMA EgressStep ==
  ASSUME IInv, NEW s \in Slots, state[s] \in Reading, NEW m \in Msgs,
         NEW c \in [Slots -> Xids], NEW w \in [Slots -> BOOLEAN],
         \A t \in Slots : w[t] => waiting_on_first_egress_msg[t],
         Egress(s, m, c, w)
  PROVE  IInv'
<1> DEFINE q == [queue EXCEPT ![s] = Append(@, m)]
<1>1. TypeOK /\ WaitingRouting /\ VotersConnected
  BY DEF IInv
<1>2. /\ q \in [Slots -> Seq(Msgs)]
      /\ q[s] # <<>>
      /\ \A t \in Slots : q[t] # <<>> => t = s \/ queue[t] # <<>>
  <2>1. queue \in [Slots -> Seq(Msgs)]
    BY <1>1, SMTT(20) DEF TypeOK
  <2>2. Append(queue[s], m) \in Seq(Msgs) /\ Append(queue[s], m) # <<>>
    BY <2>1, AppendProperties, SMTT(20)
  <2>3. QED
    BY <2>1, <2>2
<1>3. s \in Used
  BY <1>1 DEF TypeOK, Reading
<1>4. NonEmpty(q) # {}
  BY <1>2, <1>3 DEF NonEmpty
<1>5. vote_majority(q, w, c) \/ Keep(q, c) \/ Keep(queue, c)
  BY DEF Egress
<1> HIDE DEF q
<1>6. /\ queue' \in [Slots -> Seq(Msgs)]
      /\ current_egress_xid' \in [Slots -> Xids]
      /\ out' \in Seq(Msgs)
      /\ egress_db' \in Xids
      /\ \A t \in Slots : queue'[t] # <<>> => t = s \/ queue[t] # <<>>
  <2>1. CASE vote_majority(q, w, c) \/ Keep(q, c)
    BY <1>1, <1>2, <1>4, <2>1, VoteTypes, Zenon
  <2>2. CASE Keep(queue, c)
    BY <1>1, <2>2, SMTT(20) DEF Keep, NoOut, TypeOK
  <2>3. QED
    BY <1>5, <2>1, <2>2, SMTT(20)
<1>7. /\ waiting_on_first_egress_msg' = w
      /\ sent' = Quiet
      /\ UNCHANGED <<n_ospf6_siblings, n_ospf6_siblings_routing, leader_sibling, state,
                     is_leader, n_routers, running>>
  BY DEF Egress
<1>8. RoutingCount'
  BY <1>7, SameStates
<1>9. TypeOK'
  BY <1>1, <1>6, <1>7, SMTT(20) DEF TypeOK, Quiet, Used
<1>10. WaitingRouting' /\ VotersConnected'
  BY <1>1, <1>6, <1>7 DEF WaitingRouting, VotersConnected
<1>11. QED
  BY <1>8, <1>9, <1>10, SMTT(20) DEF IInv

\* The initial state: no slot, no message, no count.
LEMMA InitIInv == Init => IInv
<1> SUFFICES ASSUME Init PROVE IInv
  OBVIOUS
<1>1. TypeOK
  BY SMTT(20) DEF Init, TypeOK, Slots, Used, States, Xids, NoSlot, Quiet
<1>2. Routing = {}
  BY DEF Init, Routing
<1>3. RoutingCount
  BY <1>2, FS_EmptySet DEF Init, RoutingCount
<1>4. WaitingRouting /\ VotersConnected
  BY DEF Init, WaitingRouting, VotersConnected
<1>5. QED
  BY <1>1, <1>3, <1>4 DEF IInv

\* A new slot: the counter and the queues are those of the other slots.
LEMMA AcceptNewStep ==
  ASSUME IInv, NEW s \in Slots, AcceptNew(s)
  PROVE  IInv'
<1>1. TypeOK /\ RoutingCount /\ WaitingRouting /\ VotersConnected
  BY DEF IInv
<1>2. state[s] = "NULL" /\ s = n_ospf6_siblings + 1 /\ n_ospf6_siblings' = s
  BY <1>1, SMTT(20) DEF TypeOK, AcceptNew, Used
<1>3. state' = [state EXCEPT ![s] = "SIB_CONNECTING"]
  BY DEF AcceptNew
<1>4. Routing' = Routing
  BY <1>1, <1>2, <1>3 DEF Routing, TypeOK
<1>5. RoutingCount'
  BY <1>1, <1>4 DEF RoutingCount, AcceptNew
<1>6. n_ospf6_siblings \in Nat /\ Used' = Used \cup {s} /\ s \notin Used
  BY <1>1, <1>2, SMTT(20) DEF TypeOK, Used
<1>7. \A t \in Slots : state'[t] = "NULL" <=> t \notin Used'
  BY <1>1, <1>3, <1>6 DEF TypeOK
<1>8. state' \in [Slots -> States] /\ n_ospf6_siblings' \in 0..MaxSlots
  BY <1>1, <1>2, <1>3, SMTT(20) DEF TypeOK, States, Slots
<1>9. running' \in BOOLEAN /\ sent' \in [Slots -> Seq(Replies)] /\ out' \in Seq(Msgs)
  BY SMTT(20) DEF AcceptNew, NoOut, Quiet
<1>10. leader_sibling' \in Used' \cup {NoSlot}
  BY <1>1, <1>6, SMTT(20) DEF TypeOK, AcceptNew
<1>11. TypeOK'
  BY <1>1, <1>7, <1>8, <1>9, <1>10, SMTT(20) DEF TypeOK, AcceptNew
<1>12. WaitingRouting' /\ VotersConnected'
  BY <1>1, <1>2, <1>3 DEF WaitingRouting, VotersConnected, AcceptNew, TypeOK, Reading
<1>13. QED
  BY <1>5, <1>11, <1>12 DEF IInv

\* The three steps that are one state transition: reuse, connected, destroy.
LEMMA ConnectionStep ==
  ASSUME IInv, NEW s \in Slots, AcceptReuse(s) \/ Connected(s) \/ Destroy(s)
  PROVE  IInv'
<1>1. TypeOK /\ WaitingRouting /\ VotersConnected
  BY DEF IInv
<1>2. Quiet \in [Slots -> Seq(Replies)]
  BY SMTT(20) DEF Quiet
<1>3. CASE AcceptReuse(s)
  <2>1. state[s] = "SIB_DISCONNECTED" /\ state' = [state EXCEPT ![s] = "SIB_CONNECTING"]
    BY <1>3 DEF AcceptReuse, Disconnected, state_transition
  <2>2. /\ current_egress_xid' \in [Slots -> Xids]
        /\ waiting_on_first_egress_msg' \in [Slots -> BOOLEAN]
        /\ queue' \in [Slots -> Seq(Msgs)]
    BY <1>1, <1>3, SMTT(20) DEF AcceptReuse, TypeOK, Xids
  <2>3. /\ \A t \in Slots : waiting_on_first_egress_msg'[t] => state'[t] = "SIB_ROUTING"
        /\ \A t \in Slots : queue'[t] # <<>> => state'[t] \in Reading
    BY <1>1, <1>3, <2>1 DEF AcceptReuse, TypeOK, WaitingRouting, VotersConnected
  <2>4. state_transition(s, "SIB_CONNECTING", Quiet)
    BY <1>3 DEF AcceptReuse
  <2>5. UNCHANGED <<n_ospf6_siblings, leader_sibling, is_leader, n_routers, egress_db>>
    BY <1>3 DEF AcceptReuse
  <2>6. "SIB_CONNECTING" \in States \ {"NULL"}
    BY DEF States
  <2>7. QED
    BY <1>2, <2>1, <2>2, <2>3, <2>4, <2>5, <2>6, TransitionStep, Zenon
<1>4. CASE Connected(s)
  <2>1. state[s] = "SIB_CONNECTING" /\ state' = [state EXCEPT ![s] = "SIB_CONNECTED"]
    BY <1>4 DEF Connected, state_transition
  <2>2. /\ current_egress_xid' \in [Slots -> Xids]
        /\ waiting_on_first_egress_msg' \in [Slots -> BOOLEAN]
        /\ queue' \in [Slots -> Seq(Msgs)]
    BY <1>1, <1>4 DEF Connected, TypeOK
  <2>3. /\ \A t \in Slots : waiting_on_first_egress_msg'[t] => state'[t] = "SIB_ROUTING"
        /\ \A t \in Slots : queue'[t] # <<>> => state'[t] \in Reading
    BY <1>1, <1>4, <2>1 DEF Connected, TypeOK, WaitingRouting, VotersConnected, Reading
  <2>4. state_transition(s, "SIB_CONNECTED", Quiet)
    BY <1>4 DEF Connected
  <2>5. UNCHANGED <<n_ospf6_siblings, leader_sibling, is_leader, n_routers, egress_db>>
    BY <1>4 DEF Connected
  <2>6. "SIB_CONNECTED" \in States \ {"NULL"}
    BY DEF States
  <2>7. QED
    BY <1>2, <2>1, <2>2, <2>3, <2>4, <2>5, <2>6, TransitionStep, Zenon
<1>5. CASE Destroy(s)
  <2>1. state[s] # "NULL" /\ state' = [state EXCEPT ![s] = "SIB_DISCONNECTED"]
    BY <1>5 DEF Destroy, Reading, state_transition
  <2>2. /\ current_egress_xid' \in [Slots -> Xids]
        /\ waiting_on_first_egress_msg' \in [Slots -> BOOLEAN]
        /\ queue' \in [Slots -> Seq(Msgs)]
    BY <1>1, <1>5, SMTT(20) DEF Destroy, FreeQueue, TypeOK
  <2>3. /\ \A t \in Slots : waiting_on_first_egress_msg'[t] => state'[t] = "SIB_ROUTING"
        /\ \A t \in Slots : queue'[t] # <<>> => state'[t] \in Reading
    BY <1>1, <1>5, <2>1, SMTT(20) DEF Destroy, FreeQueue, TypeOK, WaitingRouting, VotersConnected
  <2>4. state_transition(s, "SIB_DISCONNECTED", Quiet)
    BY <1>5 DEF Destroy
  <2>5. UNCHANGED <<n_ospf6_siblings, leader_sibling, is_leader, n_routers, egress_db>>
    BY <1>5 DEF Destroy
  <2>6. /\ "SIB_DISCONNECTED" \in States \ {"NULL"}
        /\ state[s] = "SIB_ROUTING" => LeavesRouting(s, "SIB_DISCONNECTED")
    BY DEF States, LeavesRouting
  <2>7. QED
    BY <1>2, <2>1, <2>2, <2>3, <2>4, <2>5, <2>6, TransitionStep, Zenon
<1>6. QED
  BY <1>3, <1>4, <1>5

\* The steps that touch no slot, or only who leads.
LEMMA OtherStep ==
  ASSUME IInv,
         \/ RouterAccept
         \/ BgpTransition
         \/ \E s \in Slots, leads \in BOOLEAN : RedistributeLeaderElect(s, leads)
  PROVE  IInv'
<1>1. TypeOK /\ WaitingRouting /\ VotersConnected
  BY DEF IInv
<1>2. Quiet \in [Slots -> Seq(Replies)]
  BY SMTT(20) DEF Quiet
<1>3. CASE RouterAccept
  <2>1. TypeOK'
    BY <1>1, <1>2, <1>3, SMTT(20) DEF TypeOK, RouterAccept, slotVars, NoOut, Used
  <2>2. QED
    BY <1>1, <1>3, <2>1, SameStates, SMTT(20) DEF IInv, RouterAccept, slotVars, WaitingRouting, VotersConnected
<1>4. CASE BgpTransition
  <2>1. sent' \in [Slots -> Seq(Replies)] /\ running' \in BOOLEAN
    BY <1>2, <1>4, ElectTypes, SMTT(20) DEF BgpTransition
  <2>2. TypeOK'
    BY <1>1, <1>4, <2>1, SMTT(20) DEF TypeOK, BgpTransition, NoOut, Used
  <2>3. QED
    BY <1>1, <1>4, <2>2, SameStates, SMTT(20) DEF IInv, BgpTransition, WaitingRouting, VotersConnected
<1>5. CASE \E s \in Slots, leads \in BOOLEAN : RedistributeLeaderElect(s, leads)
  <2>1. PICK s \in Slots, leads \in BOOLEAN : RedistributeLeaderElect(s, leads)
    BY <1>5
  <2>2. s \in Used
    BY <1>1, <2>1, SMTT(20) DEF RedistributeLeaderElect, Reading, TypeOK
  <2>3. leader_sibling' \in Used \cup {NoSlot} /\ is_leader' \in [Slots -> BOOLEAN]
    BY <1>1, <2>1, <2>2, SMTT(20) DEF RedistributeLeaderElect, TypeOK
  <2>4. running' \in BOOLEAN
    BY <2>1, Zenon DEF RedistributeLeaderElect
  <2>5. TypeOK'
    BY <1>1, <1>2, <2>1, <2>3, <2>4, SMTT(20) DEF TypeOK, RedistributeLeaderElect, NoOut, Used
  <2>6. QED
    BY <1>1, <2>1, <2>5, SameStates, SMTT(20) DEF IInv, RedistributeLeaderElect, WaitingRouting, VotersConnected
<1>6. QED
  BY <1>3, <1>4, <1>5

\* The three requests of the handshake, taken, ignored or, for an address request
\* in another state, only counted.
LEMMA HandshakeStep ==
  ASSUME IInv, NEW s \in Slots, NEW xid \in Xids,
         FeaturesRequest(s, xid) \/ RedistributeRequest(s, xid) \/ IfAddressReq(s, xid)
  PROVE  IInv'
<1>1. TypeOK /\ WaitingRouting /\ VotersConnected
  BY DEF IInv
<1>2. Quiet \in [Slots -> Seq(Replies)] /\ Reply(s, "FEATURES_REPLY") \in [Slots -> Seq(Replies)]
  BY ReplyTypes, SMTT(20) DEF Replies
<1>3. CASE FeaturesRequest(s, xid)
  <2>1. CASE Ignore
    BY <2>1, IgnoreStep, SMTT(20)
  <2>2. CASE /\ state[s] \in {"SIB_CONNECTED", "SIB_REDISTRIBUTE_REQ_RCVD"}
             /\ TakeRequest(s, AfterFeatures(state[s]), Reply(s, "FEATURES_REPLY"))
    <3>1. AfterFeatures(state[s]) \in {"SIB_FEATURES_REQ_RCVD", "SIB_FEATURES_REDIS_REQ_RCVD"}
      BY <2>2 DEF AfterFeatures
    <3>2. QED
      BY <1>2, <2>2, <3>1, RequestStep, Zenon DEF Reading, States
  <2>3. QED
    BY <1>3, <2>1, <2>2 DEF FeaturesRequest
<1>4. CASE RedistributeRequest(s, xid)
  <2>1. CASE Ignore
    BY <2>1, IgnoreStep
  <2>2. CASE /\ state[s] \in {"SIB_CONNECTED", "SIB_FEATURES_REQ_RCVD", "SIB_FEATURES_ADDR_REQ_RCVD"}
             /\ TakeRequest(s, AfterRedistribute(state[s]), Quiet)
    <3>1. /\ AfterRedistribute(state[s]) \in Reading
          /\ AfterRedistribute(state[s]) = "SIB_ROUTING" =>
               EntersRouting(s, AfterRedistribute(state[s]))
      BY <2>2, SMTT(20) DEF AfterRedistribute, Reading, States, EntersRouting
    <3>2. QED
      BY <1>2, <2>2, <3>1, RequestStep DEF Reading, States
  <2>3. QED
    BY <1>4, <2>1, <2>2 DEF RedistributeRequest
<1>5. CASE IfAddressReq(s, xid)
  <2>1. CASE Ignore
    BY <2>1, IgnoreStep
  <2>2. CASE /\ state[s] = "SIB_FEATURES_REQ_RCVD"
             /\ TakeRequest(s, "SIB_FEATURES_ADDR_REQ_RCVD", Quiet)
    BY <1>2, <2>2, RequestStep, Zenon DEF Reading, States
  <2>3. CASE /\ state[s] = "SIB_FEATURES_REDIS_REQ_RCVD"
             /\ TakeRequest(s, "SIB_ROUTING", Quiet)
    BY <1>2, <2>3, RequestStep, Zenon DEF Reading, States, EntersRouting
  <2>4. CASE /\ current_egress_xid[s] < MaxXid
             /\ current_egress_xid' = [current_egress_xid EXCEPT ![s] = @ + 1]
             /\ sent' = Quiet
             /\ NoOut
             /\ UNCHANGED <<n_ospf6_siblings, n_ospf6_siblings_routing, leader_sibling, state,
                            waiting_on_first_egress_msg, is_leader, queue, n_routers,
                            egress_db, running>>
    <3>1. current_egress_xid' \in [Slots -> Xids]
      BY <1>1, <2>4, SMTT(20) DEF TypeOK, Xids
    <3>2. TypeOK'
      BY <1>1, <1>2, <2>4, <3>1, SMTT(20) DEF TypeOK, NoOut, Used
    <3>3. QED
      BY <1>1, <2>4, <3>2, SameStates DEF IInv, WaitingRouting, VotersConnected
  <2>5. QED
    BY <1>5, <2>1, <2>2, <2>3, <2>4, Zenon DEF IfAddressReq
<1>6. QED
  BY <1>3, <1>4, <1>5

\* The two requests that are voted on.
LEMMA VotedStep ==
  ASSUME IInv, NEW s \in Slots, NEW m \in Msgs, Ipv6RouteSet(s, m) \/ ForwardOspf6(s, m)
  PROVE  IInv'
<1>1. TypeOK
  BY DEF IInv
<1>2. CASE Ipv6RouteSet(s, m)
  BY <1>1, <1>2, EgressStep, Zenon DEF Ipv6RouteSet, TypeOK
<1>3. CASE ForwardOspf6(s, m)
  <2>1. FirstXid(s) \in [Slots -> Xids]
    BY <1>1, SMTT(20) DEF FirstXid, TypeOK, NoSlot, Used, Slots
  <2>2. [waiting_on_first_egress_msg EXCEPT ![s] = FALSE] \in [Slots -> BOOLEAN]
    BY <1>1 DEF TypeOK
  <2>3. \A t \in Slots : [waiting_on_first_egress_msg EXCEPT ![s] = FALSE][t]
                            => waiting_on_first_egress_msg[t]
    BY <1>1 DEF TypeOK
  <2>4. QED
    BY <1>3, <2>1, <2>2, <2>3, EgressStep, Zenon DEF ForwardOspf6
<1>4. QED
  BY <1>2, <1>3

\* The divisor of "voter any" from the invariant: the waiting slots are some of the
\* routing ones, so subtracting their number counts the others.
LEMMA HostsFromIInv == IInv => HostsCounted
<1> SUFFICES ASSUME IInv PROVE HostsCounted
  OBVIOUS
<1> DEFINE W == {t \in Used : waiting_on_first_egress_msg[t]}
           H == {t \in Routing : ~waiting_on_first_egress_msg[t]}
<1>1. TypeOK /\ RoutingCount /\ WaitingRouting
  BY DEF IInv
<1>2. IsFiniteSet(Routing)
  BY RoutingFinite
<1>3. W \subseteq Routing
  BY <1>1, SMTT(20) DEF TypeOK, WaitingRouting, Routing, Used, Slots
<1>4. H = Routing \ W
  BY <1>1 DEF TypeOK, Routing
<1>5. IsFiniteSet(W) /\ Cardinality(W) \in Nat /\ Cardinality(Routing) \in Nat
  BY <1>2, <1>3, FS_Subset, FS_CardinalityType, SMTT(20)
<1>6. Routing \cap W = W
  BY <1>3
<1>7. Cardinality(H) = Cardinality(Routing) - Cardinality(W)
  <2>1. Cardinality(Routing \ W) = Cardinality(Routing) - Cardinality(Routing \cap W)
    BY <1>2, FS_Difference, Zenon
  <2>2. QED
    BY <1>4, <1>6, <2>1
<1>8. NumWaiting(waiting_on_first_egress_msg) = Cardinality(W)
  BY DEF NumWaiting
<1>9. QED
  BY <1>1, <1>7, <1>8 DEF HostsCounted, RoutingCount

\* Every step of the controller's sibling handling keeps the inductive invariant.
THEOREM StepIInv == IInv /\ [Next]_vars => IInv'
<1> SUFFICES ASSUME IInv, [Next]_vars PROVE IInv'
  OBVIOUS
<1>1. ASSUME NEW s \in Slots, AcceptNew(s) PROVE IInv'
  BY <1>1, AcceptNewStep
<1>2. ASSUME NEW s \in Slots, AcceptReuse(s) \/ Connected(s) \/ Destroy(s) PROVE IInv'
  BY <1>2, ConnectionStep
<1>3. ASSUME NEW s \in Slots, NEW xid \in Xids,
             FeaturesRequest(s, xid) \/ RedistributeRequest(s, xid) \/ IfAddressReq(s, xid)
      PROVE  IInv'
  BY <1>3, HandshakeStep
<1>4. ASSUME NEW s \in Slots, NEW m \in Msgs, Ipv6RouteSet(s, m) \/ ForwardOspf6(s, m)
      PROVE  IInv'
  BY <1>4, VotedStep, SMTT(20)
<1>5. ASSUME \/ RouterAccept
             \/ BgpTransition
             \/ \E s \in Slots, leads \in BOOLEAN : RedistributeLeaderElect(s, leads)
      PROVE  IInv'
  BY <1>5, OtherStep, SMTT(20)
<1>6. CASE UNCHANGED vars
  BY <1>6 DEF vars, slotVars, IInv, TypeOK, Used, RoutingCount, Routing, WaitingRouting,
              VotersConnected
<1>7. QED
  BY <1>1, <1>2, <1>3, <1>4, <1>5, <1>6 DEF Next

\* The inductive invariant holds in every reachable state, for any number of
\* siblings, slots and messages and for both kinds of vote.
THEOREM InvariantHolds == Spec => []IInv
<1>1. IInv /\ [Next]_vars => IInv'
  BY StepIInv
<1>2. QED
  BY <1>1, InitIInv, PTL DEF Spec

\* The variables of the controller's slots keep their types.
THEOREM TypeCorrect == Spec => []TypeOK
<1>1. IInv => TypeOK
  BY SMTT(20) DEF IInv
<1>2. QED
  BY <1>1, InvariantHolds, PTL

\* n_ospf6_siblings_routing is the number of slots in SIB_ROUTING, after any
\* sequence of handshakes, disconnections, reuses of a slot and BGP connections.
THEOREM RoutingCounted == Spec => []RoutingCount
<1>1. IInv => RoutingCount
  BY DEF IInv
<1>2. QED
  BY <1>1, InvariantHolds, PTL

\* The divisor of "voter any" is the number of routing slots past their first
\* egress message; in particular it is never negative.
THEOREM HostsAlwaysCounted == Spec => []HostsCounted
BY HostsFromIInv, InvariantHolds, PTL

\* Only a connected slot has queued messages, so a disconnected sibling's old
\* messages are never a vote.
THEOREM VotersAlwaysConnected == Spec => []VotersConnected
<1>1. IInv => VotersConnected
  BY DEF IInv
<1>2. QED
  BY <1>1, InvariantHolds, PTL
=============================================================================
