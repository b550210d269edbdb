-------------------------- MODULE SibSystemProofs --------------------------
(***************************************************************************)
(* The vote masks a faulty minority: Integrity of SibSystem for any number *)
(* of siblings, slots, messages, crashes and restarts.                     *)
(***************************************************************************)
EXTENDS SibSystemInv, TLAPS, FiniteSetTheorems, SequenceTheorems

USE NumSibsAssumption, VoterAssumption, BoundsAssumption, PayloadAssumption,
    FaultyAssumption, ContentAssumption

-----------------------------------------------------------------------------
(***************************************************************************)
(* Facts about the operators                                               *)
(***************************************************************************)

\* No sibling is the one that is gone.
LEMMA GoneIsGood == EgressOf(NoSib) = GoodMsg
BY DEF EgressOf, NoSib, Sibs

\* A majority of all siblings agrees on the front of its queues only if a good one
\* does: EqualFronts with more than half of NumSibs has a slot of a good sibling.
LEMMA MajorityHasGood ==
  ASSUME FaultyMinority, Shape, OneSlot, Numbers, NEW q,
         OverHalf(Cardinality(EqualFronts(q)), NumSibs)
  PROVE  \E t \in EqualFronts(q) : t \in Slots /\ peer[t] \notin Faulty
<1> DEFINE E == EqualFronts(q)
<1>1. E \subseteq Slots
  BY DEF EqualFronts, NonEmpty, Used, Slots, Numbers
<1>2. IsFiniteSet(Slots) /\ IsFiniteSet(Sibs)
  BY FS_Interval DEF Slots, Sibs
<1>3. IsFiniteSet(E) /\ IsFiniteSet(Faulty)
  BY <1>1, <1>2, FS_Subset
<1>4. Cardinality(E) \in Nat /\ Cardinality(Faulty) \in Nat
  BY <1>3, FS_CardinalityType
<1>5. 2 * Cardinality(E) > NumSibs
  BY DEF OverHalf
<1>6. Cardinality(Faulty) < Cardinality(E)
  BY <1>4, <1>5 DEF FaultyMinority
<1> HIDE DEF E
<1>7. SUFFICES ASSUME \A t \in E : peer[t] \in Faulty PROVE FALSE
  BY <1>1 DEF E
<1> DEFINE f == [t \in E |-> peer[t]]
<1>8. f \in [E -> Faulty]
  BY <1>7
<1> HIDE DEF f
<1>9. \E x, y \in E : x # y /\ f[x] = f[y]
  BY <1>3, <1>6, <1>8, FS_PigeonHole, SMTT(20)
<1>10. QED
  BY <1>1, <1>7, <1>9 DEF OneSlot, f

\* What vote_majority and its callers do to the queues when slot s gets message m.
LEMMA EgressKeeps ==
  ASSUME TInv, NEW s \in Slots, NEW m \in EgressOf(peer[s]),
         s <= n_ospf6_siblings, NEW c \in [Slots -> Nat], NEW w,
         Egress(s, m, c, w)
  PROVE  /\ DOMAIN queue' = Slots
         /\ \A t \in Slots : queue'[t] \in Seq(EgressOf(peer[t]))
         /\ \A t \in Slots : t > n_ospf6_siblings => queue'[t] = <<>>
         /\ current_egress_xid' \in [Slots -> Nat] /\ egress_db' \in Nat
<1> DEFINE q == [queue EXCEPT ![s] = Append(@, m)]
           Queues(r) == /\ DOMAIN r = Slots
                        /\ \A t \in Slots : r[t] \in Seq(EgressOf(peer[t]))
                        /\ \A t \in Slots : t > n_ospf6_siblings => r[t] = <<>>
<1>1. Queues(queue)
  BY DEF TInv, Shape, SlotAt
<1>2. Append(queue[s], m) \in Seq(EgressOf(peer[s]))
  BY <1>1, AppendProperties
<1>3. Queues(q)
  <2>1. DOMAIN q = Slots /\ \A t \in Slots : q[t] = IF t = s THEN Append(queue[s], m) ELSE queue[t]
    BY <1>1
  <2>2. ~(s > n_ospf6_siblings)
    BY DEF TInv, Numbers, Slots
  <2> HIDE DEF q
  <2>3. QED
    BY <1>1, <1>2, <2>1, <2>2, Zenon
<1>4. Release(q, c) \/ Keep(q, c) \/ Keep(queue, c)
  BY DEF Egress, vote_majority
<1> HIDE DEF q
<1>5. CASE Keep(q, c) \/ Keep(queue, c)
  BY <1>1, <1>3, <1>5, SMTT(20) DEF Keep, TInv, Numbers
<1>6. CASE Release(q, c)
  <2>1. ASSUME NEW t \in Slots, q[t] # <<>>
        PROVE  Head(q[t]) \in EgressOf(peer[t]) /\ Tail(q[t]) \in Seq(EgressOf(peer[t]))
    BY <1>3, <2>1, HeadTailProperties
  <2>2. Queues(queue')
    BY <1>3, <1>6, <2>1, Zenon DEF Release, PopFronts, NonEmpty, Used, TInv, Numbers, Slots
  <2>5. current_egress_xid' \in [Slots -> Nat]
    BY <1>6 DEF Release, AdvanceAll
  <2>6. egress_db' \in Nat
    BY <1>6, <2>5 DEF Release, StoreLeaderXid, db_set_egress_xid, TInv, Numbers
  <2>7. QED
    BY <2>2, <2>5, <2>6
<1>7. QED
  BY <1>4, <1>5, <1>6

\* What reaches the router: a message that a majority agrees on, so a good one.
LEMMA EgressGood ==
  ASSUME TInv, FaultyMinority, NEW s \in Slots, NEW m \in EgressOf(peer[s]), NEW c, NEW w,
         Egress(s, m, c, w)
  PROVE  out' \in Seq(GoodMsg)
<1> DEFINE q == [queue EXCEPT ![s] = Append(@, m)]
<1>1. \A t \in Slots : q[t] \in Seq(EgressOf(peer[t]))
  <2>1. Append(queue[s], m) \in Seq(EgressOf(peer[s]))
    BY AppendProperties DEF TInv, SlotAt
  <2>2. QED
    BY <2>1 DEF TInv, Shape, SlotAt
<1>2. \/ Release(q, c) /\ OverHalf(Cardinality(EqualFronts(q)), NumSibs)
      \/ out' = <<>>
  BY DEF Egress, vote_majority, num_hosts, FaultyMinority, Keep, NoOut
<1> HIDE DEF q
<1>3. CASE Release(q, c) /\ OverHalf(Cardinality(EqualFronts(q)), NumSibs)
  <2>1. PICK t \in EqualFronts(q) : t \in Slots /\ peer[t] \notin Faulty
    BY <1>3, MajorityHasGood DEF TInv
  <2>2. Head(q[t]) = Candidate(q) /\ q[t] # <<>>
    BY <2>1 DEF EqualFronts, NonEmpty
  <2>3. Candidate(q) \in GoodMsg
    BY <1>1, <2>1, <2>2, HeadTailProperties, SMTT(20) DEF EgressOf
  <2>4. QED
    BY <1>3, <2>3, EmptySeq DEF Release
<1>4. QED
  BY <1>2, <1>3, EmptySeq, Zenon

\* A step that changes no queue, no connection and no number but one that stays one.
LEMMA QuietStep ==
  ASSUME TInv, Numbers', UNCHANGED <<peer, queue>>,
         DOMAIN toCtrl' = Slots,
         \A s \in Slots : toCtrl'[s] \in Seq(WrittenBy(peer[s])),
         n_ospf6_siblings' = n_ospf6_siblings,
         \A s \in Slots : state[s] = "NULL" => state'[s] = "NULL"
  PROVE  TInv'
<1>1. Shape' /\ OneSlot'
  BY DEF TInv, Shape, OneSlot
<1>2. ASSUME NEW s \in Slots PROVE SlotAt(s)'
  BY DEF TInv, SlotAt
<1>3. QED
  BY <1>1, <1>2 DEF TInv

\* What a process writes joins what is on its way.
LEMMA WriteKeeps ==
  ASSUME TInv, NEW p \in Sibs, NEW msgs \in Seq(WrittenBy(p)), Write(p, msgs)
  PROVE  DOMAIN toCtrl' = Slots /\ \A s \in Slots : toCtrl'[s] \in Seq(WrittenBy(peer[s]))
<1>1. \A s \in Slots : toCtrl[s] \in Seq(WrittenBy(peer[s]))
  BY DEF TInv, SlotAt
<1>2. ASSUME NEW s \in Slots, peer[s] = p PROVE toCtrl[s] \o msgs \in Seq(WrittenBy(p))
  BY <1>1, <1>2, ConcatProperties
<1>3. QED
  BY <1>1, <1>2, Zenon DEF Write

-----------------------------------------------------------------------------
(***************************************************************************)
(* Every step keeps the invariant                                          *)
(***************************************************************************)

\* Nothing has been sent.
LEMMA SysInitInv == SysInit => SInv
<1> SUFFICES ASSUME SysInit PROVE SInv
  OBVIOUS
<1> USE DEF SysInit, Booted, Init
<1>1. Numbers /\ Shape
  BY DEF Numbers, Shape, NoSlot
<1>2. OneSlot
  BY DEF OneSlot, Sibs, NoSib
<1>3. ASSUME NEW s \in Slots PROVE SlotAt(s)
  BY EmptySeq DEF SlotAt
<1>4. wire \in Seq(GoodMsg)
  BY EmptySeq
<1>5. QED
  BY <1>1, <1>2, <1>3, <1>4 DEF SInv, TInv

\* A process connects to an empty slot: a disconnected one, whose queue is emptied,
\* or the next one that was never used.
LEMMA ConnectStep ==
  ASSUME TInv, NEW p \in Sibs, NEW s \in Slots, Connect(p, s)
  PROVE  TInv'
<1>1. /\ SlotsOf(p) = {} /\ peer' = [peer EXCEPT ![s] = p]
      /\ toCtrl' = [toCtrl EXCEPT ![s] = <<>>] /\ wire' = wire /\ xid' = xid
      /\ AcceptReuse(s) \/ AcceptNew(s)
  BY DEF Connect
<1>2. Shape'
  <2>1. DOMAIN queue' = Slots
    BY <1>1 DEF AcceptReuse, AcceptNew, TInv, Shape
  <2>2. QED
    BY <1>1, <2>1, SMTT(20) DEF TInv, Shape
<1>3. OneSlot'
  BY <1>1, SMTT(20) DEF TInv, Shape, OneSlot, SlotsOf
<1>4. /\ n_ospf6_siblings' \in {n_ospf6_siblings, n_ospf6_siblings + 1}
      /\ s <= n_ospf6_siblings' /\ n_ospf6_siblings' \in 0 .. MaxSlots
      /\ DOMAIN state' = Slots /\ \A t \in Slots \ {s} : state'[t] = state[t]
      /\ queue'[s] = <<>> /\ \A t \in Slots \ {s} : queue'[t] = queue[t]
  <2>1. CASE AcceptReuse(s)
    BY <2>1, SMTT(20) DEF AcceptReuse, Disconnected, Used, state_transition, TInv, Numbers, Shape, Slots
  <2>2. CASE AcceptNew(s)
    <3>1. queue[s] = <<>>
      BY <2>2, SMTT(20) DEF AcceptNew, TInv, SlotAt, Numbers, Slots
    <3>2. QED
      BY <2>2, <3>1, SMTT(20) DEF AcceptNew, TInv, Numbers, Slots
  <2>3. QED
    BY <1>1, <2>1, <2>2, SMTT(20)
<1>5. Numbers'
  <2>1. leader_sibling' = leader_sibling /\ egress_db' = egress_db
    BY <1>1 DEF AcceptReuse, AcceptNew
  <2>2. current_egress_xid' \in [Slots -> Nat]
    <3>1. \/ current_egress_xid' = [current_egress_xid EXCEPT ![s] = 0]
          \/ current_egress_xid' = current_egress_xid
      BY <1>1 DEF AcceptReuse, AcceptNew
    <3>2. QED
      BY <3>1 DEF TInv, Numbers
  <2>3. QED
    BY <1>1, <1>4, <2>1, <2>2, SMTT(20) DEF TInv, Numbers
<1>6. ASSUME NEW t \in Slots PROVE SlotAt(t)'
  <2>1. CASE t = s
    <3>1. queue'[s] = <<>> /\ toCtrl'[s] = <<>>
      BY <1>1, <1>4 DEF TInv, Shape
    <3>2. ~(s > n_ospf6_siblings')
      BY <1>4 DEF Slots
    <3>3. QED
      BY <2>1, <3>1, <3>2, EmptySeq, SMTT(20) DEF SlotAt
  <2>2. CASE t # s
    <3>1. peer'[t] = peer[t] /\ toCtrl'[t] = toCtrl[t] /\ queue'[t] = queue[t] /\ state'[t] = state[t]
      BY <1>1, <1>4, <2>2, SMTT(20) DEF TInv, Shape
    <3>2. t > n_ospf6_siblings' => t > n_ospf6_siblings
      BY <1>4 DEF TInv, Numbers, Slots
    <3>3. QED
      BY <3>1, <3>2, SMTT(20) DEF TInv, SlotAt
  <2>3. QED
    BY <2>1, <2>2
<1>7. QED
  BY <1>2, <1>3, <1>5, <1>6, SMTT(20) DEF TInv

\* A connection that has ended takes its messages with it.
LEMMA DestroyStep ==
  ASSUME TInv, NEW s \in Slots, CtrlDestroy(s)
  PROVE  TInv'
<1>1. /\ UNCHANGED <<peer, xid, wire, n_ospf6_siblings, leader_sibling, current_egress_xid, egress_db>>
      /\ queue' = [queue EXCEPT ![s] = <<>>] /\ toCtrl' = [toCtrl EXCEPT ![s] = <<>>]
      /\ state' = [state EXCEPT ![s] = "SIB_DISCONNECTED"] /\ state[s] \in Reading
  BY DEF CtrlDestroy, Destroy, FreeQueue, state_transition
<1>2. Numbers' /\ Shape' /\ OneSlot'
  BY <1>1 DEF TInv, Numbers, Shape, OneSlot
<1>3. ASSUME NEW t \in Slots PROVE SlotAt(t)'
  <2>1. CASE t = s
    <3>1. queue'[s] = <<>> /\ toCtrl'[s] = <<>>
      BY <1>1 DEF TInv, Shape
    <3>2. ~(s > n_ospf6_siblings')
      BY <1>1 DEF TInv, SlotAt, Reading
    <3>3. QED
      BY <2>1, <3>1, <3>2, EmptySeq DEF SlotAt
  <2>2. CASE t # s
    <3>1. peer'[t] = peer[t] /\ toCtrl'[t] = toCtrl[t] /\ queue'[t] = queue[t] /\ state'[t] = state[t]
      BY <1>1, <2>2 DEF TInv, Shape, Numbers
    <3>2. QED
      BY <1>1, <3>1 DEF TInv, SlotAt
  <2>3. QED
    BY <2>1, <2>2
<1>4. QED
  BY <1>1, <1>2, <1>3, SMTT(20) DEF TInv

\* What the requests of the handshake and the outcome of an election may change.
HandshakeEffect(s) ==
  /\ UNCHANGED <<n_ospf6_siblings, queue, egress_db>> /\ out' = <<>>
  /\ leader_sibling' \in {leader_sibling, s}
  /\ current_egress_xid' \in {current_egress_xid, [current_egress_xid EXCEPT ![s] = @ + 1]}
  /\ DOMAIN state' = Slots
  /\ \A t \in Slots : state[t] = "NULL" => state'[t] = "NULL"

\* Every request but an egress message has no other effect.
LEMMA RequestEffect ==
  ASSUME Numbers, NEW s \in Slots,
         \/ \E x : FeaturesRequest(s, x) \/ RedistributeRequest(s, x) \/ IfAddressReq(s, x)
         \/ \E leads : RedistributeLeaderElect(s, leads)
  PROVE  HandshakeEffect(s)
<1>1. CASE Ignore
  BY <1>1 DEF Ignore, NoOut, slotVars, HandshakeEffect, Numbers
<1>2. ASSUME NEW new, NEW replies, TakeRequest(s, new, replies), state[s] \in Reading
      PROVE  HandshakeEffect(s)
  BY <1>2, SMTT(20) DEF TakeRequest, state_transition, NoOut, HandshakeEffect, Numbers, Reading
<1>3. ASSUME NEW x, FeaturesRequest(s, x) PROVE HandshakeEffect(s)
  BY <1>1, <1>2, <1>3, SMTT(20) DEF FeaturesRequest
<1>4. ASSUME NEW x, RedistributeRequest(s, x) PROVE HandshakeEffect(s)
  BY <1>1, <1>2, <1>4, SMTT(20) DEF RedistributeRequest
<1>5. ASSUME NEW x, IfAddressReq(s, x) PROVE HandshakeEffect(s)
  <2>1. CASE /\ current_egress_xid' = [current_egress_xid EXCEPT ![s] = @ + 1] /\ NoOut
             /\ UNCHANGED <<n_ospf6_siblings, leader_sibling, state, queue, egress_db>>
    BY <2>1 DEF NoOut, HandshakeEffect, Numbers
  <2>2. QED
    BY <1>1, <1>2, <1>5, <2>1, Zenon DEF IfAddressReq
<1>6. ASSUME NEW leads, RedistributeLeaderElect(s, leads) PROVE HandshakeEffect(s)
  BY <1>6 DEF RedistributeLeaderElect, NoOut, HandshakeEffect, Numbers
<1>7. QED
  BY <1>3, <1>4, <1>5, <1>6, SMTT(20)

\* A message is read from a connection: a request moves the handshake on, an egress
\* message joins its slot's queue and may be voted on.
LEMMA RecvStep ==
  ASSUME TInv, NEW s \in Slots, CtrlRecv(s)
  PROVE  TInv'
<1> DEFINE m == Head(toCtrl[s])
<1>1. /\ toCtrl[s] # <<>> /\ CtrlProcess(s, m) /\ toCtrl' = [toCtrl EXCEPT ![s] = Tail(@)]
      /\ peer' = peer /\ xid' = xid /\ wire' = wire \o out'
  BY DEF CtrlRecv, History
<1>2. m \in WrittenBy(peer[s]) /\ Tail(toCtrl[s]) \in Seq(WrittenBy(peer[s]))
  BY <1>1, HeadTailProperties, Zenon DEF TInv, SlotAt
<1>3. DOMAIN toCtrl' = Slots /\ \A t \in Slots : toCtrl'[t] \in Seq(WrittenBy(peer[t]))
  BY <1>1, <1>2 DEF TInv, Shape, SlotAt
<1> HIDE DEF m
<1>4. CASE m.type = "EGRESS"
  <2>1. m.msg \in EgressOf(peer[s])
    BY <1>2, <1>4 DEF WrittenBy
  <2>0. PICK w : \E c \in [Slots -> Nat] : Egress(s, m.msg, c, w)
    <3>1. Ipv6RouteSet(s, m.msg) \/ ForwardOspf6(s, m.msg)
      BY <1>1, <1>4, SMTT(20) DEF CtrlProcess
    <3>2. current_egress_xid \in [Slots -> Nat] /\ FirstXid(s) \in [Slots -> Nat]
      BY DEF TInv, Numbers, FirstXid
    <3>3. QED
      BY <3>1, <3>2 DEF Ipv6RouteSet, ForwardOspf6
  <2>2. PICK c \in [Slots -> Nat] : Egress(s, m.msg, c, w)
    BY <2>0
  <2>3. state[s] \in Reading
    BY <1>1, <1>4, SMTT(20) DEF CtrlProcess, Ipv6RouteSet, ForwardOspf6
  <2>4. s <= n_ospf6_siblings
    BY <2>3, SMTT(20) DEF TInv, SlotAt, Numbers, Reading, Slots
  <2>5. /\ DOMAIN queue' = Slots
        /\ \A t \in Slots : queue'[t] \in Seq(EgressOf(peer[t]))
        /\ \A t \in Slots : t > n_ospf6_siblings => queue'[t] = <<>>
        /\ current_egress_xid' \in [Slots -> Nat] /\ egress_db' \in Nat
    BY <2>1, <2>2, <2>4, EgressKeeps, ZenonT(20)
  <2>6. UNCHANGED <<n_ospf6_siblings, leader_sibling, state>>
    BY <2>2, Zenon DEF Egress
  <2>7. Numbers' /\ Shape' /\ OneSlot'
    BY <1>1, <1>3, <2>5, <2>6, SMTT(20) DEF TInv, Numbers, Shape, OneSlot
  <2>8. ASSUME NEW t \in Slots PROVE SlotAt(t)'
    <3>1. SlotAt(t)
      BY Zenon DEF TInv
    <3>2. QED
      BY <1>1, <1>3, <2>5, <2>6, <3>1, ZenonT(20) DEF SlotAt
  <2>9. QED
    BY <2>7, <2>8 DEF TInv
<1>5. CASE m.type # "EGRESS"
  <2>1. HandshakeEffect(s)
    BY <1>1, <1>5, RequestEffect, SMTT(20) DEF CtrlProcess, TInv
  <2>3. Numbers'
    BY <1>1, <2>1, SMTT(20) DEF TInv, Numbers, HandshakeEffect
  <2>4. QED
    BY <1>1, <1>3, <2>1, <2>3, QuietStep, SMTT(20) DEF HandshakeEffect
<1>6. QED
  BY <1>4, <1>5

\* The other steps of the controller.
LEMMA IdleControllerStep ==
  ASSUME TInv, CtrlRouterAccept \/ \E s \in Slots : CtrlConnected(s)
  PROVE  TInv'
<1>1. /\ UNCHANGED <<peer, toCtrl, xid, wire, n_ospf6_siblings, leader_sibling,
                     current_egress_xid, egress_db, queue>>
      /\ DOMAIN state' = Slots /\ \A s \in Slots : state[s] = "NULL" => state'[s] = "NULL"
  <2>1. CASE CtrlRouterAccept
    BY <2>1, SMTT(20) DEF CtrlRouterAccept, RouterAccept, sibVars, slotVars, TInv, Numbers
  <2>2. ASSUME NEW s \in Slots, CtrlConnected(s) PROVE <1>1
    BY <2>2, SMTT(20) DEF CtrlConnected, Connected, state_transition, TInv, Numbers
  <2>3. QED
    BY <2>1, <2>2, SMTT(20)
<1>2. Numbers'
  BY <1>1, SMTT(20) DEF TInv, Numbers
<1>3. DOMAIN toCtrl' = Slots /\ \A s \in Slots : toCtrl'[s] \in Seq(WrittenBy(peer[s]))
  BY <1>1 DEF TInv, Shape, SlotAt
<1>4. QED
  BY <1>1, <1>2, <1>3, QuietStep, SMTT(20)

\* A sibling answers the controller, is elected, or sends: a good one what is correct.
LEMMA SiblingStep ==
  ASSUME TInv, NEW p \in Sibs,
         \/ \E s \in Slots : SibRecv(p, s)
         \/ SibElected(p) \/ RestartDone(p) \/ Restart(p)
         \/ \E val \in Payload : SibSend(p, val)
  PROVE  TInv'
<1> DEFINE Kept == UNCHANGED <<peer, wire, n_ospf6_siblings, leader_sibling, state,
                               current_egress_xid, egress_db, queue>>
<1>1. ASSUME Kept, xid' \in [Sibs -> Nat],
             \/ toCtrl' = toCtrl
             \/ \E msgs \in Seq(WrittenBy(p)) : Write(p, msgs)
      PROVE  TInv'
  <2>1. Numbers'
    BY <1>1, SMTT(20) DEF TInv, Numbers
  <2>2. DOMAIN toCtrl' = Slots /\ \A s \in Slots : toCtrl'[s] \in Seq(WrittenBy(peer[s]))
    BY <1>1, WriteKeeps, SMTT(20) DEF TInv, Shape, SlotAt
  <2>3. QED
    BY <1>1, <2>1, <2>2, QuietStep, Zenon DEF TInv, Numbers
<1>2. xid \in [Sibs -> Nat] /\ egress_db \in Nat
  BY SMTT(20) DEF TInv, Numbers
<1>3. ASSUME NEW t \in {"FEATURES_REQUEST", "REDISTRIBUTE_REQUEST", "IF_ADDRESS_REQ"}, NEW x \in Nat
      PROVE  Request(t, x) \in WrittenBy(p)
  BY SMTT(20) DEF Request, WrittenBy
<1>4. ASSUME NEW s \in Slots, SibRecv(p, s) PROVE TInv'
  <2>1. Kept
    BY <1>4 DEF SibRecv, CtrlIdle, slotVars
  <2>2. CASE SibHello(p)
    <3>1. <<Request("FEATURES_REQUEST", xid[p]), Request("REDISTRIBUTE_REQUEST", xid[p] + 1)>>
            \in Seq(WrittenBy(p))
      BY <1>2, <1>3
    <3>2. xid' \in [Sibs -> Nat]
      BY <1>2, <2>2 DEF SibHello
    <3>3. QED
      BY <1>1, <2>1, <2>2, <3>1, <3>2, Zenon DEF SibHello
  <2>3. CASE SibFeaturesReply(p)
    <3>1. ctrl_client_if_addr_req(xid[p]) \in Seq(WrittenBy(p))
      BY <1>2, <1>3 DEF ctrl_client_if_addr_req
    <3>2. xid' \in [Sibs -> Nat]
      BY <1>2, <2>3, SMTT(20) DEF SibFeaturesReply
    <3>3. QED
      BY <1>1, <2>1, <2>3, <3>1, <3>2 DEF SibFeaturesReply
  <2>4. CASE SibLeaderElect(p)
    <3>1. <<[type |-> "REDISTRIBUTE_LEADER_ELECT", leads |-> (Head(order) = p)]>> \in Seq(WrittenBy(p))
      BY DEF WrittenBy
    <3>2. QED
      BY <1>1, <1>2, <2>1, <2>4, <3>1, Zenon DEF SibLeaderElect
  <2>5. QED
    BY <1>4, <2>2, <2>3, <2>4, SMTT(20) DEF SibRecv
<1>5. CASE SibElected(p) \/ RestartDone(p)
  BY <1>1, <1>2, <1>5, SMTT(20) DEF SibElected, RestartDone, CtrlIdle, slotVars
<1>6. CASE Restart(p)
  BY <1>1, <1>2, <1>6, SMTT(20) DEF Restart, CtrlIdle, slotVars
<1>7. ASSUME NEW val \in Payload, SibSend(p, val) PROVE TInv'
  <2> DEFINE x == IF proc[p].sync THEN synchronize_current_xid ELSE xid[p]
             e == [type |-> "EGRESS", msg |-> [xid |-> x, val |-> val]]
  <2>1. Kept /\ Write(p, <<e>>) /\ xid' = [xid EXCEPT ![p] = x + 1]
    BY <1>7 DEF SibSend, CtrlIdle, slotVars
  <2>2. p \in Faulty \/ val = Correct(x)
    BY <1>7 DEF SibSend
  <2>3. x \in Nat /\ x \in Xids
    BY <1>2, <1>7, SMTT(20) DEF SibSend, synchronize_current_xid, db_get_egress_xid, Xids
  <2>4. e \in WrittenBy(p)
    BY <2>2, <2>3, Zenon DEF WrittenBy, EgressOf, Msgs, GoodMsg
  <2> HIDE DEF e, x
  <2>5. <<e>> \in Seq(WrittenBy(p))
    BY <2>4, SMTT(20)
  <2>6. xid' \in [Sibs -> Nat]
    BY <1>2, <2>1, <2>3, SMTT(20)
  <2>7. QED
    BY <1>1, <2>1, <2>5, <2>6, Zenon
<1>8. QED
  BY <1>4, <1>5, <1>6, <1>7, SMTT(20)

\* Only a good sibling crashes; its slot keeps what it sent until it is destroyed.
LEMMA CrashStep ==
  ASSUME TInv, FaultyStay, NEW p \in Sibs, Crash(p)
  PROVE  TInv'
<1>1. /\ UNCHANGED <<toCtrl, xid, wire, n_ospf6_siblings, leader_sibling, state,
                     current_egress_xid, egress_db, queue>>
      /\ peer' = [s \in Slots |-> IF peer[s] = p THEN NoSib ELSE peer[s]]
  BY ZenonT(20) DEF Crash, CtrlIdle, slotVars
<1>2. p \notin Faulty
  BY Zenon DEF Crash, FaultyStay
<1>3. Numbers' /\ Shape' /\ OneSlot'
  <2>1. Numbers'
    <3>1. Numbers
      BY Zenon DEF TInv
    <3>2. QED
      BY <1>1, <3>1, ZenonT(20) DEF Numbers
  <2>2. Shape'
    <3>1. Shape
      BY Zenon DEF TInv
    <3>2. QED
      BY <1>1, <3>1, ZenonT(20) DEF Shape
  <2>3. OneSlot'
    <3>1. OneSlot
      BY Zenon DEF TInv
    <3>2. NoSib \notin Sibs
      BY SMTT(20) DEF Sibs, NoSib
    <3>3. ASSUME NEW s \in Slots PROVE peer'[s] \in Sibs => peer'[s] = peer[s]
      BY <1>1, <3>2, SMTT(20)
    <3>4. QED
      BY <3>1, <3>3, ZenonT(20) DEF OneSlot
  <2>4. QED
    BY <2>1, <2>2, <2>3, Zenon
<1>4. ASSUME NEW s \in Slots PROVE SlotAt(s)'
  <2>1. EgressOf(peer'[s]) = EgressOf(peer[s])
    BY <1>1, <1>2, GoneIsGood, SMTT(20) DEF EgressOf
  <2>2. WrittenBy(peer'[s]) = WrittenBy(peer[s])
    BY <2>1 DEF WrittenBy
  <2>3. SlotAt(s)
    BY Zenon DEF TInv
  <2>4. queue'[s] = queue[s] /\ toCtrl'[s] = toCtrl[s] /\ n_ospf6_siblings' = n_ospf6_siblings
        /\ state'[s] = state[s]
    BY <1>1, Zenon
  <2>5. QED
    BY <2>1, <2>2, <2>3, <2>4, Zenon DEF SlotAt
<1>5. QED
  BY <1>3, <1>4, Zenon DEF TInv

\* Every step of the system keeps the types and who sent what.
LEMMA SysNextTInv ==
  ASSUME TInv, FaultyStay, [SysNext]_sysVars
  PROVE  TInv'
<1>1. CASE UNCHANGED sysVars
  BY <1>1, SMTT(20) DEF sysVars, vars, slotVars, sibVars, TInv, Numbers, Shape, OneSlot, SlotAt
<1>2. CASE SysNext
  BY <1>2, IdleControllerStep, DestroyStep, RecvStep, ConnectStep, SiblingStep, CrashStep, SMTT(20) DEF SysNext
<1>3. QED
  BY <1>1, <1>2, SMTT(20)

\* Only a message that the controller reads can add to what the router is handed.
LEMMA OnlyRecvWires ==
  ASSUME [SysNext]_sysVars, wire' # wire
  PROVE  \E s \in Slots : CtrlRecv(s)
<1>1. SysNext
  BY DEF sysVars
<1>2. ~CtrlRouterAccept /\ \A s \in Slots : ~CtrlConnected(s) /\ ~CtrlDestroy(s)
  BY DEF CtrlRouterAccept, CtrlConnected, CtrlDestroy
<1>3. \A p \in Sibs : /\ \A s \in Slots : ~Connect(p, s) /\ ~SibRecv(p, s)
                     /\ ~SibElected(p) /\ ~RestartDone(p) /\ ~Crash(p) /\ ~Restart(p)
                     /\ \A val \in Payload : ~SibSend(p, val)
  BY Zenon DEF Connect, SibRecv, SibElected, RestartDone, Crash, Restart, SibSend, CtrlIdle
<1>4. QED
  BY <1>1, <1>2, <1>3 DEF SysNext

\* What is handed to the router when a message is read is a good sibling's.
LEMMA RecvGood ==
  ASSUME TInv, FaultyMinority, NEW s \in Slots, CtrlRecv(s)
  PROVE  out' \in Seq(GoodMsg)
<1> DEFINE m == Head(toCtrl[s])
<1>1. toCtrl[s] # <<>> /\ CtrlProcess(s, m)
  BY DEF CtrlRecv
<1>2. m \in WrittenBy(peer[s])
  BY <1>1, HeadTailProperties DEF TInv, SlotAt
<1> HIDE DEF m
<1>3. CASE m.type = "EGRESS"
  <2>1. m.msg \in EgressOf(peer[s])
    BY <1>2, <1>3, SMTT(20) DEF WrittenBy
  <2>2. \E c, w : Egress(s, m.msg, c, w)
    BY <1>1, <1>3, SMTT(20) DEF CtrlProcess, Ipv6RouteSet, ForwardOspf6
  <2>3. QED
    BY <2>1, <2>2, EgressGood, SMTT(20)
<1>4. CASE m.type # "EGRESS"
  BY <1>1, <1>4, RequestEffect, EmptySeq, Zenon DEF CtrlProcess, TInv, HandshakeEffect
<1>5. QED
  BY <1>3, <1>4

\* Every step of the system keeps the invariant.
LEMMA SysNextInv ==
  ASSUME FaultyMinority, SInv, [SysNext]_sysVars
  PROVE  SInv'
<1>1. TInv'
  BY SysNextTInv DEF SInv, FaultyMinority
<1>2. CASE wire' = wire
  BY <1>1, <1>2 DEF SInv
<1>3. CASE wire' # wire
  <2>1. PICK s \in Slots : CtrlRecv(s)
    BY <1>3, OnlyRecvWires, SMTT(20)
  <2>2. out' \in Seq(GoodMsg) /\ wire' = wire \o out'
    BY <2>1, RecvGood, Zenon DEF SInv, CtrlRecv, History
  <2>3. QED
    BY <1>1, <2>2, ConcatProperties DEF SInv
<1>4. QED
  BY <1>2, <1>3

-----------------------------------------------------------------------------
(***************************************************************************)
(* The theorem                                                             *)
(***************************************************************************)

\* The vote masks a faulty minority: with voter all, whatever the faulty siblings
\* send, and whichever good siblings crash and restart, the leader included,
\* vote_majority only hands the router what a good sibling sent.
THEOREM VoteMasksFaults == FaultyMinority => (SysSpec => []Integrity)
<1> SUFFICES ASSUME FaultyMinority PROVE SysSpec => []Integrity
  OBVIOUS
<1>1. SInv => Integrity
  BY ElementOfSeq DEF SInv, Integrity, GoodMsg
<1>2. SInv /\ [SysNext]_sysVars => SInv'
  BY SysNextInv
<1>3. QED
  BY <1>1, <1>2, SysInitInv, PTL DEF SysSpec
=============================================================================
