--------------------------- MODULE SibOrderProofs ---------------------------
(***************************************************************************)
(* The order of what reaches the router: InOrder, DbCurrent and            *)
(* QueueAligned of SibSystem, for any number of siblings, slots, messages, *)
(* crashes and restarts and for both voters, as long as the leader stays.  *)
(***************************************************************************)
EXTENDS SibOrderCtrl, SibSystemProofs, SibRouterProofs

\* A step is proved by Zenon unless it names another prover.
USE ZenonT(20)

-----------------------------------------------------------------------------
(***************************************************************************)
(* The controller's own invariant                                          *)
(***************************************************************************)

\* A step of a sibling is to the controller what a request is that it drops.
LEMMA IdleIsIgnore == CtrlIdle => Ignore
BY DEF CtrlIdle, Ignore, NoOut

\* A request whose xid is not the slot's is dropped.
LEMMA WrongXid ==
  ASSUME IInv, NEW s \in Slots, NEW x,
         FeaturesRequest(s, x) \/ RedistributeRequest(s, x) \/ IfAddressReq(s, x)
  PROVE  x \in Xids \/ Ignore
<1>1. current_egress_xid[s] \in Xids
  BY DEF IInv, TypeOK
<1>2. QED
  BY <1>1 DEF FeaturesRequest, RedistributeRequest, IfAddressReq

\* The invariant of SibRouter holds in the composed system.
LEMMA ControllerInv ==
  ASSUME IInv, TInv, [SysNext]_sysVars
  PROVE  IInv'
<1>1. CASE UNCHANGED sysVars
  BY <1>1, StepIInv DEF sysVars
<1>2. CASE CtrlIdle
  BY <1>2, IdleIsIgnore, IgnoreStep
<1>3. CASE CtrlRouterAccept
  BY <1>3, OtherStep DEF CtrlRouterAccept
<1>4. ASSUME NEW s \in Slots, CtrlConnected(s) \/ CtrlDestroy(s) PROVE IInv'
  BY <1>4, ConnectionStep DEF CtrlConnected, CtrlDestroy
<1>5. ASSUME NEW p \in Sibs, NEW s \in Slots, Connect(p, s) PROVE IInv'
  BY <1>5, ConnectionStep, AcceptNewStep DEF Connect
<1>6. ASSUME NEW s \in Slots, CtrlRecv(s) PROVE IInv'
  <2> DEFINE m == Head(toCtrl[s])
  <2>1. toCtrl[s] # <<>> /\ CtrlProcess(s, m)
    BY <1>6 DEF CtrlRecv
  <2>2. m \in WrittenBy(peer[s])
    BY <2>1, HeadTailProperties DEF TInv, SlotAt
  <2> HIDE DEF m
  <2>3. ASSUME NEW x, FeaturesRequest(s, x) \/ RedistributeRequest(s, x) \/ IfAddressReq(s, x)
        PROVE  IInv'
    BY <2>3, WrongXid, HandshakeStep, IgnoreStep
  <2>4. CASE m.type = "EGRESS"
    <3>1. m.msg \in Msgs
      BY <2>2, <2>4 DEF WrittenBy, EgressOf, GoodMsg
    <3>2. QED
      BY <2>1, <2>4, <3>1, VotedStep DEF CtrlProcess
  <2>5. CASE m.type = "REDISTRIBUTE_LEADER_ELECT"
    <3>1. m.leads \in BOOLEAN
      BY <2>2, <2>5 DEF WrittenBy
    <3>2. QED
      BY <2>1, <2>5, <3>1, OtherStep DEF CtrlProcess
  <2>6. QED
    BY <2>1, <2>3, <2>4, <2>5 DEF CtrlProcess
<1>7. ASSUME NEW p \in Sibs,
             \/ \E s \in Slots : SibRecv(p, s)
             \/ SibElected(p) \/ RestartDone(p) \/ Crash(p) \/ Restart(p)
             \/ \E val \in Payload : SibSend(p, val)
      PROVE  IInv'
  BY <1>2, <1>7 DEF SibRecv, SibElected, RestartDone, Crash, Restart, SibSend
<1>8. QED
  BY <1>1, <1>3, <1>4, <1>5, <1>6, <1>7 DEF SysNext

\* Where NumSibs slots or fewer are in use, an election is started only when all of
\* them route, and then NumSibs of them are in use.
LEMMA CountsFull ==
  ASSUME IInv, n_ospf6_siblings <= NumSibs, n_ospf6_siblings_routing = NumSibs
  PROVE  n_ospf6_siblings = NumSibs /\ \A t \in Used : state[t] = "SIB_ROUTING"
<1>1. /\ n_ospf6_siblings \in Nat /\ Routing \subseteq Used
      /\ \A t \in Routing : state[t] = "SIB_ROUTING"
  BY SMTT(20) DEF IInv, TypeOK, Routing
<1>2. IsFiniteSet(Used) /\ Cardinality(Used) = n_ospf6_siblings
  BY <1>1, FS_Interval, SMTT(20) DEF Used
<1>3. Cardinality(Routing) = NumSibs
  BY DEF IInv, RoutingCount
<1>4. Cardinality(Routing) <= Cardinality(Used)
  BY <1>1, <1>2, FS_Subset
<1>5. Cardinality(Routing) = Cardinality(Used)
  BY <1>1, <1>2, <1>3, <1>4, NumSibsAssumption, SMTT(20)
<1>6. Routing = Used
  BY <1>1, <1>2, <1>5, FS_Subset
<1>7. QED
  BY <1>1, <1>2, <1>3, <1>5, <1>6

\* All slots in use have a process and there are as many as siblings: each sibling has one.
LEMMA CountsConnected ==
  ASSUME TInv, IInv, n_ospf6_siblings = NumSibs, \A t \in Used : peer[t] # NoSib, NEW p \in Sibs
  PROVE  \E t \in Used : peer[t] = p
<1>1. SUFFICES ASSUME \A t \in Used : peer[t] # p PROVE FALSE
  OBVIOUS
<1>2. Used \subseteq Slots /\ NumSibs \in Nat \ {0}
  BY NumSibsAssumption, UsedSlots
<1>3. IsFiniteSet(Used) /\ Cardinality(Used) = NumSibs
  BY <1>2, FS_Interval, SMTT(20) DEF Used
<1>4. IsFiniteSet(Sibs) /\ Cardinality(Sibs) = NumSibs
  BY <1>2, FS_Interval, SMTT(20) DEF Sibs
<1>5. IsFiniteSet(Sibs \ {p}) /\ Cardinality(Sibs \ {p}) = NumSibs - 1
  BY <1>4, FS_RemoveElement
<1> DEFINE f == [t \in Used |-> peer[t]]
<1>6. f \in [Used -> Sibs \ {p}]
  BY <1>1, <1>2 DEF TInv, Shape
<1> HIDE DEF f
<1>7. \E x, y \in Used : x # y /\ f[x] = f[y]
  BY <1>2, <1>3, <1>5, <1>6, FS_PigeonHole, SMTT(20)
<1>8. PICK x, y \in Used : x # y /\ f[x] = f[y]
  BY <1>7
<1>9. peer[x] = peer[y] /\ peer[x] \in Sibs
  BY <1>6, <1>8 DEF f
<1>10. QED
  BY <1>2, <1>8, <1>9 DEF TInv, OneSlot

\* Both facts together.
LEMMA CountsHold == TInv /\ IInv => Counts
BY CountsFull, CountsConnected DEF Counts

-----------------------------------------------------------------------------
(***************************************************************************)
(* Votes                                                                   *)
(***************************************************************************)

\* All the messages that a vote is about have the common xid.
LEMMA CandidateXid ==
  ASSUME Base, LiveInv, NEW s \in Slots, state[s] = "SIB_ROUTING",
         NEW q, q[s] # <<>>, \A t \in Slots \ {s} : q[t] = queue[t],
         NEW S, \A t \in Slots : q[t] \in Seq(S), NEW c, Lanes(s, q, c)
  PROVE  Candidate(q).xid = Common
<1>1. s \in NonEmpty(q) /\ NonEmpty(q) \subseteq Slots /\ NonEmpty(q) \subseteq Nat
  BY UsedSlots, SMTT(20) DEF NonEmpty, Base, IInv, TypeOK, Slots
<1>2. FirstWithMsg(q) \in NonEmpty(q)
  <2>1. \E j \in NonEmpty(q) : \A t \in NonEmpty(q) : j <= t
    BY <1>1, MinExists
  <2>2. QED
    BY <2>1 DEF FirstWithMsg
<1> DEFINE t == FirstWithMsg(q)
<1>3. t \in Slots /\ q[t] # <<>>
  BY <1>1, <1>2 DEF NonEmpty
<1> HIDE DEF t
<1>4. state[t] = "SIB_ROUTING"
  <2>1. CASE t # s
    <3>1. queue[t] # <<>> /\ state[t] \in Reading
      BY <1>3, <2>1 DEF Base, IInv, VotersConnected
    <3>2. QED
      BY <1>3, <3>1 DEF LiveInv, SlotLive, Handshaking, Reading
  <2>2. QED
    BY <2>1
<1>5. \A i \in 1..Len(q[t]) : q[t][i].xid = Common + i - 1
  BY <1>3, <1>4 DEF Lanes, LaneAt
<1>6. 1 \in 1..Len(q[t]) /\ Head(q[t]) = q[t][1]
  BY <1>3, StreamRecv, SMTT(20)
<1>7. Common \in Nat
  BY CommonType DEF Base
<1>8. Head(q[t]).xid = Common
  BY <1>5, <1>6, <1>7, SMTT(20)
<1>9. QED
  BY <1>8 DEF Candidate, t

\* An egress message of a sibling that is routing keeps LiveInv.
LEMMA EgressLive ==
  ASSUME LeaderStays, Base, LiveInv, NEW s \in Slots, CtrlRecv(s), Head(toCtrl[s]).type = "EGRESS",
         LET m == Head(toCtrl[s]).msg IN Ipv6RouteSet(s, m) \/ ForwardOspf6(s, m)
  PROVE  /\ LiveInv'
         /\ (Common' = Common /\ Silent) \/ \E m \in Msgs : Voted(m)
<1> DEFINE m == Head(toCtrl[s]).msg
<1>1. PICK c \in [Slots -> Nat] : \E w :
        Egress(s, m, c, w) /\ c[s] = Common /\ \A t \in Slots \ {s} : c[t] = current_egress_xid[t]
  BY EgressXid
<1>2. PICK w : Egress(s, m, c, w) /\ c[s] = Common /\ \A t \in Slots \ {s} : c[t] = current_egress_xid[t]
  BY <1>1
<1>3. /\ leader_sibling # NoSlot /\ EgressRead(s) /\ leader_sibling' = leader_sibling
      /\ n_ospf6_siblings' = n_ospf6_siblings
  BY EgressXid DEF EgressRead
<1>4. /\ leader_sibling \in Slots /\ leader_sibling \in Used /\ state[leader_sibling] = "SIB_ROUTING"
      /\ Common = current_egress_xid[leader_sibling] /\ Common \in Nat /\ c[leader_sibling] = Common
      /\ egress_db <= Common
  BY <1>2, <1>3, LeaderRoutes, CommonType DEF Base, IInv, TypeOK, LiveInv
<1>5. state[s] = "SIB_ROUTING"
  BY <1>3, SenderRoutes DEF EgressRead
<1>6. m \in Msgs /\ queue \in [Slots -> Seq(Msgs)] /\ m.xid \in Nat
  <2>1. toCtrl[s] \in Seq(WrittenBy(peer[s])) /\ toCtrl[s] # <<>>
    BY <1>3 DEF EgressRead, Base, TInv, SlotAt
  <2>2. Head(toCtrl[s]) \in WrittenBy(peer[s])
    BY <2>1, HeadTailProperties
  <2>3. m \in EgressOf(peer[s])
    BY <2>2 DEF WrittenBy
  <2>4. m \in Msgs
    BY <2>3 DEF EgressOf, GoodMsg
  <2>5. m.xid \in Xids /\ Xids \subseteq Nat
    BY <2>4, BoundsAssumption, SMTT(20) DEF Msgs, Xids
  <2>6. queue \in [Slots -> Seq(Msgs)]
    BY DEF Base, IInv, TypeOK
  <2>7. QED
    BY <2>4, <2>5, <2>6
<1> DEFINE q == [queue EXCEPT ![s] = Append(@, m)]
<1>7. /\ q \in [Slots -> Seq(Msgs)] /\ q[s] = Append(queue[s], m) /\ q[s] # <<>>
      /\ \A t \in Slots \ {s} : q[t] = queue[t]
  <2>1. Append(queue[s], m) \in Seq(Msgs) /\ Append(queue[s], m) # <<>>
    BY <1>6, SMTT(20)
  <2>2. QED
    BY <1>6, <2>1
<1>8. \/ m.xid >= Common /\ (Keep(q, c) \/ Release(q, c))
      \/ m.xid < Common /\ Keep(queue, c)
  BY <1>2, <1>4, <1>6, SMTT(20) DEF Egress, vote_majority
<1> HIDE DEF m, q
<1>9. ASSUME NEW r \in [Slots -> Seq(Msgs)], Lanes(s, r, c), \A t \in Slots \ {s} : r[t] = queue[t], Keep(r, c)
      PROVE  LiveInv' /\ Common' = Common /\ Silent
  <2>1. queue' = r /\ current_egress_xid' = c /\ Silent
    BY <1>9 DEF Keep, NoOut, Silent
  <2>2. Common' = Common
    BY <1>3, <1>4, <2>1 DEF Common
  <2> DEFINE d == 0
  <2>3. \A t \in Slots : c[t] + d = c[t]
    BY SMTT(20)
  <2>4. Common + d = Common /\ egress_db' <= Common' /\ d \in {0, 1} /\ d # 1
    BY <1>4, <2>1, <2>2, SMTT(20) DEF Silent
  <2> HIDE DEF d
  <2>5. \A t \in Slots : queue'[t] = IF d = 1 /\ r[t] # <<>> THEN Tail(r[t]) ELSE r[t]
    BY <2>1, <2>4
  <2>6. \A t \in Slots : current_egress_xid'[t] = IF t \in Used THEN c[t] + d ELSE c[t]
    BY <2>1, <2>3
  <2>7. \A t \in Slots : r[t] \in Seq(Msgs)
    BY <1>9
  <2>8. Common' = Common + d /\ egress_db' <= Common'
    BY <2>2, <2>4
  <2>9. \A t \in Slots \ {s} : r[t] = queue[t] /\ c[t] = current_egress_xid[t]
    BY <1>2, <1>9
  <2>10. VoteEffect(s, r, c, d)
    BY <2>5, <2>6, <2>7, <2>8, <2>9 DEF VoteEffect
  <2>11. LiveInv'
    BY <1>3, <1>9, <2>4, <2>10, LanesLive
  <2>12. QED
    BY <2>1, <2>2, <2>11
<1>10. ASSUME m.xid >= Common PROVE Lanes(s, q, c)
  BY <1>2, <1>3, <1>7, <1>10, LanesOf DEF m
<1>11. CASE m.xid >= Common /\ Keep(q, c)
  BY <1>7, <1>9, <1>10, <1>11
<1>12. CASE m.xid < Common /\ Keep(queue, c)
  <2>1. Lanes(s, queue, c)
    BY <1>2, <1>3, <1>12, LanesOf DEF m
  <2>2. QED
    BY <1>6, <1>9, <1>12, <2>1
<1>13. CASE m.xid >= Common /\ Release(q, c)
  <2>1. /\ queue' = PopFronts(q) /\ current_egress_xid' = AdvanceAll(q, c)
        /\ out' = IF n_routers > 0 THEN <<Candidate(q)>> ELSE <<>>
        /\ StoreLeaderXid(current_egress_xid')
    BY <1>13 DEF Release
  <2>2. \A t \in Slots : current_egress_xid'[t] = IF t \in Used THEN c[t] + 1 ELSE c[t]
    BY <2>1 DEF AdvanceAll
  <2>3. Common' = Common + 1 /\ egress_db' = Common'
    <3>1. current_egress_xid'[leader_sibling] = Common + 1
      BY <1>4, <2>2
    <3>2. egress_db' = current_egress_xid'[leader_sibling]
      BY <1>3, <1>4, <2>1 DEF StoreLeaderXid, db_set_egress_xid
    <3>3. QED
      BY <1>3, <3>1, <3>2 DEF Common
  <2>4. Lanes(s, q, c)
    BY <1>10, <1>13
  <2>5. ASSUME NEW t \in Slots PROVE queue'[t] = IF 1 = 1 /\ q[t] # <<>> THEN Tail(q[t]) ELSE q[t]
    <3>1. q[t] # <<>> => t \in Used
      BY <1>5, <1>7 DEF Base, IInv, TypeOK, VotersConnected, Reading
    <3>2. QED
      BY <2>1, <3>1 DEF PopFronts, NonEmpty
  <2>6. \A t \in Slots \ {s} : q[t] = queue[t] /\ c[t] = current_egress_xid[t]
    BY <1>2, <1>7
  <2>7. (\A t \in Slots : q[t] \in Seq(Msgs)) /\ egress_db' <= Common'
    BY <1>4, <1>7, <2>3, SMTT(20)
  <2>8. LiveInv'
    <3>1. VoteEffect(s, q, c, 1)
      BY <2>2, <2>3, <2>5, <2>6, <2>7 DEF VoteEffect
    <3>2. QED
      BY <1>3, <2>4, <3>1, LanesLive
  <2>9. Candidate(q).xid = Common
    BY <1>5, <1>7, <2>4, <2>7, CandidateXid
  <2>10. Candidate(q) \in Msgs
    <3>1. NonEmpty(q) # {}
      BY <1>5, <1>7 DEF NonEmpty, Base, IInv, TypeOK
    <3>2. QED
      BY <1>7, <3>1, CandidateType DEF Base, IInv
  <2>11. Voted(Candidate(q))
    BY <2>1, <2>3, <2>9 DEF Voted
  <2>12. QED
    BY <2>8, <2>10, <2>11
<1>14. QED
  BY <1>8, <1>11, <1>12, <1>13

-----------------------------------------------------------------------------
(***************************************************************************)
(* All steps                                                               *)
(***************************************************************************)

\* A request of a handshake changes neither the common xid nor what was handed out.
LEMMA RequestSilent ==
  ASSUME LeaderStays, Base, LiveInv, NEW s \in Slots, state[s] # "SIB_ROUTING", NEW x,
         FeaturesRequest(s, x) \/ RedistributeRequest(s, x) \/ IfAddressReq(s, x)
  PROVE  Common' = Common /\ Silent
<1>1. leader_sibling # s
  BY LeaderRoutes, SMTT(20) DEF Slots, NoSlot
<1>2. DOMAIN current_egress_xid = Slots /\ leader_sibling \in Slots \cup {NoSlot}
  BY DEF Base, TInv, Numbers
<1>3. ASSUME NEW new, NEW replies, TakeRequest(s, new, replies) PROVE Common' = Common /\ Silent
  BY <1>1, <1>2, <1>3 DEF TakeRequest, state_transition, NoOut, Silent, Common
<1>4. ASSUME Ignore PROVE Common' = Common /\ Silent
  BY <1>4 DEF Ignore, NoOut, Silent, Common, slotVars
<1>5. ASSUME current_egress_xid' = [current_egress_xid EXCEPT ![s] = @ + 1], NoOut,
             UNCHANGED <<leader_sibling, egress_db>>
      PROVE  Common' = Common /\ Silent
  BY <1>1, <1>2, <1>5 DEF NoOut, Silent, Common
<1>6. CASE FeaturesRequest(s, x)
  BY <1>3, <1>4, <1>6 DEF FeaturesRequest
<1>7. CASE RedistributeRequest(s, x)
  BY <1>3, <1>4, <1>7 DEF RedistributeRequest
<1>8. CASE IfAddressReq(s, x)
  BY <1>3, <1>4, <1>5, <1>8 DEF IfAddressReq
<1>9. QED
  BY <1>6, <1>7, <1>8

\* The controller reads a message.
LEMMA RecvLive ==
  ASSUME LeaderStays, Base, Base', LiveInv, NEW s \in Slots, CtrlRecv(s)
  PROVE  /\ Live' => LiveInv'
         /\ \/ (Live' => Common' = Common) /\ Silent
            \/ \E m \in Msgs : Voted(m)
<1> DEFINE m == Head(toCtrl[s])
<1>1. toCtrl[s] # <<>> /\ CtrlProcess(s, m) /\ toCtrl[s] \in Seq(WrittenBy(peer[s]))
  BY DEF CtrlRecv, Base, TInv, SlotAt
<1>2. ASSUME m.type \notin {"EGRESS", "REDISTRIBUTE_LEADER_ELECT"}
      PROVE  state[s] \notin {"NULL", "SIB_DISCONNECTED", "SIB_ROUTING"}
  <2>1. state[s] \in Reading
    BY <1>1, <1>2 DEF CtrlProcess, FeaturesRequest, RedistributeRequest, IfAddressReq
  <2>2. 1 \in 1..Len(toCtrl[s]) /\ m = toCtrl[s][1]
    BY <1>1, StreamRecv, SMTT(20)
  <2>3. ~Streaming(s)
    BY <1>2, <2>2 DEF Streaming
  <2>4. QED
    BY <2>1, <2>3 DEF LiveInv, SlotLive, Reading
<1>3. CASE m.type = "FEATURES_REQUEST" /\ FeaturesRequest(s, m.xid)
  BY <1>2, <1>3, FeaturesLive, RequestSilent
<1>4. CASE m.type = "REDISTRIBUTE_REQUEST" /\ RedistributeRequest(s, m.xid)
  BY <1>2, <1>4, RedistributeLive, RequestSilent
<1>5. CASE m.type = "IF_ADDRESS_REQ" /\ IfAddressReq(s, m.xid)
  BY <1>2, <1>5, IfAddressLive, RequestSilent
<1>6. CASE m.type = "EGRESS" /\ (Ipv6RouteSet(s, m.msg) \/ ForwardOspf6(s, m.msg))
  BY <1>6, EgressLive
<1>7. CASE m.type = "REDISTRIBUTE_LEADER_ELECT" /\ RedistributeLeaderElect(s, m.leads)
  <2>1. Silent
    BY <1>7 DEF RedistributeLeaderElect, NoOut, Silent
  <2>2. QED
    BY <1>7, <2>1, AnnounceLive
<1>8. QED
  BY <1>1, <1>3, <1>4, <1>5, <1>6, <1>7 DEF CtrlProcess

\* A controller that has stopped, or has more slots than siblings, stays so.
LEMMA LiveBefore ==
  ASSUME Base, [SysNext]_sysVars, Live'
  PROVE  Live
<1>1. NumSibs \in Nat /\ n_ospf6_siblings \in Nat
  BY NumSibsAssumption, SMTT(20) DEF Base, IInv, TypeOK
<1>2. CASE CtrlIdle \/ UNCHANGED sysVars
  BY <1>2 DEF CtrlIdle, sysVars, vars, Live
<1>3. CASE CtrlRouterAccept
  BY <1>3 DEF CtrlRouterAccept, RouterAccept, Live
<1>4. ASSUME NEW s \in Slots, CtrlConnected(s) \/ CtrlDestroy(s) PROVE Live
  BY <1>4 DEF CtrlConnected, Connected, CtrlDestroy, Destroy, Live
<1>5. ASSUME NEW s \in Slots, CtrlRecv(s) PROVE Live
  <2>1. running /\ n_ospf6_siblings' = n_ospf6_siblings
    BY <1>5 DEF CtrlRecv, CtrlProcess, FeaturesRequest, RedistributeRequest, IfAddressReq, Ipv6RouteSet,
       ForwardOspf6, RedistributeLeaderElect, TakeRequest, Ignore, Egress
  <2>2. QED
    BY <2>1 DEF Live
<1>6. ASSUME NEW p \in Sibs, NEW s \in Slots, Connect(p, s) PROVE Live
  <2>1. running /\ (n_ospf6_siblings' = n_ospf6_siblings \/ n_ospf6_siblings' = n_ospf6_siblings + 1)
    <3>1. CASE AcceptReuse(s)
      BY <3>1 DEF AcceptReuse
    <3>2. CASE AcceptNew(s)
      BY <3>2 DEF AcceptNew
    <3>3. QED
      BY <1>6, <3>1, <3>2 DEF Connect
  <2>2. QED
    BY <1>1, <2>1, SMTT(20) DEF Live
<1>7. ASSUME NEW p \in Sibs,
             \/ \E s \in Slots : SibRecv(p, s)
             \/ SibElected(p) \/ RestartDone(p) \/ Crash(p) \/ Restart(p)
             \/ \E val \in Payload : SibSend(p, val)
      PROVE  CtrlIdle
  BY <1>7 DEF SibRecv, SibElected, RestartDone, Crash, Restart, SibSend
<1>8. QED
  BY <1>2, <1>3, <1>4, <1>5, <1>6, <1>7 DEF SysNext

\* Connections change neither.
LEMMA ConnectSilent ==
  ASSUME LeaderStays, Base, LiveInv, NEW p \in Sibs, NEW s \in Slots, Connect(p, s)
  PROVE  Common' = Common /\ egress_db' = egress_db /\ wire' = wire
<1>1. UNCHANGED <<leader_sibling, egress_db, wire>>
  BY DEF Connect, AcceptReuse, AcceptNew
<1>2. CASE AcceptNew(s)
  BY <1>1, <1>2 DEF AcceptNew, Common
<1>3. CASE AcceptReuse(s)
  <2>1. state[s] = "SIB_DISCONNECTED" /\ current_egress_xid' = [current_egress_xid EXCEPT ![s] = 0]
    BY <1>3 DEF AcceptReuse, Disconnected
  <2>2. leader_sibling # s
    BY <2>1, LeaderRoutes, SMTT(20) DEF Slots, NoSlot
  <2>3. DOMAIN current_egress_xid = Slots /\ leader_sibling \in Slots \cup {NoSlot}
    BY DEF Base, TInv, Numbers
  <2>4. QED
    BY <1>1, <2>1, <2>2, <2>3 DEF Common
<1>4. QED
  BY <1>2, <1>3 DEF Connect

\* Nothing is voted on once there are more slots than siblings.
LEMMA DeadSilent ==
  ASSUME Base, WireInv, ~Live, [SysNext]_sysVars
  PROVE  wire' = wire /\ egress_db' = egress_db
<1>1. NumSibs \in Nat /\ n_ospf6_siblings \in Nat
  BY NumSibsAssumption, SMTT(20) DEF Base, IInv, TypeOK
<1>2. CASE CtrlIdle \/ UNCHANGED sysVars
  BY <1>2 DEF CtrlIdle, sysVars, vars
<1>3. CASE CtrlRouterAccept
  BY <1>3 DEF CtrlRouterAccept, RouterAccept
<1>4. ASSUME NEW s \in Slots, CtrlConnected(s) \/ CtrlDestroy(s) PROVE wire' = wire /\ egress_db' = egress_db
  BY <1>4 DEF CtrlConnected, Connected, CtrlDestroy, Destroy
<1>5. ASSUME NEW s \in Slots, CtrlRecv(s) PROVE wire' = wire /\ egress_db' = egress_db
  <2>1. Silent
    <3>1. CASE RedistributeLeaderElect(s, Head(toCtrl[s]).leads)
      BY <3>1 DEF RedistributeLeaderElect, NoOut, Silent
    <3>2. ASSUME NEW x, FeaturesRequest(s, x) \/ RedistributeRequest(s, x) \/ IfAddressReq(s, x)
          PROVE  Silent
      BY <3>2 DEF FeaturesRequest, RedistributeRequest, IfAddressReq, TakeRequest, state_transition,
         Ignore, NoOut, Silent
    <3>3. ASSUME NEW m, NEW c, NEW w, running, Egress(s, m, c, w) PROVE Silent
      <4>1. n_ospf6_siblings # NumSibs
        BY <1>1, <3>3, SMTT(20) DEF Live
      <4>2. QED
        BY <3>3, <4>1 DEF Egress, Keep, NoOut, Silent
    <3>4. ASSUME NEW m, Ipv6RouteSet(s, m) \/ ForwardOspf6(s, m) PROVE Silent
      BY <3>3, <3>4 DEF Ipv6RouteSet, ForwardOspf6
    <3>5. QED
      BY <1>5, <3>1, <3>2, <3>4 DEF CtrlRecv, CtrlProcess
  <2>2. wire' = wire \o out' /\ wire \in Seq(Msgs)
    BY <1>5 DEF CtrlRecv, History, WireInv
  <2>3. QED
    BY <2>1, <2>2, SMTT(20) DEF Silent
<1>6. ASSUME NEW p \in Sibs, NEW s \in Slots, Connect(p, s) PROVE wire' = wire /\ egress_db' = egress_db
  BY <1>6 DEF Connect, AcceptReuse, AcceptNew
<1>7. ASSUME NEW p \in Sibs,
             \/ \E s \in Slots : SibRecv(p, s)
             \/ SibElected(p) \/ RestartDone(p) \/ Crash(p) \/ Restart(p)
             \/ \E val \in Payload : SibSend(p, val)
      PROVE  CtrlIdle
  BY <1>7 DEF SibRecv, SibElected, RestartDone, Crash, Restart, SibSend
<1>8. QED
  BY <1>2, <1>3, <1>4, <1>5, <1>6, <1>7 DEF SysNext

\* Every step preserves what LiveInv says of the time before there is a slot too many.
LEMMA LiveStep ==
  ASSUME LeaderStays, Base, Base', WireInv, Live => LiveInv, [OrderNext]_sysVars
  PROVE  (Live' => LiveInv') /\ WireStep
<1>1. [SysNext]_sysVars
  BY DEF OrderNext
<1>2. CASE ~Live
  BY <1>1, <1>2, LiveBefore, DeadSilent DEF WireStep
<1>3. SUFFICES ASSUME Live, LiveInv PROVE (Live' => LiveInv') /\ WireStep
  BY <1>2
<1>4. CASE UNCHANGED sysVars \/ CtrlRouterAccept
  <2>1. UNCHANGED <<leader_sibling, slotVars, egress_db, sibVars>> /\ wire' = wire
    BY <1>4 DEF sysVars, vars, CtrlRouterAccept, RouterAccept
  <2>2. Shape
    BY DEF Base, TInv
  <2>3. LiveInv'
    BY <1>3, <2>1, <2>2, LiveFrame
  <2>4. Common' = Common
    BY <2>1 DEF Common, slotVars
  <2>5. QED
    BY <2>1, <2>3, <2>4 DEF WireStep
<1>5. ASSUME CtrlIdle PROVE WireStep
  BY <1>5 DEF CtrlIdle, WireStep, Common, slotVars
<1>6. ASSUME NEW s \in Slots, CtrlConnected(s) \/ CtrlDestroy(s) PROVE (Live' => LiveInv') /\ WireStep
  <2>1. UNCHANGED <<leader_sibling, current_egress_xid, egress_db, wire>>
    BY <1>6 DEF CtrlConnected, Connected, CtrlDestroy, Destroy
  <2>2. WireStep
    BY <2>1 DEF WireStep, Common
  <2>3. QED
    BY <1>3, <1>6, <2>2, ConnectedLive, DestroyLive
<1>7. ASSUME NEW s \in Slots, CtrlRecv(s) PROVE (Live' => LiveInv') /\ WireStep
  <2>1. wire' = wire \o out' /\ wire \in Seq(Msgs)
    BY <1>7 DEF CtrlRecv, History, WireInv
  <2>2. wire \o <<>> = wire
    BY <2>1, SMTT(20)
  <2>3. WireStep
    <3>1. CASE (Live' => Common' = Common) /\ Silent
      BY <2>1, <2>2, <3>1 DEF Silent, WireStep
    <3>2. ASSUME NEW m \in Msgs, Voted(m) PROVE WireStep
      BY <1>3, <2>1, <2>2, <3>2 DEF Voted, WireStep
    <3>3. QED
      BY <1>3, <1>7, <3>1, <3>2, RecvLive
  <2>4. QED
    BY <1>3, <1>7, <2>3, RecvLive
<1>8. ASSUME NEW p \in Sibs, NEW s \in Slots, Connect(p, s) PROVE (Live' => LiveInv') /\ WireStep
  BY <1>3, <1>8, ConnectLive, ConnectSilent DEF WireStep
<1>9. ASSUME NEW p \in Sibs, NEW s \in Slots, SibRecv(p, s) PROVE LiveInv' /\ WireStep
  <2>1. CtrlIdle
    BY <1>9 DEF SibRecv
  <2>2. QED
    BY <1>3, <1>5, <1>9, <2>1, HelloLive, FeaturesReplyLive, LeaderElectLive DEF SibRecv
<1>10. ASSUME NEW p \in Sibs, SibElected(p) \/ RestartDone(p) \/ Restart(p) PROVE LiveInv' /\ WireStep
  <2>1. CtrlIdle
    BY <1>10 DEF SibElected, RestartDone, Restart
  <2>2. QED
    BY <1>3, <1>5, <1>10, <2>1, ElectedLive, RestartDoneLive, RestartLive
<1>11. ASSUME NEW p \in Sibs, NEW val \in Payload, SibSend(p, val) PROVE LiveInv' /\ WireStep
  <2>1. CtrlIdle
    BY <1>11 DEF SibSend
  <2>2. QED
    BY <1>3, <1>5, <1>11, <2>1, SendLive
<1>12. ASSUME NEW p \in Sibs, Crash(p), OrderNext PROVE LiveInv' /\ WireStep
  <2>1. CtrlIdle
    BY <1>12 DEF Crash
  <2>2. leader_sibling # NoSlot
    BY <1>12 DEF OrderNext
  <2>3. QED
    BY <1>3, <1>5, <1>12, <2>1, <2>2, CrashLive
<1>13. QED
  <2>1. CASE UNCHANGED sysVars
    BY <1>4, <2>1
  <2>2. CASE OrderNext
    <3>1. SysNext
      BY <2>2 DEF OrderNext
    <3>2. QED
      BY <1>4, <1>6, <1>7, <1>8, <1>9, <1>10, <1>11, <1>12, <2>2, <3>1 DEF SysNext
  <2>3. QED
    BY <2>1, <2>2

\* The number of routers grows only in a step that hands nothing out.
LEMMA RouterStep ==
  ASSUME Base, [SysNext]_sysVars
  PROVE  n_routers' = n_routers \/ (n_routers = 0 /\ n_routers' = 1 /\ wire' = wire)
<1>1. CASE CtrlIdle \/ UNCHANGED sysVars
  BY <1>1 DEF CtrlIdle, sysVars, vars
<1>2. CASE CtrlRouterAccept
  BY <1>2 DEF CtrlRouterAccept, RouterAccept
<1>3. ASSUME NEW s \in Slots, CtrlConnected(s) \/ CtrlDestroy(s) PROVE n_routers' = n_routers
  BY <1>3 DEF CtrlConnected, Connected, CtrlDestroy, Destroy
<1>4. ASSUME NEW s \in Slots, CtrlRecv(s) PROVE n_routers' = n_routers
  BY <1>4 DEF CtrlRecv, CtrlProcess, FeaturesRequest, RedistributeRequest, IfAddressReq, Ipv6RouteSet,
     ForwardOspf6, RedistributeLeaderElect, TakeRequest, Ignore, Egress
<1>5. ASSUME NEW p \in Sibs, NEW s \in Slots, Connect(p, s) PROVE n_routers' = n_routers
  BY <1>5 DEF Connect, AcceptReuse, AcceptNew
<1>6. ASSUME NEW p \in Sibs,
             \/ \E s \in Slots : SibRecv(p, s)
             \/ SibElected(p) \/ RestartDone(p) \/ Crash(p) \/ Restart(p)
             \/ \E val \in Payload : SibSend(p, val)
      PROVE  CtrlIdle
  BY <1>6 DEF SibRecv, SibElected, RestartDone, Crash, Restart, SibSend
<1>7. QED
  BY <1>1, <1>2, <1>3, <1>4, <1>5, <1>6 DEF SysNext

\* The xids on the wire grow, and the one in Riak follows the last of them.
LEMMA WireKeeps ==
  ASSUME Base, Base', WireInv, InOrder, DbCurrent, WireStep, [SysNext]_sysVars
  PROVE  WireInv' /\ InOrder' /\ DbCurrent'
<1>1. wire \in Seq(Msgs) /\ Common \in Nat /\ n_routers \in {0, 1} /\ n_routers' \in {0, 1}
  BY CommonType DEF WireInv, Base, IInv, TypeOK
<1>2. CASE wire' = wire /\ egress_db' = egress_db /\ (Live' => Common' = Common)
  <2>1. InOrder' /\ DbCurrent'
    BY <1>2 DEF InOrder, DbCurrent
  <2>2. n_routers' = 0 => wire' = <<>>
    BY <1>1, <1>2, RouterStep DEF WireInv
  <2>3. Live' => Live
    BY LiveBefore
  <2>4. QED
    BY <1>1, <1>2, <2>1, <2>2, <2>3 DEF WireInv
<1>3. ASSUME Live, NEW m \in Msgs, wire' = (IF n_routers > 0 THEN wire \o <<m>> ELSE wire),
             m.xid = Common, Common' = Common + 1, egress_db' = Common'
      PROVE  WireInv' /\ InOrder' /\ DbCurrent'
  <2>1. \A i \in 1..Len(wire) : wire[i].xid < Common
    BY <1>1, <1>3, SMTT(20) DEF WireInv
  <2>2. CASE n_routers = 0
    <3>1. wire' = <<>>
      BY <1>3, <2>2, SMTT(20) DEF WireInv
    <3>2. QED
      BY <3>1, SMTT(20) DEF WireInv, InOrder, DbCurrent
  <2>3. CASE n_routers = 1
    <3>1. wire' = wire \o <<m>>
      BY <1>3, <2>3, SMTT(20)
    <3>2. /\ wire' \in Seq(Msgs) /\ Len(wire) \in Nat /\ Len(wire') = Len(wire) + 1 /\ wire'[Len(wire) + 1] = m
          /\ \A i \in 1..Len(wire) : wire'[i] = wire[i]
      BY <1>1, <3>1, SMTT(20)
    <3>3. n_routers' = 1
      BY <1>1, <2>3, RouterStep
    <3>4. \A i \in 1..Len(wire') : i \in 1..Len(wire) \/ i = Len(wire) + 1
      BY <3>2, SMTT(20)
    <3>5. \A i \in 1..Len(wire) : wire[i].xid \in Nat
      <4>1. Xids \subseteq Nat
        BY BoundsAssumption, SMTT(20) DEF Xids
      <4>2. \A i \in 1..Len(wire) : wire[i] \in Msgs
        BY <1>1, ElementOfSeq
      <4>3. QED
        BY <4>1, <4>2 DEF Msgs
    <3>6. ASSUME NEW i \in 1..Len(wire') PROVE wire'[i].xid < Common'
      <4>1. CASE i \in 1..Len(wire)
        BY <1>1, <1>3, <2>1, <3>2, <3>5, <4>1, SMTT(20)
      <4>2. CASE i = Len(wire) + 1
        BY <1>1, <1>3, <3>2, <4>2, SMTT(20)
      <4>3. QED
        BY <3>4, <4>1, <4>2
    <3>7. WireInv'
      BY <1>3, <3>2, <3>3, <3>6, SMTT(20) DEF WireInv
    <3>8. InOrder'
      <4>1. SUFFICES ASSUME NEW i \in 1..Len(wire'), NEW j \in 1..Len(wire'), i < j
                     PROVE  wire'[i].xid < wire'[j].xid
        BY DEF InOrder
      <4>2. i \in 1..Len(wire) /\ wire'[i] = wire[i]
        BY <3>2, <3>4, <4>1, SMTT(20)
      <4>3. CASE j \in 1..Len(wire)
        BY <3>2, <4>1, <4>2, <4>3 DEF InOrder
      <4>4. CASE j = Len(wire) + 1
        BY <1>3, <2>1, <3>2, <4>2, <4>4
      <4>5. QED
        BY <3>4, <4>3, <4>4
    <3>9. DbCurrent'
      BY <1>1, <1>3, <3>2 DEF DbCurrent
    <3>10. QED
      BY <3>7, <3>8, <3>9
  <2>4. QED
    BY <1>1, <2>2, <2>3
<1>4. QED
  BY <1>2, <1>3 DEF WireStep

\* The controller stops only where it reads a leader announcement, which leaves the
\* queues alone: an election is never started with a disconnected slot among NumSibs.
LEMMA StopKeeps ==
  ASSUME Base, Base', [SysNext]_sysVars, n_ospf6_siblings' <= NumSibs, ~running'
  PROVE  UNCHANGED <<n_ospf6_siblings, state, current_egress_xid, waiting_on_first_egress_msg, queue>>
<1>1. CASE CtrlIdle \/ UNCHANGED sysVars
  BY <1>1 DEF CtrlIdle, sysVars, vars, slotVars
<1>2. ~CtrlRouterAccept
  BY SMTT(20) DEF CtrlRouterAccept, RouterAccept
<1>3. DOMAIN state = Slots /\ IInv' /\ Counts'
  BY DEF Base, TInv, Numbers
<1>4. ASSUME NEW s \in Slots, NEW new, new # "NULL", NEW replies, state_transition(s, new, replies),
             n_ospf6_siblings' = n_ospf6_siblings
      PROVE  FALSE
  <2>1. n_ospf6_siblings_routing' = NumSibs
    BY <1>4 DEF state_transition, send_leader_elect
  <2>2. \A t \in Used' : state'[t] = "SIB_ROUTING"
    BY <1>3, <2>1, ElectionIsFullNext
  <2>3. PICK t \in 1..n_ospf6_siblings : t # s /\ state[t] = "SIB_DISCONNECTED"
    BY <1>4, <2>1 DEF state_transition, send_leader_elect
  <2>4. state'[t] = "SIB_DISCONNECTED" /\ t \in Used'
    BY <1>3, <1>4, <2>3, SMTT(20) DEF state_transition, Used
  <2>5. QED
    BY <2>2, <2>4
<1>5. \A s \in Slots : ~CtrlConnected(s) /\ ~CtrlDestroy(s)
  BY <1>4 DEF CtrlConnected, Connected, CtrlDestroy, Destroy
<1>6. ASSUME NEW p \in Sibs, NEW s \in Slots, Connect(p, s) PROVE FALSE
  <2>1. ~AcceptReuse(s)
    BY <1>4 DEF AcceptReuse
  <2>2. ~AcceptNew(s)
    <3>1. SUFFICES ASSUME AcceptNew(s) PROVE FALSE
      OBVIOUS
    <3>2. n_ospf6_siblings_routing' = NumSibs /\ state'[s] = "SIB_CONNECTING"
      BY <1>3, <3>1 DEF AcceptNew
    <3>3. s \in Used'
      BY <1>3, <3>2 DEF IInv, TypeOK
    <3>4. QED
      BY <1>3, <3>2, <3>3, ElectionIsFullNext
  <2>3. QED
    BY <1>6, <2>1, <2>2 DEF Connect
<1>7. ASSUME NEW s \in Slots, CtrlRecv(s)
      PROVE  UNCHANGED <<n_ospf6_siblings, state, current_egress_xid, waiting_on_first_egress_msg, queue>>
  <2>1. running
    BY <1>7 DEF CtrlRecv, CtrlProcess, FeaturesRequest, RedistributeRequest, IfAddressReq, Ipv6RouteSet,
       ForwardOspf6, RedistributeLeaderElect
  <2>2. ASSUME NEW new, new # "NULL", NEW replies PROVE ~TakeRequest(s, new, replies)
    BY <1>4, <2>2 DEF TakeRequest
  <2>3. ~Ignore
    BY <2>1 DEF Ignore
  <2>4. ASSUME NEW x PROVE ~FeaturesRequest(s, x) /\ ~RedistributeRequest(s, x) /\ ~IfAddressReq(s, x)
    <3>1. ~IfAddressReq(s, x)
      BY <2>1, <2>2, <2>3 DEF IfAddressReq
    <3>2. ~FeaturesRequest(s, x)
      <4>1. state[s] \in {"SIB_CONNECTED", "SIB_REDISTRIBUTE_REQ_RCVD"} => AfterFeatures(state[s]) # "NULL"
        BY DEF AfterFeatures
      <4>2. QED
        BY <2>2, <2>3, <4>1 DEF FeaturesRequest
    <3>3. ~RedistributeRequest(s, x)
      <4>1. state[s] \in {"SIB_CONNECTED", "SIB_FEATURES_REQ_RCVD", "SIB_FEATURES_ADDR_REQ_RCVD"}
              => AfterRedistribute(state[s]) # "NULL"
        BY DEF AfterRedistribute
      <4>2. QED
        BY <2>2, <2>3, <4>1 DEF RedistributeRequest
    <3>4. QED
      BY <3>1, <3>2, <3>3
  <2>5. ASSUME NEW m PROVE ~Ipv6RouteSet(s, m) /\ ~ForwardOspf6(s, m)
    BY <2>1 DEF Ipv6RouteSet, ForwardOspf6, Egress
  <2>6. RedistributeLeaderElect(s, Head(toCtrl[s]).leads)
    BY <1>7, <2>4, <2>5 DEF CtrlRecv, CtrlProcess
  <2>7. QED
    BY <2>6 DEF RedistributeLeaderElect
<1>8. ASSUME NEW p \in Sibs,
             \/ \E s \in Slots : SibRecv(p, s)
             \/ SibElected(p) \/ RestartDone(p) \/ Crash(p) \/ Restart(p)
             \/ \E val \in Payload : SibSend(p, val)
      PROVE  CtrlIdle
  BY <1>8 DEF SibRecv, SibElected, RestartDone, Crash, Restart, SibSend
<1>9. QED
  BY <1>1, <1>2, <1>5, <1>6, <1>7, <1>8 DEF SysNext

\* Past its first egress message a slot has the common xid.
LEMMA AlignedLive ==
  ASSUME LiveInv
  PROVE  QueueAligned
<1>1. ASSUME NEW s \in Routing, ~waiting_on_first_egress_msg[s]
      PROVE  /\ current_egress_xid[s] = Common
             /\ \A i \in 1..Len(queue[s]) : queue[s][i].xid = Common + i - 1
  <2>1. s \in Slots /\ Streaming(s)
    BY DEF Routing, LiveInv, SlotLive
  <2>2. QED
    BY <1>1, <2>1 DEF Streaming, Fresh
<1>2. QED
  BY <1>1 DEF QueueAligned

\* Every step keeps QueueAligned.
LEMMA AlignedStep ==
  ASSUME Base, Base', n_ospf6_siblings <= NumSibs => QueueAligned, Live' => LiveInv', [SysNext]_sysVars
  PROVE  n_ospf6_siblings' <= NumSibs => QueueAligned'
<1>1. SUFFICES ASSUME n_ospf6_siblings' <= NumSibs PROVE QueueAligned'
  OBVIOUS
<1>2. CASE running'
  <2>1. (LiveInv => QueueAligned)'
    BY AlignedLive, PTL
  <2>2. QED
    BY <1>1, <1>2, <2>1 DEF Live
<1>3. CASE ~running'
  BY <1>1, <1>3, StopKeeps, SMTT(20) DEF QueueAligned, Routing
<1>4. QED
  BY <1>2, <1>3

-----------------------------------------------------------------------------
(***************************************************************************)
(* The initial states                                                      *)
(***************************************************************************)

\* OInv holds at the start.
LEMMA InitOInv == SysInit => OInv
<1> SUFFICES ASSUME SysInit PROVE OInv
  OBVIOUS
<1>1. TInv /\ IInv
  BY SysInitInv, InitIInv DEF SInv, SysInit, Booted
<1>2. /\ peer = [s \in Slots |-> NoSib] /\ toCtrl = [s \in Slots |-> <<>>] /\ toSib = [s \in Slots |-> <<>>]
      /\ proc = [p \in Sibs |-> NewProc(conn, FALSE)] /\ xid = [p \in Sibs |-> 0]
      /\ order = [p \in Sibs |-> p] /\ wire = <<>>
      /\ leader_sibling = NoSlot /\ state = [s \in Slots |-> "NULL"]
      /\ current_egress_xid = [s \in Slots |-> 0] /\ is_leader = [s \in Slots |-> FALSE]
      /\ queue = [s \in Slots |-> <<>>] /\ egress_db = 0
  BY DEF SysInit, Booted, Init
<1>3. LET r == NewProc(conn, FALSE)
      IN  r \in Procs(conn) /\ r.sc = "SC_INIT" /\ ~r.hellos /\ ~r.sync /\ ~r.restart_mode
  BY DEF NewProc, Procs, CtrlStates, ScStates
<1>4. LinkInv
  BY <1>2, SMTT(20) DEF LinkInv
<1>5. OrderInv
  <2>1. order \in Seq(Sibs) /\ Len(order) = NumSibs /\ \A i \in 1..Len(order) : order[i] = i
    <3>1. Sibs = 1..NumSibs /\ NumSibs \in Nat /\ order \in [1..NumSibs -> Sibs]
      BY <1>2, NumSibsAssumption DEF Sibs
    <3>2. order \in Seq(Sibs)
      BY <3>1, IsASeq, SMTT(20)
    <3>3. Len(order) = NumSibs
      BY <3>1, <3>2, LenProperties, SMTT(20)
    <3>4. QED
      BY <1>2, <3>1, <3>2, <3>3
  <2>2. QED
    BY <2>1, NumSibsAssumption, SMTT(20) DEF OrderInv, Oldest
<1>6. ProcInv
  <2>1. proc \in [Sibs -> Procs(conn)]
    BY <1>2, <1>3
  <2>2. ASSUME NEW p \in Sibs PROVE ProcAt(p)
    <3>1. SlotsOf(p) = {}
      BY <1>2, SMTT(20) DEF SlotsOf, NoSib, Sibs
    <3>2. QED
      BY <1>2, <1>3, <3>1 DEF ProcAt
  <2>3. QED
    BY <2>1, <2>2 DEF ProcInv
<1>7. WireInv /\ InOrder /\ DbCurrent
  BY <1>2, SMTT(20) DEF WireInv, InOrder, DbCurrent
<1>8. LiveInv
  <2>1. \A s \in Slots : SlotLive(s)
    BY <1>2, SMTT(20) DEF SlotLive
  <2>2. \A p \in Sibs : NotElected(p)
    BY <1>2, <1>3 DEF NotElected, Unelected
  <2>3. NoLeaderYet
    <3>1. \A p \in Sibs : ~proc[p].restart_mode /\ ~proc[p].sync
      BY <1>2, <1>3
    <3>2. \A s \in Slots : state[s] = "NULL" /\ queue[s] = <<>> /\ toCtrl[s] = <<>> /\ Len(toCtrl[s]) = 0
      BY <1>2
    <3>3. ASSUME NEW s \in Slots
          PROVE  /\ state[s] # "NULL" => peer[s] # NoSib
                 /\ queue[s] = <<>>
                 /\ \A i \in 1..Len(toCtrl[s]) : toCtrl[s][i].type = "EGRESS" =>
                      \E j \in 1..(i - 1) : toCtrl[s][j].type = "REDISTRIBUTE_LEADER_ELECT"
      BY <3>2, SMTT(20)
    <3>4. order = [p \in Sibs |-> p]
      BY <1>2
    <3>5. QED
      BY <2>2, <3>1, <3>3, <3>4, Zenon DEF NoLeaderYet
  <2>4. Quiescent
    BY <1>2, <2>2, SMTT(20) DEF Quiescent, Has
  <2>5. Common = FirstEgress
    BY <1>2 DEF Common
  <2>6. QED
    BY <1>2, <2>1, <2>3, <2>4, <2>5, SMTT(20) DEF LiveInv, FirstEgress
<1>9. QueueAligned
  BY <1>8, AlignedLive
<1>10. QED
  BY <1>1, <1>4, <1>5, <1>6, <1>7, <1>8, <1>9 DEF OInv

-----------------------------------------------------------------------------
(***************************************************************************)
(* The theorems                                                            *)
(***************************************************************************)

\* Every step keeps OInv.
LEMMA StepOInv == ASSUME LeaderStays, OInv, [OrderNext]_sysVars PROVE OInv'
<1>1. [SysNext]_sysVars
  BY DEF OrderNext
<1>2. TInv'
  BY <1>1, SysNextTInv DEF OInv, LeaderStays
<1>3. IInv'
  BY <1>1, ControllerInv DEF OInv
<1>4. LinkInv' /\ OrderInv' /\ ProcInv'
  BY <1>1, <1>2, <1>3, LinkStep, OrderStep, ProcStep DEF OInv
<1>5. Base /\ Base'
  <2>1. Counts /\ Counts'
    <3>1. (TInv /\ IInv => Counts)'
      BY CountsHold, PTL
    <3>2. QED
      BY <1>2, <1>3, <3>1, CountsHold DEF OInv
  <2>2. QED
    BY <1>2, <1>3, <1>4, <2>1 DEF Base, OInv
<1>6. (Live' => LiveInv') /\ WireStep
  BY <1>5, LiveStep DEF OInv
<1>7. WireInv' /\ InOrder' /\ DbCurrent'
  BY <1>1, <1>5, <1>6, WireKeeps DEF OInv
<1>8. n_ospf6_siblings' <= NumSibs => QueueAligned'
  BY <1>1, <1>5, <1>6, AlignedStep DEF OInv
<1>9. QED
  BY <1>2, <1>3, <1>4, <1>6, <1>7, <1>8 DEF OInv

\* The inductive invariant holds as long as the leader stays.
THEOREM OrderInvariant == LeaderStays => (OrderSpec => []OInv)
<1> SUFFICES ASSUME LeaderStays PROVE OrderSpec => []OInv
  OBVIOUS
<1>1. OInv /\ [OrderNext]_sysVars => OInv'
  BY StepOInv
<1>2. QED
  BY <1>1, InitOInv, PTL DEF OrderSpec

\* vote_majority forwards every transaction id at most once and never goes back: what
\* reaches the router has growing xids, whichever siblings are slow, crash or return.
THEOREM ForwardedInOrder == LeaderStays => (OrderSpec => []InOrder)
<1> SUFFICES ASSUME LeaderStays PROVE OrderSpec => []InOrder
  OBVIOUS
<1>1. OInv => InOrder
  BY DEF OInv
<1>2. QED
  BY <1>1, OrderInvariant, PTL

\* db_set_egress_xid keeps Riak at the xid after the last message the vote released, so
\* a sibling that is restarted resumes where the others are.
THEOREM DbAlwaysCurrent == LeaderStays => (OrderSpec => []DbCurrent)
<1> SUFFICES ASSUME LeaderStays PROVE OrderSpec => []DbCurrent
  OBVIOUS
<1>1. OInv => DbCurrent
  BY DEF OInv
<1>2. QED
  BY <1>1, OrderInvariant, PTL

\* The queues that vote_majority compares are aligned, as long as the slots are not more
\* than the siblings; with more, sib_router.c does not vote at all.
THEOREM QueuesAligned ==
  LeaderStays => (OrderSpec => [](n_ospf6_siblings <= NumSibs => QueueAligned))
<1> SUFFICES ASSUME LeaderStays PROVE OrderSpec => [](n_ospf6_siblings <= NumSibs => QueueAligned)
  OBVIOUS
<1>1. OInv => (n_ospf6_siblings <= NumSibs => QueueAligned)
  BY DEF OInv
<1>2. QED
  BY <1>1, OrderInvariant, PTL

=============================================================================
