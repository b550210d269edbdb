---------------------------- MODULE SibOrderCtrl ----------------------------
(***************************************************************************)
(* The invariant of SibOrderInv is kept by the steps of the controller:    *)
(* connections, the requests of a handshake, the announcement of the       *)
(* leader and the egress messages.                                         *)
(***************************************************************************)
EXTENDS SibOrderSibs

\* A step is proved by Zenon unless it names another prover.
USE ZenonT(20)

-----------------------------------------------------------------------------
(***************************************************************************)
(* Facts about the operators                                               *)
(***************************************************************************)

\* The first message is read.
LEMMA RunsTail ==
  ASSUME NEW S, NEW t \in Seq(S), t # <<>>, NEW a \in Nat, NEW b \in Nat, Runs(t, a, b)
  PROVE  IF Head(t).type = "EGRESS" THEN Head(t).msg.xid = a /\ Runs(Tail(t), a + 1, b)
                                    ELSE Runs(Tail(t), a, b)
<1>1. PICK f \in [1 .. Len(t) + 1 -> Nat] :
        /\ f[1] = a /\ f[Len(t) + 1] = b
        /\ \A i \in 1..Len(t) :
             IF t[i].type = "EGRESS" THEN t[i].msg.xid = f[i] /\ f[i + 1] = f[i] + 1
                                     ELSE f[i + 1] = f[i]
  BY DEF Runs
<1>2. /\ Len(t) \in Nat /\ Len(t) >= 1 /\ Head(t) = t[1]
      /\ Len(Tail(t)) = Len(t) - 1 /\ \A i \in 1 .. Len(t) - 1 : Tail(t)[i] = t[i + 1]
  BY HeadTailProperties, SMTT(20)
<1> DEFINE g == [i \in 1 .. Len(Tail(t)) + 1 |-> f[i + 1]]
<1>3. /\ g \in [1 .. Len(Tail(t)) + 1 -> Nat] /\ g[1] = f[2] /\ g[Len(Tail(t)) + 1] = b
      /\ \A i \in 1 .. Len(Tail(t)) : g[i] = f[i + 1] /\ g[i + 1] = f[i + 2]
  BY <1>1, <1>2, SMTT(20)
<1> HIDE DEF g
<1>4. \A i \in 1..Len(Tail(t)) :
        IF Tail(t)[i].type = "EGRESS" THEN Tail(t)[i].msg.xid = g[i] /\ g[i + 1] = g[i] + 1
                                      ELSE g[i + 1] = g[i]
  <2> TAKE i \in 1..Len(Tail(t))
  <2>1. i + 1 \in 1..Len(t) /\ Tail(t)[i] = t[i + 1] /\ g[i] = f[i + 1] /\ g[i + 1] = f[(i + 1) + 1]
    BY <1>2, <1>3, SMTT(20)
  <2>2. QED
    BY <1>1, <2>1
<1>5. Runs(Tail(t), f[2], b)
  BY <1>3, <1>4 DEF Runs
<1>6. IF t[1].type = "EGRESS" THEN t[1].msg.xid = a /\ f[2] = a + 1 ELSE f[2] = a
  BY <1>1, <1>2, SMTT(20)
<1>7. QED
  BY <1>2, <1>5, <1>6

\* One or two messages are read.
LEMMA TailOf ==
  ASSUME NEW a, NEW b
  PROVE  /\ Head(<<a>>) = a /\ <<a>>[1] = a /\ Tail(<<a>>) = <<>>
         /\ Head(<<a, b>>) = a /\ <<a, b>>[1] = a /\ Tail(<<a, b>>) = <<b>>
BY SMTT(20)

-----------------------------------------------------------------------------
(***************************************************************************)
(* Steps of the connections                                                *)
(***************************************************************************)

\* What is written to a slot's process when the controller sends only to slot s.
LEMMA DeliverQuiet ==
  ASSUME LinkInv, NEW extra, NEW t \in Slots, Deliver(extra), peer'[t] = peer[t],
         extra[t] = <<>>, sent'[t] = <<>>
  PROVE  toSib'[t] = toSib[t]
<1>1. toSib[t] \in Seq(Replies \cup {"HELLO"})
  BY DEF LinkInv
<1>2. toSib[t] \o <<>> \o <<>> = toSib[t]
  BY <1>1, SMTT(20)
<1>3. QED
  BY <1>2 DEF Deliver, LinkInv

\* What Counts says of the state after a step.
LEMMA ElectionIsFullNext ==
  ASSUME Counts', n_ospf6_siblings' <= NumSibs, n_ospf6_siblings_routing' = NumSibs
  PROVE  n_ospf6_siblings' = NumSibs /\ \A t \in Used' : state'[t] = "SIB_ROUTING"
BY DEF Counts

\* When all slots in use are connected, every sibling is.
LEMMA AllConnected ==
  ASSUME Counts, n_ospf6_siblings = NumSibs, \A t \in Used : peer[t] # NoSib, NEW p \in Sibs
  PROVE  \E t \in Used : peer[t] = p
BY DEF Counts

\* While at most NumSibs slots are in use and slot s is not routing, a transition of
\* slot s starts no election.
LEMMA NoElection ==
  ASSUME IInv', Counts', n_ospf6_siblings' <= NumSibs, NEW s \in Slots, NEW replies,
         send_leader_elect(s, replies, n_ospf6_siblings),
         state'[s] \notin {"NULL", "SIB_ROUTING"}
  PROVE  sent' = replies /\ running' = TRUE
<1>1. s \in Used'
  BY DEF IInv, TypeOK
<1>2. n_ospf6_siblings_routing' # NumSibs
  BY <1>1, ElectionIsFullNext
<1>3. QED
  BY <1>2 DEF send_leader_elect

\* The HELLO of a new connection.
LEMMA ConnectedLive ==
  ASSUME Base, Base', LiveInv, Live', NEW s \in Slots, CtrlConnected(s)
  PROVE  LiveInv'
<1>1. /\ state[s] = "SIB_CONNECTING" /\ state' = [state EXCEPT ![s] = "SIB_CONNECTED"]
      /\ DOMAIN state = Slots /\ Shape
  BY DEF CtrlConnected, Connected, state_transition, Base, TInv, Numbers
<1>2. UNCHANGED <<leader_sibling, current_egress_xid, is_leader, queue, waiting_on_first_egress_msg,
                  egress_db, peer, toCtrl, proc, xid, order>>
  BY DEF CtrlConnected, Connected
<1> DEFINE extra == [Quiet EXCEPT ![s] = <<"HELLO">>]
<1>3. sent' = Quiet
  BY <1>1, NoElection DEF CtrlConnected, Connected, state_transition, Base, Live
<1>4. /\ extra[s] = <<"HELLO">> /\ \A t \in Slots : Quiet[t] = <<>> /\ (t # s => extra[t] = <<>>)
      /\ Deliver(extra)
  BY DEF Quiet, CtrlConnected
<1> HIDE DEF extra
<1>5. ASSUME NEW t \in Slots, t # s PROVE SameSlot(t)
  <2>1. toSib'[t] = toSib[t]
    BY <1>2, <1>3, <1>4, <1>5, DeliverQuiet DEF Base
  <2>2. QED
    BY <1>1, <1>2, <1>5, <2>1 DEF SameSlot
<1>6. Handshaking(s) /\ Common' = Common
  BY <1>1, <1>2, CommonFrame DEF LiveInv, SlotLive
<1>7. toCtrl[s] = <<>> /\ queue[s] = <<>>
      /\ toSib'[s] = IF peer[s] = NoSib THEN <<>> ELSE <<"HELLO">>
  <2>1. /\ toCtrl[s] = <<>> /\ queue[s] = <<>>
        /\ peer[s] # NoSib => toSib[s] = <<>>
    BY <1>1, <1>6 DEF Handshaking, Shake, Reading, States
  <2>2. <<>> \o <<"HELLO">> \o <<>> = <<"HELLO">>
    BY SMTT(20)
  <2>3. toSib'[s] = IF peer[s] = NoSib THEN <<>> ELSE toSib[s] \o <<"HELLO">> \o <<>>
    BY <1>2, <1>3, <1>4 DEF Deliver
  <2>4. QED
    BY <2>1, <2>2, <2>3
<1>8. Handshaking(s)'
  <2>1. state'[s] = "SIB_CONNECTED" /\ peer'[s] = peer[s] /\ toCtrl'[s] = <<>> /\ queue'[s] = <<>>
    BY <1>1, <1>2, <1>7
  <2>2. Shake("SIB_CONNECTED", <<>>, <<"HELLO">>, 0)
    BY DEF Shake
  <2>3. peer'[s] = NoSib => \E b \in ToSibs, x \in 0..3 : Shake(state'[s], toCtrl'[s], b, x)
    BY <2>1, <2>2, SMTT(20) DEF ToSibs
  <2>4. ASSUME peer[s] # NoSib
        PROVE  /\ Shake(state'[s], toCtrl'[s], toSib'[s], xid'[peer'[s]])
               /\ NotElected(peer[s])' /\ ~proc'[peer'[s]].hellos
    <3>1. xid[peer[s]] = 0 /\ NotElected(peer[s]) /\ ~proc[peer[s]].hellos
      BY <1>1, <1>6, <2>4 DEF Handshaking, Shake, Reading, States
    <3>2. QED
      BY <1>2, <1>7, <2>1, <2>2, <2>4, <3>1 DEF NotElected
  <2>5. ASSUME peer[s] \in Sibs \ Crashers
        PROVE  current_egress_xid'[s] = 0 /\ toSib'[s] # <<>>
    <3>1. current_egress_xid[s] = 0
      BY <1>1, <1>6, <2>5, SMTT(20) DEF Handshaking, Rank
    <3>2. peer[s] # NoSib
      BY <2>5, SMTT(20) DEF Sibs, NoSib
    <3>3. QED
      BY <1>2, <1>7, <3>1, <3>2, SMTT(20)
  <2>6. "SIB_CONNECTED" \in DOMAIN Rank /\ Rank["SIB_CONNECTED"] = 0
    BY DEF Rank
  <2>7. QED
    BY <2>1, <2>3, <2>4, <2>5, <2>6 DEF Handshaking
<1>9. SlotLive(s)'
  <2>1. SlotLive(s)
    BY DEF LiveInv
  <2>2. QED
    BY <1>1, <1>2, <1>7, <1>8, <2>1 DEF SlotLive
<1>10. \A t \in Slots : SlotLive(t)'
  BY <1>1, <1>2, <1>5, <1>6, <1>9, SlotFrame DEF LiveInv
<1>11. NoLeaderYet => NoLeaderYet'
  BY <1>1, <1>2, SMTT(20) DEF NoLeaderYet, NotElected
<1>12. Begun => Begun'
  BY <1>1, <1>2 DEF Begun
<1>13. Quiescent => Quiescent'
  <2>1. \A i \in 1..Len(toSib'[s]) : toSib'[s][i] # "LEADER_ELECT"
    BY <1>7, SMTT(20)
  <2>2. \A t \in Slots : t # s => toSib'[t] = toSib[t]
    BY <1>5 DEF SameSlot
  <2>3. QED
    BY <1>2, <2>1, <2>2 DEF Quiescent, NotElected
<1>14. QED
  BY <1>2, <1>6, <1>10, <1>11, <1>12, <1>13 DEF LiveInv

\* sib_router_destroy: only a slot whose process is gone, so not the leader's.
LEMMA DestroyLive ==
  ASSUME Base, Base', LiveInv, Live', NEW s \in Slots, CtrlDestroy(s)
  PROVE  LiveInv'
<1>1. /\ peer[s] = NoSib /\ state[s] \in Reading /\ state' = [state EXCEPT ![s] = "SIB_DISCONNECTED"]
      /\ queue' = [queue EXCEPT ![s] = <<>>] /\ toCtrl' = [toCtrl EXCEPT ![s] = <<>>]
      /\ waiting_on_first_egress_msg' = [waiting_on_first_egress_msg EXCEPT ![s] = FALSE]
  BY DEF CtrlDestroy, Destroy, FreeQueue, state_transition
<1>2. DOMAIN state = Slots /\ DOMAIN queue = Slots /\ DOMAIN toCtrl = Slots /\ Shape
      /\ DOMAIN waiting_on_first_egress_msg = Slots
  BY DEF Base, TInv, Numbers, Shape, IInv, TypeOK
<1>3. UNCHANGED <<leader_sibling, current_egress_xid, is_leader, egress_db, peer, proc, xid, order>>
  BY DEF CtrlDestroy, Destroy
<1>4. sent' = Quiet
  BY <1>1, <1>2, NoElection DEF CtrlDestroy, Destroy, state_transition, Base, Live
<1>5. leader_sibling # NoSlot /\ Begun
  <2>1. state[s] # "NULL"
    BY <1>1 DEF Reading
  <2>2. leader_sibling # NoSlot
    BY <1>1, <2>1 DEF LiveInv, NoLeaderYet
  <2>3. QED
    BY <2>2 DEF LiveInv, Quiescent
<1>6. peer[leader_sibling] = Oldest /\ leader_sibling # s
  BY <1>1, <1>5, SMTT(20) DEF LiveInv, Oldest, NoSib
<1>7. ASSUME NEW t \in Slots, t # s PROVE SameSlot(t)
  <2>1. toSib'[t] = toSib[t]
    BY <1>3, <1>4, DeliverQuiet DEF Base, Quiet, CtrlDestroy
  <2>2. QED
    BY <1>1, <1>2, <1>3, <1>7, <2>1 DEF SameSlot
<1>8. Common' = Common
  BY <1>3, CommonFrame
<1>9. SlotLive(s)'
  <2>1. is_leader[s] => s = leader_sibling
    BY DEF LiveInv, SlotLive
  <2>2. state'[s] = "SIB_DISCONNECTED" /\ toCtrl'[s] = <<>>
    BY <1>1, <1>2
  <2>3. QED
    BY <1>3, <2>1, <2>2, SMTT(20) DEF SlotLive
<1>10. \A t \in Slots : SlotLive(t)'
  BY <1>2, <1>3, <1>7, <1>8, <1>9, SlotFrame DEF LiveInv
<1>11. Begun'
  <2>1. \A p \in Sibs : p # NoSib
    BY SMTT(20) DEF Sibs, NoSib
  <2>2. QED
    BY <1>1, <1>2, <1>3, <1>5, <2>1, SMTT(20) DEF Begun
<1>12. QED
  BY <1>3, <1>5, <1>6, <1>8, <1>10, <1>11 DEF LiveInv

\* A process connects: sib_listener_accept finds a slot that holds nothing.
LEMMA ConnectLive ==
  ASSUME Base, Base', LiveInv, Live', NEW p \in Sibs, NEW s \in Slots, Connect(p, s)
  PROVE  LiveInv'
<1>1. /\ Alive(p) /\ SlotsOf(p) = {} /\ peer' = [peer EXCEPT ![s] = p] /\ toCtrl' = [toCtrl EXCEPT ![s] = <<>>]
      /\ proc' = [proc EXCEPT ![p].ctrl["controller"] = "CTRL_SENT_HELLO"] /\ xid' = xid /\ order' = order
      /\ Deliver(Quiet)
      /\ AcceptReuse(s) \/ AcceptNew(s)
  BY DEF Connect
<1>2. /\ DOMAIN state = Slots /\ DOMAIN queue = Slots /\ DOMAIN toCtrl = Slots /\ Shape
      /\ DOMAIN waiting_on_first_egress_msg = Slots /\ DOMAIN current_egress_xid = Slots
      /\ peer \in [Slots -> Sibs \cup {NoSib}] /\ proc \in [Sibs -> Procs(conn)]
      /\ leader_sibling \in Slots \cup {NoSlot}
  BY DEF Base, TInv, Numbers, Shape, IInv, TypeOK, ProcInv
<1>3. UNCHANGED <<leader_sibling, is_leader, egress_db>> /\ state' = [state EXCEPT ![s] = "SIB_CONNECTING"]
  BY <1>1 DEF AcceptReuse, AcceptNew, state_transition
<1>4. /\ state[s] \in {"NULL", "SIB_DISCONNECTED"} /\ sent' = Quiet
      /\ queue'[s] = <<>> /\ current_egress_xid'[s] = 0
      /\ \A t \in Slots : t # s => /\ queue'[t] = queue[t] /\ current_egress_xid'[t] = current_egress_xid[t]
                                   /\ waiting_on_first_egress_msg'[t] = waiting_on_first_egress_msg[t]
  <2>1. CASE AcceptReuse(s)
    <3>1. sent' = Quiet
      BY <1>2, <1>3, <2>1, NoElection DEF AcceptReuse, state_transition, Base, Live
    <3>2. QED
      BY <1>2, <2>1, <3>1 DEF AcceptReuse, Disconnected
  <2>2. CASE AcceptNew(s)
    <3>1. state[s] = "NULL" /\ queue[s] = <<>>
      BY <2>2, SMTT(20) DEF AcceptNew, Base, TInv, SlotAt, Numbers
    <3>2. current_egress_xid[s] = 0
      BY <3>1 DEF LiveInv, SlotLive
    <3>3. QED
      BY <2>2, <3>1, <3>2 DEF AcceptNew
  <2>3. QED
    BY <1>1, <2>1, <2>2
<1>5. peer[s] = NoSib /\ toSib[s] = <<>> /\ p # NoSib
  BY <1>4, SMTT(20) DEF Base, LinkInv, Sibs, NoSib
<1>6. leader_sibling # s /\ Common' = Common
  <2>1. leader_sibling # s
    BY <1>5, SMTT(20) DEF LiveInv, Oldest, NoSib, Slots, NoSlot
  <2>2. QED
    BY <1>2, <1>3, <1>4, <2>1, CommonFrame
<1>7. /\ \A q \in Sibs \ {p} : proc'[q] = proc[q]
      /\ proc'[p].sc = "SC_INIT" /\ ~proc'[p].hellos /\ xid'[p] = 0
      /\ proc'[p].sync = proc[p].sync /\ proc'[p].restart_mode = proc[p].restart_mode
      /\ proc[p].sc = "SC_INIT"
  <2>1. xid[p] = 0 /\ proc[p].sc = "SC_INIT" /\ ~proc[p].hellos
    BY <1>1 DEF Base, ProcInv, ProcAt
  <2>2. QED
    BY <1>1, <1>2, <2>1, SMTT(20) DEF Procs
<1>8. ASSUME NEW t \in Slots, t # s PROVE SameSlot(t)
  <2>1. peer'[t] = peer[t] /\ peer[t] # p
    BY <1>1, <1>2, <1>8 DEF SlotsOf
  <2>2. toSib'[t] = toSib[t]
    BY <1>1, <1>4, <2>1, DeliverQuiet DEF Base, Quiet
  <2>3. QED
    BY <1>1, <1>2, <1>3, <1>4, <1>7, <1>8, <2>1, <2>2 DEF SameSlot
<1>9. /\ peer'[s] = p /\ toCtrl'[s] = <<>> /\ state'[s] = "SIB_CONNECTING" /\ toSib'[s] = <<>>
  <2>1. <<>> \o <<>> \o <<>> = <<>>
    BY SMTT(20)
  <2>2. QED
    BY <1>1, <1>2, <1>3, <1>4, <1>5, <2>1 DEF Deliver, Quiet
<1>10. SlotLive(s)'
  <2>1. Shake("SIB_CONNECTING", <<>>, <<>>, 0)
    BY DEF Shake
  <2>2. "SIB_CONNECTING" \in DOMAIN Rank /\ Rank["SIB_CONNECTING"] = 0
    BY DEF Rank
  <2>3. Handshaking(s)'
    BY <1>4, <1>5, <1>7, <1>9, <2>1, <2>2 DEF Handshaking, NotElected, Unelected
  <2>4. is_leader[s] => s = leader_sibling
    BY DEF LiveInv, SlotLive
  <2>5. QED
    BY <1>3, <1>9, <2>3, <2>4, SMTT(20) DEF SlotLive
<1>11. \A t \in Slots : SlotLive(t)'
  BY <1>2, <1>3, <1>6, <1>8, <1>10, SlotFrame DEF LiveInv
<1>12. \A q \in Sibs : NotElected(q)' <=> NotElected(q)
  BY <1>7 DEF NotElected
<1>13. NoLeaderYet => NoLeaderYet'
  <2>1. SUFFICES ASSUME NoLeaderYet PROVE NoLeaderYet'
    OBVIOUS
  <2>2. order' = [q \in Sibs |-> q]
    BY <1>1, <2>1 DEF NoLeaderYet
  <2>3. ASSUME NEW t \in Slots
        PROVE  /\ state'[t] # "NULL" => peer'[t] # NoSib
               /\ queue'[t] = <<>>
               /\ \A i \in 1..Len(toCtrl'[t]) : toCtrl'[t][i].type = "EGRESS" =>
                    \E j \in 1..(i - 1) : toCtrl'[t][j].type = "REDISTRIBUTE_LEADER_ELECT"
    BY <1>4, <1>5, <1>8, <1>9, <2>1, SMTT(20) DEF NoLeaderYet, SameSlot
  <2>4. \A q \in Sibs : ~proc'[q].restart_mode /\ ~proc'[q].sync
    BY <1>7, <2>1, SMTT(20) DEF NoLeaderYet
  <2>5. ASSUME NEW q \in Sibs, ~NotElected(q)'
        PROVE  \E t \in Slots : peer'[t] = q /\ Has(toCtrl'[t], "REDISTRIBUTE_LEADER_ELECT")
    <3>1. PICK t \in Slots : peer[t] = q /\ Has(toCtrl[t], "REDISTRIBUTE_LEADER_ELECT")
      BY <1>12, <2>1, <2>5 DEF NoLeaderYet
    <3>2. t # s
      BY <1>5, <3>1, SMTT(20) DEF Sibs, NoSib
    <3>3. QED
      BY <1>8, <3>1, <3>2 DEF SameSlot
  <2>6. QED
    BY <2>2, <2>3, <2>4, <2>5 DEF NoLeaderYet
<1>14. Begun => Begun'
  <2>1. \A q \in Sibs : q # NoSib
    BY SMTT(20) DEF Sibs, NoSib
  <2>2. QED
    BY <1>5, <1>8, <2>1, SMTT(20) DEF Begun, SameSlot
<1>15. Quiescent => Quiescent'
  BY <1>3, <1>8, <1>9, <1>12, SMTT(20) DEF Quiescent, SameSlot, Has
<1>16. leader_sibling # NoSlot => peer'[leader_sibling] = Oldest
  BY <1>2, <1>6, <1>8 DEF LiveInv, SameSlot
<1>17. QED
  BY <1>3, <1>6, <1>11, <1>13, <1>14, <1>15, <1>16 DEF LiveInv

-----------------------------------------------------------------------------
(***************************************************************************)
(* The requests of a handshake                                             *)
(***************************************************************************)

\* The slot of a sibling that does not crash routes once an election has begun.
LEMMA BegunRoutes ==
  ASSUME Base, LiveInv, ~Quiescent, NEW s \in Slots, peer[s] \in Sibs \ Crashers
  PROVE  state[s] = "SIB_ROUTING"
<1>1. PICK t \in Slots : peer[t] = peer[s] /\ state[t] = "SIB_ROUTING"
  BY DEF LiveInv, Begun
<1>2. QED
  BY <1>1 DEF Base, TInv, OneSlot

\* The leader's slot routes, and its xid is the common one.
LEMMA LeaderRoutes ==
  ASSUME LeaderStays, Base, LiveInv, leader_sibling # NoSlot
  PROVE  /\ leader_sibling \in Slots /\ state[leader_sibling] = "SIB_ROUTING"
         /\ peer[leader_sibling] = Oldest /\ Common = current_egress_xid[leader_sibling]
         /\ Begun /\ ~Quiescent
<1>1. leader_sibling \in Slots /\ peer[leader_sibling] = Oldest /\ ~Quiescent
  BY DEF Base, TInv, Numbers, LiveInv, Quiescent
<1>2. Oldest \in Sibs \ Crashers
  BY NumSibsAssumption, SMTT(20) DEF Oldest, Sibs, LeaderStays
<1>3. QED
  BY <1>1, <1>2, BegunRoutes DEF Common, LiveInv

\* Common is a number.
LEMMA CommonType == ASSUME TInv PROVE Common \in Nat
BY DEF Common, FirstEgress, TInv, Numbers, NoSlot, Slots

\* A step of a handshake, from what is read of slot s and r, what is answered.
LEMMA HandshakeLive ==
  ASSUME LeaderStays, Base, LiveInv, NEW s \in Slots, CtrlRecv(s),
         state[s] \notin {"NULL", "SIB_DISCONNECTED", "SIB_ROUTING"},
         UNCHANGED <<leader_sibling, is_leader, queue, egress_db>>,
         \A t \in Slots \ {s} :
           /\ state'[t] = state[t] /\ current_egress_xid'[t] = current_egress_xid[t]
           /\ waiting_on_first_egress_msg'[t] = waiting_on_first_egress_msg[t] /\ sent'[t] = <<>>,
         NEW r \in {<<>>, <<"FEATURES_REPLY">>}, sent'[s] = r,
         state'[s] \notin {"NULL", "SIB_DISCONNECTED", "SIB_ROUTING"},
         NEW b, NEW x \in 0..3, b \o r \in ToSibs,
         peer[s] # NoSib => b = toSib[s] /\ x = xid[peer[s]],
         Shake(state'[s], toCtrl'[s], b \o r, x),
         \A i \in 1..Len(toCtrl'[s]) : toCtrl'[s][i].type \notin {"EGRESS", "REDISTRIBUTE_LEADER_ELECT"},
         peer[s] \in Sibs \ Crashers =>
           /\ state'[s] \in DOMAIN Rank /\ current_egress_xid'[s] = Rank[state'[s]]
           /\ state'[s] # "SIB_CONNECTED"
           /\ state'[s] = "SIB_FEATURES_REQ_RCVD" => toCtrl'[s] # <<>> /\ toCtrl'[s][1] = Redistribute1
  PROVE  LiveInv'
<1>1. /\ toCtrl' = [toCtrl EXCEPT ![s] = Tail(@)] /\ UNCHANGED <<peer, proc, xid, order>> /\ Deliver(Quiet)
      /\ DOMAIN toCtrl = Slots /\ Shape /\ \A t \in Slots : Quiet[t] = <<>>
  BY DEF CtrlRecv, Base, TInv, Shape, Quiet
<1>2. ASSUME NEW t \in Slots \ {s} PROVE SameSlot(t)
  <2>1. toSib'[t] = toSib[t]
    BY <1>1, DeliverQuiet DEF Base
  <2>2. QED
    BY <1>1, <2>1 DEF SameSlot
<1>3. leader_sibling # s
  BY LeaderRoutes, SMTT(20) DEF Slots, NoSlot
<1>4. Common' = Common
  <2>1. leader_sibling # NoSlot => leader_sibling \in Slots \ {s}
    BY <1>3 DEF Base, TInv, Numbers
  <2>2. QED
    BY <2>1, CommonFrame
<1>5. Handshaking(s) /\ SlotLive(s)
  BY DEF LiveInv, SlotLive
<1>6. peer[s] # NoSib => toSib'[s] = b \o r
  <2>1. SUFFICES ASSUME peer[s] # NoSib PROVE toSib'[s] = b \o r
    OBVIOUS
  <2>2. toSib'[s] = toSib[s] \o <<>> \o r
    BY <1>1, <2>1 DEF Deliver
  <2>3. toSib[s] \in Seq(Replies \cup {"HELLO"})
    BY DEF Base, LinkInv
  <2>4. toSib[s] \o <<>> = toSib[s]
    BY <2>3, SMTT(20)
  <2>5. QED
    BY <2>1, <2>2, <2>4
<1>7. Handshaking(s)'
  <2>1. queue'[s] = <<>>
    BY <1>5 DEF Handshaking
  <2>2. peer'[s] = NoSib => \E bb \in ToSibs, y \in 0..3 : Shake(state'[s], toCtrl'[s], bb, y)
    OBVIOUS
  <2>3. ASSUME peer[s] # NoSib
        PROVE  /\ Shake(state'[s], toCtrl'[s], toSib'[s], xid'[peer'[s]])
               /\ NotElected(peer[s])' /\ ~proc'[peer'[s]].hellos
    BY <1>1, <1>5, <1>6, <2>3 DEF Handshaking, NotElected
  <2>4. QED
    BY <1>1, <2>1, <2>2, <2>3 DEF Handshaking
<1>8. SlotLive(s)'
  BY <1>5, <1>7 DEF SlotLive
<1>9. \A t \in Slots : SlotLive(t)'
  BY <1>1, <1>2, <1>4, <1>8, SlotFrame DEF LiveInv
<1>10. \A q \in Sibs : NotElected(q)' <=> NotElected(q)
  BY <1>1 DEF NotElected
<1>11. NoLeaderYet => NoLeaderYet'
  <2>1. SUFFICES ASSUME NoLeaderYet PROVE NoLeaderYet'
    OBVIOUS
  <2>2. order' = [q \in Sibs |-> q] /\ \A q \in Sibs : ~proc'[q].restart_mode /\ ~proc'[q].sync
    BY <1>1, <2>1 DEF NoLeaderYet
  <2>3. ASSUME NEW t \in Slots
        PROVE  /\ state'[t] # "NULL" => peer'[t] # NoSib
               /\ queue'[t] = <<>>
               /\ \A i \in 1..Len(toCtrl'[t]) : toCtrl'[t][i].type = "EGRESS" =>
                    \E j \in 1..(i - 1) : toCtrl'[t][j].type = "REDISTRIBUTE_LEADER_ELECT"
    <3>1. CASE t = s
      BY <1>1, <2>1, <3>1 DEF NoLeaderYet
    <3>2. CASE t # s
      BY <1>2, <2>1, <3>2, SMTT(20) DEF NoLeaderYet, SameSlot
    <3>3. QED
      BY <3>1, <3>2
  <2>4. ASSUME NEW q \in Sibs, ~NotElected(q)'
        PROVE  \E t \in Slots : peer'[t] = q /\ Has(toCtrl'[t], "REDISTRIBUTE_LEADER_ELECT")
    <3>1. PICK t \in Slots : peer[t] = q /\ Has(toCtrl[t], "REDISTRIBUTE_LEADER_ELECT")
      BY <1>10, <2>1, <2>4 DEF NoLeaderYet
    <3>2. q # NoSib
      BY SMTT(20) DEF Sibs, NoSib
    <3>3. t # s
      BY <1>5, <1>10, <2>4, <3>1, <3>2 DEF Handshaking
    <3>4. QED
      BY <1>2, <3>1, <3>3 DEF SameSlot
  <2>5. QED
    BY <2>2, <2>3, <2>4 DEF NoLeaderYet
<1>12. Begun => Begun'
  BY <1>2, SMTT(20) DEF Begun, SameSlot
<1>13. Quiescent => Quiescent'
  <2>1. \A i \in 1..Len(toSib'[s]) : toSib'[s][i] # "LEADER_ELECT"
    <3>1. toSib'[s] \in ToSibs
      BY <1>1, <1>6 DEF Deliver, ToSibs
    <3>2. QED
      BY <3>1, SMTT(20) DEF ToSibs
  <2>2. ~Has(toCtrl'[s], "REDISTRIBUTE_LEADER_ELECT")
    BY DEF Has
  <2>3. QED
    BY <1>2, <1>10, <2>1, <2>2, SMTT(20) DEF Quiescent, SameSlot
<1>14. QED
  BY <1>1, <1>4, <1>9, <1>11, <1>12, <1>13 DEF LiveInv

\* How far the handshake of slot s is.
LEMMA ShakeOf ==
  ASSUME NEW s \in Slots, Handshaking(s)
  PROVE  \E b \in ToSibs, x \in 0..3 :
           Shake(state[s], toCtrl[s], b, x) /\ (peer[s] # NoSib => b = toSib[s] /\ x = xid[peer[s]])
<1>1. CASE peer[s] = NoSib
  BY <1>1 DEF Handshaking
<1>2. CASE peer[s] # NoSib
  <2>1. Shake(state[s], toCtrl[s], toSib[s], xid[peer[s]])
    BY <1>2 DEF Handshaking
  <2>2. toSib[s] \in ToSibs
    BY <2>1 DEF Shake, ToSibs
  <2>3. xid[peer[s]] \in {0, 2, 3}
    BY <2>1 DEF Shake
  <2>4. QED
    BY <1>2, <2>1, <2>2, <2>3, SMTT(20)
<1>3. QED
  BY <1>1, <1>2

\* A request that is dropped, and one that is taken without an election.
LEMMA IgnoreEffect ==
  ASSUME Ignore
  PROVE  /\ UNCHANGED <<leader_sibling, is_leader, queue, egress_db, state, current_egress_xid,
                        waiting_on_first_egress_msg, running, n_ospf6_siblings>>
         /\ \A t \in Slots : sent'[t] = <<>>
BY DEF Ignore, slotVars, Quiet

\* What a request of the handshake does to its slot.
LEMMA TakeEffect ==
  ASSUME Base, Base', Live', NEW s \in Slots, NEW new, new \notin {"NULL", "SIB_ROUTING"}, NEW replies,
         TakeRequest(s, new, replies)
  PROVE  /\ UNCHANGED <<leader_sibling, is_leader, queue, egress_db>>
         /\ state'[s] = new /\ current_egress_xid'[s] = current_egress_xid[s] + 1
         /\ \A t \in Slots \ {s} :
              /\ state'[t] = state[t] /\ current_egress_xid'[t] = current_egress_xid[t]
              /\ waiting_on_first_egress_msg'[t] = waiting_on_first_egress_msg[t]
         /\ sent' = replies
<1>1. DOMAIN state = Slots /\ DOMAIN current_egress_xid = Slots /\ DOMAIN waiting_on_first_egress_msg = Slots
  BY DEF Base, TInv, Numbers, IInv, TypeOK
<1>2. /\ UNCHANGED <<leader_sibling, is_leader, queue, egress_db>>
      /\ state' = [state EXCEPT ![s] = new]
      /\ current_egress_xid' = [current_egress_xid EXCEPT ![s] = @ + 1]
      /\ waiting_on_first_egress_msg' =
           [waiting_on_first_egress_msg EXCEPT ![s] = @ \/ EntersRouting(s, new)]
      /\ send_leader_elect(s, replies, n_ospf6_siblings)
  BY DEF TakeRequest, state_transition, RaiseWaiting
<1>3. sent' = replies
  BY <1>1, <1>2, NoElection DEF Base, Live
<1>4. QED
  BY <1>1, <1>2, <1>3

\* A features request keeps LiveInv,
LEMMA FeaturesLive ==
  ASSUME LeaderStays, Base, Base', LiveInv, Live', NEW s \in Slots, CtrlRecv(s),
         state[s] \notin {"NULL", "SIB_DISCONNECTED", "SIB_ROUTING"},
         Head(toCtrl[s]).type = "FEATURES_REQUEST", FeaturesRequest(s, Head(toCtrl[s]).xid)
  PROVE  LiveInv'
<1>1. Handshaking(s) /\ toCtrl[s] # <<>> /\ toCtrl'[s] = Tail(toCtrl[s])
  BY DEF CtrlRecv, Base, TInv, Shape, LiveInv, SlotLive
<1>2. PICK b \in ToSibs, x \in 0..3 :
        Shake(state[s], toCtrl[s], b, x) /\ (peer[s] # NoSib => b = toSib[s] /\ x = xid[peer[s]])
  BY <1>1, ShakeOf
<1>3. /\ Features0.type = "FEATURES_REQUEST" /\ Redistribute1.type = "REDISTRIBUTE_REQUEST"
      /\ IfAddress2.type = "IF_ADDRESS_REQ" /\ Features0.xid = 0
  BY DEF Features0, Redistribute1, IfAddress2, Request
<1>4. state[s] = "SIB_CONNECTED" /\ toCtrl[s] = <<Features0, Redistribute1>> /\ b = <<>> /\ x = 2
  BY <1>1, <1>2, <1>3, SMTT(20) DEF Shake
<1>5. /\ Head(toCtrl[s]) = Features0 /\ Tail(toCtrl[s]) = <<Redistribute1>> /\ toCtrl'[s] = <<Redistribute1>>
      /\ Len(toCtrl'[s]) = 1 /\ toCtrl'[s][1] = Redistribute1 /\ toCtrl'[s] # <<>>
  BY <1>1, <1>4, SMTT(20)
<1>6. peer[s] \in Sibs \ Crashers => current_egress_xid[s] = 0
  BY <1>1, <1>4, SMTT(20) DEF Handshaking, Rank
<1>7. CASE Ignore
  <2>1. peer[s] \notin Sibs \ Crashers
    <3>1. SUFFICES ASSUME peer[s] \in Sibs \ Crashers PROVE FALSE
      OBVIOUS
    <3>2. TakeRequest(s, AfterFeatures(state[s]), Reply(s, "FEATURES_REPLY"))
      BY <1>3, <1>4, <1>5, <1>6, <3>1 DEF FeaturesRequest
    <3>3. current_egress_xid' = current_egress_xid /\ current_egress_xid'[s] = current_egress_xid[s] + 1
      BY <1>7, <3>2, IgnoreEffect DEF TakeRequest, Base, TInv, Numbers
    <3>4. current_egress_xid[s] \in Nat
      BY DEF Base, TInv, Numbers
    <3>5. QED
      BY <3>3, <3>4, SMTT(20)
  <2>2. Shake(state'[s], toCtrl'[s], <<>> \o <<>>, 2) /\ <<>> \o <<>> \in ToSibs
    <3>1. <<>> \o <<>> = <<>>
      BY SMTT(20)
    <3>2. QED
      BY <1>1, <1>4, <1>5, <1>7, <3>1, IgnoreEffect DEF Shake, ToSibs
  <2>3. \A i \in 1..Len(toCtrl'[s]) : toCtrl'[s][i].type \notin {"EGRESS", "REDISTRIBUTE_LEADER_ELECT"}
    BY <1>3, <1>5, SMTT(20)
  <2>4. QED
    BY <1>2, <1>4, <1>7, <2>1, <2>2, <2>3, IgnoreEffect, HandshakeLive
<1>8. CASE TakeRequest(s, "SIB_FEATURES_REQ_RCVD", Reply(s, "FEATURES_REPLY"))
  <2> DEFINE r == IF n_routers > 0 THEN <<"FEATURES_REPLY">> ELSE <<>>
  <2>1. /\ UNCHANGED <<leader_sibling, is_leader, queue, egress_db>>
        /\ state'[s] = "SIB_FEATURES_REQ_RCVD" /\ current_egress_xid'[s] = current_egress_xid[s] + 1
        /\ \A t \in Slots \ {s} :
             /\ state'[t] = state[t] /\ current_egress_xid'[t] = current_egress_xid[t]
             /\ waiting_on_first_egress_msg'[t] = waiting_on_first_egress_msg[t]
        /\ sent' = Reply(s, "FEATURES_REPLY")
    BY <1>8, TakeEffect
  <2>2. sent'[s] = r /\ (\A t \in Slots \ {s} : sent'[t] = <<>>) /\ r \in {<<>>, <<"FEATURES_REPLY">>}
    BY <2>1 DEF Reply, Quiet
  <2>3. Shake(state'[s], toCtrl'[s], <<>> \o r, 2) /\ <<>> \o r \in ToSibs
    <3>1. <<>> \o <<>> = <<>> /\ <<>> \o <<"FEATURES_REPLY">> = <<"FEATURES_REPLY">>
      BY SMTT(20)
    <3>2. Shake("SIB_FEATURES_REQ_RCVD", <<Redistribute1>>, <<>>, 2)
          /\ Shake("SIB_FEATURES_REQ_RCVD", <<Redistribute1>>, <<"FEATURES_REPLY">>, 2)
      BY DEF Shake
    <3>3. QED
      BY <1>1, <1>5, <2>1, <3>1, <3>2 DEF ToSibs
  <2>4. \A i \in 1..Len(toCtrl'[s]) : toCtrl'[s][i].type \notin {"EGRESS", "REDISTRIBUTE_LEADER_ELECT"}
    BY <1>3, <1>5, SMTT(20)
  <2>5. peer[s] \in Sibs \ Crashers =>
           /\ state'[s] \in DOMAIN Rank /\ current_egress_xid'[s] = Rank[state'[s]]
           /\ state'[s] # "SIB_CONNECTED"
           /\ state'[s] = "SIB_FEATURES_REQ_RCVD" => toCtrl'[s] # <<>> /\ toCtrl'[s][1] = Redistribute1
    BY <1>5, <1>6, <2>1, SMTT(20) DEF Rank
  <2> HIDE DEF r
  <2>6. QED
    BY <1>2, <1>4, <2>1, <2>2, <2>3, <2>4, <2>5, HandshakeLive
<1>9. QED
  BY <1>4, <1>7, <1>8 DEF FeaturesRequest, AfterFeatures

\* a redistribute request,
LEMMA RedistributeLive ==
  ASSUME LeaderStays, Base, Base', LiveInv, Live', NEW s \in Slots, CtrlRecv(s),
         state[s] \notin {"NULL", "SIB_DISCONNECTED", "SIB_ROUTING"},
         Head(toCtrl[s]).type = "REDISTRIBUTE_REQUEST", RedistributeRequest(s, Head(toCtrl[s]).xid)
  PROVE  LiveInv'
<1>1. Handshaking(s) /\ toCtrl[s] # <<>> /\ toCtrl'[s] = Tail(toCtrl[s])
  BY DEF CtrlRecv, Base, TInv, Shape, LiveInv, SlotLive
<1>2. PICK b \in ToSibs, x \in 0..3 :
        Shake(state[s], toCtrl[s], b, x) /\ (peer[s] # NoSib => b = toSib[s] /\ x = xid[peer[s]])
  BY <1>1, ShakeOf
<1>3. /\ Features0.type = "FEATURES_REQUEST" /\ Redistribute1.type = "REDISTRIBUTE_REQUEST"
      /\ IfAddress2.type = "IF_ADDRESS_REQ" /\ Redistribute1.xid = 1
  BY DEF Features0, Redistribute1, IfAddress2, Request
<1>4. \/ /\ state[s] = "SIB_FEATURES_REQ_RCVD" /\ toCtrl[s] = <<Redistribute1>>
         /\ b = <<"FEATURES_REPLY">> /\ x = 2
      \/ /\ state[s] = "SIB_FEATURES_REQ_RCVD" /\ toCtrl[s] = <<Redistribute1, IfAddress2>>
         /\ b = <<>> /\ x = 3
      \/ /\ state[s] \in {"SIB_CONNECTED", "SIB_FEATURES_REQ_RCVD"} /\ toCtrl[s] = <<Redistribute1>>
         /\ b = <<>> /\ x = 2
  BY <1>1, <1>2, <1>3, SMTT(20) DEF Shake
<1>5. /\ Head(toCtrl[s]) = Redistribute1 /\ toCtrl[s][1] = Redistribute1
      /\ \/ toCtrl'[s] = <<>>
         \/ toCtrl'[s] = <<IfAddress2>> /\ Len(toCtrl'[s]) = 1 /\ toCtrl'[s][1] = IfAddress2
  <2>1. CASE toCtrl[s] = <<Redistribute1>>
    BY <1>1, <2>1, TailOf, SMTT(20)
  <2>2. CASE toCtrl[s] = <<Redistribute1, IfAddress2>>
    <3>1. Head(toCtrl[s]) = Redistribute1 /\ toCtrl[s][1] = Redistribute1 /\ toCtrl'[s] = <<IfAddress2>>
      BY <1>1, <2>2, TailOf, SMTT(20)
    <3>2. Len(<<IfAddress2>>) = 1 /\ <<IfAddress2>>[1] = IfAddress2
      OBVIOUS
    <3>3. QED
      BY <3>1, <3>2
  <2>3. QED
    BY <1>4, <2>1, <2>2
<1>6. b \o <<>> = b /\ b \o <<>> \in ToSibs
  BY <1>4, SMTT(20) DEF ToSibs
<1>7. ASSUME NEW new, new = state[s] \/ new = AfterRedistribute(state[s])
      PROVE  /\ Shake(new, toCtrl'[s], b \o <<>>, x)
             /\ new \notin {"NULL", "SIB_DISCONNECTED", "SIB_ROUTING"}
  <2>1. \/ state[s] = "SIB_CONNECTED" /\ new \in {"SIB_CONNECTED", "SIB_REDISTRIBUTE_REQ_RCVD"}
        \/ state[s] = "SIB_FEATURES_REQ_RCVD" /\ new \in {"SIB_FEATURES_REQ_RCVD", "SIB_FEATURES_REDIS_REQ_RCVD"}
    BY <1>4, <1>7 DEF AfterRedistribute
  <2>2. \/ /\ state[s] = "SIB_FEATURES_REQ_RCVD" /\ toCtrl'[s] = <<>>
           /\ b = <<"FEATURES_REPLY">> /\ x = 2
        \/ /\ state[s] = "SIB_FEATURES_REQ_RCVD" /\ toCtrl'[s] = <<IfAddress2>>
           /\ b = <<>> /\ x = 3
        \/ /\ state[s] \in {"SIB_CONNECTED", "SIB_FEATURES_REQ_RCVD"} /\ toCtrl'[s] = <<>>
           /\ b = <<>> /\ x = 2
    <3>1. Tail(<<Redistribute1>>) = <<>> /\ Tail(<<Redistribute1, IfAddress2>>) = <<IfAddress2>>
      BY TailOf
    <3>2. QED
      BY <1>1, <1>4, <3>1
  <2>3. QED
    BY <1>6, <2>1, <2>2 DEF Shake, Reading, States
<1>8. \A i \in 1..Len(toCtrl'[s]) : toCtrl'[s][i].type \notin {"EGRESS", "REDISTRIBUTE_LEADER_ELECT"}
  BY <1>3, <1>5, SMTT(20)
<1>9. peer[s] \in Sibs \ Crashers => current_egress_xid[s] = 1 /\ state[s] = "SIB_FEATURES_REQ_RCVD"
  <2>1. Features0 # Redistribute1
    BY <1>3
  <2>2. SUFFICES ASSUME peer[s] \in Sibs \ Crashers
                 PROVE  current_egress_xid[s] = 1 /\ state[s] = "SIB_FEATURES_REQ_RCVD"
    OBVIOUS
  <2>3. state[s] = "SIB_FEATURES_REQ_RCVD"
    BY <1>1, <1>4, <1>5, <2>1, <2>2 DEF Handshaking
  <2>4. QED
    BY <1>1, <2>2, <2>3, SMTT(20) DEF Handshaking, Rank
<1>10. CASE Ignore
  <2>1. peer[s] \notin Sibs \ Crashers
    <3>1. SUFFICES ASSUME peer[s] \in Sibs \ Crashers PROVE FALSE
      OBVIOUS
    <3>2. TakeRequest(s, AfterRedistribute(state[s]), Quiet)
      BY <1>3, <1>5, <1>9, <3>1 DEF RedistributeRequest
    <3>3. current_egress_xid' = current_egress_xid /\ current_egress_xid'[s] = current_egress_xid[s] + 1
      BY <1>10, <3>2, IgnoreEffect DEF TakeRequest, Base, TInv, Numbers
    <3>4. current_egress_xid[s] \in Nat
      BY DEF Base, TInv, Numbers
    <3>5. QED
      BY <3>3, <3>4, SMTT(20)
  <2>2. state'[s] = state[s]
    BY <1>10, IgnoreEffect
  <2>3. Shake(state'[s], toCtrl'[s], b \o <<>>, x)
    BY <1>7, <2>2
  <2>4. QED
    BY <1>2, <1>6, <1>8, <1>10, <2>1, <2>2, <2>3, IgnoreEffect, HandshakeLive
<1>11. CASE TakeRequest(s, AfterRedistribute(state[s]), Quiet)
  <2> DEFINE new == AfterRedistribute(state[s])
  <2>1. new \notin {"NULL", "SIB_DISCONNECTED", "SIB_ROUTING"} /\ Shake(new, toCtrl'[s], b \o <<>>, x)
    BY <1>7
  <2>2. state[s] = "SIB_FEATURES_REQ_RCVD" => new = "SIB_FEATURES_REDIS_REQ_RCVD"
    BY DEF AfterRedistribute
  <2> HIDE DEF new
  <2>3. TakeRequest(s, new, Quiet)
    BY <1>11 DEF new
  <2>4. /\ UNCHANGED <<leader_sibling, is_leader, queue, egress_db>>
        /\ state'[s] = new /\ current_egress_xid'[s] = current_egress_xid[s] + 1
        /\ \A t \in Slots \ {s} :
             /\ state'[t] = state[t] /\ current_egress_xid'[t] = current_egress_xid[t]
             /\ waiting_on_first_egress_msg'[t] = waiting_on_first_egress_msg[t]
        /\ sent' = Quiet
    BY <2>1, <2>3, TakeEffect
  <2>5. \A t \in Slots : sent'[t] = <<>>
    BY <2>4 DEF Quiet
  <2>6. peer[s] \in Sibs \ Crashers =>
           /\ state'[s] \in DOMAIN Rank /\ current_egress_xid'[s] = Rank[state'[s]]
           /\ state'[s] # "SIB_CONNECTED" /\ state'[s] # "SIB_FEATURES_REQ_RCVD"
    BY <1>9, <2>2, <2>4, SMTT(20) DEF Rank
  <2>7. QED
    BY <1>2, <1>6, <1>8, <2>1, <2>4, <2>5, <2>6, HandshakeLive
<1>12. QED
  BY <1>10, <1>11 DEF RedistributeRequest

\* The slots in use are slots.
LEMMA UsedSlots == ASSUME IInv PROVE Used \subseteq Slots
<1>1. n_ospf6_siblings \in 0..MaxSlots
  BY DEF IInv, TypeOK
<1>2. QED
  BY <1>1, BoundsAssumption, SMTT(20) DEF Used, Slots

\* Only what travels to the process of a routing slot changes.
LEMMA StreamFrame ==
  ASSUME NEW t \in Slots, Streaming(t), Shape, Common' = Common,
         queue'[t] = queue[t], current_egress_xid'[t] = current_egress_xid[t],
         waiting_on_first_egress_msg'[t] = waiting_on_first_egress_msg[t],
         peer'[t] = peer[t], toCtrl'[t] = toCtrl[t], UNCHANGED <<proc, xid>>,
         \A i \in 1..Len(toSib'[t]) : toSib'[t][i] = "LEADER_ELECT"
  PROVE  Streaming(t)'
<1>1. Fresh(t) => Fresh(t)'
  BY DEF Fresh
<1>2. QED
  BY <1>1 DEF Streaming

\* The last request of a handshake: the slot routes, and an election may start.
LEMMA EnterRoutingLive ==
  ASSUME LeaderStays, Base, Base', LiveInv, Live', NEW s \in Slots, CtrlRecv(s),
         state[s] = "SIB_FEATURES_REDIS_REQ_RCVD", toCtrl[s] = <<IfAddress2>>,
         peer[s] # NoSib => toSib[s] = <<>> /\ xid[peer[s]] = 3,
         current_egress_xid[s] = 2, TakeRequest(s, "SIB_ROUTING", Quiet)
  PROVE  LiveInv'
<1> DEFINE E == n_ospf6_siblings_routing' = NumSibs
<1>1. /\ toCtrl' = [toCtrl EXCEPT ![s] = Tail(@)] /\ UNCHANGED <<peer, proc, xid, order>> /\ Deliver(Quiet)
      /\ DOMAIN toCtrl = Slots /\ Shape /\ \A t \in Slots : Quiet[t] = <<>>
      /\ toCtrl'[s] = <<>>
  <2>1. Tail(<<IfAddress2>>) = <<>>
    BY TailOf
  <2>2. QED
    BY <2>1 DEF CtrlRecv, Base, TInv, Shape, Quiet
<1>2. /\ UNCHANGED <<leader_sibling, is_leader, queue, egress_db, n_ospf6_siblings>>
      /\ state' = [state EXCEPT ![s] = "SIB_ROUTING"]
      /\ current_egress_xid' = [current_egress_xid EXCEPT ![s] = @ + 1]
      /\ waiting_on_first_egress_msg' =
           [waiting_on_first_egress_msg EXCEPT ![s] = @ \/ EntersRouting(s, "SIB_ROUTING")]
      /\ send_leader_elect(s, Quiet, n_ospf6_siblings)
  BY DEF TakeRequest, state_transition, RaiseWaiting
<1>3. /\ state'[s] = "SIB_ROUTING" /\ current_egress_xid'[s] = 3 /\ waiting_on_first_egress_msg'[s]
      /\ \A t \in Slots \ {s} :
           /\ state'[t] = state[t] /\ current_egress_xid'[t] = current_egress_xid[t]
           /\ waiting_on_first_egress_msg'[t] = waiting_on_first_egress_msg[t]
  <2>1. DOMAIN state = Slots /\ DOMAIN current_egress_xid = Slots /\ DOMAIN waiting_on_first_egress_msg = Slots
    BY DEF Base, TInv, Numbers, IInv, TypeOK
  <2>2. EntersRouting(s, "SIB_ROUTING")
    BY DEF EntersRouting
  <2>3. waiting_on_first_egress_msg' = [waiting_on_first_egress_msg EXCEPT ![s] = TRUE]
    BY <1>2, <2>2
  <2>4. QED
    BY <1>2, <2>1, <2>3, SMTT(20)
<1>4. Handshaking(s) /\ SlotLive(s) /\ queue[s] = <<>>
  BY DEF LiveInv, SlotLive, Handshaking
<1>5. ASSUME NEW t \in Slots
      PROVE  \/ sent'[t] = <<>>
             \/ E /\ sent'[t] = <<"LEADER_ELECT">> /\ state'[t] = "SIB_ROUTING"
  <2>1. Append(<<>>, "LEADER_ELECT") = <<"LEADER_ELECT">>
    BY SMTT(20)
  <2>2. CASE E
    <3>1. \A u \in Used' : state'[u] = "SIB_ROUTING"
      BY <2>2, ElectionIsFullNext DEF Base, Live
    <3>2. QED
      BY <1>1, <1>2, <2>1, <2>2, <3>1, SMTT(20) DEF send_leader_elect, Used
  <2>3. CASE ~E
    BY <1>1, <1>2, <2>3 DEF send_leader_elect
  <2>4. QED
    BY <2>2, <2>3
<1>6. ASSUME NEW t \in Slots
      PROVE  \/ toSib'[t] = toSib[t]
             \/ E /\ toSib'[t] = toSib[t] \o <<"LEADER_ELECT">> /\ state'[t] = "SIB_ROUTING" /\ peer[t] # NoSib
  <2>1. CASE sent'[t] = <<>>
    BY <1>1, <2>1, DeliverQuiet DEF Base
  <2>2. CASE E /\ sent'[t] = <<"LEADER_ELECT">> /\ state'[t] = "SIB_ROUTING"
    <3>1. CASE peer[t] = NoSib
      BY <1>1, <3>1 DEF Deliver, Base, LinkInv
    <3>2. CASE peer[t] # NoSib
      <4>1. toSib'[t] = toSib[t] \o <<>> \o <<"LEADER_ELECT">>
        BY <1>1, <2>2, <3>2 DEF Deliver
      <4>2. toSib[t] \in Seq(Replies \cup {"HELLO"})
        BY DEF Base, LinkInv
      <4>3. toSib[t] \o <<>> = toSib[t]
        BY <4>2, SMTT(20)
      <4>4. QED
        BY <2>2, <3>2, <4>1, <4>3
    <3>3. QED
      BY <3>1, <3>2
  <2>3. QED
    BY <1>5, <2>1, <2>2
<1>7. leader_sibling # s
  BY LeaderRoutes, SMTT(20) DEF Slots, NoSlot
<1>8. Common' = Common /\ Common \in Nat /\ Common >= FirstEgress
  <2>1. leader_sibling # NoSlot => leader_sibling \in Slots \ {s}
    BY <1>7 DEF Base, TInv, Numbers
  <2>2. QED
    BY <1>2, <1>3, <2>1, CommonFrame, CommonType DEF Base, LiveInv
<1>9. ASSUME NEW t \in Slots \ {s} PROVE SlotLive(t)'
  <2>1. CASE toSib'[t] = toSib[t]
    <3>1. SameSlot(t)
      BY <1>1, <1>2, <1>3, <2>1 DEF SameSlot
    <3>2. QED
      BY <1>1, <1>2, <1>8, <3>1, SlotFrame DEF LiveInv
  <2>2. CASE toSib'[t] = toSib[t] \o <<"LEADER_ELECT">> /\ state'[t] = "SIB_ROUTING"
    <3>1. Streaming(t) /\ SlotLive(t)
      BY <1>3, <2>2 DEF LiveInv, SlotLive
    <3>2. toSib[t] \in Seq(Replies \cup {"HELLO"}) /\ "LEADER_ELECT" \in Replies \cup {"HELLO"}
      BY DEF Base, LinkInv, Replies
    <3>3. /\ Len(toSib[t]) \in Nat /\ Len(toSib'[t]) = Len(toSib[t]) + 1
          /\ toSib'[t][Len(toSib[t]) + 1] = "LEADER_ELECT"
          /\ \A i \in 1..Len(toSib[t]) : toSib'[t][i] = toSib[t][i]
      BY <2>2, <3>2, SMTT(20)
    <3>4. \A i \in 1..Len(toSib'[t]) : toSib'[t][i] = "LEADER_ELECT"
      <4> TAKE i \in 1..Len(toSib'[t])
      <4>1. i \in 1..Len(toSib[t]) \/ i = Len(toSib[t]) + 1
        BY <3>3, SMTT(20)
      <4>2. QED
        BY <3>1, <3>3, <4>1 DEF Streaming
    <3>5. toCtrl'[t] = toCtrl[t]
      BY <1>1
    <3>6. Streaming(t)'
      BY <1>1, <1>2, <1>3, <1>8, <3>1, <3>4, <3>5, StreamFrame
    <3>7. QED
      BY <1>1, <1>2, <2>2, <3>1, <3>5, <3>6 DEF SlotLive
  <2>3. QED
    BY <1>6, <2>1, <2>2
<1>10. Streaming(s)'
  <2>1. \A i \in 1..Len(toSib'[s]) : toSib'[s][i] = "LEADER_ELECT"
    <3>1. toSib[s] = <<>>
      BY DEF Base, LinkInv
    <3>2. <<>> \o <<"LEADER_ELECT">> = <<"LEADER_ELECT">>
      BY SMTT(20)
    <3>3. toSib'[s] = <<>> \/ toSib'[s] = <<"LEADER_ELECT">>
      BY <1>6, <3>1, <3>2
    <3>4. QED
      BY <3>3, SMTT(20)
  <2>2. ~Has(toCtrl'[s], "EGRESS") /\ toCtrl'[s] \in Seq({})
    BY <1>1, EmptySeq, SMTT(20) DEF Has
  <2>3. Runs(toCtrl'[s], 3, 3)
    BY <2>2, RunsNone
  <2>4. current_egress_xid'[s] = Common' \/ Fresh(s)'
    <3>1. CASE peer[s] \in Sibs \ Crashers
      <4>1. Quiescent
        BY <3>1, BegunRoutes
      <4>2. QED
        BY <1>3, <1>8, <4>1 DEF Quiescent, Common, FirstEgress
    <3>2. CASE peer[s] \notin Sibs \ Crashers
      BY <1>1, <1>2, <1>3, <1>4, <2>2, <3>2, SMTT(20) DEF Fresh, FirstEgress
    <3>3. QED
      BY <3>1, <3>2
  <2>5. queue'[s] = <<>> /\ Len(queue'[s]) = 0
    BY <1>2, <1>4
  <2>6. 3 <= Common' + Len(queue'[s])
    BY <1>8, <2>5, SMTT(20) DEF FirstEgress
  <2>7. \A i \in 1..Len(toCtrl'[s]) : toCtrl'[s][i].type \in {"EGRESS", "REDISTRIBUTE_LEADER_ELECT"}
    BY <1>1, SMTT(20)
  <2>8. \A i \in 1..Len(queue'[s]) : queue'[s][i].xid = Common' + i - 1
    BY <2>5, SMTT(20)
  <2>9. peer'[s] # NoSib => xid'[peer'[s]] = 3
    BY <1>1
  <2>10. \E a, b \in Nat :
           /\ Runs(toCtrl'[s], a, b)
           /\ peer'[s] # NoSib => b = xid'[peer'[s]]
           /\ a <= Common' + Len(queue'[s])
           /\ queue'[s] # <<>> => a = Common' + Len(queue'[s])
    BY <2>3, <2>5, <2>6, <2>9
  <2>11. QED
    BY <2>1, <2>2, <2>4, <2>5, <2>7, <2>8, <2>9, <2>10 DEF Streaming, FirstEgress
<1>11. \A t \in Slots : SlotLive(t)'
  <2>1. SlotLive(s)'
    BY <1>1, <1>2, <1>3, <1>4, <1>10, SMTT(20) DEF SlotLive
  <2>2. QED
    BY <1>9, <2>1
<1>12. \A q \in Sibs : NotElected(q)' <=> NotElected(q)
  BY <1>1 DEF NotElected
<1>13. NoLeaderYet => NoLeaderYet'
  <2>1. SUFFICES ASSUME NoLeaderYet PROVE NoLeaderYet'
    OBVIOUS
  <2>2. order' = [q \in Sibs |-> q] /\ \A q \in Sibs : ~proc'[q].restart_mode /\ ~proc'[q].sync
    BY <1>1, <2>1 DEF NoLeaderYet
  <2>3. ASSUME NEW t \in Slots
        PROVE  /\ state'[t] # "NULL" => peer'[t] # NoSib
               /\ queue'[t] = <<>>
               /\ \A i \in 1..Len(toCtrl'[t]) : toCtrl'[t][i].type = "EGRESS" =>
                    \E j \in 1..(i - 1) : toCtrl'[t][j].type = "REDISTRIBUTE_LEADER_ELECT"
    <3>1. CASE t = s
      BY <1>1, <1>2, <2>1, <3>1, SMTT(20) DEF NoLeaderYet
    <3>2. CASE t # s
      BY <1>1, <1>2, <1>3, <2>1, <3>2, SMTT(20) DEF NoLeaderYet
    <3>3. QED
      BY <3>1, <3>2
  <2>4. ASSUME NEW q \in Sibs, ~NotElected(q)'
        PROVE  \E t \in Slots : peer'[t] = q /\ Has(toCtrl'[t], "REDISTRIBUTE_LEADER_ELECT")
    <3>1. PICK t \in Slots : peer[t] = q /\ Has(toCtrl[t], "REDISTRIBUTE_LEADER_ELECT")
      BY <1>12, <2>1, <2>4 DEF NoLeaderYet
    <3>2. q # NoSib
      BY SMTT(20) DEF Sibs, NoSib
    <3>3. t # s
      BY <1>4, <1>12, <2>4, <3>1, <3>2 DEF Handshaking
    <3>4. QED
      BY <1>1, <3>1, <3>3
  <2>5. QED
    BY <2>2, <2>3, <2>4 DEF NoLeaderYet
<1>14. Begun => Begun'
  BY <1>1, <1>3, SMTT(20) DEF Begun
<1>15. Quiescent => Quiescent' \/ Begun'
  <2>1. CASE ~E
    <3>1. \A t \in Slots : toSib'[t] = toSib[t]
      BY <1>6, <2>1
    <3>2. \A t \in Slots : Has(toCtrl'[t], "REDISTRIBUTE_LEADER_ELECT") => Has(toCtrl[t], "REDISTRIBUTE_LEADER_ELECT")
      BY <1>1, SMTT(20) DEF Has
    <3>3. QED
      BY <1>2, <1>12, <3>1, <3>2, SMTT(20) DEF Quiescent
  <2>2. CASE E
    <3>1. SUFFICES ASSUME Quiescent, NEW p \in Sibs
                   PROVE  \E t \in Slots : peer'[t] = p /\ state'[t] = "SIB_ROUTING"
      BY DEF Begun
    <3>2. n_ospf6_siblings' = NumSibs /\ \A t \in Used' : state'[t] = "SIB_ROUTING"
      BY <2>2, ElectionIsFullNext DEF Base, Live
    <3>3. NoLeaderYet
      BY <3>1 DEF LiveInv, Quiescent
    <3>4. Used' = Used /\ n_ospf6_siblings = NumSibs /\ Used \subseteq Slots
      BY <1>2, <3>2, UsedSlots DEF Used, Base
    <3>5. \A t \in Used : peer[t] # NoSib
      BY <3>3, <3>4 DEF NoLeaderYet, Base, IInv, TypeOK
    <3>6. \E t \in Used : peer[t] = p
      BY <3>4, <3>5, AllConnected DEF Base
    <3>7. QED
      BY <1>1, <3>2, <3>4, <3>6
  <2>3. QED
    BY <2>1, <2>2
<1>16. QED
  BY <1>1, <1>2, <1>8, <1>11, <1>13, <1>14, <1>15 DEF LiveInv

\* and a request for the addresses.
LEMMA IfAddressLive ==
  ASSUME LeaderStays, Base, Base', LiveInv, Live', NEW s \in Slots, CtrlRecv(s),
         state[s] \notin {"NULL", "SIB_DISCONNECTED", "SIB_ROUTING"},
         Head(toCtrl[s]).type = "IF_ADDRESS_REQ", IfAddressReq(s, Head(toCtrl[s]).xid)
  PROVE  LiveInv'
<1>1. Handshaking(s) /\ toCtrl[s] # <<>> /\ toCtrl'[s] = Tail(toCtrl[s])
  BY DEF CtrlRecv, Base, TInv, Shape, LiveInv, SlotLive
<1>2. PICK b \in ToSibs, x \in 0..3 :
        Shake(state[s], toCtrl[s], b, x) /\ (peer[s] # NoSib => b = toSib[s] /\ x = xid[peer[s]])
  BY <1>1, ShakeOf
<1>3. /\ Features0.type = "FEATURES_REQUEST" /\ Redistribute1.type = "REDISTRIBUTE_REQUEST"
      /\ IfAddress2.type = "IF_ADDRESS_REQ" /\ IfAddress2.xid = 2
  BY DEF Features0, Redistribute1, IfAddress2, Request
<1>4. /\ state[s] \in {"SIB_FEATURES_REQ_RCVD", "SIB_FEATURES_REDIS_REQ_RCVD"}
      /\ toCtrl[s] = <<IfAddress2>> /\ b = <<>> /\ x = 3
  BY <1>1, <1>2, <1>3, SMTT(20) DEF Shake
<1>5. Head(toCtrl[s]) = IfAddress2 /\ toCtrl[s][1] = IfAddress2 /\ toCtrl'[s] = <<>>
  BY <1>1, <1>4, TailOf, SMTT(20)
<1>6. <<>> \o <<>> = <<>> /\ <<>> \in ToSibs
  BY SMTT(20) DEF ToSibs
<1>7. peer[s] \in Sibs \ Crashers => current_egress_xid[s] = 2 /\ state[s] = "SIB_FEATURES_REDIS_REQ_RCVD"
  <2>1. IfAddress2 # Redistribute1
    BY <1>3
  <2>2. SUFFICES ASSUME peer[s] \in Sibs \ Crashers
                 PROVE  current_egress_xid[s] = 2 /\ state[s] = "SIB_FEATURES_REDIS_REQ_RCVD"
    OBVIOUS
  <2>3. state[s] = "SIB_FEATURES_REDIS_REQ_RCVD"
    BY <1>1, <1>4, <1>5, <2>1, <2>2 DEF Handshaking
  <2>4. QED
    BY <1>1, <2>2, <2>3, SMTT(20) DEF Handshaking, Rank
<1>8. ASSUME NEW new \in Reading \ {"SIB_ROUTING"} PROVE Shake(new, toCtrl'[s], <<>> \o <<>>, 3)
  BY <1>5, <1>6 DEF Shake
<1>9. CASE Ignore /\ current_egress_xid[s] # 2
  <2>1. state'[s] = state[s] /\ Shake(state'[s], toCtrl'[s], <<>> \o <<>>, 3)
    BY <1>4, <1>8, <1>9, IgnoreEffect DEF Reading, States
  <2>2. \A i \in 1..Len(toCtrl'[s]) : toCtrl'[s][i].type \notin {"EGRESS", "REDISTRIBUTE_LEADER_ELECT"}
    BY <1>5, SMTT(20)
  <2>3. peer[s] \notin Sibs \ Crashers
    BY <1>7, <1>9
  <2>4. QED
    BY <1>2, <1>4, <1>6, <1>9, <2>1, <2>2, <2>3, IgnoreEffect, HandshakeLive
<1>10. CASE state[s] = "SIB_FEATURES_REQ_RCVD" /\ TakeRequest(s, "SIB_FEATURES_ADDR_REQ_RCVD", Quiet)
  <2>1. /\ UNCHANGED <<leader_sibling, is_leader, queue, egress_db>>
        /\ state'[s] = "SIB_FEATURES_ADDR_REQ_RCVD"
        /\ \A t \in Slots \ {s} :
             /\ state'[t] = state[t] /\ current_egress_xid'[t] = current_egress_xid[t]
             /\ waiting_on_first_egress_msg'[t] = waiting_on_first_egress_msg[t]
        /\ sent' = Quiet
    BY <1>10, TakeEffect
  <2>2. \A t \in Slots : sent'[t] = <<>>
    BY <2>1 DEF Quiet
  <2>3. Shake(state'[s], toCtrl'[s], <<>> \o <<>>, 3)
    BY <1>8, <2>1 DEF Reading, States
  <2>4. \A i \in 1..Len(toCtrl'[s]) : toCtrl'[s][i].type \notin {"EGRESS", "REDISTRIBUTE_LEADER_ELECT"}
    BY <1>5, SMTT(20)
  <2>5. peer[s] \notin Sibs \ Crashers
    BY <1>7, <1>10
  <2>6. QED
    BY <1>2, <1>4, <1>6, <2>1, <2>2, <2>3, <2>4, <2>5, HandshakeLive, SMTT(20)
<1>11. CASE /\ state[s] = "SIB_FEATURES_REDIS_REQ_RCVD" /\ current_egress_xid[s] = 2
            /\ TakeRequest(s, "SIB_ROUTING", Quiet)
  BY <1>2, <1>4, <1>11, EnterRoutingLive
<1>12. QED
  BY <1>3, <1>4, <1>5, <1>9, <1>10, <1>11 DEF IfAddressReq

-----------------------------------------------------------------------------
(***************************************************************************)
(* The leader and the egress messages                                      *)
(***************************************************************************)

\* The first message of a sequence is read.
LEMMA StreamRecv ==
  ASSUME NEW S, NEW t \in Seq(S), t # <<>>
  PROVE  /\ Len(t) \in Nat /\ Len(t) >= 1 /\ Head(t) = t[1] /\ Tail(t) \in Seq(S)
         /\ Len(Tail(t)) = Len(t) - 1 /\ Len(Tail(t)) \in Nat
         /\ \A i \in 1..Len(Tail(t)) : i + 1 \in 1..Len(t) /\ Tail(t)[i] = t[i + 1]
BY HeadTailProperties, SMTT(20)

\* What the rest of a queue holds, the queue holds.
LEMMA HasTail ==
  ASSUME NEW S, NEW t \in Seq(S), t # <<>>, NEW ty, Has(Tail(t), ty)
  PROVE  Has(t, ty)
BY StreamRecv DEF Has

\* A first egress message that is still on its way stays the first.
LEMMA FreshRecv ==
  ASSUME NEW s \in Slots, Fresh(s), NEW S, toCtrl[s] \in Seq(S), toCtrl[s] # <<>>,
         Head(toCtrl[s]).type # "EGRESS", toCtrl'[s] = Tail(toCtrl[s]),
         UNCHANGED <<peer, proc, xid, queue, waiting_on_first_egress_msg>>
  PROVE  Fresh(s)'
<1>1. /\ Len(toCtrl[s]) \in Nat /\ Len(toCtrl[s]) >= 1 /\ Head(toCtrl[s]) = toCtrl[s][1]
      /\ Len(toCtrl'[s]) = Len(toCtrl[s]) - 1
      /\ \A i \in 1..Len(toCtrl'[s]) : i + 1 \in 1..Len(toCtrl[s]) /\ toCtrl'[s][i] = toCtrl[s][i + 1]
  BY StreamRecv, SMTT(20)
<1>2. ASSUME NEW i \in 1..Len(toCtrl'[s]), toCtrl'[s][i].type = "EGRESS",
             \A j \in 1..(i - 1) : toCtrl'[s][j].type # "EGRESS"
      PROVE  toCtrl'[s][i].msg.val \notin RouteSet
  <2>1. ASSUME NEW j \in 1..((i + 1) - 1) PROVE toCtrl[s][j].type # "EGRESS"
    <3>1. CASE j = 1
      BY <1>1, <3>1
    <3>2. CASE j # 1
      <4>1. j - 1 \in 1..(i - 1) /\ j - 1 \in 1..Len(toCtrl'[s]) /\ (j - 1) + 1 = j
        BY <1>1, <3>2, SMTT(20)
      <4>2. toCtrl'[s][j - 1] = toCtrl[s][j]
        BY <1>1, <4>1
      <4>3. QED
        BY <1>2, <4>1, <4>2
    <3>3. QED
      BY <3>1, <3>2
  <2>2. i + 1 \in 1..Len(toCtrl[s]) /\ toCtrl'[s][i] = toCtrl[s][i + 1]
    BY <1>1
  <2>3. QED
    BY <1>2, <2>1, <2>2 DEF Fresh
<1>3. Has(toCtrl[s], "EGRESS") => Has(toCtrl'[s], "EGRESS")
  <2>1. SUFFICES ASSUME NEW i \in 1..Len(toCtrl[s]), toCtrl[s][i].type = "EGRESS"
                 PROVE  Has(toCtrl'[s], "EGRESS")
    BY DEF Has
  <2>2. i # 1
    BY <1>1, <2>1
  <2>3. i - 1 \in 1..Len(toCtrl'[s]) /\ (i - 1) + 1 = i
    BY <1>1, <2>2, SMTT(20)
  <2>4. QED
    BY <1>1, <2>1, <2>3 DEF Has
<1>4. QED
  BY <1>2, <1>3 DEF Fresh

\* A slot that sends egress messages or announces a leader is past its handshake.
LEMMA SenderRoutes ==
  ASSUME LiveInv, NEW s \in Slots, state[s] \in Reading, toCtrl[s] # <<>>,
         Head(toCtrl[s]).type \in {"EGRESS", "REDISTRIBUTE_LEADER_ELECT"}
  PROVE  state[s] = "SIB_ROUTING" /\ Streaming(s)
<1>1. /\ Features0.type = "FEATURES_REQUEST" /\ Redistribute1.type = "REDISTRIBUTE_REQUEST"
      /\ IfAddress2.type = "IF_ADDRESS_REQ"
  BY DEF Features0, Redistribute1, IfAddress2, Request
<1>2. ASSUME Handshaking(s) PROVE FALSE
  <2>1. PICK b \in ToSibs, x \in 0..3 : Shake(state[s], toCtrl[s], b, x)
    BY <1>2, ShakeOf
  <2>2. QED
    BY <1>1, <2>1, SMTT(20) DEF Shake
<1>3. QED
  BY <1>2 DEF LiveInv, SlotLive, Reading

\* REDISTRIBUTE_LEADER_ELECT: the leader is known from now on, and its xid is the one
\* all the slots have.
LEMMA AnnounceLive ==
  ASSUME LeaderStays, Base, LiveInv, Live', NEW s \in Slots, CtrlRecv(s),
         Head(toCtrl[s]).type = "REDISTRIBUTE_LEADER_ELECT",
         RedistributeLeaderElect(s, Head(toCtrl[s]).leads)
  PROVE  LiveInv' /\ Common' = Common
<1> DEFINE leads == Head(toCtrl[s]).leads
<1>1. /\ toCtrl[s] # <<>> /\ toCtrl' = [toCtrl EXCEPT ![s] = Tail(@)]
      /\ UNCHANGED <<peer, proc, xid, order>> /\ Deliver(Quiet)
      /\ DOMAIN toCtrl = Slots /\ Shape /\ toCtrl[s] \in Seq(WrittenBy(peer[s]))
  BY DEF CtrlRecv, Base, TInv, Shape, SlotAt
<1>2. /\ UNCHANGED <<state, current_egress_xid, waiting_on_first_egress_msg, queue, egress_db>>
      /\ is_leader' = [is_leader EXCEPT ![s] = leads] /\ DOMAIN is_leader = Slots
      /\ leader_sibling' = IF leads THEN s ELSE leader_sibling
      /\ state[s] \in Reading /\ leader_sibling' # NoSlot
      /\ \A t \in Slots : sent'[t] = <<>> /\ Quiet[t] = <<>>
  BY DEF RedistributeLeaderElect, Base, IInv, TypeOK, Live, Quiet
<1>3. state[s] = "SIB_ROUTING" /\ Streaming(s) /\ SlotLive(s)
  BY <1>1, <1>2, SenderRoutes DEF LiveInv
<1>4. /\ Len(toCtrl[s]) \in Nat /\ Len(toCtrl[s]) >= 1 /\ Head(toCtrl[s]) = toCtrl[s][1]
      /\ Len(toCtrl'[s]) \in Nat
      /\ \A i \in 1..Len(toCtrl'[s]) : i + 1 \in 1..Len(toCtrl[s]) /\ toCtrl'[s][i] = toCtrl[s][i + 1]
      /\ toCtrl'[s] = Tail(toCtrl[s])
  BY <1>1, StreamRecv
<1>5. leads <=> peer[s] = Oldest
  BY <1>3, <1>4, SMTT(20) DEF SlotLive
<1>6. Has(toCtrl[s], "REDISTRIBUTE_LEADER_ELECT") /\ ~Quiescent /\ Begun
  <2>1. 1 \in 1..Len(toCtrl[s])
    BY <1>4, SMTT(20)
  <2>2. toCtrl[s][1].type = "REDISTRIBUTE_LEADER_ELECT"
    BY <1>4
  <2>3. Has(toCtrl[s], "REDISTRIBUTE_LEADER_ELECT")
    BY <2>1, <2>2 DEF Has
  <2>4. ~Quiescent
    BY <2>3 DEF Quiescent
  <2>5. QED
    BY <2>3, <2>4 DEF LiveInv
<1>7. Oldest \in Sibs \ Crashers
  BY NumSibsAssumption, SMTT(20) DEF Oldest, Sibs, LeaderStays
<1>8. ASSUME NEW t \in Slots, peer[t] = Oldest, peer[s] = Oldest PROVE t = s
  BY <1>7, <1>8 DEF Base, TInv, OneSlot
<1>9. Common' = Common /\ peer'[leader_sibling'] = Oldest
  <2>1. CASE leads
    <3>1. current_egress_xid[s] = Common
      BY <1>3, <1>5, <1>7, <2>1 DEF Streaming, Fresh
    <3>2. QED
      BY <1>1, <1>2, <1>5, <2>1, <3>1 DEF Common, Slots, NoSlot
  <2>2. CASE ~leads
    BY <1>1, <1>2, <2>2 DEF Common, LiveInv
  <2>3. QED
    BY <2>1, <2>2
<1>10. ASSUME NEW t \in Slots PROVE toSib'[t] = toSib[t]
  BY <1>1, <1>2, DeliverQuiet DEF Base
<1>11. ASSUME NEW t \in Slots, is_leader'[t] PROVE t = leader_sibling'
  <2>1. CASE t = s
    BY <1>2, <1>11, <2>1
  <2>2. CASE t # s
    <3>1. is_leader[t] /\ t = leader_sibling
      BY <1>2, <1>11, <2>2 DEF LiveInv, SlotLive
    <3>2. peer[t] = Oldest
      BY <3>1, SMTT(20) DEF LiveInv, NoSlot, Slots
    <3>3. QED
      BY <1>2, <1>5, <1>8, <2>2, <3>1, <3>2
  <2>3. QED
    BY <2>1, <2>2
<1>12. ASSUME NEW t \in Slots \ {s} PROVE SlotLive(t)'
  <2>1. SameSlot(t)
    BY <1>1, <1>2, <1>10 DEF SameSlot
  <2>2. is_leader[t] => leader_sibling' = leader_sibling
    BY <1>2, <1>11 DEF LiveInv, SlotLive
  <2>3. QED
    BY <1>1, <1>9, <2>1, <2>2, SlotFrame DEF LiveInv
<1>13. Streaming(s)'
  <2>1. \A i \in 1..Len(toCtrl'[s]) : toCtrl'[s][i].type \in {"EGRESS", "REDISTRIBUTE_LEADER_ELECT"}
    BY <1>3, <1>4 DEF Streaming
  <2>2. \A i \in 1..Len(toSib'[s]) : toSib'[s][i] = "LEADER_ELECT"
    BY <1>3, <1>10 DEF Streaming
  <2>3. Fresh(s) => Fresh(s)'
    BY <1>1, <1>2, <1>4, FreshRecv
  <2>4. \A i \in 1..Len(queue'[s]) : queue'[s][i].xid = Common' + i - 1
    BY <1>2, <1>3, <1>9 DEF Streaming
  <2>5. PICK a \in Nat, b \in Nat :
           /\ Runs(toCtrl[s], a, b)
           /\ peer[s] # NoSib => b = xid[peer[s]]
           /\ a <= Common + Len(queue[s])
           /\ queue[s] # <<>> => a = Common + Len(queue[s])
    BY <1>3 DEF Streaming
  <2>6. Runs(toCtrl'[s], a, b)
    BY <1>1, <1>4, <2>5, RunsTail
  <2>7. Has(toCtrl'[s], "EGRESS") => Has(toCtrl[s], "EGRESS")
    BY <1>1, <1>4, HasTail
  <2>8. current_egress_xid'[s] = Common' \/ Fresh(s)'
    BY <1>2, <1>3, <1>9, <2>3 DEF Streaming
  <2>9. \E aa, bb \in Nat :
           /\ Runs(toCtrl'[s], aa, bb)
           /\ peer'[s] # NoSib => bb = xid'[peer'[s]]
           /\ aa <= Common' + Len(queue'[s])
           /\ queue'[s] # <<>> => aa = Common' + Len(queue'[s])
    BY <1>1, <1>2, <1>9, <2>5, <2>6
  <2>10. peer'[s] # NoSib /\ (~proc'[peer'[s]].hellos \/ proc'[peer'[s]].sync) =>
           xid'[peer'[s]] = FirstEgress /\ ~Has(toCtrl'[s], "EGRESS") /\ queue'[s] = <<>>
    BY <1>1, <1>2, <1>3, <2>7 DEF Streaming
  <2>11. QED
    BY <2>1, <2>2, <2>4, <2>8, <2>9, <2>10 DEF Streaming
<1>14. SlotLive(s)'
  <2>1. \A i \in 1..Len(toCtrl'[s]) :
          toCtrl'[s][i].type = "REDISTRIBUTE_LEADER_ELECT" => (toCtrl'[s][i].leads <=> peer'[s] = Oldest)
    BY <1>1, <1>3, <1>4, SMTT(20) DEF SlotLive
  <2>2. QED
    BY <1>2, <1>3, <1>11, <1>13, <2>1 DEF SlotLive
<1>15. Begun'
  BY <1>1, <1>2, <1>6 DEF Begun
<1>16. QED
  BY <1>2, <1>9, <1>12, <1>14, <1>15 DEF LiveInv

\* Slot s is read an egress message from.
EgressRead(s) ==
  /\ toCtrl[s] # <<>> /\ Head(toCtrl[s]).type = "EGRESS" /\ state[s] \in Reading
  /\ toCtrl' = [toCtrl EXCEPT ![s] = Tail(@)]
  /\ UNCHANGED <<n_ospf6_siblings, leader_sibling, state, is_leader, peer, proc, xid, order>>
  /\ \A t \in Slots : toSib'[t] = toSib[t]
  /\ \A t \in Slots \ {s} : waiting_on_first_egress_msg'[t] = waiting_on_first_egress_msg[t]

\* Slot t when the message is in the queues q and before the vote: c are the xids.
LaneAt(t, s, q, c) ==
  /\ \A i \in 1..Len(toCtrl'[t]) : toCtrl'[t][i].type \in {"EGRESS", "REDISTRIBUTE_LEADER_ELECT"}
  /\ c[t] = Common \/ (t # s /\ Fresh(t) /\ q[t] = <<>>)
  /\ \A i \in 1..Len(q[t]) : q[t][i].xid = Common + i - 1
  /\ \E a, b \in Nat :
       /\ Runs(toCtrl'[t], a, b)
       /\ peer[t] # NoSib => b = xid[peer[t]]
       /\ a <= Common + Len(q[t])
       /\ q[t] # <<>> => a = Common + Len(q[t])
  /\ peer[t] # NoSib /\ (~proc[peer[t]].hellos \/ proc[peer[t]].sync) =>
       xid[peer[t]] = FirstEgress /\ ~Has(toCtrl'[t], "EGRESS") /\ q[t] = <<>>

Lanes(s, q, c) == \A t \in Slots : state[t] = "SIB_ROUTING" => LaneAt(t, s, q, c)

\* A message that is not older than the common xid is the next one of its slot, an
\* older one finds the queue empty.
LEMMA LanesOf ==
  ASSUME Base, LiveInv, NEW s \in Slots, EgressRead(s), NEW c, c[s] = Common,
         \A t \in Slots \ {s} : c[t] = current_egress_xid[t],
         NEW q, \A t \in Slots \ {s} : q[t] = queue[t],
         LET m == Head(toCtrl[s]).msg
         IN  \/ m.xid >= Common /\ q[s] = Append(queue[s], m)
             \/ m.xid < Common /\ q[s] = queue[s]
  PROVE  Lanes(s, q, c)
<1> DEFINE m == Head(toCtrl[s]).msg
<1>1. /\ toCtrl[s] # <<>> /\ toCtrl[s] \in Seq(WrittenBy(peer[s])) /\ toCtrl'[s] = Tail(toCtrl[s])
      /\ \A t \in Slots \ {s} : toCtrl'[t] = toCtrl[t]
      /\ Head(toCtrl[s]).type = "EGRESS" /\ queue[s] \in Seq(EgressOf(peer[s])) /\ Common \in Nat
  BY CommonType DEF EgressRead, Base, TInv, Shape, SlotAt
<1>2. state[s] = "SIB_ROUTING" /\ Streaming(s)
  BY SenderRoutes DEF EgressRead
<1>3. ASSUME NEW t \in Slots \ {s}, state[t] = "SIB_ROUTING" PROVE LaneAt(t, s, q, c)
  <2>1. Streaming(t)
    BY <1>3 DEF LiveInv, SlotLive
  <2>2. Fresh(t) => queue[t] = <<>>
    BY DEF Fresh
  <2>3. QED
    BY <1>1, <2>1, <2>2 DEF LaneAt, Streaming
<1>4. /\ Len(toCtrl[s]) \in Nat /\ Len(toCtrl[s]) >= 1 /\ Head(toCtrl[s]) = toCtrl[s][1]
      /\ Len(toCtrl'[s]) \in Nat
      /\ \A i \in 1..Len(toCtrl'[s]) : i + 1 \in 1..Len(toCtrl[s]) /\ toCtrl'[s][i] = toCtrl[s][i + 1]
  BY <1>1, StreamRecv, SMTT(20)
<1>5. Has(toCtrl[s], "EGRESS")
  BY <1>1, <1>4, SMTT(20) DEF Has
<1>6. PICK a \in Nat, b \in Nat :
        /\ Runs(toCtrl[s], a, b)
        /\ peer[s] # NoSib => b = xid[peer[s]]
        /\ a <= Common + Len(queue[s])
        /\ queue[s] # <<>> => a = Common + Len(queue[s])
  BY <1>2 DEF Streaming
<1>7. m.xid = a /\ Runs(toCtrl'[s], a + 1, b)
  BY <1>1, <1>6, RunsTail
<1>8. Len(queue[s]) \in Nat /\ (queue[s] = <<>> => Len(queue[s]) = 0)
  BY <1>1, SMTT(20)
<1>9. \A i \in 1..Len(queue[s]) : queue[s][i].xid = Common + i - 1
  BY <1>2 DEF Streaming
<1>10. /\ \A i \in 1..Len(q[s]) : q[s][i].xid = Common + i - 1
       /\ a + 1 <= Common + Len(q[s])
       /\ q[s] # <<>> => a + 1 = Common + Len(q[s])
  <2>1. CASE m.xid >= Common /\ q[s] = Append(queue[s], m)
    <3>1. a = Common + Len(queue[s])
      <4>1. a >= Common
        BY <1>7, <2>1
      <4>2. QED
        BY <1>1, <1>6, <1>8, <4>1, SMTT(20)
    <3>2. m \in EgressOf(peer[s])
      <4>1. Head(toCtrl[s]) \in WrittenBy(peer[s])
        BY <1>1, HeadTailProperties
      <4>2. QED
        BY <1>1, <4>1 DEF WrittenBy
    <3>3. /\ Len(q[s]) = Len(queue[s]) + 1 /\ q[s][Len(queue[s]) + 1] = m
          /\ \A i \in 1..Len(queue[s]) : q[s][i] = queue[s][i]
      BY <1>1, <2>1, <3>2, SMTT(20)
    <3>4. ASSUME NEW i \in 1..Len(q[s]) PROVE q[s][i].xid = Common + i - 1
      <4>1. CASE i = Len(queue[s]) + 1
        BY <1>1, <1>7, <1>8, <3>1, <3>3, <4>1, SMTT(20)
      <4>2. CASE i # Len(queue[s]) + 1
        BY <1>8, <1>9, <3>3, <4>2, SMTT(20)
      <4>3. QED
        BY <4>1, <4>2
    <3>5. QED
      BY <1>1, <1>8, <3>1, <3>3, <3>4, SMTT(20)
  <2>2. CASE m.xid < Common /\ q[s] = queue[s]
    <3>1. queue[s] = <<>>
      BY <1>1, <1>6, <1>7, <1>8, <2>2, SMTT(20)
    <3>2. QED
      BY <1>1, <1>7, <1>8, <2>2, <3>1, SMTT(20)
  <2>3. QED
    BY <2>1, <2>2
<1>11. LaneAt(s, s, q, c)
  <2>1. \A i \in 1..Len(toCtrl'[s]) : toCtrl'[s][i].type \in {"EGRESS", "REDISTRIBUTE_LEADER_ELECT"}
    BY <1>2, <1>4 DEF Streaming
  <2>2. ~(peer[s] # NoSib /\ (~proc[peer[s]].hellos \/ proc[peer[s]].sync))
    BY <1>2, <1>5 DEF Streaming
  <2>3. \E aa, bb \in Nat :
          /\ Runs(toCtrl'[s], aa, bb)
          /\ peer[s] # NoSib => bb = xid[peer[s]]
          /\ aa <= Common + Len(q[s])
          /\ q[s] # <<>> => aa = Common + Len(q[s])
    <3>1. a + 1 \in Nat
      BY SMTT(20)
    <3>2. QED
      BY <1>6, <1>7, <1>10, <3>1
  <2>4. QED
    BY <1>10, <2>1, <2>2, <2>3 DEF LaneAt
<1>12. QED
  BY <1>3, <1>11 DEF Lanes

\* The xids of queue q start at k, those of u at k + d; what follows q follows u.
StartsAt(q, k) == \A i \in 1..Len(q) : q[i].xid = k + i - 1

PopsTo(q, u, k, d) ==
  /\ Len(u) \in Nat
  /\ StartsAt(u, k + d)
  /\ \A a \in Nat : /\ a <= k + Len(q)
                    /\ q # <<>> => a = k + Len(q)
                    => /\ a <= (k + d) + Len(u)
                       /\ u # <<>> => a = (k + d) + Len(u)

\* What a vote does to a queue that starts at xid k.
LEMMA PopLane ==
  ASSUME NEW S, NEW q \in Seq(S), NEW k \in Nat, StartsAt(q, k),
         NEW d \in {0, 1}, NEW u, u = IF d = 1 /\ q # <<>> THEN Tail(q) ELSE q
  PROVE  PopsTo(q, u, k, d)
<1> USE DEF StartsAt, PopsTo
<1>1. Len(q) \in Nat /\ (q = <<>> <=> Len(q) = 0)
  BY SMTT(20)
<1>2. CASE d = 0
  BY <1>1, <1>2, SMTT(20)
<1>3. CASE d = 1 /\ q = <<>>
  <2>1. u = <<>> /\ Len(u) = 0 /\ Len(q) = 0
    BY <1>3
  <2>2. QED
    BY <1>3, <2>1, SMTT(20)
<1>4. CASE d = 1 /\ q # <<>>
  <2>1. /\ Len(q) >= 1 /\ Len(u) = Len(q) - 1
        /\ \A i \in 1..Len(u) : i + 1 \in 1..Len(q) /\ u[i] = q[i + 1]
    BY <1>4, StreamRecv
  <2>2. Len(u) \in Nat /\ \A i \in 1..Len(u) : u[i].xid = (k + d) + i - 1
    BY <1>1, <1>4, <2>1, SMTT(20)
  <2>3. (k + d) + Len(u) = k + Len(q)
    <3>1. Len(u) = Len(q) - 1 /\ d = 1
      BY <1>4, <2>1
    <3>2. QED
      BY ONLY <1>1, <3>1, k \in Nat, SMTT(20)
  <2>4. \A a \in Nat : a = k + Len(q) => a <= (k + d) + Len(u) /\ a = (k + d) + Len(u)
    BY ONLY <1>1, <2>3, k \in Nat, SMTT(20)
  <2>5. QED
    BY <1>4, <2>2, <2>4
<1>5. QED
  BY <1>2, <1>3, <1>4

\* The vote releases the message of the common xid (d = 1) or none (d = 0).
VoteEffect(s, q, c, d) ==
  /\ \A t \in Slots \ {s} : q[t] = queue[t] /\ c[t] = current_egress_xid[t]
  /\ \A t \in Slots : q[t] \in Seq(Msgs)
  /\ \A t \in Slots : queue'[t] = IF d = 1 /\ q[t] # <<>> THEN Tail(q[t]) ELSE q[t]
  /\ \A t \in Slots : current_egress_xid'[t] = IF t \in Used THEN c[t] + d ELSE c[t]
  /\ Common' = Common + d /\ egress_db' <= Common'

\* A vote keeps LiveInv.
LEMMA LanesLive ==
  ASSUME LeaderStays, Base, LiveInv, leader_sibling # NoSlot, NEW s \in Slots, EgressRead(s),
         NEW q, NEW c, Lanes(s, q, c), NEW d \in {0, 1}, VoteEffect(s, q, c, d)
  PROVE  LiveInv'
<1> DEFINE S == Msgs
<1>0. /\ \A t \in Slots \ {s} : q[t] = queue[t] /\ c[t] = current_egress_xid[t]
      /\ \A t \in Slots : q[t] \in Seq(S)
      /\ \A t \in Slots : queue'[t] = IF d = 1 /\ q[t] # <<>> THEN Tail(q[t]) ELSE q[t]
      /\ \A t \in Slots : current_egress_xid'[t] = IF t \in Used THEN c[t] + d ELSE c[t]
      /\ Common' = Common + d /\ egress_db' <= Common'
  BY DEF VoteEffect
<1> HIDE DEF S
<1> USE <1>0
<1>1. /\ toCtrl[s] # <<>> /\ toCtrl[s] \in Seq(WrittenBy(peer[s])) /\ toCtrl'[s] = Tail(toCtrl[s])
      /\ \A t \in Slots \ {s} : toCtrl'[t] = toCtrl[t]
      /\ Common \in Nat /\ Common >= FirstEgress /\ Shape
      /\ UNCHANGED <<leader_sibling, state, is_leader, peer, proc, xid, order>>
      /\ \A t \in Slots : toSib'[t] = toSib[t]
      /\ \A t \in Slots \ {s} : waiting_on_first_egress_msg'[t] = waiting_on_first_egress_msg[t]
  BY CommonType DEF EgressRead, Base, TInv, Shape, SlotAt, LiveInv
<1>2. state[s] = "SIB_ROUTING"
  BY SenderRoutes DEF EgressRead
<1>3. ~Quiescent /\ Begun /\ peer[leader_sibling] = Oldest
  BY LeaderRoutes
<1>4. ASSUME NEW t \in Slots, state[t] \notin {"NULL", "SIB_DISCONNECTED", "SIB_ROUTING"}
      PROVE  Handshaking(t)'
  <2>1. Handshaking(t) /\ t # s
    BY <1>2, <1>4 DEF LiveInv, SlotLive
  <2>2. peer[t] \notin Sibs \ Crashers
    BY <1>3, <1>4, BegunRoutes
  <2>3. queue'[t] = <<>>
    BY <2>1 DEF Handshaking
  <2>4. peer[t] # NoSib => NotElected(peer[t])'
    BY <1>1, <2>1 DEF Handshaking, NotElected
  <2>5. toCtrl'[t] = toCtrl[t] /\ toSib'[t] = toSib[t]
    BY <1>1, <2>1
  <2>6. QED
    BY <1>1, <2>1, <2>2, <2>3, <2>4, <2>5 DEF Handshaking
<1>5. ASSUME NEW t \in Slots, state[t] = "SIB_ROUTING" PROVE Streaming(t)'
  <2>1. LaneAt(t, s, q, c) /\ Streaming(t) /\ t \in Used
    BY <1>5 DEF Lanes, LiveInv, SlotLive, Base, IInv, TypeOK
  <2>2. \A i \in 1..Len(toSib'[t]) : toSib'[t][i] = "LEADER_ELECT"
    BY <1>1, <2>1 DEF Streaming
  <2>3. \A i \in 1..Len(toCtrl'[t]) : toCtrl'[t][i].type \in {"EGRESS", "REDISTRIBUTE_LEADER_ELECT"}
    BY <2>1 DEF LaneAt
  <2>4. q[t] = <<>> => queue'[t] = <<>>
    OBVIOUS
  <2>5. current_egress_xid'[t] = Common' \/ Fresh(t)'
    <3>1. CASE c[t] = Common
      BY <2>1, <3>1
    <3>2. CASE t # s /\ Fresh(t) /\ q[t] = <<>>
      <4>1. toCtrl'[t] = toCtrl[t] /\ waiting_on_first_egress_msg'[t] = waiting_on_first_egress_msg[t]
        BY <1>1, <3>2
      <4>2. queue'[t] = <<>> /\ peer' = peer /\ proc' = proc /\ xid' = xid
        BY <1>1, <2>4, <3>2
      <4>3. QED
        BY ONLY <3>2, <4>1, <4>2 DEF Fresh
    <3>3. QED
      BY <2>1, <3>1, <3>2 DEF LaneAt
  <2>6. /\ Len(q[t]) \in Nat /\ (q[t] = <<>> <=> Len(q[t]) = 0)
        /\ \A i \in 1..Len(q[t]) : q[t][i].xid = Common + i - 1
    BY <2>1, SMTT(20) DEF LaneAt
  <2>7. /\ Len(queue'[t]) \in Nat
        /\ \A i \in 1..Len(queue'[t]) : queue'[t][i].xid = Common' + i - 1
        /\ \A a \in Nat : /\ a <= Common + Len(q[t])
                          /\ q[t] # <<>> => a = Common + Len(q[t])
                          => /\ a <= Common' + Len(queue'[t])
                             /\ queue'[t] # <<>> => a = Common' + Len(queue'[t])
    <3>1. q[t] \in Seq(S) /\ queue'[t] = IF d = 1 /\ q[t] # <<>> THEN Tail(q[t]) ELSE q[t]
      OBVIOUS
    <3>2. Common \in Nat /\ \A i \in 1..Len(q[t]) : q[t][i].xid = Common + i - 1
      BY <1>1, <2>6
    <3>3. Common' = Common + d
      OBVIOUS
    <3>4. StartsAt(q[t], Common)
      BY <3>2 DEF StartsAt
    <3>5. PopsTo(q[t], queue'[t], Common, d)
      BY ONLY PopLane, <3>1, <3>2, <3>4, d \in {0, 1}
    <3>6. QED
      BY ONLY <3>3, <3>5 DEF PopsTo, StartsAt
  <2>8. PICK a \in Nat, b \in Nat :
          /\ Runs(toCtrl'[t], a, b)
          /\ peer[t] # NoSib => b = xid[peer[t]]
          /\ a <= Common + Len(q[t])
          /\ q[t] # <<>> => a = Common + Len(q[t])
    BY <2>1 DEF LaneAt
  <2>9. \E aa, bb \in Nat :
          /\ Runs(toCtrl'[t], aa, bb)
          /\ peer'[t] # NoSib => bb = xid'[peer'[t]]
          /\ aa <= Common' + Len(queue'[t])
          /\ queue'[t] # <<>> => aa = Common' + Len(queue'[t])
    BY <1>1, <2>7, <2>8
  <2>10. peer'[t] # NoSib /\ (~proc'[peer'[t]].hellos \/ proc'[peer'[t]].sync) =>
           xid'[peer'[t]] = FirstEgress /\ ~Has(toCtrl'[t], "EGRESS") /\ queue'[t] = <<>>
    BY <1>1, <2>1, <2>4 DEF LaneAt
  <2>11. QED
    BY <2>2, <2>3, <2>5, <2>7, <2>9, <2>10 DEF Streaming
<1>6. ASSUME NEW t \in Slots PROVE SlotLive(t)'
  <2>1. SlotLive(t)
    BY DEF LiveInv
  <2>2. ASSUME state[t] = "NULL" PROVE current_egress_xid'[t] = 0 /\ toCtrl'[t] = <<>>
    <3>1. t # s /\ t \notin Used
      BY <1>2, <2>2 DEF Base, IInv, TypeOK
    <3>2. QED
      BY <1>1, <2>1, <2>2, <3>1 DEF SlotLive
  <2>3. \A i \in 1..Len(toCtrl'[t]) :
          toCtrl'[t][i].type = "REDISTRIBUTE_LEADER_ELECT" => (toCtrl'[t][i].leads <=> peer'[t] = Oldest)
    <3>1. CASE t = s
      <4>1. \A i \in 1..Len(toCtrl'[s]) : i + 1 \in 1..Len(toCtrl[s]) /\ toCtrl'[s][i] = toCtrl[s][i + 1]
        BY <1>1, StreamRecv, SMTT(20)
      <4>2. \A i \in 1..Len(toCtrl[s]) :
              toCtrl[s][i].type = "REDISTRIBUTE_LEADER_ELECT" => (toCtrl[s][i].leads <=> peer[s] = Oldest)
        BY <2>1, <3>1 DEF SlotLive
      <4>3. peer'[t] = peer[s]
        BY <1>1, <3>1
      <4>4. \A i \in 1..Len(toCtrl'[s]) :
              toCtrl'[s][i].type = "REDISTRIBUTE_LEADER_ELECT" => (toCtrl'[s][i].leads <=> peer[s] = Oldest)
        <5> TAKE i \in 1..Len(toCtrl'[s])
        <5>1. i + 1 \in 1..Len(toCtrl[s]) /\ toCtrl'[s][i] = toCtrl[s][i + 1]
          BY <4>1
        <5>2. QED
          BY <4>2, <5>1, SMTT(20)
      <4>5. QED
        BY <3>1, <4>3, <4>4
    <3>2. CASE t # s
      BY <1>1, <2>1, <3>2 DEF SlotLive
    <3>3. QED
      BY <3>1, <3>2
  <2>4. QED
    BY <1>1, <1>4, <1>5, <2>1, <2>2, <2>3 DEF SlotLive
<1>7. Begun'
  BY <1>1, <1>3 DEF Begun
<1>8. Common' >= FirstEgress
  BY <1>1, SMTT(20) DEF FirstEgress
<1>9. QED
  BY <1>1, <1>3, <1>6, <1>7, <1>8 DEF LiveInv

\* The slot's xid is the common one when its message is compared with it.
LEMMA EgressXid ==
  ASSUME LeaderStays, Base, LiveInv, NEW s \in Slots, CtrlRecv(s), Head(toCtrl[s]).type = "EGRESS",
         LET m == Head(toCtrl[s]).msg IN Ipv6RouteSet(s, m) \/ ForwardOspf6(s, m)
  PROVE  /\ leader_sibling # NoSlot
         /\ EgressRead(s)
         /\ \E c \in [Slots -> Nat] : \E w :
              /\ Egress(s, Head(toCtrl[s]).msg, c, w)
              /\ c[s] = Common
              /\ \A t \in Slots \ {s} : c[t] = current_egress_xid[t]
<1> DEFINE m == Head(toCtrl[s]).msg
<1>1. /\ toCtrl[s] # <<>> /\ toCtrl[s] \in Seq(WrittenBy(peer[s])) /\ state[s] \in Reading
      /\ toCtrl' = [toCtrl EXCEPT ![s] = Tail(@)] /\ Deliver(Quiet)
      /\ UNCHANGED <<peer, proc, xid, order>> /\ current_egress_xid \in [Slots -> Nat]
      /\ DOMAIN waiting_on_first_egress_msg = Slots
  BY DEF CtrlRecv, Base, TInv, Shape, SlotAt, Numbers, Ipv6RouteSet, ForwardOspf6, IInv, TypeOK
<1>2. Len(toCtrl[s]) \in Nat /\ Len(toCtrl[s]) >= 1 /\ Head(toCtrl[s]) = toCtrl[s][1] /\ 1 \in 1..Len(toCtrl[s])
  BY <1>1, StreamRecv, SMTT(20)
<1>3. leader_sibling # NoSlot
  <2>1. SUFFICES ASSUME NoLeaderYet PROVE FALSE
    BY DEF LiveInv
  <2>2. \E j \in 1..(1 - 1) : toCtrl[s][j].type = "REDISTRIBUTE_LEADER_ELECT"
    BY <1>2, <2>1, SMTT(20) DEF NoLeaderYet
  <2>3. QED
    BY <2>2, SMTT(20)
<1>4. state[s] = "SIB_ROUTING" /\ Streaming(s) /\ SlotLive(s)
  BY <1>1, SenderRoutes DEF LiveInv
<1>5. leader_sibling \in Slots /\ Common = current_egress_xid[leader_sibling]
  BY <1>3, LeaderRoutes
<1>6. ASSUME NEW c, NEW w, Egress(s, m, c, w), \A t \in Slots \ {s} : w[t] = waiting_on_first_egress_msg[t]
      PROVE  EgressRead(s)
  <2>1. /\ UNCHANGED <<n_ospf6_siblings, leader_sibling, state, is_leader>>
        /\ waiting_on_first_egress_msg' = w
        /\ \A t \in Slots : sent'[t] = <<>> /\ Quiet[t] = <<>>
    BY <1>6 DEF Egress, Quiet
  <2>2. \A t \in Slots : toSib'[t] = toSib[t]
    BY <1>1, <2>1, DeliverQuiet DEF Base
  <2>3. QED
    BY <1>1, <1>6, <2>1, <2>2 DEF EgressRead
<1>7. CASE Ipv6RouteSet(s, m)
  <2>1. m.val \in RouteSet /\ Egress(s, m, current_egress_xid, waiting_on_first_egress_msg)
    BY <1>7 DEF Ipv6RouteSet
  <2>2. ~Fresh(s)
    <3>1. \A j \in 1..(1 - 1) : toCtrl[s][j].type # "EGRESS"
      BY SMTT(20)
    <3>2. QED
      BY <1>2, <2>1, <3>1 DEF Fresh
  <2>3. current_egress_xid[s] = Common
    BY <1>4, <2>2 DEF Streaming
  <2>4. EgressRead(s)
    BY <1>6, <2>1
  <2>5. QED
    BY <1>1, <1>3, <2>1, <2>3, <2>4
<1>8. CASE ForwardOspf6(s, m)
  <2> DEFINE c == FirstXid(s)
             w == [waiting_on_first_egress_msg EXCEPT ![s] = FALSE]
  <2>1. Egress(s, m, c, w) /\ \A t \in Slots \ {s} : w[t] = waiting_on_first_egress_msg[t]
    BY <1>1, <1>8 DEF ForwardOspf6
  <2>2. c \in [Slots -> Nat] /\ \A t \in Slots \ {s} : c[t] = current_egress_xid[t]
    BY <1>1, <1>5 DEF FirstXid
  <2>3. c[s] = Common
    <3>1. CASE waiting_on_first_egress_msg[s] /\ ~is_leader[s]
      BY <1>1, <1>3, <1>5, <3>1 DEF FirstXid
    <3>2. CASE is_leader[s]
      BY <1>4, <1>5, <3>2 DEF FirstXid, SlotLive
    <3>3. CASE ~waiting_on_first_egress_msg[s]
      BY <1>4, <3>3 DEF FirstXid, Streaming, Fresh
    <3>4. QED
      BY <3>1, <3>2, <3>3
  <2> HIDE DEF c, w
  <2>4. EgressRead(s)
    BY <1>6, <2>1
  <2>5. QED
    BY <1>3, <2>1, <2>2, <2>3, <2>4
<1>9. QED
  BY <1>7, <1>8

=============================================================================
