---------------------------- MODULE SibOrderInv -----------------------------
(***************************************************************************)
(* The inductive invariant of the order of what reaches the router.        *)
(* SibOrderSibs and SibOrderCtrl show that the steps of the siblings and   *)
(* of the controller keep it, SibOrderProofs draws the conclusions.        *)
(***************************************************************************)
EXTENDS SibSystemInv

\* The oldest sibling, which the election makes the leader.
Oldest == 1

\* The oldest sibling stays up, a faulty one is not restarted, and the first message
\* of a good sibling is a hello (ospf6_hello_send), not a route.
LeaderStays ==
  /\ FaultyStay
  /\ Oldest \notin Crashers
  /\ FirstEgress \notin RouteXids

\* No sibling crashes before the controller knows the leader: until then a message can
\* be voted on that no egress xid is stored for.
OrderNext == SysNext /\ (leader_sibling = NoSlot => \A p \in Sibs : ~Crash(p))

OrderSpec == SysInit /\ [][OrderNext]_sysVars

-----------------------------------------------------------------------------
(***************************************************************************)
(* The inductive invariant                                                 *)
(***************************************************************************)

\* A slot beyond NumSibs ends all voting (Egress), so what follows is about the time
\* before there is one.
Live == running /\ n_ospf6_siblings <= NumSibs

\* The xid that the next vote is about.
Common == IF leader_sibling = NoSlot THEN FirstEgress ELSE current_egress_xid[leader_sibling]

Has(t, type) == \E i \in 1..Len(t) : t[i].type = type

\* The egress messages of t have consecutive xids, from a on, and b is the next one.
Runs(t, a, b) ==
  \E f \in [1 .. Len(t) + 1 -> Nat] :
    /\ f[1] = a /\ f[Len(t) + 1] = b
    /\ \A i \in 1..Len(t) :
         IF t[i].type = "EGRESS" THEN t[i].msg.xid = f[i] /\ f[i + 1] = f[i] + 1
                                 ELSE f[i + 1] = f[i]

Features0 == Request("FEATURES_REQUEST", 0)

Redistribute1 == Request("REDISTRIBUTE_REQUEST", 1)

IfAddress2 == Request("IF_ADDRESS_REQ", 2)

ToSibs == {<<>>, <<"HELLO">>, <<"FEATURES_REPLY">>}

\* How far a handshake is: st is the slot's state, t and b what is on its way to the
\* controller and back, x the process's xid.  In the last two lines it is stuck, because
\* a request was dropped or no router answers.
Shake(st, t, b, x) ==
  \/ st = "SIB_CONNECTING" /\ t = <<>> /\ b = <<>> /\ x = 0
  \/ st = "SIB_CONNECTED" /\ t = <<>> /\ b = <<"HELLO">> /\ x = 0
  \/ st = "SIB_CONNECTED" /\ t = <<Features0, Redistribute1>> /\ b = <<>> /\ x = 2
  \/ st = "SIB_FEATURES_REQ_RCVD" /\ t = <<Redistribute1>> /\ b = <<"FEATURES_REPLY">> /\ x = 2
  \/ st = "SIB_FEATURES_REQ_RCVD" /\ t = <<Redistribute1, IfAddress2>> /\ b = <<>> /\ x = 3
  \/ st \in {"SIB_FEATURES_REQ_RCVD", "SIB_FEATURES_REDIS_REQ_RCVD"} /\
       \/ t = <<>> /\ b = <<"FEATURES_REPLY">> /\ x = 2
       \/ t = <<IfAddress2>> /\ b = <<>> /\ x = 3
  \/ st \in {"SIB_CONNECTED", "SIB_FEATURES_REQ_RCVD"} /\ t = <<Redistribute1>> /\ b = <<>> /\ x = 2
  \/ st \in Reading \ {"SIB_ROUTING"} /\ t = <<>> /\ b = <<>> /\ x \in {2, 3}

\* The xid of a slot whose process started with the system: one per request.
Rank == [SIB_CONNECTING |-> 0, SIB_CONNECTED |-> 0, SIB_FEATURES_REQ_RCVD |-> 1,
         SIB_FEATURES_REDIS_REQ_RCVD |-> 2, SIB_ROUTING |-> 3]

Sending == {"SC_LEAD_ELECT_COMPL", "SC_READY_TO_SEND", "SC_READY_TO_SEND_LEAD_ELECT_START"}

Unelected == {"SC_INIT", "SC_ALL_INT_UP"}

NotElected(p) == proc[p].sc \in Unelected

\* A slot in its handshake: its process has not been elected, nor sent anything.
Handshaking(s) ==
  /\ queue[s] = <<>>
  /\ peer[s] = NoSib => \E b \in ToSibs, x \in 0..3 : Shake(state[s], toCtrl[s], b, x)
  /\ peer[s] # NoSib =>
       /\ Shake(state[s], toCtrl[s], toSib[s], xid[peer[s]])
       /\ NotElected(peer[s])
       /\ ~proc[peer[s]].hellos
  /\ peer[s] \in Sibs \ Crashers =>
       /\ state[s] \in DOMAIN Rank
       /\ current_egress_xid[s] = Rank[state[s]]
       /\ state[s] = "SIB_CONNECTED" /\ toCtrl[s] # <<>> => toCtrl[s][1] = Features0
       /\ state[s] = "SIB_CONNECTED" /\ toCtrl[s] = <<>> => toSib[s] # <<>>
       /\ state[s] = "SIB_FEATURES_REQ_RCVD" => toCtrl[s] # <<>> /\ toCtrl[s][1] = Redistribute1

\* A slot that no egress message has come from: the first one to come is a hello.
Fresh(s) ==
  /\ peer[s] \notin Sibs \ Crashers
  /\ waiting_on_first_egress_msg[s] /\ queue[s] = <<>>
  /\ \A i \in 1..Len(toCtrl[s]) :
       /\ toCtrl[s][i].type = "EGRESS"
       /\ \A j \in 1..(i - 1) : toCtrl[s][j].type # "EGRESS"
       => toCtrl[s][i].msg.val \notin RouteSet
  /\ ~Has(toCtrl[s], "EGRESS") /\ peer[s] # NoSib =>
       proc[peer[s]].sync \/ xid[peer[s]] = FirstEgress

\* The messages of a routing slot: those queued start at the common xid, and those on
\* their way follow them without a gap.
Streaming(s) ==
  /\ \A i \in 1..Len(toCtrl[s]) : toCtrl[s][i].type \in {"EGRESS", "REDISTRIBUTE_LEADER_ELECT"}
  /\ \A i \in 1..Len(toSib[s]) : toSib[s][i] = "LEADER_ELECT"
  /\ current_egress_xid[s] = Common \/ Fresh(s)
  /\ \A i \in 1..Len(queue[s]) : queue[s][i].xid = Common + i - 1
  /\ \E a, b \in Nat :
       /\ Runs(toCtrl[s], a, b)
       /\ peer[s] # NoSib => b = xid[peer[s]]
       /\ a <= Common + Len(queue[s])
       /\ queue[s] # <<>> => a = Common + Len(queue[s])
  /\ peer[s] # NoSib /\ (~proc[peer[s]].hellos \/ proc[peer[s]].sync) =>
       xid[peer[s]] = FirstEgress /\ ~Has(toCtrl[s], "EGRESS") /\ queue[s] = <<>>

SlotLive(s) ==
  /\ state[s] \notin {"NULL", "SIB_DISCONNECTED", "SIB_ROUTING"} => Handshaking(s)
  /\ state[s] = "SIB_ROUTING" => Streaming(s)
  /\ state[s] = "NULL" => current_egress_xid[s] = 0 /\ toCtrl[s] = <<>>
  /\ \A i \in 1..Len(toCtrl[s]) :
       toCtrl[s][i].type = "REDISTRIBUTE_LEADER_ELECT" => (toCtrl[s][i].leads <=> peer[s] = Oldest)
  /\ is_leader[s] => s = leader_sibling

\* Before the controller knows the leader nobody has crashed, and a process that is
\* past its election has told the controller of it ahead of any egress message.
NoLeaderYet ==
  /\ order = [p \in Sibs |-> p]
  /\ \A s \in Slots : /\ state[s] # "NULL" => peer[s] # NoSib
                      /\ queue[s] = <<>>
                      /\ \A i \in 1..Len(toCtrl[s]) : toCtrl[s][i].type = "EGRESS" =>
                           \E j \in 1..(i - 1) : toCtrl[s][j].type = "REDISTRIBUTE_LEADER_ELECT"
  /\ \A p \in Sibs : ~proc[p].restart_mode /\ ~proc[p].sync
  /\ \A p \in Sibs : ~NotElected(p) =>
       \E s \in Slots : peer[s] = p /\ Has(toCtrl[s], "REDISTRIBUTE_LEADER_ELECT")

\* Every sibling that does not crash has its routing slot.
Begun == \A p \in Sibs \ Crashers : \E s \in Slots : peer[s] = p /\ state[s] = "SIB_ROUTING"

\* No election has been started.
Quiescent ==
  /\ leader_sibling = NoSlot
  /\ \A s \in Slots : /\ \A i \in 1..Len(toSib[s]) : toSib[s][i] # "LEADER_ELECT"
                      /\ ~Has(toCtrl[s], "REDISTRIBUTE_LEADER_ELECT")
  /\ \A p \in Sibs : NotElected(p)

LiveInv ==
  /\ \A s \in Slots : SlotLive(s)
  /\ leader_sibling # NoSlot => peer[leader_sibling] = Oldest
  /\ leader_sibling = NoSlot => NoLeaderYet
  /\ Begun \/ Quiescent
  /\ Common >= FirstEgress /\ egress_db <= Common

ProcAt(p) ==
  /\ proc[p].hellos => proc[p].sc \in Sending
  /\ proc[p].sync => proc[p].hellos
  /\ SlotsOf(p) # {} => Alive(p)
  /\ SlotsOf(p) = {} /\ Alive(p) =>
       xid[p] = 0 /\ proc[p].sc = "SC_INIT" /\ ~proc[p].hellos

LinkInv ==
  /\ toSib \in [Slots -> Seq(Replies \cup {"HELLO"})]
  /\ \A s \in Slots : peer[s] = NoSib => toSib[s] = <<>>
  /\ \A s \in Slots : state[s] \in {"NULL", "SIB_DISCONNECTED"} => peer[s] = NoSib

OrderInv ==
  /\ order \in Seq(Sibs) /\ order # <<>> /\ order[1] = Oldest
  /\ \A i, j \in 1..Len(order) : order[i] = order[j] => i = j

ProcInv ==
  /\ proc \in [Sibs -> Procs(conn)]
  /\ \A p \in Sibs : ProcAt(p)

WireInv ==
  /\ wire \in Seq(Msgs)
  /\ n_routers = 0 => wire = <<>>
  /\ Live /\ wire # <<>> => egress_db = Common /\ \A i \in 1..Len(wire) : wire[i].xid < Common

OInv ==
  /\ TInv /\ IInv /\ LinkInv /\ OrderInv /\ ProcInv /\ WireInv
  /\ Live => LiveInv
  /\ InOrder /\ DbCurrent
  /\ n_ospf6_siblings <= NumSibs => QueueAligned

-----------------------------------------------------------------------------
(***************************************************************************)
(* What the proofs call the parts of a step                                *)
(***************************************************************************)

\* An election is started only when all of NumSibs slots route, and when each of these
\* has a process each sibling has one (CountsHold shows it of TInv and IInv).
Counts ==
  /\ n_ospf6_siblings <= NumSibs /\ n_ospf6_siblings_routing = NumSibs
       => n_ospf6_siblings = NumSibs /\ \A t \in Used : state[t] = "SIB_ROUTING"
  /\ n_ospf6_siblings = NumSibs /\ (\A t \in Used : peer[t] # NoSib)
       => \A p \in Sibs : \E t \in Used : peer[t] = p

Base == TInv /\ IInv /\ LinkInv /\ OrderInv /\ ProcInv /\ Counts

\* Neither slot t nor the process behind it changes.
SameSlot(t) ==
  /\ state'[t] = state[t] /\ queue'[t] = queue[t]
  /\ current_egress_xid'[t] = current_egress_xid[t]
  /\ waiting_on_first_egress_msg'[t] = waiting_on_first_egress_msg[t]
  /\ is_leader'[t] = is_leader[t]
  /\ peer'[t] = peer[t] /\ toCtrl'[t] = toCtrl[t] /\ toSib'[t] = toSib[t]
  /\ peer[t] # NoSib => proc'[peer[t]] = proc[peer[t]] /\ xid'[peer[t]] = xid[peer[t]]

\* What a step does to the wire and to Riak: nothing, or it hands out the message of
\* the common xid and stores the next one.
Silent == out' = <<>> /\ egress_db' = egress_db

Voted(m) ==
  /\ out' = (IF n_routers > 0 THEN <<m>> ELSE <<>>)
  /\ m.xid = Common /\ Common' = Common + 1 /\ egress_db' = Common'

\* What is handed to the router and stored in Riak in any step.
WireStep ==
  \/ wire' = wire /\ egress_db' = egress_db /\ (Live' => Common' = Common)
  \/ /\ Live
     /\ \E m \in Msgs : /\ wire' = (IF n_routers > 0 THEN wire \o <<m>> ELSE wire)
                        /\ m.xid = Common /\ Common' = Common + 1 /\ egress_db' = Common'

=============================================================================
