----------------------------- MODULE SibSystem -----------------------------
(***************************************************************************)
(* The controller of SibRouter together with the OSPFv3 sibling processes  *)
(* of ospf6-sibling/: their connections, their handshake, the leader       *)
(* election, the messages they send, crashes and restarts.                 *)
(*                                                                         *)
(* Replicas that process the same input produce the same messages: a good  *)
(* sibling gives the message with transaction id x the payload Correct(x). *)
(* A sibling of Faulty gives its messages any payload.                     *)
(***************************************************************************)
EXTENDS SibRouter, SiblingCtrl

CONSTANTS
  Faulty,      \* siblings whose messages may differ from the others'
  RouteXids,   \* the transaction ids at which a good sibling sets a route
  Hello,       \* payloads of a good sibling
  Route,
  Crashers,    \* siblings that may crash
  MaxCrashes,  \* bound: crashes of sibling processes
  MaxRestarts  \* bound: restarts of crashed ones

Sibs == 1..NumSibs
NoSib == 0
FirstEgress == 3    \* the xid after FEATURES_REQUEST, REDISTRIBUTE_REQUEST, IF_ADDRESS_REQ
Correct(x) == IF x \in RouteXids THEN Route ELSE Hello

ASSUME FaultyAssumption == Faulty \subseteq Sibs /\ Crashers \subseteq Sibs
ASSUME ContentAssumption ==
  /\ Hello \in Payload \ RouteSet
  /\ Route \in RouteSet
  /\ MaxCrashes \in Nat
  /\ MaxRestarts \in Nat

VARIABLES
  peer,     \* per slot: the process at the other end, NoSib once it is gone
  toCtrl,   \* per slot: bytes on the way to the controller
  toSib,    \* per slot: bytes on the way to the process
  proc,     \* per process: the state machines of SiblingCtrl
  xid,      \* per process: current_xid
  order,    \* external: processes registered with SIS-IS, oldest first
  ids,      \* external: <<p, q>> when q has the id of the running p
  crashes,
  restarts,
  wire      \* history: what the controller handed to the router

sibVars == <<peer, toCtrl, toSib, proc, xid, order, ids, crashes, restarts>>
sysVars == <<vars, sibVars, wire>>

conn == {"controller"}
CtrlMsgs == [type : {"FEATURES_REQUEST", "REDISTRIBUTE_REQUEST", "IF_ADDRESS_REQ"}, xid : Xids]
              \cup [type : {"EGRESS"}, msg : Msgs]
              \cup [type : {"REDISTRIBUTE_LEADER_ELECT"}, leads : BOOLEAN]

Alive(p) == \E i \in 1..Len(order) : order[i] = p
SlotsOf(p) == {s \in Slots : peer[s] = p}
IsSending(p) == proc[p].hellos

Booted ==
  /\ Init
  /\ peer = [s \in Slots |-> NoSib]
  /\ toCtrl = [s \in Slots |-> <<>>]
  /\ toSib = [s \in Slots |-> <<>>]
  /\ proc = [p \in Sibs |-> NewProc(conn, FALSE)]
  /\ xid = [p \in Sibs |-> 0]
  /\ order = [p \in Sibs |-> p]
  /\ ids = {}
  /\ wire = <<>>

SysInit == Booted /\ crashes = 0 /\ restarts = 0

-----------------------------------------------------------------------------
(***************************************************************************)
(* Steps of the controller                                                 *)
(***************************************************************************)

\* What the controller wrote in this step reaches the processes still there.
Deliver(extra) ==
  toSib' = [s \in Slots |-> IF peer'[s] = NoSib THEN <<>> ELSE toSib[s] \o extra[s] \o sent'[s]]

History == wire' = wire \o out'

\* ctrl_client_start of a process meets sib_listener_accept.
Connect(p, s) ==
  /\ Alive(p)
  /\ SlotsOf(p) = {}
  /\ proc[p].ctrl["controller"] = "CTRL_CONNECTING"
  /\ AcceptReuse(s) \/ AcceptNew(s)
  /\ peer' = [peer EXCEPT ![s] = p]
  /\ toCtrl' = [toCtrl EXCEPT ![s] = <<>>]
  /\ proc' = [proc EXCEPT ![p].ctrl["controller"] = "CTRL_SENT_HELLO"]
  /\ Deliver(Quiet)
  /\ UNCHANGED <<xid, order, ids, crashes, restarts, wire>>

\* rconn_run sends the HELLO of the connection before the state changes.
CtrlConnected(s) ==
  /\ Connected(s)
  /\ UNCHANGED <<peer, toCtrl, proc, xid, order, ids, crashes, restarts, wire>>
  /\ Deliver([Quiet EXCEPT ![s] = <<"HELLO">>])

\* The end of a connection is noticed; messages still on the way may be lost.
CtrlDestroy(s) ==
  /\ peer[s] = NoSib
  /\ Destroy(s)
  /\ toCtrl' = [toCtrl EXCEPT ![s] = <<>>]
  /\ UNCHANGED <<peer, proc, xid, order, ids, crashes, restarts, wire>>
  /\ Deliver(Quiet)

CtrlProcess(s, m) ==
  \/ m.type = "FEATURES_REQUEST" /\ FeaturesRequest(s, m.xid)
  \/ m.type = "REDISTRIBUTE_REQUEST" /\ RedistributeRequest(s, m.xid)
  \/ m.type = "IF_ADDRESS_REQ" /\ IfAddressReq(s, m.xid)
  \/ m.type = "EGRESS" /\ (Ipv6RouteSet(s, m.msg) \/ ForwardOspf6(s, m.msg))
  \/ m.type = "REDISTRIBUTE_LEADER_ELECT" /\ RedistributeLeaderElect(s, m.leads)

CtrlRecv(s) ==
  /\ toCtrl[s] # <<>>
  /\ CtrlProcess(s, Head(toCtrl[s]))
  /\ toCtrl' = [toCtrl EXCEPT ![s] = Tail(@)]
  /\ UNCHANGED <<peer, proc, xid, order, ids, crashes, restarts>>
  /\ Deliver(Quiet)
  /\ History

CtrlRouterAccept == RouterAccept /\ UNCHANGED <<sibVars, wire>>

-----------------------------------------------------------------------------
(***************************************************************************)
(* Steps of a sibling                                                      *)
(***************************************************************************)

\* A step of a sibling leaves the controller's state alone and its outputs empty.
CtrlIdle ==
  /\ sent' = Quiet
  /\ out' = <<>>
  /\ UNCHANGED <<n_ospf6_siblings, n_ospf6_siblings_routing, leader_sibling, slotVars,
                 n_routers, egress_db, running, wire>>

Write(p, msgs) == toCtrl' = [s \in Slots |-> IF peer[s] = p THEN toCtrl[s] \o msgs ELSE toCtrl[s]]

Request(t, x) == [type |-> t, xid |-> x]

\* ctrl_client_connected follows the HELLO: two requests, two xids.
SibHello(p) ==
  /\ proc' = [proc EXCEPT ![p].ctrl["controller"] = "CTRL_RCVD_HELLO"]
  /\ Write(p, <<Request("FEATURES_REQUEST", xid[p]), Request("REDISTRIBUTE_REQUEST", xid[p] + 1)>>)
  /\ xid' = [xid EXCEPT ![p] = @ + 2]
  /\ UNCHANGED ids

ctrl_client_if_addr_req(x) == <<Request("IF_ADDRESS_REQ", x)>>

\* recv_features_reply queues interface_up, which runs before the next read.
SibFeaturesReply(p) ==
  /\ xid[p] < MaxXid
  /\ proc' = [proc EXCEPT ![p] = InterfaceUp(@, "controller")]
  /\ Write(p, ctrl_client_if_addr_req(xid[p]))
  /\ xid' = [xid EXCEPT ![p] = @ + 1]
  /\ UNCHANGED ids

\* ospf6_leader_elect does nothing while siblings are missing.  Else the oldest is
\* the leader, the id goes to the other replicas and the outcome to the controller.
SibLeaderElect(p) ==
  /\ proc' = [proc EXCEPT ![p] = LeadElect(@, "controller")]
  /\ IF LeadElectTaken(proc[p], "controller") /\ Len(order) = NumSibs
     THEN /\ ids' = ids \cup ({p} \X (Sibs \ {p}))
          /\ Write(p, <<[type |-> "REDISTRIBUTE_LEADER_ELECT", leads |-> Head(order) = p]>>)
     ELSE UNCHANGED <<ids, toCtrl>>
  /\ UNCHANGED xid

SibRecv(p, s) ==
  /\ peer[s] = p
  /\ toSib[s] # <<>>
  /\ \/ Head(toSib[s]) = "HELLO" /\ SibHello(p)
     \/ Head(toSib[s]) = "FEATURES_REPLY" /\ SibFeaturesReply(p)
     \/ Head(toSib[s]) = "LEADER_ELECT" /\ SibLeaderElect(p)
  /\ toSib' = [toSib EXCEPT ![s] = Tail(@)]
  /\ UNCHANGED <<peer, order, crashes, restarts>>
  /\ CtrlIdle

\* The last id arrives (fill_id) or was there already.
SibElected(p) ==
  /\ Alive(p)
  /\ past_leader_elect_start(proc[p].sc)
  /\ \A q \in Sibs \ {p} : <<q, p>> \in ids
  /\ proc' = [proc EXCEPT ![p] = ElectionComplete(@)]
  /\ UNCHANGED <<peer, toCtrl, toSib, xid, order, ids, crashes, restarts>>
  /\ CtrlIdle

\* The restart thread waits for the election or for a first message from the
\* router, catches up from Riak and leaves restart mode.
RestartDone(p) ==
  /\ proc[p].restart_mode
  /\ proc[p].sync \/ \E s \in SlotsOf(p) : state[s] = "SIB_ROUTING"
  /\ proc' = [proc EXCEPT ![p].restart_mode = FALSE]
  /\ UNCHANGED <<peer, toCtrl, toSib, xid, order, ids, crashes, restarts>>
  /\ CtrlIdle

db_get_egress_xid == egress_db

\* What becomes the current_xid of the sibling's connection to the controller.
synchronize_current_xid == db_get_egress_xid

\* ospf6_hello_send, ctrl_client_route_set.  Only the first hello of a restarted
\* sibling takes its xid from Riak, and it waits for the restart thread.
SibSend(p, val) ==
  LET x == IF proc[p].sync THEN synchronize_current_xid ELSE xid[p]
  IN /\ Alive(p)
     /\ IsSending(p)
     /\ SlotsOf(p) # {}
     /\ proc[p].sync => ~proc[p].restart_mode
     /\ x < MaxXid
     /\ p \in Faulty \/ (val = Correct(x) /\ (proc[p].sync => val = Hello))
     /\ Write(p, <<[type |-> "EGRESS", msg |-> [xid |-> x, val |-> val]]>>)
     /\ xid' = [xid EXCEPT ![p] = x + 1]
     /\ proc' = [proc EXCEPT ![p].sync = FALSE]
     /\ UNCHANGED <<peer, toSib, order, ids, crashes, restarts>>
     /\ CtrlIdle

\* The process ends: SIS-IS drops its address, the connection closes.
Crash(p) ==
  /\ Alive(p)
  /\ p \in Crashers
  /\ crashes < MaxCrashes
  /\ crashes' = crashes + 1
  /\ \E i \in 1..Len(order) :
       order[i] = p /\ order' = SubSeq(order, 1, i - 1) \o SubSeq(order, i + 1, Len(order))
  /\ peer' = [s \in Slots |-> IF peer[s] = p THEN NoSib ELSE peer[s]]
  /\ toSib' = [s \in Slots |-> IF peer[s] = p THEN <<>> ELSE toSib[s]]
  /\ UNCHANGED <<toCtrl, proc, xid, ids, restarts>>
  /\ CtrlIdle

\* restart_sibling.sh starts it again with "-r", as the youngest process.
Restart(p) ==
  /\ ~Alive(p)
  /\ restarts < MaxRestarts
  /\ restarts' = restarts + 1
  /\ order' = Append(order, p)
  /\ proc' = [proc EXCEPT ![p] = NewProc(conn, TRUE)]
  /\ xid' = [xid EXCEPT ![p] = 0]
  /\ ids' = {i \in ids : p \notin {i[1], i[2]}}
  /\ UNCHANGED <<peer, toCtrl, toSib, crashes>>
  /\ CtrlIdle

SysNext ==
  \/ CtrlRouterAccept
  \/ \E s \in Slots : CtrlConnected(s) \/ CtrlDestroy(s) \/ CtrlRecv(s)
  \/ \E p \in Sibs :
       \/ \E s \in Slots : Connect(p, s) \/ SibRecv(p, s)
       \/ SibElected(p)
       \/ RestartDone(p)
       \/ \E val \in Payload : SibSend(p, val)
       \/ Crash(p)
       \/ Restart(p)

SysSpec == SysInit /\ [][SysNext]_sysVars

\* The event loops serve every connection that has something to read and notice
\* one that is closed, and hello timers keep firing.  Nothing is assumed of the
\* start of a sibling, of elections, or of crashes and restarts.
SysFairness ==
  /\ \A s \in Slots : WF_sysVars(CtrlConnected(s)) /\ WF_sysVars(CtrlDestroy(s)) /\ WF_sysVars(CtrlRecv(s))
  /\ \A p \in Sibs : /\ \A s \in Slots : WF_sysVars(SibRecv(p, s))
                    /\ WF_sysVars(\E val \in Payload : SibSend(p, val))

-----------------------------------------------------------------------------
(***************************************************************************)
(* Properties                                                              *)
(***************************************************************************)

\* The variables keep their types; no transaction id of a sibling, of a message or of
\* Riak passes the bound.
SysTypeOK ==
  /\ TypeOK
  /\ peer \in [Slots -> Sibs \cup {NoSib}]
  /\ toCtrl \in [Slots -> Seq(CtrlMsgs)]
  /\ toSib \in [Slots -> Seq(Replies \cup {"HELLO"})]
  /\ proc \in [Sibs -> Procs(conn)]
  /\ xid \in [Sibs -> Xids]
  /\ order \in Seq(Sibs)
  /\ ids \in SUBSET (Sibs \X Sibs)
  /\ crashes \in 0..MaxCrashes
  /\ restarts \in 0..MaxRestarts
  /\ wire \in Seq(Msgs)

\* The vote is the system's reason to exist: with voter all and a faulty minority,
\* vote_majority only ever hands the router what the good siblings sent.
Integrity == \A i \in 1..Len(wire) : wire[i].val = Correct(wire[i].xid)

\* No message reaches the router twice or late: the xids of the messages that
\* vote_majority forwards only grow (as long as the leader's slot is not reused).
InOrder == \A i, j \in 1..Len(wire) : i < j => wire[i].xid < wire[j].xid

\* The egress xid in Riak, which a restarted sibling resumes from, is the one after
\* the last message the vote released, at every moment it can be read.
DbCurrent == wire # <<>> => egress_db = wire[Len(wire)].xid + 1

\* A vote compares messages of one xid: the queue of a sibling that has started to
\* send holds consecutive xids from current_egress_xid on, and that xid is common.
QueueAligned ==
  \A s \in Routing : ~waiting_on_first_egress_msg[s] =>
    /\ \A i \in 1..Len(queue[s]) : queue[s][i].xid = current_egress_xid[s] + i - 1
    /\ \A t \in Routing :
         ~waiting_on_first_egress_msg[t] => current_egress_xid[s] = current_egress_xid[t]

\* As long as the controller runs, what the good siblings send gets through: the
\* vote does not stall with the messages of a majority waiting.
Progress == []running => <>(\E i \in 1..Len(wire) : wire[i].xid = MaxXid - 1)

\* The controller survives what its siblings do: no handler of sib_router.c follows
\* a pointer that is not there.
ControllerUp == running
=============================================================================
