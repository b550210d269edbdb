---------------------------- MODULE Ospf6Restart ----------------------------
(***************************************************************************)
(* Messages from the router to the siblings, and how a restarted sibling   *)
(* recovers those it missed: ospf6_restart.c, the main thread of the       *)
(* process (ctrl_client.c, sibling_ctrl.c), the checkpoints of Ospf6Db and *)
(* the controller's side of it (router.c, sib_router.c).                   *)
(*                                                                         *)
(* A restarted process has two threads.  The main thread queues messages   *)
(* while restart_mode is set.  The restart thread processes the messages   *)
(* of its own bucket, then those the leader has stored beyond them up to   *)
(* the first message queued, then the queue, and clears restart_mode.      *)
(* A mutex is a Boolean: whether it is locked.                             *)
(***************************************************************************)
EXTENDS Ospf6Db, FiniteSets

CONSTANTS
  Sibs,         \* the siblings, known by their replica ids
  Scripts,      \* bound: the message sequences a router may send
  Interface,    \* the HelloInterval and the MTU of the siblings' interface
  Configs,      \* what the configuration files may say
  Crashers,     \* siblings that may crash
  MaxCrashes,   \* bound: crashes; each is followed by at most one restart
  Lapsing       \* bound: siblings whose neighbors may fall silent

ASSUME RestartAssumption ==
  /\ Sibs \subseteq Nat \ {0} /\ IsFiniteSet(Sibs)
  /\ Scripts \subseteq Seq(Messages)
  /\ \A s \in Scripts : Len(s) < Word \div 2
  /\ Interface \in [HELLO : Shorts, DBDESC : Shorts]
  /\ Configs \subseteq [Sibs -> [checkpoint_enabled : BOOLEAN, debug_msg : BOOLEAN]]
  /\ Crashers \subseteq Sibs
  /\ MaxCrashes \in Nat
  /\ Lapsing \subseteq Sibs

VARIABLES
  script,      \* the messages the router sends: the one with id x is script[x]
  conf,        \* the configuration of each sibling, read when it starts
  ingress_id,  \* external: the last id given to a message, in Riak
  bucket,      \* external: the buckets of the siblings, in Riak
  life,        \* "run" or "down"
  toSib,       \* ids of the messages on the way to a sibling
  toCtl,       \* ACKs on the way to the controller
  ctl,         \* the controller's record of a sibling
  th,          \* the two threads of a process and what they share
  nbrs,        \* the neighbors a process knows and, as history, those that lapsed
  applied,     \* history: what ospf6_receive of a process was given
  dropped,     \* history: the Hellos and DbDescs a sibling was given and discarded
  crashes,
  miss         \* history: how a message may have passed a sibling by

vars == <<script, conf, ingress_id, bucket, life, toSib, toCtl, ctl, th, nbrs, applied, dropped, crashes, miss>>
ospfVars == <<nbrs, applied, dropped>>

Xids == 0 .. Word - 1
checkpointed(msg) == msg.type \in {"HELLO", "DBDESC"}
NoId == 0

\* ospf6_create, sibling_ctrl_init and, in restart mode, ospf6_restart_init: the
\* first_xid_mutex and the mutex that holds back the first hello start locked.
NewThreads(restart) ==
  [main |-> "fetch", msg |-> NoId,
   restart_mode |-> restart, ready_to_checkpoint |-> ~restart,
   first_xid_mutex |-> restart, restart_msg_q_mutex |-> FALSE, egress_mutex |-> restart,
   restarted_first_egress_not_sent |-> FALSE, restart_msg_queue |-> <<>>,
   thread |-> IF restart THEN "start" ELSE "none",
   num_msgs |-> TRUE, last_key |-> 0, first_xid |-> 0, keys |-> <<>>, leader_id |-> NoId,
   leader |-> NoId, elected |-> ~restart]

Threads ==
  [main : {"fetch", "push", "ack", "hello"}, msg : Xids,
   restart_mode : BOOLEAN, ready_to_checkpoint : BOOLEAN,
   first_xid_mutex : BOOLEAN, restart_msg_q_mutex : BOOLEAN, egress_mutex : BOOLEAN,
   restarted_first_egress_not_sent : BOOLEAN, restart_msg_queue : Seq(Xids),
   thread : {"none", "start", "own", "first", "leader", "range", "drain", "flip"},
   num_msgs : BOOLEAN, last_key : Xids, first_xid : Xids, keys : Seq({CURRENT_XID} \cup Xids),
   leader_id : Sibs \cup {NoId}, leader : Sibs \cup {NoId}, elected : BOOLEAN]

NoNeighbors == [known |-> {}, lapsed |-> {}]

Init ==
  /\ script \in Scripts
  /\ conf \in Configs
  /\ ingress_id = 0
  /\ bucket = [p \in Sibs |-> EmptyBucket]
  /\ life = [p \in Sibs |-> "run"]
  /\ toSib = [p \in Sibs |-> <<>>]
  /\ toCtl = [p \in Sibs |-> <<>>]
  /\ ctl = [p \in Sibs |-> [routing |-> TRUE, xid |-> 0, acked |-> FALSE]]
  /\ th = [p \in Sibs |-> NewThreads(FALSE)]
  /\ nbrs = [p \in Sibs |-> NoNeighbors]
  /\ applied = [p \in Sibs |-> <<>>]
  /\ dropped = [p \in Sibs |-> {}]
  /\ crashes = 0
  /\ miss = [p \in Sibs |-> {}]

-----------------------------------------------------------------------------
(***************************************************************************)
(* The controller                                                          *)
(***************************************************************************)

\* A message of the router gets an id and goes to every sibling in SIB_ROUTING.
\* One whose process is gone still takes it, and it is lost.
Forward ==
  LET xid == db_get_and_set(ingress_id)
  IN /\ ingress_id < Len(script)
     /\ ingress_id' = xid
     /\ ctl' = [p \in Sibs |-> IF ctl[p].routing
                               THEN [ctl[p] EXCEPT !.xid = xid, !.acked = FALSE] ELSE ctl[p]]
     /\ toSib' = [p \in Sibs |-> IF ctl[p].routing /\ life[p] = "run"
                                 THEN Append(toSib[p], xid) ELSE toSib[p]]
     /\ UNCHANGED <<script, conf, bucket, life, toCtl, th, ospfVars, crashes, miss>>

\* Mutant: an ACK is taken for the latest message.
AnyAck(c, xid) == [c EXCEPT !.acked = TRUE]

AckRcvd(c, xid) == IF xid = c.xid THEN [c EXCEPT !.acked = TRUE] ELSE c

CtrlAck(p) ==
  /\ toCtl[p] # <<>>
  /\ ctl' = [ctl EXCEPT ![p] = AckRcvd(@, Head(toCtl[p]))]
  /\ toCtl' = [toCtl EXCEPT ![p] = Tail(@)]
  /\ UNCHANGED <<script, conf, ingress_id, bucket, life, toSib, th, ospfVars, crashes, miss>>

\* The connection of a process that is gone is closed, with what is still in it.
CtrlClose(p) ==
  /\ life[p] = "down"
  /\ ctl[p].routing
  /\ ctl' = [ctl EXCEPT ![p].routing = FALSE]
  /\ toCtl' = [toCtl EXCEPT ![p] = <<>>]
  /\ UNCHANGED <<script, conf, ingress_id, bucket, life, toSib, th, ospfVars, crashes, miss>>

\* sib_router_reuse and the handshake: current_ingress_ack_rcvd is not reset.
CtrlRouting(p) ==
  /\ life[p] = "run"
  /\ ~ctl[p].routing
  /\ ctl' = [ctl EXCEPT ![p].routing = TRUE, ![p].xid = 0]
  /\ UNCHANGED <<script, conf, ingress_id, bucket, life, toSib, toCtl, th, ospfVars, crashes, miss>>

ctlVars == <<script, conf, ingress_id, ctl>>

-----------------------------------------------------------------------------
(***************************************************************************)
(* Processes                                                               *)
(***************************************************************************)

Gone(p) ==
  /\ life' = [life EXCEPT ![p] = "down"]
  /\ toSib' = [toSib EXCEPT ![p] = <<>>]

Crash(p) ==
  /\ life[p] = "run"
  /\ p \in Crashers
  /\ crashes < MaxCrashes
  /\ crashes' = crashes + 1
  /\ Gone(p)
  /\ UNCHANGED <<ctlVars, bucket, toCtl, th, ospfVars, miss>>

\* restart_sibling.sh runs "ospf6-sibling -r".  The interface comes up with the
\* features reply, before the controller puts the sibling in SIB_ROUTING.
Restart(p) ==
  /\ life[p] = "down"
  /\ ~ctl[p].routing
  /\ life' = [life EXCEPT ![p] = "run"]
  /\ th' = [th EXCEPT ![p] = NewThreads(TRUE)]
  /\ nbrs' = [nbrs EXCEPT ![p] = NoNeighbors]
  /\ applied' = [applied EXCEPT ![p] = <<>>]
  /\ UNCHANGED <<ctlVars, bucket, toSib, toCtl, dropped, crashes, miss>>

\* Mutant: nothing is stored before restart_mode is cleared.
NotInRestart(p) == conf[p].checkpoint_enabled /\ ~th[p].restart_mode

\* ospf6_hello_recv, ospf6_dbdesc_recv: when a message they take is stored.
checkpoints(p) ==
  conf[p].checkpoint_enabled /\ (~th[p].restart_mode \/ th[p].ready_to_checkpoint)

\* The early returns of ospf6_hello_recv and ospf6_dbdesc_recv: a message that is not
\* taken is neither stored nor acknowledged.  Another MTU is refused only in debug mode.
HelloTaken(msg) == msg.param = Interface.HELLO

DbDescTaken(p, msg) ==
  msg.router_id \in nbrs[p].known /\ (msg.param = Interface.DBDESC \/ ~conf[p].debug_msg)

Takes(p, msg) ==
  \/ msg.type = "HELLO" /\ HelloTaken(msg)
  \/ msg.type = "DBDESC" /\ DbDescTaken(p, msg)

\* Mutant: a neighbor is created only out of restart mode.
GreetsLive(p, msg) ==
  IF msg.type = "HELLO" /\ Takes(p, msg) /\ ~th[p].restart_mode
  THEN [nbrs[p] EXCEPT !.known = @ \cup {msg.router_id}] ELSE nbrs[p]

\* ospf6_hello_recv creates the neighbor that it does not find.
Greets(p, msg) ==
  IF msg.type = "HELLO" /\ Takes(p, msg)
  THEN [nbrs[p] EXCEPT !.known = @ \cup {msg.router_id}] ELSE nbrs[p]

\* ospf6_receive of message msg with id xid.  Other messages than Hello and DbDesc are
\* processed and not stored.
ospf6_receive(p, xid, msg, source) ==
  /\ applied' = [applied EXCEPT ![p] =
                   Append(@, [xid |-> xid, msg |-> msg, taken |-> Takes(p, msg), source |-> source])]
  /\ dropped' = IF checkpointed(msg) /\ ~Takes(p, msg)
                THEN [dropped EXCEPT ![p] = @ \cup {xid}] ELSE dropped
  /\ nbrs' = [nbrs EXCEPT ![p] = Greets(p, msg)]
  /\ bucket' = [bucket EXCEPT ![p] =
                  IF ~Takes(p, msg) \/ ~checkpoints(p) THEN @
                  ELSE IF msg.type = "HELLO" THEN ospf6_db_put_hello(@, xid, msg)
                  ELSE ospf6_db_put_dbdesc(@, xid, msg)]

-----------------------------------------------------------------------------
(***************************************************************************)
(* The main thread                                                         *)
(***************************************************************************)

Fetches(p) == life[p] = "run" /\ th[p].main = "fetch"

\* RFPT_FORWARD_OSPF6 out of restart mode.
Receive(p) ==
  LET xid == Head(toSib[p])
  IN /\ Fetches(p)
     /\ toSib[p] # <<>>
     /\ ~th[p].restart_mode
     /\ ospf6_receive(p, xid, script[xid], "live")
     /\ th' = IF Takes(p, script[xid])
              THEN [th EXCEPT ![p].main = "ack", ![p].msg = xid] ELSE th
     /\ toSib' = [toSib EXCEPT ![p] = Tail(@)]
     /\ UNCHANGED <<ctlVars, life, toCtl, crashes, miss>>

\* The end of ospf6_hello_recv and ospf6_dbdesc_recv.
SendAck(p) ==
  /\ life[p] = "run"
  /\ th[p].main = "ack"
  /\ toCtl' = [toCtl EXCEPT ![p] = Append(@, th[p].msg)]
  /\ th' = [th EXCEPT ![p].main = "fetch", ![p].msg = NoId]
  /\ UNCHANGED <<ctlVars, bucket, life, toSib, ospfVars, crashes, miss>>

\* inactivity_timer: no Hello of a neighbor came for its dead interval.
Inactivity(p, id) ==
  /\ Fetches(p)
  /\ p \in Lapsing
  /\ id \in nbrs[p].known
  /\ nbrs' = [nbrs EXCEPT ![p] = [known |-> @.known \ {id}, lapsed |-> @.lapsed \cup {id}]]
  /\ UNCHANGED <<ctlVars, bucket, life, toSib, toCtl, th, applied, dropped, crashes, miss>>

\* RFPT_FORWARD_OSPF6 in restart mode: restart_mode is read under its mutex, and the
\* message queued later, under another.
InRestartMode(p) ==
  /\ Fetches(p)
  /\ toSib[p] # <<>>
  /\ th[p].restart_mode
  /\ th' = [th EXCEPT ![p].main = "push", ![p].msg = Head(toSib[p])]
  /\ toSib' = [toSib EXCEPT ![p] = Tail(@)]
  /\ UNCHANGED <<ctlVars, bucket, life, toCtl, ospfVars, crashes, miss>>

\* The queue takes the message and first_xid_mutex is unlocked.  A message that
\* comes after the restart thread is done with the queue stays there.
Push(p) ==
  /\ life[p] = "run"
  /\ th[p].main = "push"
  /\ ~th[p].restart_msg_q_mutex
  /\ th' = [th EXCEPT ![p].main = "fetch", ![p].msg = NoId,
                      ![p].restart_msg_queue = Append(@, th[p].msg),
                      ![p].first_xid_mutex = FALSE]
  /\ miss' = IF th[p].thread \in {"flip", "none"} THEN [miss EXCEPT ![p] = @ \cup {"late"}] ELSE miss
  /\ UNCHANGED <<ctlVars, bucket, life, toSib, toCtl, ospfVars, crashes>>

\* external: fill_id records the id of the sibling that leads.
LeaderId(p, q) ==
  /\ Fetches(p)
  /\ ctl[p].routing
  /\ ~th[p].elected
  /\ th[p].leader = NoId
  /\ life[q] = "run"
  /\ q = p => \A r \in Sibs \ {p} : life[r] = "down"
  /\ th' = [th EXCEPT ![p].leader = q]
  /\ UNCHANGED <<ctlVars, bucket, life, toSib, toCtl, ospfVars, crashes, miss>>

\* Mutant: the restart thread has to wait for a message.
HelloFirst(t) ==
  IF t.restart_mode
  THEN [t EXCEPT !.elected = TRUE, !.main = "hello", !.restarted_first_egress_not_sent = TRUE]
  ELSE [t EXCEPT !.elected = TRUE]

\* SCG_LEAD_ELECT_COMPL: in restart mode first_xid_mutex is unlocked and the first
\* hello, which has to wait, is the next event the main thread runs.
lead_elect_compl(t) ==
  IF t.restart_mode
  THEN [t EXCEPT !.elected = TRUE, !.first_xid_mutex = FALSE, !.main = "hello",
                 !.restarted_first_egress_not_sent = TRUE]
  ELSE [t EXCEPT !.elected = TRUE]

ElectionComplete(p) ==
  /\ Fetches(p)
  /\ th[p].leader # NoId
  /\ ~th[p].elected
  /\ th' = [th EXCEPT ![p] = lead_elect_compl(@)]
  /\ UNCHANGED <<ctlVars, bucket, life, toSib, toCtl, ospfVars, crashes, miss>>

\* Mutant: the first hello does not wait.
AnyTime(t) == TRUE

MaySendHello(t) == ~t.egress_mutex

\* ospf6_hello_send: the first one holds the mutex while it reads the egress xid.
FirstHello(p) ==
  /\ life[p] = "run"
  /\ th[p].main = "hello"
  /\ MaySendHello(th[p])
  /\ th' = [th EXCEPT ![p].main = "fetch", ![p].restarted_first_egress_not_sent = FALSE]
  /\ UNCHANGED <<ctlVars, bucket, life, toSib, toCtl, ospfVars, crashes, miss>>

Main(p) ==
  \/ Receive(p) \/ SendAck(p) \/ InRestartMode(p) \/ Push(p)
  \/ ElectionComplete(p) \/ FirstHello(p)

-----------------------------------------------------------------------------
(***************************************************************************)
(* The restart thread                                                      *)
(***************************************************************************)

Thread(p, pc) == life[p] = "run" /\ th[p].thread = pc

Missed(p, why, cond) == miss' = IF cond THEN [miss EXCEPT ![p] = @ \cup {why}] ELSE miss

\* Two locals are never given a value: restart_msg_queue_num_msgs, read as "not 0"
\* or "0", and last_key_to_process when the bucket is empty.
ListKeys(p) ==
  /\ Thread(p, "start")
  /\ \E keys \in db_list_keys(bucket[p]), num_msgs \in BOOLEAN :
       \E last_key \in IF keys = <<>> THEN Xids ELSE {NoId} :
         th' = [th EXCEPT ![p].thread = "own", ![p].keys = keys, ![p].num_msgs = num_msgs,
                          ![p].last_key = last_key]
  /\ Missed(p, "no checkpoint", DOMAIN bucket[p] = {})
  /\ UNCHANGED <<ctlVars, bucket, life, toSib, toCtl, ospfVars, crashes>>

\* A message of the bucket of replica bid, read back and processed.
process_restarted_msg(p, bid, xid, source) ==
  /\ ospf6_receive(p, xid, ospf6_db_get(bucket[bid], xid), source)
  /\ th' = [th EXCEPT ![p].keys = Tail(@), ![p].last_key = IF source = "own" THEN xid ELSE @]

SkipCurrentXid(p) ==
  /\ Thread(p, "own")
  /\ th[p].keys # <<>>
  /\ Head(th[p].keys) = CURRENT_XID
  /\ th' = [th EXCEPT ![p].keys = Tail(@)]
  /\ UNCHANGED <<ctlVars, bucket, life, toSib, toCtl, ospfVars, crashes, miss>>

OwnKey(p) ==
  /\ Thread(p, "own")
  /\ th[p].keys # <<>>
  /\ Head(th[p].keys) # CURRENT_XID
  /\ process_restarted_msg(p, p, Head(th[p].keys), "own")
  /\ UNCHANGED <<ctlVars, life, toSib, toCtl, crashes, miss>>

ReadyToCheckpoint(p) ==
  /\ Thread(p, "own")
  /\ th[p].keys = <<>>
  /\ th' = [th EXCEPT ![p].ready_to_checkpoint = TRUE, ![p].thread = "first"]
  /\ UNCHANGED <<ctlVars, bucket, life, toSib, toCtl, ospfVars, crashes, miss>>

\* -1, when there is none, is stored in an unsigned int.
sibling_ctrl_first_xid_rcvd(t) ==
  IF t.restart_msg_queue = <<>> THEN Word - 1 ELSE Head(t.restart_msg_queue)

FirstXid(p) ==
  /\ Thread(p, "first")
  /\ ~th[p].first_xid_mutex
  /\ th' = [th EXCEPT ![p].thread = "leader",
                      ![p].first_xid = IF th[p].num_msgs THEN sibling_ctrl_first_xid_rcvd(th[p]) ELSE @]
  /\ miss' = [miss EXCEPT ![p] = @ \cup (IF ~th[p].num_msgs THEN {"not read"}
                                        ELSE IF th[p].restart_msg_queue = <<>> THEN {"no first"} ELSE {})]
  /\ UNCHANGED <<ctlVars, bucket, life, toSib, toCtl, ospfVars, crashes>>

\* Mutant: the first message queued is asked for too.
ThroughFirst(t) == db_range_keys(bucket[t.leader], (t.last_key + 1) % Word, t.first_xid)

LeaderRange(t) == db_range_keys(bucket[t.leader], (t.last_key + 1) % Word, (t.first_xid - 1) % Word)

\* What the leader has not stored, or not yet, it cannot give.
LeaderBehind(p) ==
  \E x \in th[p].last_key + 1 .. th[p].first_xid - 1 :
    x \in DOMAIN script /\ checkpointed(script[x]) /\ x \notin DOMAIN bucket[th[p].leader]

LeaderKeys(p) ==
  /\ Thread(p, "leader")
  /\ th[p].leader # NoId
  /\ \E keys \in IF th[p].num_msgs THEN LeaderRange(th[p]) ELSE {<<>>} :
       th' = [th EXCEPT ![p].thread = "range", ![p].leader_id = th[p].leader, ![p].keys = keys]
  /\ Missed(p, "leader behind", LeaderBehind(p))
  /\ UNCHANGED <<ctlVars, bucket, life, toSib, toCtl, ospfVars, crashes>>

\* ospf6_replica_get_leader_id exits when no sibling is known to lead.
NoLeader(p) ==
  /\ Thread(p, "leader")
  /\ th[p].leader = NoId
  /\ Gone(p)
  /\ UNCHANGED <<ctlVars, bucket, toCtl, th, ospfVars, crashes, miss>>

LeaderKey(p) ==
  /\ Thread(p, "range")
  /\ th[p].keys # <<>>
  /\ process_restarted_msg(p, th[p].leader_id, Head(th[p].keys), "leader")
  /\ UNCHANGED <<ctlVars, life, toSib, toCtl, crashes, miss>>

LockQueue(p) ==
  /\ Thread(p, "range")
  /\ th[p].keys = <<>>
  /\ th' = IF th[p].num_msgs
           THEN [th EXCEPT ![p].thread = "drain", ![p].restart_msg_q_mutex = TRUE,
                           ![p].keys = th[p].restart_msg_queue]
           ELSE [th EXCEPT ![p].thread = "flip"]
  /\ UNCHANGED <<ctlVars, bucket, life, toSib, toCtl, ospfVars, crashes, miss>>

Queued(p) ==
  LET xid == Head(th[p].keys)
  IN /\ Thread(p, "drain")
     /\ th[p].keys # <<>>
     /\ ospf6_receive(p, xid, script[xid], "queue")
     /\ th' = [th EXCEPT ![p].keys = Tail(@)]
     /\ UNCHANGED <<ctlVars, life, toSib, toCtl, crashes, miss>>

UnlockQueue(p) ==
  /\ Thread(p, "drain")
  /\ th[p].keys = <<>>
  /\ th' = [th EXCEPT ![p].thread = "flip", ![p].restart_msg_q_mutex = FALSE]
  /\ UNCHANGED <<ctlVars, bucket, life, toSib, toCtl, ospfVars, crashes, miss>>

Flip(p) ==
  /\ Thread(p, "flip")
  /\ th' = [th EXCEPT ![p].thread = "none", ![p].restart_mode = FALSE, ![p].egress_mutex = FALSE]
  /\ UNCHANGED <<ctlVars, bucket, life, toSib, toCtl, ospfVars, crashes, miss>>

ospf6_restart_start(p) ==
  \/ ListKeys(p) \/ SkipCurrentXid(p) \/ OwnKey(p) \/ ReadyToCheckpoint(p) \/ FirstXid(p)
  \/ LeaderKeys(p) \/ NoLeader(p) \/ LeaderKey(p) \/ LockQueue(p) \/ Queued(p)
  \/ UnlockQueue(p) \/ Flip(p)

Next ==
  \/ Forward
  \/ \E p \in Sibs : \/ CtrlAck(p) \/ CtrlClose(p) \/ CtrlRouting(p)
                     \/ Crash(p) \/ Restart(p)
                     \/ Main(p) \/ ospf6_restart_start(p)
                     \/ \E q \in Sibs : LeaderId(p, q)
                     \/ \E id \in Numbers : Inactivity(p, id)

\* The scheduler of the host runs both threads of a process; only a sibling that may
\* restart needs it.
Fairness == \A p \in Crashers : WF_vars(Main(p)) /\ WF_vars(ospf6_restart_start(p))

Spec == Init /\ [][Next]_vars

FairSpec == Init /\ [][Next]_vars /\ Fairness

-----------------------------------------------------------------------------
(***************************************************************************)
(* Properties                                                              *)
(***************************************************************************)

\* Type invariant.
TypeOK ==
  /\ ingress_id \in 0 .. Len(script)
  /\ \A p \in Sibs :
       /\ \A x \in DOMAIN bucket[p] : x \in Xids /\ bucket[p][x].param \in Shorts
       /\ nbrs[p] \in [known : SUBSET Numbers, lapsed : SUBSET Numbers]
       /\ toSib[p] \in Seq(Xids) /\ toCtl[p] \in Seq(Xids)
       /\ ctl[p] \in [routing : BOOLEAN, xid : Xids, acked : BOOLEAN]
       /\ th[p] \in Threads

\* What a sibling processes after the messages of its own bucket it processes in the
\* order the router sent it, and no message twice: the leader's messages end where
\* the queue starts, and the queue ends where restart_mode is cleared.
TailInOrder ==
  \A p \in Sibs : \A i, j \in DOMAIN applied[p] :
    i < j /\ applied[p][i].source # "own" /\ applied[p][j].source # "own"
      => applied[p][i].xid < applied[p][j].xid

\* A sibling that is out of restart mode was given every Hello and DbDesc up to the
\* last message it processed, apart from those it has discarded before a restart,
\* unless one of these happened: it had no checkpoint or no message yet when it asked,
\* it did not ask (an uninitialised count), the leader had not stored one of them, or a
\* message came between the queue and the end of restart mode.
CaughtUp ==
  \A p \in Sibs :
    life[p] = "run" /\ ~th[p].restart_mode /\ miss[p] = {}
      => \A i \in DOMAIN applied[p] : \A x \in 1 .. applied[p][i].xid :
           checkpointed(script[x])
             => x \in dropped[p] \/ \E j \in DOMAIN applied[p] : applied[p][j].xid = x

\* Every Hello and DbDesc that a sibling with checkpoints has taken is in its bucket,
\* whether it came live, from the leader's bucket or from the queue: the next restart
\* finds it.
CheckpointCovers ==
  \A p \in Sibs : conf[p].checkpoint_enabled =>
    \A i \in DOMAIN applied[p] : applied[p][i].taken => applied[p][i].xid \in DOMAIN bucket[p]

\* The controller takes a message for acknowledged by a sibling with checkpoints only
\* when the sibling has stored it, through restarts (current_ingress_ack_rcvd).
AckedIsStored ==
  \A p \in Sibs :
    conf[p].checkpoint_enabled /\ ctl[p].acked /\ ctl[p].xid # 0 => ctl[p].xid \in DOMAIN bucket[p]

\* The router has sent a Hello before message x that the siblings' interface accepts.
Greeted(x) ==
  \E y \in 1 .. x - 1 : /\ script[y].type = "HELLO" /\ script[y].param = Interface.HELLO
                        /\ script[y].router_id = script[x].router_id

\* Entry i of the history of p was read before an older one: the sort of the own keys
\* misplaced it.
Misplaced(p, i) ==
  \/ \E j \in DOMAIN applied[p] : /\ j > i /\ applied[p][j].source = "own"
                                  /\ applied[p][j].xid < applied[p][i].xid
  \/ /\ th[p].thread = "own"
     /\ \E k \in DOMAIN th[p].keys : th[p].keys[k] # CURRENT_XID /\ th[p].keys[k] < applied[p][i].xid

\* A sibling takes every DbDesc of a router that has said Hello before, live, from
\* either bucket or from the queue, in whatever life of the process it said so.  The
\* exceptions: a message passed the sibling by, the neighbor's inactivity timer ran, the
\* own keys came out of order, or the id of the router does not survive being stored.
GreetedIsTaken ==
  \A p \in Sibs : \A i \in DOMAIN applied[p] :
    LET a == applied[p][i]
        m == script[a.xid]
    IN m.type = "DBDESC" /\ m.param = Interface.DBDESC /\ Greeted(a.xid)
         => \/ a.taken
            \/ miss[p] # {}
            \/ a.msg.router_id \in nbrs[p].lapsed
            \/ a.source = "own" /\ Misplaced(p, i)
            \/ T_NUMBER(Printed(m.router_id)) # m.router_id

\* The first hello of a restarted sibling, which reads the egress xid of the group,
\* leaves only when the restart is over.
HelloAfterRestart ==
  [][\A p \in Sibs : life[p] = "run" /\ th[p].main = "hello" /\ th'[p].main = "fetch"
                       => ~th[p].restart_mode]_vars

\* A restarted sibling whose election completes leaves restart mode, or its process
\* ends: the restart thread and the main thread, which waits for it with the first
\* hello, never wait for each other.
RestartEnds ==
  \A p \in Crashers :
    life[p] = "run" /\ th[p].restart_mode /\ th[p].elected
      ~> life[p] = "down" \/ ~th[p].restart_mode
=============================================================================
