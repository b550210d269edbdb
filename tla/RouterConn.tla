------------------------------ MODULE RouterConn ------------------------------
(***************************************************************************)
(* The controller and one zebralite over their RFP connection: the         *)
(* router's state machine in controller/router.c (and nb_listener_accept   *)
(* of controller.c), and zebralite's listener.c, datapath.c and            *)
(* controller.c.  Both programs are single-threaded; router_run is split   *)
(* at its calls of rconn_recv, since zebralite runs while it loops.        *)
(***************************************************************************)
EXTENDS RfpConn

CONSTANT RECVS        \* messages router_run handles in a row, 50 in the code

ASSUME RecvsAssumption == RECVS \in Nat \ {0}

VARIABLES
    conn,     \* the connection
    rt,       \* the controller's struct router and the thread that runs it
    zl,       \* zebralite's conn and the thread that reads it
    fwd       \* messages forwarded: sent by each end, and handed on by each end

vars == <<conn, rt, zl, fwd>>

RouterStates == {"NONE", "CONNECTING", "CONNECTED", "FEATURES_REPLY", "STATS_ROUTES_REPLY",
                 "FEAT_STATS_REPLY", "FEAT_ADDR_REPLY", "ROUTING", "FREED"}

Init ==
  /\ conn = Unconnected
  /\ rt = [state |-> "NONE", sched |-> "none", i |-> 0, ports |-> 0, addrs |-> 0, routes |-> 0]
  /\ zl = [state |-> "INIT", sched |-> "none"]
  /\ fwd = [sent |-> [e \in Ends |-> 0], passed |-> [e \in Ends |-> 0]]

Runs(e) == conn.ep[e].rc # "DEAD"

\* select(2) reports the socket.  A closed descriptor that is still registered makes
\* every select fail with EBADF: it is not reported again, and neither is any other.
\* Only the handlers that an earlier select found ready still run, which SibForward
\* and PuntForward may be.
Readable(e) == conn.ep[e].open /\ (conn.wire[e] # <<>> \/ ~conn.ep[Peer(e)].open)

-----------------------------------------------------------------------------
(* The controller.                                                           *)

\* nb_listener_accept and new_router; the first router_run is an event.
Accept ==
  /\ Runs("ctrl") /\ conn.ep["ctrl"].open /\ rt.state = "NONE"
  /\ conn' = rconn_connect_unreliably(conn)
  /\ rt' = [rt EXCEPT !.state = "CONNECTING", !.sched = "event"]
  /\ UNCHANGED <<zl, fwd>>

router_wait(r, c) == [r EXCEPT !.sched = IF vconn_wait(c, "ctrl") THEN "read" ELSE "none",
                               !.i = 0]

\* Mutant: the routes are not asked for.
FeaturesOnly(c) == rconn_send(c, "ctrl", Msg("FEATURES_REQUEST"))

router_handshake(c) ==
  UNION {rconn_send(d, "ctrl", Msg("STATS_ROUTES_REQUEST"))
           : d \in rconn_send(c, "ctrl", Msg("FEATURES_REQUEST"))}

\* Mutant: an unfinished handshake is not waited for.
HelloNotAwaited(c) ==
  CASE c.ep["ctrl"].vc = "NULL" -> conn' \in Die(c, "ctrl") /\ UNCHANGED rt
    [] c.ep["ctrl"].vc = "CONNECTED" ->
         \E d \in router_handshake(c) :
           conn' = d /\ rt' = router_wait([rt EXCEPT !.state = "CONNECTED"], d)
    [] OTHER -> conn' = c /\ rt' = [rt EXCEPT !.sched = "none"]

\* A connection that rconn_send has dropped fails rconn_exchanged_hellos' assertion.
RouterConnecting(c) ==
  CASE c.ep["ctrl"].vc = "NULL" -> conn' \in Die(c, "ctrl") /\ UNCHANGED rt
    [] c.ep["ctrl"].vc = "CONNECTED" ->
         \E d \in router_handshake(c) :
           conn' = d /\ rt' = router_wait([rt EXCEPT !.state = "CONNECTED"], d)
    [] OTHER -> conn' = c /\ rt' = router_wait(rt, c)

RouterRun ==
  /\ Runs("ctrl")
  /\ rt.sched = "event" \/ (rt.sched = "read" /\ Readable("ctrl"))
  /\ \E c \in rconn_run(conn, "ctrl") :
       IF rt.state = "CONNECTING" THEN RouterConnecting(c)
       ELSE conn' = c /\ rt' = [rt EXCEPT !.sched = "running", !.i = 0]
  /\ UNCHANGED <<zl, fwd>>

\* Mutant: the addresses are taken for the last reply.
AddressesLast(state, type) ==
  CASE type = "FEATURES_REPLY" /\ state = "CONNECTED"                    -> "FEATURES_REPLY"
    [] type = "FEATURES_REPLY" /\ state = "STATS_ROUTES_REPLY"           -> "FEAT_STATS_REPLY"
    [] type = "ADDRESSES_REPLY" /\ state \in {"FEATURES_REPLY", "FEAT_STATS_REPLY"}
                                                                         -> "ROUTING"
    [] type = "STATS_ROUTES_REPLY" /\ state = "CONNECTED"                -> "STATS_ROUTES_REPLY"
    [] type = "STATS_ROUTES_REPLY" /\ state = "FEATURES_REPLY"           -> "FEAT_STATS_REPLY"
    [] OTHER                                                             -> state

\* The transition of router_process_packet for a reply it accepts.
AfterReply(state, type) ==
  CASE type = "FEATURES_REPLY" /\ state = "CONNECTED"             -> "FEATURES_REPLY"
    [] type = "FEATURES_REPLY" /\ state = "STATS_ROUTES_REPLY"    -> "FEAT_STATS_REPLY"
    [] type = "ADDRESSES_REPLY" /\ state = "FEATURES_REPLY"       -> "FEAT_ADDR_REPLY"
    [] type = "ADDRESSES_REPLY" /\ state = "FEAT_STATS_REPLY"     -> "ROUTING"
    [] type = "STATS_ROUTES_REPLY" /\ state = "CONNECTED"         -> "STATS_ROUTES_REPLY"
    [] type = "STATS_ROUTES_REPLY" /\ state = "FEATURES_REPLY"    -> "FEAT_STATS_REPLY"
    [] type = "STATS_ROUTES_REPLY" /\ state = "FEAT_ADDR_REPLY"   -> "ROUTING"
    [] OTHER                                                      -> state

\* What the three replies do: the ports are recorded and their addresses asked for;
\* the addresses join the interface list; the routes join the RIB.
router_process_features(r, c) ==
  {<<[r EXCEPT !.ports = @ + 1], d>> : d \in rconn_send(c, "ctrl", Msg("ADDRESSES_REQUEST"))}

router_process_addresses(r, c) == {<<[r EXCEPT !.addrs = @ + 1], c>>}

router_process_stats_routes(r, c) == {<<[r EXCEPT !.routes = @ + 1], c>>}

\* A reply that changes no state is dropped, a forwarded message goes to the siblings
\* once the router routes.
router_process_packet(c, m) ==
  LET r == [rt EXCEPT !.state = AfterReply(@, m.type), !.i = @ + 1]
      taken == CASE m.type = "FEATURES_REPLY"     -> router_process_features(r, c)
                 [] m.type = "ADDRESSES_REPLY"    -> router_process_addresses(r, c)
                 [] m.type = "STATS_ROUTES_REPLY" -> router_process_stats_routes(r, c)
      after == IF r.state = rt.state THEN {<<r, c>>} ELSE taken
  IN /\ \E a \in after : rt' = a[1] /\ conn' = a[2]
     /\ fwd' = IF m.type = "FORWARD" /\ rt.state = "ROUTING"
               THEN [fwd EXCEPT !.passed["ctrl"] = @ + 1]
               ELSE fwd

\* The end of router_run: wait for more, or router_destroy.
RouterDone(c) ==
  /\ conn' = c
  /\ rt' = IF c.ep["ctrl"].rc = "ACTIVE" THEN router_wait(rt, c)
           ELSE [rt EXCEPT !.state = "FREED", !.sched = "none", !.i = 0]
  /\ UNCHANGED fwd

RouterRecv ==
  /\ Runs("ctrl") /\ rt.sched = "running"
  /\ IF rt.i = RECVS THEN RouterDone(conn)
     ELSE \E o \in rconn_recv(conn, "ctrl") :
            IF o.m = Nothing THEN RouterDone(o.c) ELSE router_process_packet(o.c, o.m)
  /\ UNCHANGED zl

\* router_forward of a message the siblings agreed on.  routers[] keeps a pointer to
\* a destroyed router: sending through it may do anything short of it, or crash.
SibForward ==
  /\ Runs("ctrl") /\ rt.state # "NONE" /\ rt.sched # "running"
  /\ fwd.sent["ctrl"] < MaxFwd
  /\ fwd' = [fwd EXCEPT !.sent["ctrl"] = @ + 1]
  /\ conn' \in IF rt.state = "FREED" THEN {conn} \cup Die(conn, "ctrl")
               ELSE rconn_send(conn, "ctrl", [type |-> "FORWARD", n |-> fwd'.sent["ctrl"]])
  /\ UNCHANGED <<rt, zl>>

-----------------------------------------------------------------------------
(* Zebralite.                                                                *)

\* listener_run up to the blocking read of the controller's hello: add_controller,
\* and the first half of dp_run.  A refused connection is not tried again.
ListenerRun ==
  /\ Runs("zl") /\ zl.state = "INIT"
  /\ \E c \in rconn_connect(conn) :
       IF c.ep["zl"].rc = "CONNECTING"
       THEN conn' \in vcs_send_hello(c, "zl") /\ zl' = [zl EXCEPT !.state = "HELLO"]
       ELSE conn' = c /\ zl' = [zl EXCEPT !.state = "UP"]
  /\ UNCHANGED <<rt, fwd>>

\* The rest of dp_run: the hello arrives, conn_wait; then zl_serv_init.
DpRun ==
  /\ Runs("zl") /\ zl.state = "HELLO"
  /\ \E c \in rconn_run(conn, "zl") :
       /\ conn' = c
       /\ zl' = [state |-> "UP", sched |-> IF vconn_wait(c, "zl") THEN "read" ELSE "none"]
  /\ UNCHANGED <<rt, fwd>>

\* The three replies, and fwd_control_input: a request is answered, a forwarded
\* message goes to the punters, anything else is -EINVAL.
send_features_reply(c) == rconn_send(c, "zl", Msg("FEATURES_REPLY"))

send_addresses_reply(c) == rconn_send(c, "zl", Msg("ADDRESSES_REPLY"))

send_stats_routes_reply(c) == rconn_send(c, "zl", Msg("STATS_ROUTES_REPLY"))

fwd_control_input(c, m) ==
  CASE m.type = "FEATURES_REQUEST"     -> send_features_reply(c)
    [] m.type = "ADDRESSES_REQUEST"    -> send_addresses_reply(c)
    [] m.type = "STATS_ROUTES_REQUEST" -> send_stats_routes_reply(c)
    [] OTHER                           -> {c}

\* conn_recv reads one message, and dereferences the null pointer it is given when
\* there is none.  The thread is registered again before the read.
ConnRecv ==
  /\ Runs("zl") /\ zl.sched = "read" /\ Readable("zl")
  /\ \E o \in rconn_recv(conn, "zl") :
       /\ conn' \in IF o.m = Nothing THEN Die(o.c, "zl") ELSE fwd_control_input(o.c, o.m)
       /\ fwd' = IF o.m # Nothing /\ o.m.type = "FORWARD"
                 THEN [fwd EXCEPT !.passed["zl"] = @ + 1] ELSE fwd
  /\ UNCHANGED <<rt, zl>>

\* zl_serv_read and dp_forward_zl_to_ctrl: a packet from the punter.
PuntForward ==
  /\ Runs("zl") /\ zl.state = "UP" /\ fwd.sent["zl"] < MaxFwd
  /\ fwd' = [fwd EXCEPT !.sent["zl"] = @ + 1]
  /\ conn' \in rconn_send(conn, "zl", [type |-> "FORWARD", n |-> fwd'.sent["zl"]])
  /\ UNCHANGED <<rt, zl>>

-----------------------------------------------------------------------------
\* A process is killed.
Crash(e) ==
  /\ Runs(e) /\ conn' \in Die(conn, e)
  /\ UNCHANGED <<rt, zl, fwd>>

Controller == Accept \/ RouterRun \/ RouterRecv

Zebralite == ListenerRun \/ DpRun \/ ConnRecv

Next == Controller \/ Zebralite \/ SibForward \/ PuntForward \/ \E e \in Ends : Crash(e)

Spec == Init /\ [][Next]_vars

\* Each main loop runs the handler that is due; nobody has to forward or to crash.
FairSpec == Spec /\ WF_vars(Controller) /\ WF_vars(Zebralite)

-----------------------------------------------------------------------------
\* Type invariant of the connection, of struct router and of zebralite's conn.
TypeOK ==
  /\ \A e \in Ends :
       /\ conn.ep[e].rc \in {"VOID", "CONNECTING", "ACTIVE", "DEAD"}
       /\ conn.ep[e].vc \in {"NULL", "SEND_HELLO", "RECV_HELLO", "CONNECTED", "DISCONNECTED"}
       /\ conn.ep[e].open \in BOOLEAN /\ conn.full[e] \in BOOLEAN
       /\ Len(conn.ep[e].rx) < HDR + PAYLOAD
       /\ conn.cut[e] \in NoCut .. HDR + PAYLOAD + SNDBUF
       /\ conn.last[e] \in Messages \cup {Nothing}
       /\ fwd.sent[e] \in 0 .. MaxFwd /\ fwd.passed[e] \in Nat
  /\ Len(conn.wire["zl"]) <= SNDBUF
  /\ rt.state \in RouterStates /\ rt.sched \in {"none", "event", "read", "running"}
  /\ rt.i \in 0 .. RECVS
  /\ zl.state \in {"INIT", "HELLO", "UP"} /\ zl.sched \in {"none", "read"}

\* router.c "both of these messages are received so that we can move to a state of
\* routing": the router's state says exactly which replies have been processed, each
\* of them once, whatever order they and zebralite's repetitions arrive in, and
\* addresses are attached only to ports that are known.
StateIsRepliesSeen ==
  LET have(s) == CASE s = "FEATURES_REPLY"     -> <<1, 0, 0>>
                   [] s = "STATS_ROUTES_REPLY" -> <<0, 0, 1>>
                   [] s = "FEAT_STATS_REPLY"   -> <<1, 0, 1>>
                   [] s = "FEAT_ADDR_REPLY"    -> <<1, 1, 0>>
                   [] s = "ROUTING"            -> <<1, 1, 1>>
                   [] OTHER                    -> <<0, 0, 0>>
  IN rt.state # "FREED" => <<rt.ports, rt.addrs, rt.routes>> = have(rt.state)

\* An end drops the connection only because the other end closed it or because a
\* message to it was cut short: the hello is the first message of both directions,
\* also when router_forward sends before the handshake, so no end answers a peer that
\* is well with EPROTO.
DroppedForCause ==
  \A e \in Ends :
    \/ conn.ep[e].vc = "DISCONNECTED"
    \/ e = "ctrl" /\ rt.state = "FREED" /\ Runs(e)
    \/ e = "zl" /\ zl.state = "UP" /\ conn.ep[e].rc = "VOID"
    => ~conn.ep[Peer(e)].open \/ conn.cut[e] # NoCut

\* Outside router_run, a router whose vconn is good has an event or a read registered,
\* whatever rconn_send did to the handshake in between.  (The read may still find
\* nothing: see Disturbed.)
RouterIsAwaited ==
  /\ rt.state \notin {"NONE", "FREED"} /\ Runs("ctrl")
  /\ vconn_wait(conn, "ctrl")
  => rt.sched # "none"

\* The causes that can keep a router from ROUTING: a dead process, a connection that
\* is refused, a socket buffer of the controller that was full, and a router_forward
\* that finished the hello exchange itself and took the wake-up of router_run with it.
Disturbed ==
  \/ \E e \in Ends : ~Runs(e) \/ conn.cut[e] # NoCut \/ conn.full[e]
  \/ zl.state = "UP" /\ rt.state = "NONE" /\ conn.ep["zl"].rc = "VOID"
  \/ rt.state = "CONNECTING" /\ conn.ep["ctrl"].vc = "CONNECTED"

\* The blocking handshake of zebralite and the polled one of the controller meet, and
\* every router reaches ROUTING, unless one of these causes occurs.
ReachesRouting == <>(rt.state = "ROUTING" \/ Disturbed)
===============================================================================
