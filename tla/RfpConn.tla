------------------------------- MODULE RfpConn -------------------------------
(***************************************************************************)
(* The RFP connection between the controller and a zebralite:              *)
(* lib/rconn.c over lib/vconn.c over lib/vconn-stream.c over lib/stream.c, *)
(* stream-fd.c and stream-tcp.c.  Zebralite opens the connection and keeps *)
(* its socket blocking (inet_open_active6 leaves set_nonblocking out); the *)
(* controller's accepted socket does not block.                            *)
(*                                                                         *)
(* A message is LEN(m) units on the wire, the first HDR of them its        *)
(* header.  Every call is an operator from a connection state c to the set *)
(* of its outcomes, for what read and write return is the kernel's choice: *)
(*   c.ep[e].rc   the rconn: VOID, CONNECTING or ACTIVE (DEAD: the process *)
(*                was killed), c.ep[e].vc the vconn, NULL where it is gone *)
(*   c.ep[e].rx   the receive buffer rxbuf, c.ep[e].open the socket        *)
(*   c.wire[e]    units on their way to e                                  *)
(*   c.last[e]    history: the last message vconn_recv returned at e       *)
(*   c.cut[e]     history: units ahead of the first cut on the way to e    *)
(*   c.full[e]    history: a send to e found no room at all                *)
(***************************************************************************)
EXTENDS Integers, Sequences

CONSTANTS
    SNDBUF,     \* units a direction of the connection buffers
    MaxFwd,     \* bound: messages forwarded in each direction
    Nothing     \* no message

HDR == 2

PAYLOAD == 2

\* A socket buffer holds the hello, which is the first message of a direction.
ASSUME ConnAssumption == SNDBUF \in Nat \ {0} /\ SNDBUF >= HDR /\ MaxFwd \in Nat

Ends == {"ctrl", "zl"}

Peer(e) == IF e = "ctrl" THEN "zl" ELSE "ctrl"

HeaderOnly == {"HELLO", "FEATURES_REQUEST", "STATS_ROUTES_REQUEST", "ADDRESSES_REQUEST"}

Replies == {"FEATURES_REPLY", "STATS_ROUTES_REPLY", "ADDRESSES_REPLY"}

\* FORWARD is RFPT_FORWARD_OSPF6 and, towards the controller, RFPT_FORWARD_BGP, which the
\* two ends treat alike.
Types == HeaderOnly \cup Replies \cup {"FORWARD"}

\* A garbled message has number -1.
Messages == [type : Types, n : -1 .. MaxFwd]

Msg(t) == [type |-> t, n |-> 0]

LEN(m) == IF m.type \in HeaderOnly THEN HDR ELSE HDR + PAYLOAD

Units(m) == [i \in 1 .. LEN(m) |-> [m |-> m, i |-> i]]

NoCut == -1

NoConn == [rc |-> "VOID", vc |-> "NULL", rx |-> <<>>, open |-> FALSE]

Unconnected == [ep   |-> [e \in Ends |-> NoConn],
                wire |-> [e \in Ends |-> <<>>],
                last |-> [e \in Ends |-> Nothing],
                cut  |-> [e \in Ends |-> NoCut],
                full |-> [e \in Ends |-> FALSE]]

-----------------------------------------------------------------------------
(* The socket: stream.c, stream-fd.c.                                        *)

\* socket(2) and a connect(2) that blocks: it succeeds, or is refused and closed, as
\* it is when no controller listens.
inet_open_active6(c) ==
  {c} \cup {d \in {[c EXCEPT !.ep["zl"].open = TRUE, !.ep["ctrl"].open = TRUE]} :
             c.ep["ctrl"].rc # "DEAD"}

\* close(2).  With data unread the kernel resets the connection, and the peer may
\* then lose the end of what was on its way.
CloseSocket(c, e) ==
  LET p == Peer(e)
      keep == IF c.wire[e] = <<>> THEN {Len(c.wire[p])} ELSE 0 .. Len(c.wire[p])
  IN {[c EXCEPT !.ep[e].open = FALSE, !.wire[e] = <<>>,
                !.wire[p] = SubSeq(@, 1, k)] : k \in keep}

\* No process ignores SIGPIPE: a write to a reset connection ends the writer.
Die(c, e) == {[d EXCEPT !.ep[e] = [NoConn EXCEPT !.rc = "DEAD"]] : d \in CloseSocket(c, e)}

\* write(2) on a connection the peer has closed is accepted, fails, or kills.  On an
\* open one zebralite's waits for room, the controller's takes what there is room for.
stream_send(c, e, m) ==
  LET p    == Peer(e)
      room == SNDBUF - Len(c.wire[p])
      k    == IF e = "zl" \/ room >= LEN(m) THEN LEN(m) ELSE IF room > 0 THEN room ELSE 0
  IN IF ~c.ep[p].open
     THEN {[c |-> c, r |-> LEN(m)], [c |-> c, r |-> -1]}
          \cup {[c |-> d, r |-> 0] : d \in Die(c, e)}
     ELSE {[c |-> [c EXCEPT !.wire[p] = @ \o SubSeq(Units(m), 1, k),
                            !.full[p] = @ \/ k = 0], r |-> k]}

\* read(2) of up to n units: EOF, k units of those that are there, or, where there is
\* nothing to read, EAGAIN; the blocking socket then has no outcome.
stream_recv(c, e, n) ==
  LET w   == c.wire[e]
      most == IF n < Len(w) THEN n ELSE Len(w)
      ended == ~c.ep[Peer(e)].open
  IN IF w = <<>> /\ ended THEN {[c |-> c, r |-> "EOF"]}
     ELSE {[c |-> [c EXCEPT !.ep[e].rx = @ \o SubSeq(w, 1, k),
                            !.wire[e] = SubSeq(w, k + 1, Len(w))],
            r |-> IF k = n THEN "OK" ELSE "EAGAIN"]
             : k \in (IF e = "zl" \/ w # <<>> THEN 1 ELSE 0) .. most}

-----------------------------------------------------------------------------
(* Framing: vconn-stream.c.                                                  *)

\* A vconn over a connected stream: vconn_init starts it in VCS_SEND_HELLO.
vconn_stream_new(ep) == [NoConn EXCEPT !.vc = "SEND_HELLO", !.open = ep.open]

\* A short write is not completed: the rest of the message is dropped (the txbuf
\* code is commented out) and the call succeeds, as it does on EAGAIN.
vconn_stream_send(c, e, m) ==
  LET p == Peer(e)
      short(o) == o.c.cut[p] = NoCut /\ 0 < o.r /\ o.r < LEN(m)
  IN {[c |-> IF short(o)
             THEN [o.c EXCEPT !.cut[p] = Len(o.c.ep[p].rx) + Len(o.c.wire[p])]
             ELSE o.c,
       r |-> IF o.r >= 0 THEN "0" ELSE "ERROR"] : o \in stream_send(c, e, m)}

\* The receive buffer is filled up to rx_len units and kept when that fails.
vconn_stream_recv__(c, e, rx_len) ==
  {[o EXCEPT !.r = IF @ = "EOF" /\ c.ep[e].rx # <<>> THEN "EPROTO" ELSE @]
     : o \in stream_recv(c, e, rx_len - Len(c.ep[e].rx))}

\* The type and the length a buffer of HDR units is read as: those of its message,
\* anything when it is not the header of one.
Header(rx) ==
  LET m == rx[1].m
  IN IF SubSeq(rx, 1, HDR) = SubSeq(Units(m), 1, HDR)
     THEN {[type |-> m.type, len |-> LEN(m)]}
     ELSE [type : Types, len : HDR - 1 .. HDR + PAYLOAD]

Framed(rx, h) == IF rx = Units(rx[1].m) THEN rx[1].m ELSE [type |-> h.type, n |-> -1]

TakeBuffer(c, e, h) ==
  LET rx == c.ep[e].rx
      m  == Framed(rx, h)
      left == c.cut[e] - Len(rx)
  IN [c |-> [c EXCEPT !.ep[e].rx = <<>>, !.last[e] = m,
                      !.cut[e] = IF @ = NoCut THEN NoCut ELSE IF left > 0 THEN left ELSE 0],
      r |-> "0", m |-> m]

\* Mutant: a payload that is not all there takes its header with it.
HeaderForgotten(c, e) ==
  LET h == CHOOSE g \in Header(c.ep[e].rx) : TRUE
  IN {IF o.r = "OK" THEN TakeBuffer(o.c, e, h)
      ELSE [c |-> [o.c EXCEPT !.ep[e].rx = <<>>], r |-> o.r, m |-> Nothing]
        : o \in IF Len(c.ep[e].rx) < h.len THEN vconn_stream_recv__(c, e, h.len)
                                           ELSE {[c |-> c, r |-> "OK"]}}

ReadPayload(c, e) ==
  UNION {IF h.len < HDR THEN {[c |-> c, r |-> "EPROTO", m |-> Nothing]}
         ELSE {IF o.r = "OK" THEN TakeBuffer(o.c, e, h)
                             ELSE [c |-> o.c, r |-> o.r, m |-> Nothing]
                 : o \in IF Len(c.ep[e].rx) < h.len
                         THEN vconn_stream_recv__(c, e, h.len)
                         ELSE {[c |-> c, r |-> "OK"]}}
           : h \in Header(c.ep[e].rx)}

vconn_stream_recv(c, e) ==
  UNION {IF o.r = "OK" THEN ReadPayload(o.c, e)
                       ELSE {[c |-> o.c, r |-> o.r, m |-> Nothing]}
           : o \in IF Len(c.ep[e].rx) < HDR THEN vconn_stream_recv__(c, e, HDR)
                                            ELSE {[c |-> c, r |-> "OK"]}}

-----------------------------------------------------------------------------
(* The hello exchange: vconn.c.                                              *)

SetVc(c, e, s) == IF c.ep[e].rc = "DEAD" THEN c ELSE [c EXCEPT !.ep[e].vc = s]

vcs_send_hello(c, e) ==
  {SetVc(o.c, e, IF o.r = "0" THEN "RECV_HELLO" ELSE "DISCONNECTED")
     : o \in vconn_stream_send(c, e, Msg("HELLO"))}

\* Every program sends RFP10_VERSION and a hello is never cut, so that the version is
\* not below min_version and VCS_SEND_ERROR is not entered.
vcs_recv_hello(c, e) ==
  {IF o.r = "0" /\ o.m.type = "HELLO" THEN SetVc(o.c, e, "CONNECTED")
   ELSE IF o.r = "EAGAIN" THEN o.c
   ELSE SetVc(o.c, e, "DISCONNECTED") : o \in vconn_stream_recv(c, e)}

\* The loop of vconn_connect runs the states in their order until one does not change.
vconn_connect(c, e) ==
  LET greeted == IF c.ep[e].vc = "SEND_HELLO" THEN vcs_send_hello(c, e) ELSE {c}
  IN UNION {IF d.ep[e].vc = "RECV_HELLO" THEN vcs_recv_hello(d, e) ELSE {d} : d \in greeted}

vconn_recv(c, e) ==
  UNION {CASE d.ep[e].vc = "CONNECTED"    -> vconn_stream_recv(d, e)
           [] d.ep[e].vc = "DISCONNECTED" -> {[c |-> d, r |-> "ERROR", m |-> Nothing]}
           [] OTHER                       -> {[c |-> d, r |-> "EAGAIN", m |-> Nothing]}
           : d \in vconn_connect(c, e)}

\* Mutant: a message is sent whether or not the hellos were exchanged.
SendsAnyway(c, e, m) == vconn_stream_send(c, e, m)

vconn_send(c, e, m) ==
  UNION {CASE d.ep[e].vc = "CONNECTED"    -> vconn_stream_send(d, e, m)
           [] d.ep[e].vc = "DISCONNECTED" -> {[c |-> d, r |-> "ERROR"]}
           [] OTHER                       -> {[c |-> d, r |-> "EAGAIN"]}
           : d \in vconn_connect(c, e)}

vconn_run(c, e) ==
  IF c.ep[e].vc \in {"SEND_HELLO", "RECV_HELLO"} THEN vconn_connect(c, e) ELSE {c}

\* The class's open function, with a stream the connect has given or not.
vconn_open(c) ==
  {IF d.ep["zl"].open THEN [d EXCEPT !.ep["zl"] = vconn_stream_new(d.ep["zl"])] ELSE d
     : d \in inet_open_active6(c)}

\* vconn_wait(WAIT_RECV) registers a read, but nothing for a disconnected vconn.
vconn_wait(c, e) == c.ep[e].vc \notin {"DISCONNECTED", "NULL"}

-----------------------------------------------------------------------------
(* The reliable connection: rconn.c.                                         *)

rconn_disconnect(c, e) ==
  IF c.ep[e].rc \in {"VOID", "DEAD"} THEN {c}
  ELSE {[d EXCEPT !.ep[e] = NoConn] : d \in CloseSocket(c, e)}

\* reconnect after a connect(2) that succeeded; the kernel queues the peer's end.
\* A vconn_open that failed leaves a void rconn void: rconn_disconnect does nothing.
reconnect(c) ==
  {IF d.ep["zl"].open THEN [d EXCEPT !.ep["zl"].rc = "CONNECTING"] ELSE d : d \in vconn_open(c)}

rconn_connect(c) == UNION {reconnect(d) : d \in rconn_disconnect(c, "zl")}

rconn_connect_unreliably(c) ==
  [c EXCEPT !.ep["ctrl"] = [vconn_stream_new(c.ep["ctrl"]) EXCEPT !.rc = "ACTIVE"]]

run_CONNECTING(c, e) ==
  UNION {CASE d.ep[e].vc = "CONNECTED"    -> {[d EXCEPT !.ep[e].rc = "ACTIVE"]}
           [] d.ep[e].vc = "DISCONNECTED" -> rconn_disconnect(d, e)
           [] OTHER                       -> {d}
           : d \in vconn_connect(c, e)}

\* Every state's run function but that of S_CONNECTING does nothing.
rconn_run(c, e) ==
  UNION {IF d.ep[e].rc = "CONNECTING" THEN run_CONNECTING(d, e) ELSE {d}
           : d \in vconn_run(c, e)}

\* The result of try_send is not returned.
rconn_send(c, e, m) ==
  IF c.ep[e].rc # "ACTIVE" THEN {c}
  ELSE UNION {IF o.r = "ERROR" THEN rconn_disconnect(o.c, e) ELSE {o.c}
                : o \in vconn_send(c, e, m)}

rconn_recv(c, e) ==
  IF c.ep[e].rc # "ACTIVE" THEN {[c |-> c, m |-> Nothing]}
  ELSE UNION {CASE o.r = "0"      -> {[c |-> o.c, m |-> o.m]}
                [] o.r = "EAGAIN" -> {[c |-> o.c, m |-> Nothing]}
                [] OTHER -> {[c |-> d, m |-> Nothing] : d \in rconn_disconnect(o.c, e)}
                : o \in vconn_recv(c, e)}
===============================================================================
