------------------------------- MODULE Relay -------------------------------
(***************************************************************************)
(* The relay of packets on a router: the punter (punter/) takes OSPFv3     *)
(* packets from a raw socket and BGP messages from its peers, and passes   *)
(* them over a Unix socket to zebralite (zl/zl_serv.c), which hands them   *)
(* to its controller; OSPFv3 packets of the controller go the other way.   *)
(* Both are single-threaded over ThreadMaster, and either may crash and be *)
(* started again.  The Unix socket (external) keeps a frame in one piece;  *)
(* the punter's end blocks, zebralite's does not; a write to an end that   *)
(* is closed ends the writer, for nobody ignores SIGPIPE.  A BGP peer's    *)
(* TCP stream is units: a header of HDR units, 19 bytes, and a body that   *)
(* some messages have.  The punter reads a header as sizeof(struct         *)
(* bgp_header), 24 bytes, which is READ units: a message with no body is   *)
(* shorter than that.                                                      *)
(***************************************************************************)
EXTENDS Integers, FiniteSets, ThreadMaster

CONSTANTS
  Peers,        \* BGP peers
  SNDBUF,       \* frames a direction of the Unix socket holds
  MaxUp,        \* bound: OSPFv3 packets from the network
  MaxDown,      \* bound: packets from the controller
  BgpMessages,  \* the messages of each BGP peer: whether each has a body
  MaxCrashes,   \* bound: crashes of either program
  MaxStarts     \* bound: starts of either program

ASSUME RelayAssumption ==
  /\ IsFiniteSet(Peers) /\ SNDBUF \in Nat \ {0}
  /\ {MaxUp, MaxDown, MaxCrashes, MaxStarts} \subseteq Nat
  /\ BgpMessages \in [Peers -> Seq(BOOLEAN)]

VARIABLES
  pu,      \* the punter
  zl,      \* zebralite
  conns,   \* the Unix connections, one per connect, oldest first
  raw,     \* packets in the punter's raw socket
  down,    \* packets from the controller that zebralite has not read
  bgp,     \* the BGP peers
  up,      \* history: what zebralite handed to its controller
  out,     \* history: what the punter sent to the network
  lost,    \* history: packets from the network that were dropped
  faults,  \* history: what may cause a loss
  count    \* packets sent by the network and by the controller, crashes, starts

vars == <<pu, zl, conns, raw, down, bgp, up, out, lost, faults, count>>

None == 0
HDR == 1
BODY == 2
READ == 2

\* A frame of the relay: an OSPFv3 packet, or the READ units that a message of a BGP
\* peer begins with; n is 0 when what was taken for a header is not one.  by is the punter's start.
Frames == [peer : Peers \cup {None}, n : Nat, by : Nat]
Ospf6(n) == [peer |-> None, n |-> n, by |-> 0]

\* The stream of a peer: the units of its messages.
Units(p, n) ==
  [i \in 1 .. HDR + (IF BgpMessages[p][n] THEN BODY ELSE 0) |-> [n |-> n, i |-> i]]
Stream(p) == FlattenSeq([n \in DOMAIN BgpMessages[p] |-> Units(p, n)])

\* The two external clients, in the order of ext_client_classes.  The BGP client
\* listens at once; the other one schedules its start.
ext_client_ospf6_init(m) == thread_add_event(m, <<"ospf6_connect", 0>>)
ext_client_bgp_listener(m) == thread_add_read(m, <<"accept", 0>>)
ext_client_bgp_init(m) == ext_client_bgp_listener(m)
ext_client_init(m) == ext_client_bgp_init(ext_client_ospf6_init(m))

zl_client_init(m) == thread_add_event(m, <<"zl_connect", 0>>)

\* punter_ctrl_init, at the punter's start number k.
NewPunter(k) ==
  [life |-> "run", by |-> k, raw |-> FALSE, sock |-> None, ibuf |-> "NULL", pc |-> "fetch",
   msg |-> Ospf6(0), peer_fd |-> None, wild |-> FALSE,
   m |-> zl_client_init(ext_client_init(thread_master_create))]

zl_serv_start(m) == thread_add_read(m, <<"accept", 0>>)

\* listener_run; <<"ctrl", 0>> is the connection to the controller, which stays up here.
NewZebralite ==
  [life |-> "run", clients |-> <<>>,
   m |-> zl_serv_start(thread_add_read(thread_master_create, <<"ctrl", 0>>))]

\* zl_client_sock_init: the connection waits to be accepted.
NewConn == [pu |-> TRUE, zl |-> TRUE, accepted |-> FALSE, toZl |-> <<>>, toPu |-> <<>>]

NewPeer(p) == [state |-> "none", todo |-> Stream(p), stream |-> <<>>, cut |-> FALSE]

Ended(process) == [process EXCEPT !.life = "down", !.m = thread_master_create]

InitWith(peers, counts) ==
  /\ pu = Ended(NewPunter(0))
  /\ zl = Ended(NewZebralite)
  /\ conns = <<>>
  /\ raw = <<>> /\ down = <<>>
  /\ bgp = peers
  /\ up = <<>> /\ out = <<>> /\ lost = {} /\ faults = {}
  /\ count = counts

NoCounts == [up |-> 0, down |-> 0, crashes |-> 0, starts |-> 0]

Init == InitWith([p \in Peers |-> NewPeer(p)], NoCounts)

-----------------------------------------------------------------------------
(***************************************************************************)
(* Scheduling                                                              *)
(***************************************************************************)

PuReadable ==
  (IF raw # <<>> THEN {<<"ext", 0>>} ELSE {})
  \cup (IF pu.sock # None /\ (conns[pu.sock].toPu # <<>> \/ ~conns[pu.sock].zl)
        THEN {<<"zl", pu.sock>>} ELSE {})
  \cup (IF \E p \in Peers : bgp[p].state = "pending" THEN {<<"accept", 0>>} ELSE {})
  \cup {<<"peer", p>> : p \in {q \in Peers : bgp[q].stream # <<>> \/ bgp[q].state = "closed"}}

Waiting == {c \in DOMAIN conns : conns[c].zl /\ ~conns[c].accepted}

ZlReadable ==
  (IF down # <<>> THEN {<<"ctrl", 0>>} ELSE {})
  \cup (IF Waiting # {} THEN {<<"accept", 0>>} ELSE {})
  \cup {<<"client", c>> : c \in {d \in ToSet(zl.clients) : conns[d].toZl # <<>> \/ ~conns[d].pu}}

PuRuns(name) ==
  /\ pu.life = "run" /\ pu.pc = "fetch"
  /\ thread_runs(pu.m, PuReadable)
  /\ thread_fetch(pu.m, PuReadable).run[1] = name

ZlRuns(name) ==
  /\ zl.life = "run"
  /\ thread_runs(zl.m, ZlReadable)
  /\ thread_fetch(zl.m, ZlReadable).run[1] = name

PuM == thread_fetch(pu.m, PuReadable).m
PuArg == thread_fetch(pu.m, PuReadable).run[2]
ZlM == thread_fetch(zl.m, ZlReadable).m
ZlArg == thread_fetch(zl.m, ZlReadable).run[2]

OspfNumbers(s) == {f.n : f \in {g \in ToSet(s) : g.peer = None}}

\* The kernel closes the files of a process that ends; what was sent stays readable.
PunterEnds ==
  /\ pu' = Ended(NewPunter(0))
  /\ conns' = IF pu.sock = None THEN conns
              ELSE [conns EXCEPT ![pu.sock].pu = FALSE, ![pu.sock].toPu = <<>>]
  /\ raw' = <<>>
  /\ lost' = lost \cup OspfNumbers(raw) \cup (IF pu.pc = "write" THEN OspfNumbers(<<pu.msg>>) ELSE {})
  /\ bgp' = [p \in Peers |-> [bgp[p] EXCEPT !.state = IF @ = "none" THEN @ ELSE "closed",
                                                 !.stream = <<>>, !.todo = <<>>, !.cut = TRUE]]

\* With it go the packets of the controller that it has not read.
ZebraliteEnds(cs) ==
  /\ zl' = Ended(NewZebralite)
  /\ down' = <<>>
  /\ conns' = [c \in DOMAIN cs |-> [cs[c] EXCEPT !.zl = FALSE, !.toZl = <<>>]]
  /\ lost' = lost \cup UNION {OspfNumbers(conns[c].toZl) : c \in DOMAIN conns}

-----------------------------------------------------------------------------
(***************************************************************************)
(* The punter                                                              *)
(***************************************************************************)

ext_client_ospf6_sock_init(q) == [q EXCEPT !.raw = TRUE]

\* ext_client_ospf6_start: the raw socket is opened and joins both groups.
Ospf6Connect ==
  /\ PuRuns("ospf6_connect")
  /\ pu' = [ext_client_ospf6_sock_init(pu) EXCEPT !.m = thread_add_read(PuM, <<"ext", 0>>)]
  /\ UNCHANGED <<zl, conns, raw, down, bgp, up, out, lost, faults, count>>

\* zl_client_start.  A connect that fails is not tried again.
ZlConnect ==
  LET c == Len(conns) + 1
  IN /\ PuRuns("zl_connect")
     /\ IF zl.life = "run"
        THEN /\ conns' = Append(conns, NewConn)
             /\ pu' = [pu EXCEPT !.m = thread_add_read(PuM, <<"zl", c>>), !.sock = c]
             /\ UNCHANGED faults
        ELSE /\ pu' = [pu EXCEPT !.m = PuM, !.sock = None]
             /\ faults' = faults \cup {"connect"}
             /\ UNCHANGED conns
     /\ UNCHANGED <<zl, raw, down, bgp, up, out, lost, count>>

ext_client_ospf6_recvmsg == [Head(raw) EXCEPT !.by = pu.by]

\* ext_client_ospf6_recv up to the write in punter_ext_to_zl_forward_msg.
ExtRecv ==
  /\ PuRuns("ext")
  /\ pu' = [pu EXCEPT !.m = thread_add_read(PuM, <<"ext", 0>>), !.pc = "write",
                      !.msg = ext_client_ospf6_recvmsg]
  /\ raw' = Tail(raw)
  /\ UNCHANGED <<zl, conns, down, bgp, up, out, lost, faults, count>>

\* The end of ext_client_bgp_recv: the listener of the peer is looked up by its file.
\* A peer that another one has replaced is not found, and what is registered and
\* written then is beyond the list: the peer is not read again, and from then on the
\* process may end.
Reregister(q, p) ==
  IF q.peer_fd = p THEN [q EXCEPT !.m = thread_add_read(@, <<"peer", p>>)]
                   ELSE [q EXCEPT !.wild = TRUE]

\* The handler returns; its message is freed.
Fetching(q) == [q EXCEPT !.pc = "fetch", !.msg = Ospf6(0)]

Written == IF pu.msg.peer = None THEN Fetching(pu) ELSE Reregister(Fetching(pu), pu.msg.peer)

\* Mutant: a full socket drops the frame.
DropsWhenFull ==
  \/ /\ Len(conns[pu.sock].toZl) < SNDBUF
     /\ conns' = [conns EXCEPT ![pu.sock].toZl = Append(@, pu.msg)]
     /\ UNCHANGED lost
  \/ /\ Len(conns[pu.sock].toZl) = SNDBUF
     /\ lost' = lost \cup OspfNumbers(<<pu.msg>>)
     /\ UNCHANGED conns

\* The socket blocks: with no room the whole punter waits.
WriteFrame ==
  /\ Len(conns[pu.sock].toZl) < SNDBUF
  /\ conns' = [conns EXCEPT ![pu.sock].toZl = Append(@, pu.msg)]
  /\ UNCHANGED lost

\* zl_client_network_write.  Without a socket the frame is dropped.
Write ==
  /\ pu.life = "run" /\ pu.pc = "write"
  /\ \/ /\ pu.sock = None
        /\ pu' = Written
        /\ lost' = lost \cup OspfNumbers(<<pu.msg>>)
        /\ UNCHANGED <<conns, raw, bgp>>
     \/ /\ pu.sock # None /\ ~conns[pu.sock].zl
        /\ PunterEnds
     \/ /\ pu.sock # None /\ conns[pu.sock].zl
        /\ WriteFrame
        /\ pu' = Written
        /\ UNCHANGED <<raw, bgp>>
  /\ UNCHANGED <<zl, down, up, out, faults, count>>

\* zl_client_failed, zl_client_stop
zl_client_failed(p, m) == [p EXCEPT !.m = thread_add_event(m, <<"zl_connect", 0>>), !.sock = None,
                                    !.ibuf = "NULL"]

\* To AllSPFRouters; without a raw socket the packet is dropped.
ext_client_ospf6_sendmsg(f) == IF pu.raw THEN Append(out, f) ELSE out

ext_client_send(f) == ext_client_ospf6_sendmsg(f)

\* zl_client_read
ZlClientRead ==
  LET c == conns[PuArg]
  IN /\ PuRuns("zl")
     /\ pu.ibuf = "NULL"
     /\ IF c.toPu # <<>>
        THEN /\ conns' = [conns EXCEPT ![PuArg].toPu = Tail(@)]
             /\ pu' = [pu EXCEPT !.m = thread_add_read(PuM, <<"zl", PuArg>>)]
             /\ out' = ext_client_send(Head(c.toPu))
        ELSE /\ pu' = zl_client_failed(pu, PuM)
             /\ conns' = [conns EXCEPT ![PuArg].pu = FALSE]
             /\ UNCHANGED out
     /\ UNCHANGED <<zl, raw, down, bgp, up, lost, faults, count>>

\* ext_client_bgp_accept: the listener has one peer_fd.
BgpAccept(p) ==
  /\ PuRuns("accept")
  /\ bgp[p].state = "pending"
  /\ bgp' = [bgp EXCEPT ![p].state = "up"]
  /\ pu' = [pu EXCEPT !.m = thread_add_read(thread_add_read(PuM, <<"accept", 0>>), <<"peer", p>>),
                      !.peer_fd = p]
  /\ UNCHANGED <<zl, conns, raw, down, up, out, lost, faults, count>>

\* The message whose header is read; 0 when the units do not begin with one.
HeaderOf(s) == IF s[1].i = 1 THEN s[1].n ELSE 0

HasBody(p, n) == IF n = 0 THEN BOOLEAN ELSE {BgpMessages[p][n]}

\* A message that is shorter than the READ units, which then hold units of the next.
IsShort(p, n) == n # 0 /\ HasBody(p, n) = {FALSE}

\* ext_client_bgp_recv up to the read of the body.  At the end of the stream the peer
\* is given up; what was read of a short header is dropped, and a message with no body
\* that is alone in the socket is one.  With more behind it, it is passed on and the
\* units of the next message that were read with it are dropped.  The length in what
\* is not a header may be any: zero frees the buffer that is copied next.
BgpRecv ==
  LET p == PuArg
      s == bgp[p].stream
      q == [pu EXCEPT !.m = PuM]
  IN /\ PuRuns("peer")
     /\ \/ /\ s = <<>>
           /\ pu' = q
           /\ UNCHANGED <<conns, raw, bgp, lost, faults>>
        \/ /\ s # <<>> /\ Len(s) < READ
           /\ pu' = Reregister(q, p)
           /\ bgp' = [bgp EXCEPT ![p].stream = <<>>, ![p].cut = TRUE]
           /\ UNCHANGED <<conns, raw, lost, faults>>
        \/ /\ Len(s) >= READ
           /\ \E body \in HasBody(p, HeaderOf(s)) :
                pu' = [q EXCEPT !.pc = IF body THEN "body" ELSE "write",
                                !.msg = [peer |-> p, n |-> HeaderOf(s), by |-> pu.by]]
           /\ bgp' = [bgp EXCEPT ![p].stream = SubSeq(s, READ + 1, Len(s)),
                                 ![p].cut = @ \/ IsShort(p, HeaderOf(s))]
           /\ UNCHANGED <<conns, raw, lost, faults>>
        \/ /\ Len(s) >= READ /\ HeaderOf(s) = 0
           /\ PunterEnds
           /\ faults' = faults \cup {"bgp"}
     /\ UNCHANGED <<zl, down, up, out, count>>

\* What the length leaves to be read of a message with a body.
Rest == HDR + BODY - READ

\* Mutant: the length is taken for one less.
OneLess(s) == IF Len(s) < Rest THEN Len(s) ELSE Rest - 1

BodyRead(s) == IF Len(s) < Rest THEN Len(s) ELSE Rest

\* The rest of ext_client_bgp_recv.  The read of the body blocks until something is
\* there; what was read of a short body is dropped with its header.
BgpBody ==
  LET p == pu.msg.peer
      s == bgp[p].stream
  IN /\ pu.life = "run" /\ pu.pc = "body"
     /\ s # <<>> \/ bgp[p].state = "closed"
     /\ bgp' = [bgp EXCEPT ![p].stream = SubSeq(s, BodyRead(s) + 1, Len(s)),
                           ![p].cut = @ \/ Len(s) < Rest]
     /\ pu' = CASE s = <<>>                      -> Fetching(pu)
                [] s # <<>> /\ Len(s) < Rest     -> Reregister(Fetching(pu), p)
                [] Len(s) >= Rest                -> [pu EXCEPT !.pc = "write"]
     /\ UNCHANGED <<zl, conns, raw, down, up, out, lost, faults, count>>

\* What was written beyond the list of listeners ends the process.
WildEnds ==
  /\ pu.life = "run" /\ pu.wild
  /\ PunterEnds
  /\ faults' = faults \cup {"bgp"}
  /\ UNCHANGED <<zl, down, up, out, count>>

Punter ==
  \/ Ospf6Connect \/ ZlConnect \/ ExtRecv \/ Write \/ ZlClientRead
  \/ (\E p \in Peers : BgpAccept(p)) \/ BgpRecv \/ BgpBody

-----------------------------------------------------------------------------
(***************************************************************************)
(* Zebralite                                                               *)
(***************************************************************************)

\* zl_serv_accept, zl_serv_create_client
ZlAccept ==
  LET c == CHOOSE d \in Waiting : \A e \in Waiting : d <= e
  IN /\ ZlRuns("accept")
     /\ conns' = [conns EXCEPT ![c].accepted = TRUE]
     /\ zl' = [zl EXCEPT !.m = thread_add_read(thread_add_read(ZlM, <<"accept", 0>>), <<"client", c>>),
                         !.clients = Append(@, c)]
     /\ UNCHANGED <<pu, raw, down, bgp, up, out, lost, faults, count>>

\* Mutant: the read is registered again only after an OSPFv3 packet.
OspfOnly(m, c) == IF Head(conns[c].toZl).peer = None THEN thread_add_read(m, <<"client", c>>) ELSE m

ReadAgain(m, c) == thread_add_read(m, <<"client", c>>)

\* Mutant: the frame is looked at and not taken.
Peeked(c) == conns

\* rfpbuf_read_try of the header and of the body
Taken(c) == [conns EXCEPT ![c].toZl = Tail(@)]

dp_forward_zl_to_ctrl(f) == Append(up, f)

\* zl_serv_read
ZlServRead ==
  /\ ZlRuns("client")
  /\ conns[ZlArg].toZl # <<>>
  /\ up' = dp_forward_zl_to_ctrl(Head(conns[ZlArg].toZl))
  /\ conns' = Taken(ZlArg)
  /\ zl' = [zl EXCEPT !.m = ReadAgain(ZlM, ZlArg)]
  /\ UNCHANGED <<pu, raw, down, bgp, out, lost, faults, count>>

\* At the end of the stream the type is read from memory that was not written: the
\* client is not read again, and stays in the list, or a frame of no bytes is
\* forwarded, which fails rfpbuf_at_assert.
ZlServEof ==
  /\ ZlRuns("client")
  /\ conns[ZlArg].toZl = <<>>
  /\ \/ /\ zl' = [zl EXCEPT !.m = ZlM]
        /\ UNCHANGED <<conns, down, lost>>
     \/ ZebraliteEnds(conns)
  /\ UNCHANGED <<pu, raw, bgp, up, out, faults, count>>

\* Adds the frame for every entry of the list that has room.
Deliver(cs, f) ==
  FoldSeq(LAMBDA c, k : IF Len(k[c].toPu) < SNDBUF THEN [k EXCEPT ![c].toPu = Append(@, f)] ELSE k,
          conns, cs)

\* zl_serv_forward: a client whose socket is full loses the frame, and a client that
\* is gone ends the program; those before it in the list have the frame.
ZlServForward ==
  LET f    == Head(down)
      gone == {i \in DOMAIN zl.clients : ~conns[zl.clients[i]].pu}
      told == IF gone = {} THEN zl.clients
              ELSE SubSeq(zl.clients, 1, (CHOOSE i \in gone : \A j \in gone : i <= j) - 1)
  IN /\ ZlRuns("ctrl")
     /\ IF gone = {}
        THEN /\ down' = Tail(down)
             /\ conns' = Deliver(told, f)
             /\ zl' = [zl EXCEPT !.m = thread_add_read(ZlM, <<"ctrl", 0>>)]
             /\ UNCHANGED lost
        ELSE ZebraliteEnds(Deliver(told, f))
     /\ UNCHANGED <<pu, raw, bgp, up, out, faults, count>>

Zebralite == ZlAccept \/ ZlServRead \/ ZlServEof \/ ZlServForward

-----------------------------------------------------------------------------
(***************************************************************************)
(* The environment                                                         *)
(***************************************************************************)

Ends(p) == /\ count.crashes < MaxCrashes
           /\ count' = [count EXCEPT !.crashes = @ + 1]
           /\ faults' = faults \cup {"crash"}
           /\ UNCHANGED p

PunterCrash ==
  /\ pu.life = "run" /\ PunterEnds
  /\ Ends(<<zl, down, up, out>>)

ZebraliteCrash ==
  /\ zl.life = "run" /\ ZebraliteEnds(conns)
  /\ Ends(<<pu, raw, bgp, up, out>>)

Starts == count.starts < MaxStarts /\ count' = [count EXCEPT !.starts = @ + 1]

PunterStart ==
  /\ pu.life = "down" /\ pu' = NewPunter(count.starts + 1)
  /\ Starts
  /\ UNCHANGED <<zl, conns, raw, down, bgp, up, out, lost, faults>>

ZebraliteStart ==
  /\ zl.life = "down" /\ zl' = NewZebralite
  /\ Starts
  /\ UNCHANGED <<pu, conns, raw, down, bgp, up, out, lost, faults>>

\* The network delivers to a raw socket that has joined the groups.
NetSends ==
  /\ pu.life = "run" /\ pu.raw /\ count.up < MaxUp
  /\ raw' = Append(raw, Ospf6(count.up + 1))
  /\ count' = [count EXCEPT !.up = @ + 1]
  /\ UNCHANGED <<pu, zl, conns, down, bgp, up, out, lost, faults>>

CtrlSends ==
  /\ zl.life = "run" /\ count.down < MaxDown
  /\ down' = Append(down, Ospf6(count.down + 1))
  /\ count' = [count EXCEPT !.down = @ + 1]
  /\ UNCHANGED <<pu, zl, conns, raw, bgp, up, out, lost, faults>>

PeerConnects(p) ==
  /\ pu.life = "run" /\ bgp[p].state = "none"
  /\ bgp' = [bgp EXCEPT ![p].state = "pending"]
  /\ UNCHANGED <<pu, zl, conns, raw, down, up, out, lost, faults, count>>

\* TCP (external) delivers the stream in pieces.
PeerSends(p) ==
  /\ bgp[p].state \in {"pending", "up"}
  /\ \E k \in 1 .. Len(bgp[p].todo) :
       bgp' = [bgp EXCEPT ![p].stream = @ \o SubSeq(bgp[p].todo, 1, k),
                          ![p].todo = SubSeq(@, k + 1, Len(@))]
  /\ UNCHANGED <<pu, zl, conns, raw, down, up, out, lost, faults, count>>

PeerCloses(p) ==
  /\ bgp[p].state = "up"
  /\ bgp' = [bgp EXCEPT ![p].state = "closed"]
  /\ UNCHANGED <<pu, zl, conns, raw, down, up, out, lost, faults, count>>

Environment ==
  \/ PunterCrash \/ ZebraliteCrash \/ PunterStart \/ ZebraliteStart \/ NetSends \/ CtrlSends
  \/ \E p \in Peers : PeerConnects(p) \/ PeerSends(p) \/ PeerCloses(p)

Next == Punter \/ Zebralite \/ WildEnds \/ Environment

Spec == Init /\ [][Next]_vars

\* A program that runs goes on running.
Fairness == WF_vars(Punter) /\ WF_vars(Zebralite)

FairSpec == Spec /\ Fairness

-----------------------------------------------------------------------------
(***************************************************************************)
(* Properties                                                              *)
(***************************************************************************)

Distinct(s) == \A i, j \in DOMAIN s : s[i] = s[j] => i = j

\* Types.  A program waits once for each file, a direction of the Unix socket holds at
\* most SNDBUF frames, the punter is in the middle of a message only outside
\* thread_fetch, and no buffer is left from an earlier read when the socket is read
\* ("this should never happen", zl_client_read).
TypeOK ==
  /\ pu.life \in {"down", "run"} /\ zl.life \in {"down", "run"}
  /\ pu.pc \in {"fetch", "write", "body"} /\ pu.msg \in Frames
  /\ pu.pc = "fetch" => pu.msg = Ospf6(0)
  /\ pu.life = "run" => pu.ibuf = "NULL"
  /\ pu.pc = "body" => pu.msg.peer \in Peers
  /\ pu.sock \in {None} \cup DOMAIN conns /\ pu.raw \in BOOLEAN /\ pu.wild \in BOOLEAN
  /\ pu.peer_fd \in {None} \cup Peers
  /\ Distinct(pu.m.read) /\ Distinct(zl.m.read)
  /\ ToSet(zl.clients) \subseteq DOMAIN conns
  /\ \A c \in DOMAIN conns : /\ conns[c].toZl \in Seq(Frames) /\ Len(conns[c].toZl) <= SNDBUF
                             /\ conns[c].toPu \in Seq(Frames) /\ Len(conns[c].toPu) <= SNDBUF
  /\ raw \in Seq(Frames) /\ down \in Seq(Frames) /\ up \in Seq(Frames) /\ out \in Seq(Frames)
  /\ lost \subseteq 1 .. MaxUp /\ faults \subseteq {"crash", "connect", "bgp"}

Increasing(s) == \A i, j \in DOMAIN s : i < j => s[i].n < s[j].n

\* Packets are relayed in order.  Those one punter takes from the network reach the
\* controller in the order of their arrival and no packet twice, over whatever sequence of
\* crashes and restarts (ext_client_ospf6_recv, zl_serv_read); those of the controller
\* leave in order and none twice, however often the punter connects (zl_serv_forward
\* writes to every client it ever accepted).
RelayedInOrder ==
  /\ Distinct(SelectSeq(up, LAMBDA f : f.peer = None))
  /\ \A k \in 1 .. MaxStarts : Increasing(SelectSeq(up, LAMBDA f : f.peer = None /\ f.by = k))
  /\ Increasing(out)

\* Every packet from the network is in exactly one place, and one is dropped only after
\* a crash, a connect that failed or a misread BGP stream: never because a socket is full.
LossForCause ==
  LET places == <<OspfNumbers(raw), OspfNumbers(up), lost,
                  IF pu.life = "run" /\ pu.pc = "write" THEN OspfNumbers(<<pu.msg>>) ELSE {}>>
                \o [c \in DOMAIN conns |-> OspfNumbers(conns[c].toZl)]
  IN /\ UNION ToSet(places) = 1 .. count.up
     /\ \A i, j \in DOMAIN places : i # j => places[i] \cap places[j] = {}
     /\ lost # {} => faults # {}

\* The messages of a BGP peer are passed on in order, each once and each with a header
\* the peer sent, as long as no read of its stream came short, no message was shorter
\* than struct bgp_header (ext_client_bgp_recv reads 24 bytes where a KEEPALIVE has 19)
\* and the punter has not ended: the pieces that TCP delivers, the other peers and the
\* OSPFv3 packets between them do not matter.
BgpExact ==
  \A p \in Peers :
    ~bgp[p].cut => LET s == SelectSeq(up, LAMBDA f : f.peer = p)
                   IN Increasing(s) /\ \A i \in DOMAIN s : s[i].n # 0

\* While both programs run, every packet from the network reaches the controller or is
\* lost, unless the punter waits for the body of a BGP message, which stops the relay.
Relayed ==
  \A n \in 1 .. MaxUp :
    (count.up >= n) ~> (n \in OspfNumbers(up) \/ n \in lost \/ pu.pc = "body")
=============================================================================
