------------------------------ MODULE Ospf6Adj ------------------------------
(***************************************************************************)
(* A sibling forming an adjacency with one external OSPFv3 router that has *)
(* the larger router id and is therefore the master of the exchange.  The  *)
(* external router is not part of the repository: it follows RFC 2328 as   *)
(* far as a sibling can tell.  Packets to the sibling wait in net, in      *)
(* order; packets from the sibling are heard at once.  Either kind may be  *)
(* lost, the external router may restart, and hellos may stay away for a   *)
(* dead interval; faults counts those.                                     *)
(***************************************************************************)
EXTENDS Ospf6Proc

CONSTANTS
    N,           \* the neighbour
    PeerHdrs,    \* the keys it describes, in order, one per DbDesc packet
    MaxFaults,   \* bound on losses, restarts and outages
    NetMax       \* bound on the packets in flight to the sibling

ASSUME AdjAssumption ==
    /\ Nbrs = {N} /\ RouterId[N] > MyId
    /\ MaxFaults \in Nat /\ NetMax \in Nat \ {0}

I == NbrIf[N]

VARIABLES
    sib,      \* the sibling's process state
    peer,     \* the external router
    net,      \* packets on their way to the sibling
    faults,   \* faults so far
    desc      \* history: the headers accepted since the exchange began

vars == <<sib, peer, net, faults, desc>>

on == sib.nb[N]

PeerInit == [st |-> "init", hears |-> FALSE, seq |-> 0, pk |-> 0, dr |-> FALSE,
             ls |-> 1, asked |-> {}, rx |-> {}, want |-> {}]

\* The sibling's own link-LSA is in the database before the first packet.
Init ==
    /\ sib = [nb |-> [n \in Nbrs |-> NoNbr],
              oi |-> [i \in Ifs |-> ospf6_interface_create],
              ev |-> <<[h |-> "interface_up", x |-> I]>>,
              db |-> [k \in SelfKeys |-> [seq |-> 1, ck |-> 0, age |-> 0]],
              new |-> {}, out |-> <<>>]
    /\ peer = PeerInit
    /\ net = <<>>
    /\ faults = 0
    /\ desc = EmptyLsdb

PeerLsa(p, k) == [seq |-> IF k = PeerHdrs[1] THEN p.ls ELSE 1, ck |-> 0, age |-> 0]

-----------------------------------------------------------------------------
(* The external router hears a packet *)

PeerStart(p) == [p EXCEPT !.st = "exstart", !.seq = (@ + 1) % DdSeqMod, !.pk = 0]

PeerHeardHello(p, m) ==
    CASE N \in m.heard /\ p.st = "init" -> [PeerStart(p) EXCEPT !.hears = TRUE]
      [] N \notin m.heard -> [p EXCEPT !.hears = TRUE, !.st = "init"]
      [] OTHER -> [p EXCEPT !.hears = TRUE]

PeerDone(p, m) == p.pk >= Len(PeerHdrs) /\ ~m.m

PeerHeardDd(p, m) ==
    LET more == [p EXCEPT !.want = @ \cup (DOMAIN m.hdrs \ Range(PeerHdrs)),
                          !.st = IF PeerDone(p, m) THEN "full" ELSE "exchange",
                          !.seq = IF PeerDone(p, m) THEN @ ELSE (@ + 1) % DdSeqMod,
                          !.pk = IF PeerDone(p, m) THEN @ ELSE @ + 1]
    IN  CASE p.st = "init" -> p
          [] p.st = "exstart" -> IF ~m.i /\ ~m.ms /\ m.seq = p.seq THEN more ELSE p
          [] p.st = "exchange" ->
                 IF m.i \/ m.ms THEN PeerStart(p)
                 ELSE IF m.seq = p.seq THEN more
                 ELSE IF m.seq = (p.seq + DdSeqMod - 1) % DdSeqMod THEN p
                 ELSE PeerStart(p)
          [] p.st = "full" ->
                 IF m.i \/ m.ms \/ m.seq # p.seq THEN PeerStart(p) ELSE p

PeerHears(p, m) ==
    CASE m.t = "hello" -> PeerHeardHello(p, m)
      [] m.t = "dd" -> PeerHeardDd(p, m)
      [] m.t = "lsreq" -> IF p.st \in {"exchange", "full"}
                          THEN [p EXCEPT !.asked = @ \cup m.ks] ELSE p
      [] m.t = "lsu" -> [p EXCEPT !.want = @ \ DOMAIN m.lsas]
      [] m.t = "lsack" -> [p EXCEPT !.rx = {k \in @ :
                               ~(InLsdb(k, m.lsas) /\ m.lsas[k].seq = PeerLsa(p, k).seq)}]

-----------------------------------------------------------------------------
(* Steps of the sibling *)

\* No event is queued: thread_fetch looks at timers and descriptors only then.
\* Queued events take no time on the scale of the network, so the external
\* router moves only then as well.
Idle == sib.ev = <<>>

\* The sibling makes a step to s; what it sends is heard or, as a fault, lost.
SiblingStep(s) ==
    /\ sib' = [s EXCEPT !.out = <<>>]
    /\ \/ /\ peer' = FoldLeft(LAMBDA p, o : PeerHears(p, o.m), peer, s.out)
          /\ UNCHANGED faults
       \/ /\ s.out # <<>> /\ faults < MaxFaults
          /\ faults' = faults + 1
          /\ UNCHANGED peer

RunEvents ==
    /\ sib.ev # <<>>
    /\ SiblingStep(RunEvent(sib, FALSE))
    /\ UNCHANGED <<net, desc>>

Timer(p) ==
    /\ Idle /\ on[p] = "timer"
    /\ SiblingStep(RunTimer(sib, N, p))
    /\ UNCHANGED <<net, desc>>

HelloTimer ==
    /\ Idle /\ sib.oi[I].hello = "timer"
    /\ SiblingStep(ospf6_hello_send(sib, I))
    /\ UNCHANGED <<net, desc>>

WaitTimer ==
    /\ Idle /\ sib.oi[I].wait
    /\ SiblingStep(wait_timer(sib, I))
    /\ UNCHANGED <<net, desc>>

AckTimer ==
    /\ Idle /\ sib.oi[I].ack = "timer"
    /\ SiblingStep(ospf6_lsack_send_interface(sib, I))
    /\ UNCHANGED <<net, desc>>

\* No hello has come in for the dead interval.
Outage ==
    /\ Idle /\ on.inact = "timer" /\ faults < MaxFaults
    /\ sib' = RunTimer(sib, N, "inact")
    /\ faults' = faults + 1
    /\ UNCHANGED <<peer, net, desc>>

\* The headers accepted with packet m, in a step from s to s1.
Accepted(s, s1, m) ==
    LET was == s.nb[N]
        now == s1.nb[N]
    IN  CASE m.t = "dd" /\ was.state < EXCHANGE /\ now.state = EXCHANGE -> EmptyLsdb
          [] m.t = "dd" /\ was.state = EXCHANGE /\ now.last # was.last -> m.hdrs @@ desc
          [] OTHER -> desc

Receive ==
    /\ Idle /\ net # <<>>
    /\ LET s == ospf6_receive(sib, N, Head(net), FALSE, FALSE)
       IN  /\ SiblingStep(s)
           /\ desc' = Accepted(sib, s, Head(net))
    /\ net' = Tail(net)

\* A second passes: MIN_LS_ARRIVAL no longer holds new instances back.
Second ==
    /\ Idle /\ sib.new # {}
    /\ sib' = [sib EXCEPT !.new = {}]
    /\ UNCHANGED <<peer, net, faults, desc>>

-----------------------------------------------------------------------------
(* Steps of the external router *)

PeerSends(m) ==
    /\ Idle /\ Len(net) < NetMax
    /\ net' = Append(net, m)
    /\ UNCHANGED <<sib, faults, desc>>

PeerHello ==
    /\ PeerSends([t |-> "hello", two |-> peer.hears,
                  dr |-> IF peer.dr THEN RouterId[N] ELSE 0,
                  bdr |-> IF peer.dr THEN MyId ELSE 0])
    /\ UNCHANGED peer

\* Its own election makes it the designated router.
PeerElected ==
    /\ Idle /\ ~peer.dr /\ I \in Broadcast
    /\ peer' = [peer EXCEPT !.dr = TRUE]
    /\ UNCHANGED <<sib, net, faults, desc>>

PeerHdrsOf(p) == IF p.pk \in DOMAIN PeerHdrs
                 THEN PeerHdrs[p.pk] :> PeerLsa(p, PeerHdrs[p.pk]) ELSE EmptyLsdb

PeerDbdesc ==
    /\ peer.st \in {"exstart", "exchange"}
    /\ LET first == peer.st = "exstart"
       IN  PeerSends([t |-> "dd", i |-> first, ms |-> TRUE, seq |-> peer.seq,
                      m |-> first \/ peer.pk < Len(PeerHdrs),
                      hdrs |-> IF first THEN EmptyLsdb ELSE PeerHdrsOf(peer)])
    /\ UNCHANGED peer

PeerUpdate(k) ==
    /\ peer.st \in {"exchange", "full"} /\ k \in peer.asked \cup peer.rx
    /\ PeerSends([t |-> "lsu", k |-> k, lsa |-> PeerLsa(peer, k)])
    /\ peer' = [peer EXCEPT !.asked = @ \ {k}]

PeerRequest ==
    /\ peer.st \in {"exchange", "full"} /\ peer.want # {}
    /\ PeerSends([t |-> "lsreq", ks |-> SetToSeq(peer.want)])
    /\ UNCHANGED peer

PeerOriginate ==
    /\ Idle /\ peer.ls < MaxSeq
    /\ peer' = [peer EXCEPT !.ls = @ + 1, !.rx = @ \cup {PeerHdrs[1]}]
    /\ UNCHANGED <<sib, net, faults, desc>>

PeerRestart ==
    /\ Idle /\ faults < MaxFaults
    /\ faults' = faults + 1
    /\ peer' = [PeerInit EXCEPT !.seq = peer.seq, !.ls = peer.ls]
    /\ UNCHANGED <<sib, net, desc>>

Lose ==
    /\ Idle /\ net # <<>> /\ faults < MaxFaults
    /\ net' = Tail(net)
    /\ faults' = faults + 1
    /\ UNCHANGED <<sib, peer, desc>>

Threads == {"dd", "lsreq", "upd"}

Next ==
    \/ RunEvents
    \/ \E p \in Threads : Timer(p)
    \/ HelloTimer \/ WaitTimer \/ AckTimer \/ Outage
    \/ Receive \/ Second
    \/ PeerHello \/ PeerElected \/ PeerDbdesc \/ PeerRequest \/ PeerOriginate
    \/ \E k \in Range(PeerHdrs) : PeerUpdate(k)
    \/ PeerRestart \/ Lose

Spec == Init /\ [][Next]_vars

\* The event loop runs what is due, and the external router keeps sending
\* hellos and what its side of the exchange makes it send.  Nothing is assumed
\* of the timers that repeat updates and acknowledgements.
Fairness ==
    /\ WF_vars(RunEvents) /\ WF_vars(Receive) /\ WF_vars(Second)
    /\ WF_vars(Timer("lsreq")) /\ WF_vars(HelloTimer) /\ WF_vars(WaitTimer)
    /\ WF_vars(PeerElected) /\ SF_vars(PeerHello) /\ SF_vars(PeerDbdesc)
    /\ \A k \in Range(PeerHdrs) : SF_vars(PeerUpdate(k))

FairSpec == Spec /\ Fairness

-----------------------------------------------------------------------------
(* Properties *)

Dbdescs == [i : BOOLEAN, m : BOOLEAN, ms : BOOLEAN, seq : -1 .. DdSeqMod - 1]

\* Type invariant of the neighbour, the interface and the databases.
TypeOK ==
    /\ on.state \in {NONE, NDOWN, INIT, TWOWAY, EXSTART, EXCHANGE, LOADING, FULL}
    /\ on.last \in Dbdescs /\ on.seq \in -1 .. DdSeqMod - 1
    /\ \A f \in {"summary", "dbdesc", "request", "retrans", "lsupdate", "lsack"} :
           on[f] \in Lsdbs
    /\ \A p \in DOMAIN ThreadHandlers : on[p] \in ThreadStates
    /\ sib.db \in Lsdbs /\ sib.new \subseteq DOMAIN sib.db
    /\ sib.oi[I].state \in {IDOWN, WAITING, PTP, DROTHER, BDR, DR}
    /\ faults \in 0 .. MaxFaults /\ Len(net) <= NetMax

\* The events queued for a neighbour are those its structure says.  A structure is freed
\* while no queued event names it, although adj_ok, exchange_done, loading_done,
\* seqnumber_mismatch and bad_lsreq are queued without a pointer that
\* ospf6_neighbor_delete could cancel; and the pointer of each of its threads is an event
\* exactly when the event list holds one of the thread's handlers, never two.
NeighborEventsExact ==
    /\ on.state = NONE => NbrEvents(sib, N) = {}
    /\ \A p \in DOMAIN ThreadHandlers :
        Cardinality({j \in NbrEvents(sib, N) : sib.ev[j].h \in ThreadHandlers[p]})
            = IF on[p] = "event" THEN 1 ELSE 0

\* Loading ends when all that was asked for has come.  The assertion of loading_done:
\* nothing is left on the request list when the event that completes the loading runs;
\* and a neighbour in LOADING always has a request to repeat or that event, for nothing
\* else would ever end it.
LoadingEnds ==
    on.state = LOADING =>
        /\ sib.ev # <<>> /\ Head(sib.ev).h = "loading_done" => on.request = EmptyLsdb
        /\ \/ on.lsreq # "off"
           \/ \E j \in NbrEvents(sib, N) : sib.ev[j].h = "loading_done"

\* FULL means synchronized: what the master described in this exchange is in
\* the database, as recent as described or more.
FullIsSynchronized ==
    on.state = FULL => \A k \in DOMAIN desc :
        InLsdb(k, sib.db) /\ ospf6_lsa_compare(desc[k], sib.db[k]) >= 0

\* An area-scope LSA is asked for although the database has it:
\* ospf6_dbdesc_recv_slave looks area-scope headers up in no database.
HeldAreaLsaRequested ==
    \E k \in DOMAIN on.request \cap AreaKeys : InLsdb(k, sib.db)

\* Once the faults are over the adjacency becomes FULL again and again, unless
\* area-scope LSAs that are already held are asked for again and again.
AdjacencyForms == []<>(on.state = FULL) \/ []<>HeldAreaLsaRequested

\* FULL is given up for good reason only: a DbDesc that does not continue the
\* exchange, a hello without this router, or silence.
FullLeftByPeer ==
    [][(on.state = FULL /\ on'.state # FULL) =>
          \/ on'.state \in {NONE, INIT}
          \/ sib.ev # <<>> /\ Head(sib.ev).h = "seqnumber_mismatch"]_vars
=============================================================================
