------------------------------ MODULE Ospf6Proc ------------------------------
(***************************************************************************)
(* The OSPFv3 protocol engine of one sibling: the neighbour state machine  *)
(* (ospf6_neighbor.c), the interface state machine (ospf6_interface.c),    *)
(* the packets (ospf6_message.c) and the flooding procedure                *)
(* (ospf6_flood.c).  Handlers call one another, so each is an operator     *)
(* from a process state s to a process state:                              *)
(*   s.nb   neighbour structures, state NONE where there is none           *)
(*   s.oi   interface structures                                           *)
(*   s.ev   the event list of the thread master, run first in first out    *)
(*   s.db   the link-state databases (a key belongs to exactly one)        *)
(*   s.new  keys whose database copy is younger than MIN_LS_ARRIVAL        *)
(*   s.out  packets handed to the controller connection in this step       *)
(* Router priorities are all 1, the default of ospf6_interface_create.     *)
(***************************************************************************)
EXTENDS Ospf6Lsa, SequencesExt

CONSTANTS
    Nbrs,        \* neighbours
    Ifs,         \* interfaces, all of one area
    NbrIf,       \* [Nbrs -> Ifs]
    KeyIf,       \* [LinkKeys -> Ifs], the interface of a link-local LSA
    Broadcast,   \* the interfaces that are not point to point
    RouterId,    \* [Nbrs -> Nat]
    MyId,        \* this router's id
    RouterKeys,  \* the key of this router's router-LSA, a singleton or {}
    DdSeqMod,    \* DbDesc sequence numbers wrap here, 2^32 in the code
    PerPacket    \* LSA headers or LSAs that fit in a packet of the MTU

ASSUME ProcAssumption ==
    /\ NbrIf \in [Nbrs -> Ifs] /\ KeyIf \in [LinkKeys -> Ifs]
    /\ Broadcast \subseteq Ifs
    /\ RouterId \in [Nbrs -> Nat \ {0, MyId}] /\ MyId \in Nat \ {0}
    /\ RouterKeys \subseteq AreaKeys \cap SelfKeys
    /\ PerPacket \in Nat \ {0} /\ DdSeqMod \in Nat \ {0}

\* Neighbour states, ospf6_neighbor.h; NONE is "not in the neighbor list".
NONE     == 0
NDOWN    == 1
INIT     == 3
TWOWAY   == 4
EXSTART  == 5
EXCHANGE == 6
LOADING  == 7
FULL     == 8

\* Interface states, ospf6_interface.h.
IDOWN   == 1
WAITING == 3
PTP     == 4
DROTHER == 5
BDR     == 6
DR      == 7

\* The thread pointers of a neighbour, and the handlers each may name.
ThreadHandlers == [dd    |-> {"dbdesc_send", "dbdesc_send_newone"},
                   lsreq |-> {"lsreq_send"},
                   upd   |-> {"lsupdate_send"},
                   ack   |-> {"lsack_send"}]

ThreadStates == {"off", "event", "timer"}

NoDbdesc == [i |-> FALSE, m |-> FALSE, ms |-> FALSE, seq |-> -1]

\* ospf6_neighbor_create: everything zero, every list empty.
ospf6_neighbor_create ==
    [state |-> NDOWN, dr |-> 0, bdr |-> 0,
     i |-> FALSE, m |-> FALSE, ms |-> FALSE, seq |-> 0, last |-> NoDbdesc,
     summary |-> EmptyLsdb, dbdesc |-> EmptyLsdb, request |-> EmptyLsdb,
     retrans |-> EmptyLsdb, lsupdate |-> EmptyLsdb, lsack |-> EmptyLsdb,
     inact |-> "off", dd |-> "off", lsreq |-> "off", upd |-> "off",
     ack |-> "off"]

NoNbr == [ospf6_neighbor_create EXCEPT !.state = NONE]

ospf6_interface_create ==
    [state |-> IDOWN, dr |-> 0, bdr |-> 0, lsack |-> EmptyLsdb,
     ack |-> "off", wait |-> FALSE, hello |-> "off"]

NbrsOn(s, i) == {n \in Nbrs : NbrIf[n] = i /\ s.nb[n].state # NONE}

-----------------------------------------------------------------------------
(* Threads *)

\* thread_add_event: at the tail of the event list.
thread_add_event(s, h, x) ==
    [s EXCEPT !.ev = Append(@, [h |-> h, x |-> x])]

\* Mutant: the pointer is cleared and the event stays queued.
PointerOnly(s, n, p) == [s EXCEPT !.nb[n][p] = "off"]

\* THREAD_OFF on a thread pointer p of neighbour n.
THREAD_OFF(s, n, p) ==
    [s EXCEPT !.nb[n][p] = "off",
              !.ev = SelectSeq(@, LAMBDA e :
                         ~(e.x = n /\ e.h \in ThreadHandlers[p]))]

\* The pointer replaced by a new event, whatever was pending.
ReplaceByEvent(s, n, p, h) ==
    thread_add_event([THREAD_OFF(s, n, p) EXCEPT !.nb[n][p] = "event"], h, n)

\* The pointer set only where it is NULL.
EventIfNull(s, n, p, h) ==
    IF s.nb[n][p] # "off" THEN s ELSE ReplaceByEvent(s, n, p, h)

\* The OSPF6_..._SCHEDULE macros of ospf6_intra.h: one pending event at most.
ScheduleOnce(s, h, x) ==
    IF Contains(s.ev, [h |-> h, x |-> x]) THEN s ELSE thread_add_event(s, h, x)

Send(s, n, m) == [s EXCEPT !.out = Append(@, [to |-> n, m |-> m])]

-----------------------------------------------------------------------------
(* Designated router election and interface events *)

Candidate(id, st, dr, bdr) == [id |-> id, state |-> st, dr |-> dr, bdr |-> bdr]

\* better_bdrouter over a set of candidates: among the eligible that do not
\* declare themselves DR, those declaring themselves BDR, then the higher id.
\* 0 when there is none.
better_bdrouter(C) ==
    LET E == {c \in C : c.state >= TWOWAY /\ c.dr # c.id}
        D == {c \in E : c.bdr = c.id}
        B == IF D # {} THEN D ELSE E
    IN  IF B = {} THEN 0 ELSE (CHOOSE c \in B : \A o \in B : o.id <= c.id).id

\* better_drouter: among the eligible that declare themselves DR, the higher id.
better_drouter(C) ==
    LET D == {c \in C : c.state >= TWOWAY /\ c.dr = c.id}
    IN  IF D = {} THEN 0 ELSE (CHOOSE c \in D : \A o \in D : o.id <= c.id).id

\* Steps (1) to (5): the DR and the BDR of interface i.
ElectedRouters(s, i) ==
    LET C == {Candidate(RouterId[n], s.nb[n].state, s.nb[n].dr, s.nb[n].bdr) :
                  n \in NbrsOn(s, i)}
        Elect(me) == LET b == better_bdrouter(C \cup {me})
                         d == better_drouter(C \cup {me})
                     IN  [dr |-> IF d = 0 THEN b ELSE d, bdr |-> b]
        first == Elect(Candidate(MyId, TWOWAY, s.oi[i].dr, s.oi[i].bdr))
        changed == \/ (first.dr = MyId) # (s.oi[i].dr = MyId)
                   \/ (first.bdr = MyId) # (s.oi[i].bdr = MyId)
    IN  IF changed THEN Elect(Candidate(MyId, TWOWAY, first.dr, first.bdr))
                   ELSE first

\* dr_election and the interface state change its callers make of its result:
\* when DR or BDR changed, AdjOK is scheduled for the neighbours in TWOWAY or
\* above.
dr_election(s, i) ==
    LET e == ElectedRouters(s, i)
        next == IF e.dr = MyId THEN DR ELSE IF e.bdr = MyId THEN BDR ELSE DROTHER
        change == s.oi[i].dr # e.dr \/ s.oi[i].bdr # e.bdr
        todo == {n \in NbrsOn(s, i) : s.nb[n].state >= TWOWAY}
    IN  [s EXCEPT !.ev = IF change THEN @ \o SetToSeq({[h |-> "adj_ok", x |-> n] : n \in todo})
                                   ELSE @,
                  !.oi[i] = [@ EXCEPT !.state = next, !.dr = e.dr, !.bdr = e.bdr]]

\* The interface comes up.  The hello thread is started by the controller
\* side once every interface is up; here it starts with the interface.
interface_up(s, i) ==
    IF s.oi[i].state > IDOWN THEN s
    ELSE IF i \notin Broadcast
         THEN [s EXCEPT !.oi[i] = [@ EXCEPT !.state = PTP, !.hello = "timer"]]
         ELSE [s EXCEPT !.oi[i] = [@ EXCEPT !.state = WAITING, !.wait = TRUE,
                                            !.hello = "timer"]]

wait_timer(s, i) ==
    LET s1 == [s EXCEPT !.oi[i].wait = FALSE]
    IN  IF s.oi[i].state = WAITING THEN dr_election(s1, i) ELSE s1

neighbor_change(s, i) ==
    IF s.oi[i].state \in {DROTHER, BDR, DR} THEN dr_election(s, i) ELSE s

-----------------------------------------------------------------------------
(* Neighbour events *)

\* ospf6_neighbor_state_change: entering or leaving FULL schedules the
\* router-LSA of the area and, on the designated router, the prefix LSA of the
\* link.
ospf6_neighbor_state_change(s, n, next) ==
    LET prev == s.nb[n].state
        s1 == [s EXCEPT !.nb[n].state = next]
        s2 == ScheduleOnce(s1, "router_lsa", "area")
    IN  IF prev = next \/ FULL \notin {prev, next} THEN s1
        ELSE IF s.oi[NbrIf[n]].state = DR
             THEN ScheduleOnce(s2, "intra_prefix_lsa", NbrIf[n]) ELSE s2

need_adjacency(s, n) ==
    LET oi == s.oi[NbrIf[n]]
    IN  oi.state \in {PTP, DR, BDR} \/ RouterId[n] \in {oi.dr, oi.bdr}

hello_received(s, n) ==
    LET s1 == [s EXCEPT !.nb[n].inact = "timer"]
    IN  IF s.nb[n].state <= NDOWN THEN ospf6_neighbor_state_change(s1, n, INIT)
                                  ELSE s1

\* The master, more and initial bits set and the first DbDesc scheduled.
StartExchange(s, n) ==
    ReplaceByEvent([s EXCEPT !.nb[n] = [@ EXCEPT !.i = TRUE, !.m = TRUE, !.ms = TRUE]],
                   n, "dd", "dbdesc_send")

\* Mutant: every hello that lists this router starts the exchange.
EveryHelloStarts(s, n) ==
    LET s1 == thread_add_event(s, "neighbor_change", NbrIf[n])
    IN  IF ~need_adjacency(s, n) THEN ospf6_neighbor_state_change(s1, n, TWOWAY)
        ELSE StartExchange(ospf6_neighbor_state_change(s1, n, EXSTART), n)

twoway_received(s, n) ==
    LET s1 == thread_add_event(s, "neighbor_change", NbrIf[n])
    IN  IF s.nb[n].state > INIT THEN s
        ELSE IF ~need_adjacency(s, n)
             THEN ospf6_neighbor_state_change(s1, n, TWOWAY)
             ELSE StartExchange(ospf6_neighbor_state_change(s1, n, EXSTART), n)

\* The link-local database of n's interface: the only one that is described
\* to a neighbour (area scope is not).
IfLsdb(s, n) == Restrict(s.db, {k \in DOMAIN s.db \cap LinkKeys : KeyIf[k] = NbrIf[n]})

negotiation_done(s, n) ==
    LET mine == IfLsdb(s, n)
        old == {k \in DOMAIN mine : IS_MAXAGE(mine[k])}
        s1 == [s EXCEPT !.nb[n] = [@ EXCEPT !.request = EmptyLsdb, !.i = FALSE,
                  !.retrans = Restrict(mine, old),
                  !.summary = Restrict(mine, DOMAIN mine \ old)]]
    IN  IF s.nb[n].state # EXSTART THEN s
        ELSE ospf6_neighbor_state_change(s1, n, EXCHANGE)

\* Mutant: what was asked for is not waited for.
FullAtOnce(s, n) ==
    IF s.nb[n].state # EXCHANGE THEN s
    ELSE ospf6_neighbor_state_change(THREAD_OFF(s, n, "dd"), n, FULL)

exchange_done(s, n) ==
    LET s1 == [THREAD_OFF(s, n, "dd") EXCEPT !.nb[n].dbdesc = EmptyLsdb]
    IN  IF s.nb[n].state # EXCHANGE THEN s
        ELSE ospf6_neighbor_state_change(s1, n,
                 IF s.nb[n].request = EmptyLsdb THEN FULL ELSE LOADING)

loading_done(s, n) ==
    IF s.nb[n].state # LOADING THEN s ELSE ospf6_neighbor_state_change(s, n, FULL)

\* Only the state moves: no bit is set and no DbDesc is scheduled.
adj_ok(s, n) ==
    IF s.nb[n].state = TWOWAY /\ need_adjacency(s, n)
    THEN ospf6_neighbor_state_change(s, n, EXSTART) ELSE s

\* seqnumber_mismatch and bad_lsreq do the same.
RestartExchange(s, n) ==
    LET s1 == [ospf6_neighbor_state_change(s, n, EXSTART) EXCEPT
                  !.nb[n] = [@ EXCEPT !.summary = EmptyLsdb, !.request = EmptyLsdb,
                                      !.retrans = EmptyLsdb]]
    IN  IF s.nb[n].state < EXCHANGE THEN s ELSE StartExchange(s1, n)

seqnumber_mismatch(s, n) == RestartExchange(s, n)

bad_lsreq(s, n) == RestartExchange(s, n)

oneway_received(s, n) ==
    IF s.nb[n].state < TWOWAY THEN s
    ELSE thread_add_event(ospf6_neighbor_state_change(s, n, INIT),
                          "neighbor_change", NbrIf[n])

\* ospf6_neighbor_delete: the five threads it has pointers to are cancelled.
ospf6_neighbor_delete(s, n) ==
    LET s1 == THREAD_OFF(THREAD_OFF(THREAD_OFF(THREAD_OFF(s,
                  n, "dd"), n, "lsreq"), n, "upd"), n, "ack")
    IN  [s1 EXCEPT !.nb[n] = NoNbr]

inactivity_timer(s, n) ==
    ospf6_neighbor_delete(
        thread_add_event(ospf6_neighbor_state_change(s, n, NDOWN),
                         "neighbor_change", NbrIf[n]), n)

-----------------------------------------------------------------------------
(* Flooding *)

\* ospf6_flood_interface.  The counter that step (2) tests is never
\* initialised: whether the flooding goes on after it is the choice go.  The
\* list that a broadcast interface gets is never read
\* (ospf6_lsupdate_send_interface is empty), so it is left out.
ospf6_flood_interface(s, from, k, lsa, i, go) ==
    LET asked(n) == s.nb[n].state # FULL /\ InLsdb(k, s.nb[n].request)
        cmp(n) == ospf6_lsa_compare(lsa, s.nb[n].request[k])
        visit == {n \in NbrsOn(s, i) : s.nb[n].state >= EXCHANGE}
        answered == {n \in visit : asked(n) /\ cmp(n) <= 0}
        added == {n \in visit \ {from} : asked(n) => cmp(n) < 0}
        s1 == [s EXCEPT !.nb = [n \in Nbrs |-> [s.nb[n] EXCEPT
                  !.request = IF n \in answered THEN ospf6_lsdb_remove(k, @) ELSE @,
                  !.retrans = IF n \in added THEN ospf6_lsdb_add(k, lsa, @) ELSE @,
                  !.upd = IF n \in added /\ @ = "off" THEN "timer" ELSE @]]]
        back == /\ from \in NbrsOn(s, i)
                /\ \/ RouterId[from] \in {s.oi[i].dr, s.oi[i].bdr}
                   \/ s.oi[i].state = BDR
    IN  IF go /\ ~back /\ i \notin Broadcast
        THEN FoldLeft(LAMBDA st, n : ReplaceByEvent(st, n, "upd", "lsupdate_send"),
                      s1, SetToSeq(NbrsOn(s, i)))
        ELSE s1

\* Mutant: an LSA is flooded on the interface it came in on only.
SameInterface(s, from, k, lsa, go) ==
    IF from \notin Nbrs THEN s ELSE ospf6_flood_interface(s, from, k, lsa, NbrIf[from], go)

\* ospf6_flood, _process and _area: a link-local LSA stays on its interface.
ospf6_flood(s, from, k, lsa, go) ==
    LET scope == IF k \in LinkKeys THEN {KeyIf[k]} ELSE Ifs
    IN  FoldLeft(LAMBDA st, i : ospf6_flood_interface(st, from, k, lsa, i, go),
                 s, SetToSeq(scope))

ospf6_install_lsa(s, k, lsa) ==
    [s EXCEPT !.db = ospf6_lsdb_add(k, lsa, @), !.new = @ \cup {k}]

DelayedAck(s, n, k, lsa) ==
    [s EXCEPT !.oi[NbrIf[n]] = [@ EXCEPT !.lsack = ospf6_lsdb_add(k, lsa, @),
                                         !.ack = IF @ = "off" THEN "timer" ELSE @]]

DirectAck(s, n, k, lsa) ==
    EventIfNull([s EXCEPT !.nb[n].lsack = ospf6_lsdb_add(k, lsa, @)],
                n, "ack", "lsack_send")

\* ospf6_acknowledge_lsa.  The flag OSPF6_LSA_FLOODBACK is never set.
ospf6_acknowledge_lsa(s, n, k, lsa, newer, implied) ==
    LET oi == s.oi[NbrIf[n]]
        toDelay == IF oi.state = BDR
                   THEN (newer \/ implied) /\ oi.dr = RouterId[n]
                   ELSE newer
    IN  IF toDelay THEN DelayedAck(s, n, k, lsa)
        ELSE IF newer \/ implied THEN s ELSE DirectAck(s, n, k, lsa)

\* ospf6_is_maxage_lsa_drop falls off its end for an unknown MaxAge LSA: what
\* it then returns is the choice drop.
ospf6_is_maxage_lsa_drop(s, k, lsa, drop) ==
    IS_MAXAGE(lsa) /\ ~InLsdb(k, s.db) /\ drop

\* Step (5): flooded, unless it is an LSA of this router, installed and acknowledged.
ReceiveNewer(s, n, k, lsa, go) ==
    LET flooded == IF k \in SelfKeys THEN s ELSE ospf6_flood(s, n, k, lsa, go)
    IN  ospf6_acknowledge_lsa(ospf6_install_lsa(flooded, k, lsa), n, k, lsa, TRUE, FALSE)

\* Step (7): an instance that awaits an acknowledgement from n is acknowledged by this.
ReceiveSame(s, n, k, lsa) ==
    LET implied == InLsdb(k, s.nb[n].retrans)
        acked == [s EXCEPT !.nb[n].retrans = ospf6_lsdb_remove(k, @)]
    IN  ospf6_acknowledge_lsa(acked, n, k, lsa, FALSE, implied)

\* Step (8): the database copy is sent back, unless its sequence number is wrapping.
ReceiveOlder(s, n, k) ==
    LET old == s.db[k]
        sendOld == [s EXCEPT !.nb[n].lsupdate = ospf6_lsdb_add(k, old, @)]
    IN  IF IS_MAXAGE(old) /\ old.seq = MAX_SEQUENCE_NUMBER THEN s
        ELSE EventIfNull(sendOld, n, "upd", "lsupdate_send")

\* ospf6_receive_lsa for an LSA with a valid checksum.  MIN_LS_ARRIVAL holds a newer
\* instance back; an older or equal one that was asked for is a bad request.
ospf6_receive_lsa(s, n, k, lsa, go, drop) ==
    LET known == InLsdb(k, s.db)
        newer == ~known \/ ospf6_lsa_compare(lsa, s.db[k]) < 0
    IN  IF ospf6_is_maxage_lsa_drop(s, k, lsa, drop) THEN s
        ELSE IF newer
             THEN IF known /\ k \in s.new THEN s ELSE ReceiveNewer(s, n, k, lsa, go)
        ELSE IF InLsdb(k, s.nb[n].request) THEN thread_add_event(s, "bad_lsreq", n)
        ELSE IF ospf6_lsa_compare(lsa, s.db[k]) = 0 THEN ReceiveSame(s, n, k, lsa)
        ELSE ReceiveOlder(s, n, k)

\* ospf6_lsa_originate: an unchanged LSA is suppressed, otherwise it is
\* flooded to every neighbour and installed.
ospf6_lsa_originate(s, k, body, go) ==
    LET lsa == [seq |-> ospf6_new_ls_seqnum(k, s.db), ck |-> body, age |-> 0]
    IN  IF InLsdb(k, s.db) /\ ~ospf6_lsa_is_differ(lsa, s.db[k]) THEN s
        ELSE ospf6_install_lsa(ospf6_flood(s, "none", k, lsa, go), k, lsa)

\* ospf6_lsa_purge: the database copy is aged in place and not flooded.
ospf6_lsa_purge(s, k) == [s EXCEPT !.db[k].age = MAXAGE]

\* The links of the router-LSA: one per FULL neighbour of a point-to-point
\* interface, one for a broadcast interface whose DR is this router or FULL.
RouterLinks(s) ==
    LET Fulls(i) == {n \in NbrsOn(s, i) : s.nb[n].state = FULL}
        Up == {i \in Ifs : s.oi[i].state # IDOWN /\ Fulls(i) # {}}
        Transit(i) == \/ s.oi[i].state = DR
                      \/ \E n \in Fulls(i) : RouterId[n] = s.oi[i].dr
    IN  UNION {Fulls(i) : i \in Up \ Broadcast} \cup {i \in Up \cap Broadcast : Transit(i)}

\* The body of a router-LSA is told by its number of links.
ospf6_router_lsa_originate(s, go) ==
    LET links == Cardinality(RouterLinks(s))
        rk == CHOOSE k \in RouterKeys : TRUE
    IN  IF RouterKeys = {} THEN s
        ELSE IF links > 0 THEN ospf6_lsa_originate(s, rk, links - 1, go)
        ELSE IF InLsdb(rk, s.db) THEN ospf6_lsa_purge(s, rk) ELSE s

-----------------------------------------------------------------------------
(* Packets sent *)

Aged0(lsdb) == [k \in DOMAIN lsdb |-> [lsdb[k] EXCEPT !.age = 0]]

\* ospf6_hello_send: the neighbours heard of; DR and BDR are sent as zero.
ospf6_hello_send(s, i) ==
    Send([s EXCEPT !.oi[i].hello = "timer"], i,
         [t |-> "hello", heard |-> {n \in NbrsOn(s, i) : s.nb[n].state >= INIT}])

\* ospf6_dbdesc_send.  As master the timer is set again; with the initial bit
\* the sequence number becomes the clock, here -1.
ospf6_dbdesc_send(s, n) ==
    LET on == s.nb[n]
        seq == IF on.i THEN -1 ELSE on.seq
        s1 == [s EXCEPT !.nb[n] = [@ EXCEPT !.dd = IF on.ms THEN "timer" ELSE "off",
                                            !.seq = seq]]
    IN  IF on.state < EXSTART THEN [s EXCEPT !.nb[n].dd = "off"]
        ELSE Send(s1, n, [t |-> "dd", i |-> on.i, m |-> on.m, ms |-> on.ms, seq |-> seq,
                          hdrs |-> IF on.i THEN EmptyLsdb ELSE Aged0(on.dbdesc)])

ospf6_dbdesc_send_newone(s, n) ==
    LET on == s.nb[n]
        now == FirstFit(on.summary, PerPacket)
        rest == Restrict(on.summary, DOMAIN on.summary \ DOMAIN now)
        m == on.m /\ rest # EmptyLsdb
        s1 == [s EXCEPT !.nb[n] = [@ EXCEPT !.dbdesc = now, !.summary = rest, !.m = m]]
        s2 == IF ~on.ms /\ ~on.last.m /\ ~m THEN thread_add_event(s1, "exchange_done", n)
                                            ELSE s1
    IN  ospf6_dbdesc_send(s2, n)

\* Mutant: a request is not repeated.
RequestOnce(s, n) ==
    LET s1 == [s EXCEPT !.nb[n].lsreq = "off"]
    IN  IF s.nb[n].state \notin {EXCHANGE, LOADING} THEN s1
        ELSE IF s.nb[n].request = EmptyLsdb THEN thread_add_event(s1, "loading_done", n)
        ELSE Send(s1, n, [t |-> "lsreq", ks |-> DOMAIN FirstFit(s.nb[n].request, PerPacket)])

ospf6_lsreq_send(s, n) ==
    LET s1 == [s EXCEPT !.nb[n].lsreq = "off"]
    IN  IF s.nb[n].state \notin {EXCHANGE, LOADING} THEN s1
        ELSE IF s.nb[n].request = EmptyLsdb THEN thread_add_event(s1, "loading_done", n)
        ELSE Send([s EXCEPT !.nb[n].lsreq = "timer"], n,
                  [t |-> "lsreq", ks |-> DOMAIN FirstFit(s.nb[n].request, PerPacket)])

\* ospf6_lsupdate_send_neighbor: what was asked for leaves with age 0 and is
\* removed; what is to be acknowledged is sent again after rxmt_interval.
ospf6_lsupdate_send_neighbor(s, n) ==
    LET on == s.nb[n]
        now == FirstFit(on.lsupdate, PerPacket)
        rest == Restrict(on.lsupdate, DOMAIN on.lsupdate \ DOMAIN now)
        again == FirstFit(on.retrans, PerPacket - Cardinality(DOMAIN now))
        s1 == [s EXCEPT !.nb[n] = [@ EXCEPT !.upd = "off", !.lsupdate = rest]]
        s2 == Send(s1, n, [t |-> "lsu", lsas |-> Aged0(now) @@ again])
    IN  IF on.state < EXCHANGE \/ (on.lsupdate = EmptyLsdb /\ on.retrans = EmptyLsdb)
        THEN [s EXCEPT !.nb[n].upd = "off"]
        ELSE IF rest # EmptyLsdb THEN ReplaceByEvent(s2, n, "upd", "lsupdate_send")
        ELSE IF on.retrans # EmptyLsdb THEN [s2 EXCEPT !.nb[n].upd = "timer"] ELSE s2

ospf6_lsack_send_neighbor(s, n) ==
    LET on == s.nb[n]
        now == FirstFit(on.lsack, PerPacket)
        rest == Restrict(on.lsack, DOMAIN on.lsack \ DOMAIN now)
        s1 == [s EXCEPT !.nb[n] = [@ EXCEPT !.ack = "off", !.lsack = rest]]
        s2 == Send(s1, n, [t |-> "lsack", lsas |-> now])
    IN  IF on.state < EXCHANGE \/ on.lsack = EmptyLsdb
        THEN [s EXCEPT !.nb[n].ack = "off"]
        ELSE IF rest # EmptyLsdb THEN ReplaceByEvent(s2, n, "ack", "lsack_send") ELSE s2

\* Mutant: what does not fit in the packet is not scheduled again.
RestForgotten(s, i) ==
    LET now == FirstFit(s.oi[i].lsack, PerPacket)
    IN  [s EXCEPT !.oi[i] = [@ EXCEPT !.ack = "off",
            !.lsack = Restrict(@, DOMAIN @ \ DOMAIN now)]]

ospf6_lsack_send_interface(s, i) ==
    LET oi == s.oi[i]
        now == FirstFit(oi.lsack, PerPacket)
        rest == Restrict(oi.lsack, DOMAIN oi.lsack \ DOMAIN now)
        s1 == [s EXCEPT !.oi[i] = [@ EXCEPT !.ack = "off", !.lsack = rest]]
        s2 == Send(s1, i, [t |-> "lsack", lsas |-> now])
    IN  IF oi.state <= WAITING \/ oi.lsack = EmptyLsdb
        THEN [s EXCEPT !.oi[i].ack = "off"]
        ELSE IF rest # EmptyLsdb
        THEN thread_add_event([s2 EXCEPT !.oi[i].ack = "event"], "lsack_send_interface", i)
        ELSE s2

-----------------------------------------------------------------------------
(* Packets received *)

\* ospf6_hello_recv: m.two says whether this router is listed.
ospf6_hello_recv(s, n, m) ==
    LET on == IF s.nb[n].state = NONE
              THEN [ospf6_neighbor_create EXCEPT !.dr = m.dr, !.bdr = m.bdr]
              ELSE s.nb[n]
        id == RouterId[n]
        change == \/ on.dr # m.dr /\ id \in {on.dr, m.dr}
                  \/ on.bdr # m.bdr /\ id \in {on.bdr, m.bdr}
        s1 == [s EXCEPT !.nb[n] = [on EXCEPT !.dr = m.dr, !.bdr = m.bdr]]
        s2 == hello_received(s1, n)
        s3 == IF m.two THEN twoway_received(s2, n) ELSE oneway_received(s2, n)
    IN  IF change THEN thread_add_event(s3, "neighbor_change", NbrIf[n]) ELSE s3

\* The headers of a DbDesc that are put on the request list.  An area-scope
\* header is looked up in no database and always requested.
Wanted(s, n, hdrs) ==
    {k \in DOMAIN hdrs : \/ k \notin LinkKeys
                         \/ ~InLsdb(k, IfLsdb(s, n))
                         \/ ospf6_lsa_compare(hdrs[k], s.db[k]) < 0}

\* The common tail of ospf6_dbdesc_recv_slave: headers, LSReq, the answer.
SlaveAccepts(s, n, m) ==
    LET ask == Restrict(m.hdrs, Wanted(s, n, m.hdrs))
        s1 == [s EXCEPT !.nb[n] = [@ EXCEPT !.request = ask @@ @, !.seq = m.seq]]
        s2 == EventIfNull(s1, n, "lsreq", "lsreq_send")
        s3 == ReplaceByEvent(s2, n, "dd", "dbdesc_send_newone")
    IN  [s3 EXCEPT !.nb[n].last = [i |-> m.i, m |-> m.m, ms |-> m.ms, seq |-> m.seq]]

\* EXSTART: the initial DbDesc of the master makes this router the slave.
SlaveNegotiates(s, n, m) ==
    IF m.i /\ m.m /\ m.ms /\ m.hdrs = EmptyLsdb
    THEN SlaveAccepts(negotiation_done([s EXCEPT !.nb[n] = [@ EXCEPT
                          !.ms = FALSE, !.seq = m.seq]], n), n, m)
    ELSE s

ospf6_dbdesc_recv_slave(s, n, m) ==
    LET on == s.nb[n]
        duplicate == on.last = [i |-> m.i, m |-> m.m, ms |-> m.ms, seq |-> m.seq]
        s1 == twoway_received(s, n)
        next == m.ms /\ ~m.i /\ m.seq = (on.seq + 1) % DdSeqMod
    IN  CASE on.state \in {NDOWN, TWOWAY} -> s
          [] on.state = INIT ->
                 IF s1.nb[n].state = EXSTART THEN SlaveNegotiates(s1, n, m) ELSE s1
          [] on.state = EXSTART -> SlaveNegotiates(s, n, m)
          [] on.state >= EXCHANGE /\ duplicate -> ReplaceByEvent(s, n, "dd", "dbdesc_send")
          [] on.state >= EXCHANGE /\ ~duplicate ->
                 IF on.state = EXCHANGE /\ next THEN SlaveAccepts(s, n, m)
                 ELSE thread_add_event(s, "seqnumber_mismatch", n)

\* ospf6_dbdesc_recv: from a router with a smaller id nothing is done
\* (ospf6_dbdesc_recv_master is empty).
ospf6_dbdesc_recv(s, n, m) ==
    IF s.nb[n].state # NONE /\ RouterId[n] > MyId THEN ospf6_dbdesc_recv_slave(s, n, m)
    ELSE s

\* ospf6_lsreq_recv: m.ks is the sequence of keys asked for.  The first one
\* that is not in the interface's database ends it with BadLSReq.
ospf6_lsreq_recv(s, n, m) ==
    LET mine == IfLsdb(s, n)
        bad == {j \in DOMAIN m.ks : m.ks[j] \notin DOMAIN mine}
        good == {m.ks[j] : j \in {x \in DOMAIN m.ks : \A y \in bad : x < y}}
        s1 == [s EXCEPT !.nb[n].lsupdate = Restrict(mine, good) @@ @]
    IN  IF s.nb[n].state = NONE THEN s
        ELSE IF bad # {} THEN thread_add_event(s1, "bad_lsreq", n)
        ELSE ReplaceByEvent(s1, n, "upd", "lsupdate_send")

\* ospf6_lsupdate_recv for an update that carries one LSA.
ospf6_lsupdate_recv(s, n, m, go, drop) ==
    LET s1 == ospf6_receive_lsa(s, n, m.k, m.lsa, go, drop)
    IN  IF s.nb[n].state < EXCHANGE THEN s
        ELSE IF s.nb[n].state \in {EXCHANGE, LOADING}
             THEN ReplaceByEvent(s1, n, "lsreq", "lsreq_send") ELSE s1

\* ospf6_receive: a link state acknowledgement is ignored.
ospf6_receive(s, n, m, go, drop) ==
    CASE m.t = "hello" -> ospf6_hello_recv(s, n, m)
      [] m.t = "dd" -> ospf6_dbdesc_recv(s, n, m)
      [] m.t = "lsreq" -> ospf6_lsreq_recv(s, n, m)
      [] m.t = "lsu" -> ospf6_lsupdate_recv(s, n, m, go, drop)
      [] m.t = "lsack" -> s

-----------------------------------------------------------------------------
(* The main loop: thread_fetch hands out every queued event before it looks  *)
(* at timers and descriptors.                                                *)

Handle(s, e, go) ==
    CASE e.h = "interface_up" -> interface_up(s, e.x)
      [] e.h = "neighbor_change" -> neighbor_change(s, e.x)
      [] e.h = "lsack_send_interface" -> ospf6_lsack_send_interface(s, e.x)
      [] e.h = "adj_ok" -> adj_ok(s, e.x)
      [] e.h = "exchange_done" -> exchange_done(s, e.x)
      [] e.h = "loading_done" -> loading_done(s, e.x)
      [] e.h = "seqnumber_mismatch" -> seqnumber_mismatch(s, e.x)
      [] e.h = "bad_lsreq" -> bad_lsreq(s, e.x)
      [] e.h = "dbdesc_send" -> ospf6_dbdesc_send(s, e.x)
      [] e.h = "dbdesc_send_newone" -> ospf6_dbdesc_send_newone(s, e.x)
      [] e.h = "lsreq_send" -> ospf6_lsreq_send(s, e.x)
      [] e.h = "lsupdate_send" -> ospf6_lsupdate_send_neighbor(s, e.x)
      [] e.h = "lsack_send" -> ospf6_lsack_send_neighbor(s, e.x)
      [] e.h = "router_lsa" -> ospf6_router_lsa_originate(s, go)
      [] e.h = "intra_prefix_lsa" -> s

RunEvent(s, go) == Handle([s EXCEPT !.ev = Tail(@), !.out = <<>>], Head(s.ev), go)

\* A timer of neighbour n expires.
RunTimer(s, n, p) ==
    LET s1 == [s EXCEPT !.out = <<>>]
    IN  CASE p = "inact" -> inactivity_timer(s1, n)
          [] p = "dd" -> ospf6_dbdesc_send(s1, n)
          [] p = "lsreq" -> ospf6_lsreq_send(s1, n)
          [] p = "upd" -> ospf6_lsupdate_send_neighbor(s1, n)

\* The events that name a neighbour structure.
NbrEvents(s, n) == {j \in DOMAIN s.ev : s.ev[j].x = n}
=============================================================================
