----------------------------- MODULE Ospf6Flood -----------------------------
(***************************************************************************)
(* The flooding procedure of a sibling with several neighbours, on         *)
(* point-to-point and on broadcast interfaces.  Every neighbour may send   *)
(* any instance of any LSA at any time, in any order, again and again, and *)
(* may start the database exchange again; timers run late or early; time   *)
(* passes.                                                                 *)
(***************************************************************************)
EXTENDS Ospf6Proc

CONSTANTS
    Loaders,    \* neighbours that are still LOADING at the start
    Asked,      \* the key the loaders were asked for
    DbKeys,     \* keys in the database at the start, known to everyone
    Received,   \* the instances received
    MaxRecv,    \* bound on the updates received
    MaxDds,     \* bound on the DbDesc packets received
    MaxTicks    \* bound on the units of age that pass

ASSUME FloodAssumption ==
    /\ Loaders \subseteq Nbrs /\ DbKeys \subseteq Keys /\ Asked \in Keys
    /\ Received \subseteq Lsas /\ {MaxRecv, MaxDds, MaxTicks} \subseteq Nat

VARIABLES
    sib,     \* the sibling's process state
    knows,   \* history: the most recent instance each neighbour has sent
    began,   \* history: the database when the last exchange with each neighbour began
    recvs,   \* updates received so far
    dds,     \* DbDesc packets received so far
    ticks    \* units of age passed so far

vars == <<sib, knows, began, recvs, dds, ticks>>

First == [seq |-> 1, ck |-> 0, age |-> 0]

\* A neighbour that is full, loading, or in the exchange's start with its first DbDesc sent.
StartNbr(st) ==
    CASE st = FULL    -> [ospf6_neighbor_create EXCEPT !.state = FULL, !.inact = "timer"]
      [] st = LOADING -> [ospf6_neighbor_create EXCEPT !.state = LOADING, !.lsreq = "timer",
                              !.request = Asked :> [First EXCEPT !.seq = 2], !.inact = "timer"]
      [] st = EXSTART -> [ospf6_neighbor_create EXCEPT !.state = EXSTART, !.dd = "timer",
                              !.i = TRUE, !.m = TRUE, !.ms = TRUE, !.seq = -1, !.inact = "timer"]

\* The least neighbour of a broadcast interface is its designated router, and
\* the sibling is the backup or neither.
StartIf(i, st) ==
    LET dr == {RouterId[n] : n \in {m \in Nbrs : NbrIf[m] = i}}
    IN  IF i \notin Broadcast THEN [ospf6_interface_create EXCEPT !.state = PTP]
        ELSE [ospf6_interface_create EXCEPT !.state = st,
                  !.dr = CHOOSE d \in dr : \A e \in dr : d <= e,
                  !.bdr = IF st = BDR THEN MyId ELSE 0]

\* The neighbours in given states, a database, and packets and time taken as used up.
InitWith(start, db, r, d, t) ==
    /\ \E st \in {BDR, DROTHER} :
          sib = [nb |-> [n \in Nbrs |-> StartNbr(start[n])],
                 oi |-> [i \in Ifs |-> StartIf(i, st)],
                 ev |-> <<>>, db |-> db, new |-> {}, out |-> <<>>]
    /\ knows = [n \in Nbrs |-> IF start[n] = LOADING
                    THEN (Asked :> [First EXCEPT !.seq = 2]) @@ [k \in DbKeys |-> First]
                    ELSE [k \in DbKeys |-> First]]
    /\ began = [n \in Nbrs |-> EmptyLsdb]
    /\ recvs = r /\ dds = d /\ ticks = t

StartDb == [k \in DbKeys |-> First]

Init == InitWith([n \in Nbrs |-> IF n \in Loaders THEN LOADING ELSE FULL], StartDb, 0, 0, 0)

\* The sibling's next process state, what it sent left out.
Becomes(s) == sib' = [s EXCEPT !.out = <<>>]

RunEvents ==
    /\ sib.ev # <<>>
    /\ \E go \in BOOLEAN : Becomes(RunEvent(sib, go))
    /\ UNCHANGED <<knows, began, recvs, dds, ticks>>

Idle == sib.ev = <<>>

Newest(k, lsa, known) ==
    IF InLsdb(k, known) /\ ospf6_lsa_compare(lsa, known[k]) > 0 THEN known
    ELSE ospf6_lsdb_add(k, lsa, known)

Receive(n, k, lsa) ==
    /\ Idle /\ recvs < MaxRecv /\ sib.nb[n].state >= EXCHANGE
    /\ k \in LinkKeys => KeyIf[k] = NbrIf[n]
    /\ \E go, drop \in BOOLEAN :
          Becomes(ospf6_receive(sib, n, [t |-> "lsu", k |-> k, lsa |-> lsa], go, drop))
    /\ knows' = [knows EXCEPT ![n] = Newest(k, lsa, @)]
    /\ recvs' = recvs + 1
    /\ UNCHANGED <<began, dds, ticks>>

\* The first and the last packet of an exchange in which n describes nothing.
FirstDd == [t |-> "dd", i |-> TRUE, m |-> TRUE, ms |-> TRUE, seq |-> 0, hdrs |-> EmptyLsdb]

LastDd == [FirstDd EXCEPT !.i = FALSE, !.m = FALSE, !.seq = 1]

ReceiveDd(n, m) ==
    /\ Idle /\ dds < MaxDds
    /\ Becomes(ospf6_receive(sib, n, m, FALSE, FALSE))
    /\ began' = IF sib.nb[n].state = EXSTART /\ sib'.nb[n].state = EXCHANGE
                THEN [began EXCEPT ![n] = sib.db] ELSE began
    /\ dds' = dds + 1
    /\ UNCHANGED <<knows, recvs, ticks>>

Timer(n, p) ==
    /\ Idle /\ sib.nb[n][p] = "timer"
    /\ Becomes(RunTimer(sib, n, p))
    /\ UNCHANGED <<knows, began, recvs, dds, ticks>>

AckTimer(i) ==
    /\ Idle /\ sib.oi[i].ack = "timer"
    /\ Becomes(ospf6_lsack_send_interface(sib, i))
    /\ UNCHANGED <<knows, began, recvs, dds, ticks>>

\* A second passes.
Second ==
    /\ Idle /\ sib.new # {}
    /\ sib' = [sib EXCEPT !.new = {}]
    /\ UNCHANGED <<knows, began, recvs, dds, ticks>>

AgeAll(lsdb) == [k \in DOMAIN lsdb |-> ospf6_lsa_age_current(lsdb[k])]

\* Every instance gets older by a unit, wherever it is kept.
Tick ==
    /\ Idle /\ ticks < MaxTicks
    /\ ticks' = ticks + 1
    /\ sib' = [sib EXCEPT
           !.db = AgeAll(@), !.new = {},
           !.nb = [n \in Nbrs |-> [sib.nb[n] EXCEPT !.request = AgeAll(@),
                       !.retrans = AgeAll(@), !.lsupdate = AgeAll(@), !.lsack = AgeAll(@)]],
           !.oi = [i \in Ifs |-> [sib.oi[i] EXCEPT !.lsack = AgeAll(@)]]]
    /\ knows' = [n \in Nbrs |-> AgeAll(knows[n])]
    /\ UNCHANGED <<began, recvs, dds>>

Next ==
    \/ RunEvents
    \/ \E n \in Nbrs, k \in Keys, lsa \in Received : Receive(n, k, lsa)
    \/ \E n \in Nbrs, m \in {FirstDd, LastDd} : ReceiveDd(n, m)
    \/ \E n \in Nbrs, p \in {"dd", "upd", "lsreq"} : Timer(n, p)
    \/ \E i \in Ifs : AckTimer(i)
    \/ Second
    \/ Tick

Spec == Init /\ [][Next]_vars

-----------------------------------------------------------------------------
(* Properties *)

\* Type invariant of the process state and of the histories.
TypeOK ==
    /\ \A n \in Nbrs :
          /\ sib.nb[n].state \in {EXSTART, EXCHANGE, LOADING, FULL}
          /\ \A f \in {"request", "retrans", "lsupdate", "lsack"} : sib.nb[n][f] \in Lsdbs
          /\ knows[n] \in Lsdbs /\ began[n] \in Lsdbs
    /\ \A i \in Ifs : sib.oi[i].lsack \in Lsdbs
    /\ sib.db \in Lsdbs /\ sib.new \subseteq DOMAIN sib.db
    /\ recvs \in 0 .. MaxRecv /\ dds \in 0 .. MaxDds /\ ticks \in 0 .. MaxTicks

InScope(n, k) == k \in AreaKeys \/ KeyIf[k] = NbrIf[n]

\* Flooding leaves nobody out: what another router's LSA became in the
\* database is on the retransmission list of every full neighbour in its
\* scope, unless that neighbour has itself sent that sequence number or a
\* later one, or the exchange with it began when it was there already: it
\* was then for the exchange to describe (negotiation_done, which leaves out
\* area scope, "no area implemented yet").
FloodedToAll ==
    \A n \in Nbrs, k \in DOMAIN sib.db \ SelfKeys :
        (sib.nb[n].state = FULL /\ InScope(n, k)) =>
            \/ InLsdb(k, knows[n]) /\ knows[n][k].seq >= sib.db[k].seq
            \/ InLsdb(k, began[n]) /\ began[n][k].seq = sib.db[k].seq
            \/ /\ InLsdb(k, sib.nb[n].retrans)
               /\ sib.nb[n].retrans[k].seq = sib.db[k].seq
               /\ sib.nb[n].retrans[k].ck = sib.db[k].ck

\* The instance of k on n's retransmission list is one that negotiation_done put there:
\* it was at MaxAge in the database when the exchange began.
Negotiated(n, k) ==
    /\ InLsdb(k, began[n]) /\ IS_MAXAGE(began[n][k])
    /\ began[n][k].seq = sib.nb[n].retrans[k].seq /\ began[n][k].ck = sib.nb[n].retrans[k].ck

\* What is queued is going to be sent: no path of the flooding procedure that adds to a
\* retransmission list or a list of delayed acknowledgements, or sends a part of one,
\* forgets to schedule the next sending, and the only LSAs that wait on a retransmission
\* list with nothing scheduled are those negotiation_done put there, which schedules
\* nothing.
QueuedIsDriven ==
    /\ \A n \in Nbrs : sib.nb[n].state >= EXCHANGE =>
          /\ \/ sib.nb[n].upd # "off"
             \/ \A k \in DOMAIN sib.nb[n].retrans : Negotiated(n, k)
          /\ sib.nb[n].lsack # EmptyLsdb => sib.nb[n].ack # "off"
    /\ \A i \in Ifs : sib.oi[i].lsack # EmptyLsdb => sib.oi[i].ack # "off"

AsRecent(a, b) == a.seq > b.seq \/ (a.seq = b.seq /\ a.ck >= b.ck)

\* The database never goes back: a copy is replaced by one with a later
\* sequence number, or the same and a checksum at least as large, in whatever
\* order instances arrive.  The one exception is the router's own LSA at
\* MAX_SEQUENCE_NUMBER, which ospf6_new_ls_seqnum follows by the lowest number.
DatabaseNeverOlder ==
    [][\A k \in DOMAIN sib.db :
          /\ InLsdb(k, sib'.db)
          /\ \/ AsRecent(sib'.db[k], sib.db[k])
             \/ k \in SelfKeys /\ sib.db[k].seq = MAX_SEQUENCE_NUMBER]_vars
=============================================================================
