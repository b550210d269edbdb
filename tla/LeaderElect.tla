---------------------------- MODULE LeaderElect ----------------------------
(***************************************************************************)
(* Leader election among the OSPFv3 siblings: ospf6_replica.c, driven by   *)
(* the state machines of SiblingCtrl.  Each process keeps a list of        *)
(* records of the others, filled from the SIS-IS addresses it sees and     *)
(* from the ids the others send over UDP.                                  *)
(*                                                                         *)
(* A process is known by its address <<p, k>>: sibling p (its configured   *)
(* id) after its k-th restart.  The controller is reduced to what the      *)
(* election needs: it asks for an election whenever all siblings are in    *)
(* SIB_ROUTING, and it remembers the last sibling that said it leads.      *)
(***************************************************************************)
EXTENDS SiblingCtrl, Sequences, FiniteSets

CONSTANTS
  NumSibs,      \* OSPF6_NUM_SIBS, and num_sibs_conf of the controller
  MaxCrashes,   \* bound: processes killed or terminated
  Crashers,     \* siblings that may be killed or terminated
  Ties,         \* two processes may start in the same hundredth of a second
  MaxLost,      \* bound: ids that UDP loses
  Debug         \* "debug ospf6 replica" is configured

ASSUME ElectAssumption ==
  /\ NumSibs \in Nat \ {0}
  /\ MaxCrashes \in Nat
  /\ Ties \in BOOLEAN
  /\ MaxLost \in Nat
  /\ Debug \in BOOLEAN

Sibs == 1..NumSibs
Addrs == Sibs \X (0..MaxCrashes)
NoSib == 0
conn == {"controller"}

VARIABLES
  inc,       \* restarts of each sibling so far
  life,      \* "down", "up" or "routing" (in SIB_ROUTING at the controller)
  table,     \* external: addresses registered with SIS-IS
  stamp,     \* external: the start time in an address
  clock,
  gone,      \* removed routes the monitor thread of a process has yet to report
  proc,      \* the state machines of SiblingCtrl
  list,      \* replicas: the order of the records
  rec,       \* the records
  leader,    \* own_replica->leader
  elect,     \* LEADER_ELECT messages to read
  ids,       \* REPLICA_EX messages on the way
  round,     \* elections a process has held, to tell its messages apart
  told,      \* REDISTRIBUTE_LEADER_ELECT messages on the way
  boss,      \* leader_sibling of the controller
  crashes,
  lost

vars == <<inc, life, table, stamp, clock, gone, proc, list, rec, leader, elect, ids, round,
          told, boss, crashes, lost>>

Records == [valid : BOOLEAN, id_valid : BOOLEAN, leader : BOOLEAN, id : Sibs \cup {NoSib}]
addr(p) == <<p, inc[p]>>
Running(p) == life[p] # "down"
In(l) == {l[i] : i \in 1..Len(l)}

\* ospf6_create_replica
NewRecord == [valid |-> TRUE, id_valid |-> FALSE, leader |-> FALSE, id |-> NoSib]

\* The routes of the kernel table come in no particular order.
Orders(S) == {l \in [1..Cardinality(S) -> S] : In(l) = S}

\* Just after ospf6_replicas_init of a process that has its interface up: the
\* features reply, which brings it up, precedes any LEADER_ELECT on the connection.
UpProc(restart) ==
  InterfaceUp([NewProc(conn, restart) EXCEPT !.ctrl["controller"] = "CTRL_RCVD_HELLO"], "controller")

\* Before the first process is started.
Booted ==
  /\ inc = [p \in Sibs |-> 0]
  /\ life = [p \in Sibs |-> "down"]
  /\ table = {}
  /\ stamp = [a \in Addrs |-> 0]
  /\ clock = 0
  /\ gone = [p \in Sibs |-> {}]
  /\ proc = [p \in Sibs |-> UpProc(FALSE)]
  /\ list = [p \in Sibs |-> <<>>]
  /\ rec = [p \in Sibs |-> [a \in Addrs |-> NewRecord]]
  /\ leader = [p \in Sibs |-> FALSE]
  /\ elect = [p \in Sibs |-> 0]
  /\ ids = {}
  /\ round = [p \in Sibs |-> 0]
  /\ told = [p \in Sibs |-> <<>>]
  /\ boss = NoSib

Init == Booted /\ crashes = 0 /\ lost = 0

-----------------------------------------------------------------------------
(***************************************************************************)
(* The list of records                                                     *)
(***************************************************************************)

\* find_replica_from_addr drops the invalid records it passes on its way to the
\* record of a, or all of them if there is none.  It reads the link of a record after
\* it has freed it; the link lies behind what free(3) writes over, and no other thread
\* is given memory that this one freed, so that it is still there.
Found(p, a) == \E i \in 1..Len(list[p]) : list[p][i] = a /\ rec[p][a].valid

Position(p, a) == CHOOSE i \in 1..Len(list[p]) : list[p][i] = a

\* The list without them, its order kept: there is one such list.
Purged(p, end) ==
  LET kept == {i \in 1..Len(list[p]) : i >= end \/ rec[p][list[p][i]].valid}
  IN IF kept = 1..Len(list[p])
     THEN {list[p]}
     ELSE {[i \in 1..Len(k) |-> list[p][k[i]]]
             : k \in {o \in Orders(kept) : \A i, j \in 1..Len(o) : i < j => o[i] < o[j]}}

AfterFind(p, a) == Purged(p, IF Found(p, a) THEN Position(p, a) ELSE Len(list[p]) + 1)

\* Mutant: an election ends with the ids that happen to be there.
AnyIdValid(l, r) == In(l) = {} \/ \E a \in In(l) : r[a].id_valid

ospf6_replica_all_id_valid(l, r) == \A a \in In(l) : r[a].id_valid

-----------------------------------------------------------------------------
(***************************************************************************)
(* Processes                                                               *)
(***************************************************************************)

\* main: sisis_init registers an address with the time of day, get_ospf6_sibling_addrs
\* reads the registered ones and ospf6_replicas_init makes a record of each.
Start(p) ==
  /\ ~Running(p)
  /\ \E ts \in {clock + 1} \cup (IF Ties /\ clock > 0 THEN {clock} ELSE {}) :
       clock' = ts /\ stamp' = [stamp EXCEPT ![addr(p)] = ts]
  /\ table' = table \cup {addr(p)}
  /\ \E l \in Orders(table) : list' = [list EXCEPT ![p] = l]
  /\ rec' = [rec EXCEPT ![p] = [a \in Addrs |-> NewRecord]]
  /\ life' = [life EXCEPT ![p] = "up"]
  /\ proc' = [proc EXCEPT ![p] = UpProc(inc[p] > 0)]
  /\ leader' = [leader EXCEPT ![p] = FALSE]
  /\ gone' = [gone EXCEPT ![p] = {}]
  /\ UNCHANGED <<inc, elect, ids, round, told, boss, crashes, lost>>

\* The handshake with the controller ends.  The last one starts an election.
Handshake(p) ==
  /\ life[p] = "up"
  /\ life' = [life EXCEPT ![p] = "routing"]
  /\ elect' = IF \A q \in Sibs \ {p} : life[q] = "routing"
              THEN [q \in Sibs |-> elect[q] + 1] ELSE elect
  /\ UNCHANGED <<inc, table, stamp, clock, gone, proc, list, rec, leader, ids, round, told, boss, crashes, lost>>

\* A process ends: its sockets close, and the controller sees its connection end.
Ends(p) ==
  /\ inc' = [inc EXCEPT ![p] = @ + 1]
  /\ life' = [life EXCEPT ![p] = "down"]
  /\ elect' = [elect EXCEPT ![p] = 0]
  /\ ids' = {m \in ids : m.to # addr(p)}

\* A process is killed; SIS-IS withdraws its address some time later.
Kill(p) ==
  /\ Running(p)
  /\ p \in Crashers
  /\ crashes < MaxCrashes
  /\ crashes' = crashes + 1
  /\ Ends(p)
  /\ UNCHANGED <<table, stamp, clock, gone, proc, list, rec, leader, round, told, boss, lost>>

Withdraw(a) ==
  /\ table' = table \ {a}
  /\ gone' = [q \in Sibs |-> IF Running(q) THEN gone[q] \cup {a} ELSE gone[q]]

WithdrawDead(a) ==
  /\ a \in table
  /\ \A q \in Sibs : Running(q) => addr(q) # a
  /\ Withdraw(a)
  /\ UNCHANGED <<inc, life, stamp, clock, proc, list, rec, leader, elect, ids, round, told, boss, crashes, lost>>

\* terminate: the process unregisters and goes on until its route has been removed.
terminate(p) ==
  /\ Running(p)
  /\ addr(p) \in table
  /\ p \in Crashers
  /\ crashes < MaxCrashes
  /\ crashes' = crashes + 1
  /\ Withdraw(addr(p))
  /\ UNCHANGED <<inc, life, stamp, clock, proc, list, rec, leader, elect, ids, round, told, boss, lost>>

\* rib_monitor_remove_ipv6_route, on the thread that watches the kernel's routes:
\* its own address is gone,
OwnRouteRemoved(p) ==
  /\ Running(p)
  /\ addr(p) \in gone[p]
  /\ Ends(p)
  /\ UNCHANGED <<table, stamp, clock, gone, proc, list, rec, leader, round, told, boss, crashes, lost>>

\* or another's.
RouteRemoved(p, a) ==
  /\ Running(p)
  /\ a \in gone[p] \ {addr(p)}
  /\ gone' = [gone EXCEPT ![p] = @ \ {a}]
  /\ \E l \in AfterFind(p, a) : list' = [list EXCEPT ![p] = l]
  /\ rec' = IF Found(p, a) THEN [rec EXCEPT ![p][a].valid = FALSE] ELSE rec
  /\ UNCHANGED <<inc, life, table, stamp, clock, proc, leader, elect, ids, round, told, boss, crashes, lost>>

-----------------------------------------------------------------------------
(***************************************************************************)
(* Election                                                                *)
(***************************************************************************)

\* Mutant: only siblings whose id is known are compared.
OldestKnown(p, r) == \A a \in table \ {addr(p)} : r[a].id_valid => stamp[a] >= stamp[addr(p)]

oldest_sibling(p, r) ==
  \A a \in table \ {addr(p)} :
    /\ stamp[a] >= stamp[addr(p)]
    /\ stamp[a] = stamp[addr(p)] /\ r[a].id_valid => ~(r[a].id < p)

\* ospf6_leader_elect once the machine of process p, s, has moved on.
ospf6_leader_elect(p, s) ==
  LET new == {a \in table \ {addr(p)} : ~Found(p, a)}
      last == {Position(p, a) : a \in (table \ {addr(p)}) \ new}
      end == IF new # {} THEN Len(list[p]) + 1
             ELSE IF last = {} THEN 1 ELSE CHOOSE i \in last : \A j \in last : j <= i
      r == [a \in Addrs |-> IF a \in new THEN NewRecord ELSE rec[p][a]]
      leads == IF Debug THEN oldest_sibling(p, r) ELSE leader[p]
  IN \E left \in Purged(p, end), more \in Orders(new) :
       LET l == left \o more
       IN /\ list' = [list EXCEPT ![p] = l]
          /\ rec' = [rec EXCEPT ![p] = r]
          /\ leader' = [leader EXCEPT ![p] = leads]
          /\ proc' = [proc EXCEPT ![p] = IF ospf6_replica_all_id_valid(l, r)
                                         THEN ElectionComplete(s) ELSE s]
          /\ ids' = ids \cup [from : {addr(p)}, to : {a \in In(l) \cap table : r[a].valid},
                              leader : {leads}, round : {round[p]}]
          /\ round' = [round EXCEPT ![p] = @ + 1]
          /\ told' = [told EXCEPT ![p] = Append(@, leads)]

RecvElect(p) ==
  LET s == LeadElect(proc[p], "controller")
  IN /\ Running(p)
     /\ elect[p] > 0
     /\ elect' = [elect EXCEPT ![p] = @ - 1]
     /\ IF LeadElectTaken(proc[p], "controller") /\ Cardinality(table) = NumSibs
        THEN ospf6_leader_elect(p, s)
        ELSE /\ proc' = [proc EXCEPT ![p] = s]
             /\ UNCHANGED <<list, rec, leader, ids, round, told>>
     /\ UNCHANGED <<inc, life, table, stamp, clock, gone, boss, crashes, lost>>

\* Mutant: whoever sees a second claim gives way.
AlwaysGivesWay(p, m) == m.leader /\ leader[p]

\* Two claims: the sibling with the smaller id keeps its.
GivesWay(p, m) == m.leader /\ leader[p] /\ ~(p < m.from[1])

\* fill_id finds a record of the sender,
fill_id(p, m) ==
  LET claim == m.leader /\ ~(leader[p] /\ p < m.from[1])
  IN /\ \E l \in AfterFind(p, m.from) : list' = [list EXCEPT ![p] = l]
     /\ rec' = [rec EXCEPT ![p][m.from] = [valid |-> TRUE, id_valid |-> TRUE,
                                            leader |-> claim, id |-> m.from[1]]]
     /\ leader' = [leader EXCEPT ![p] = @ /\ ~GivesWay(p, m)]

\* or it makes one, whose id it does not mark valid.
fill_unknown(p, m) ==
  /\ \E l \in AfterFind(p, m.from) :
       list' = [list EXCEPT ![p] = l \o (IF Debug THEN <<m.from>> ELSE <<>>)]
  /\ rec' = IF Debug THEN [rec EXCEPT ![p][m.from] = [NewRecord EXCEPT !.leader = m.leader,
                                                                       !.id = m.from[1]]]
            ELSE rec
  /\ UNCHANGED leader

RecvId(p, m) ==
  /\ Running(p)
  /\ m.to = addr(p)
  /\ ids' = ids \ {m}
  /\ IF Found(p, m.from) THEN fill_id(p, m) ELSE fill_unknown(p, m)
  /\ proc' = IF ospf6_replica_all_id_valid(list'[p], rec'[p]) /\ past_leader_elect_start(proc[p].sc)
             THEN [proc EXCEPT ![p] = ElectionComplete(@)] ELSE proc
  /\ UNCHANGED <<inc, life, table, stamp, clock, gone, elect, round, told, boss, crashes, lost>>

\* The ids are sent once, over UDP.
LoseId(m) ==
  /\ lost < MaxLost
  /\ lost' = lost + 1
  /\ ids' = ids \ {m}
  /\ UNCHANGED <<inc, life, table, stamp, clock, gone, proc, list, rec, leader, elect, round,
                 told, boss, crashes>>

\* Mutant: every report makes its sender the leader.
LastReport(p, leads) == p

\* RFPT_REDISTRIBUTE_LEADER_ELECT at the controller.
leader_sibling(p, leads) == IF leads THEN p ELSE boss

CtlLeader(p) ==
  /\ told[p] # <<>>
  /\ told' = [told EXCEPT ![p] = Tail(@)]
  /\ boss' = leader_sibling(p, Head(told[p]))
  /\ UNCHANGED <<inc, life, table, stamp, clock, gone, proc, list, rec, leader, elect, ids, round, crashes, lost>>

Next ==
  \/ \E p \in Sibs :
       \/ Start(p)
       \/ Handshake(p)
       \/ Kill(p)
       \/ terminate(p)
       \/ OwnRouteRemoved(p)
       \/ \E a \in Addrs : RouteRemoved(p, a)
       \/ RecvElect(p)
       \/ \E m \in ids : RecvId(p, m)
       \/ CtlLeader(p)
  \/ \E a \in Addrs : WithdrawDead(a)
  \/ \E m \in ids : LoseId(m)

Spec == Init /\ [][Next]_vars

-----------------------------------------------------------------------------
(***************************************************************************)
(* Properties                                                              *)
(***************************************************************************)

Msgs == [from : Addrs, to : Addrs, leader : BOOLEAN, round : Nat]

\* The variables keep their types; the ids in the records are ids of siblings.
TypeOK ==
  /\ inc \in [Sibs -> 0..MaxCrashes]
  /\ life \in [Sibs -> {"down", "up", "routing"}]
  /\ table \in SUBSET Addrs
  /\ stamp \in [Addrs -> Nat]
  /\ clock \in Nat
  /\ gone \in [Sibs -> SUBSET Addrs]
  /\ proc \in [Sibs -> Procs(conn)]
  /\ list \in [Sibs -> Seq(Addrs)]
  /\ rec \in [Sibs -> [Addrs -> Records]]
  /\ leader \in [Sibs -> BOOLEAN]
  /\ elect \in [Sibs -> Nat]
  /\ ids \in SUBSET Msgs
  /\ round \in [Sibs -> Nat]
  /\ told \in [Sibs -> Seq(BOOLEAN)]
  /\ boss \in Sibs \cup {NoSib}
  /\ crashes \in 0..MaxCrashes
  /\ lost \in 0..MaxLost

Leaders == {p \in Sibs : Running(p) /\ addr(p) \in table /\ leader[p]}
Elected(p) == Running(p) /\ proc[p].sc \in {"SC_LEAD_ELECT_COMPL", "SC_READY_TO_SEND"}
AtRest ==
  /\ \A p \in Sibs : life[p] = "routing" /\ elect[p] = 0 /\ told[p] = <<>> /\ gone[p] = {}
  /\ ids = {}
  /\ table = {addr(p) : p \in Sibs}

\* No two registered siblings that started at different times believe at the same time
\* that they lead (own_replica->leader), whatever is lost, killed or restarted.
OneLeader == \A p, q \in Leaders : p = q \/ stamp[addr(p)] = stamp[addr(q)]

\* The inductive invariant behind OneLeader: no registered address is older than a
\* leader.  An address is used once, and leaves the table for good.
LeaderInv ==
  /\ inc \in [Sibs -> Nat] /\ life \in [Sibs -> {"down", "up", "routing"}]
  /\ table \in SUBSET Addrs /\ gone \in [Sibs -> SUBSET Addrs]
  /\ clock \in Nat /\ stamp \in [Addrs -> 0..clock] /\ crashes \in 0..MaxCrashes
  /\ leader \in [Sibs -> BOOLEAN]
  /\ \A p \in Sibs : inc[p] <= crashes /\ (Running(p) /\ addr(p) \notin table => inc[p] < crashes)
  /\ \A p \in Sibs : \A a \in gone[p] : a \notin table
  /\ \A a \in Addrs : a \in table \/ (\E p \in Sibs : a \in gone[p])
                       => a[2] < inc[a[1]] \/ (a[2] = inc[a[1]] /\ Running(a[1]))
  /\ \A p \in Leaders : \A a \in table : stamp[addr(p)] <= stamp[a]

\* A restarted sibling whose election is over knows a leader, so that its restart
\* thread's ospf6_replica_get_leader_id finds one instead of ending the process.
LeaderKnown ==
  \A p \in Sibs : Elected(p) /\ proc[p].restart_mode => \E a \in In(list[p]) : rec[p][a].leader

NoneRestarted == \A p \in Sibs : inc[p] = 0

\* Once everything of the first election has been delivered the controller's leader is
\* the one sibling that leads, if the siblings started at different times.
BossLeads ==
  AtRest /\ NoneRestarted /\ (\A a, b \in table : stamp[a] = stamp[b] => a = b) => Leaders = {boss}

\* Once everything has been delivered and nothing was lost, an election is unfinished
\* only where an id came before the record of its sender (fill_id).
EarlyIdsOnly ==
  AtRest /\ lost = 0 =>
    \A p \in Sibs : Elected(p) \/ \E a \in In(list[p]) : rec[p][a].id # NoSib /\ ~rec[p][a].id_valid

\* Siblings that started at the same time do not all give way: once everything of the
\* first election has been delivered somebody leads.  After a restart nobody may: with
\* the old address still registered ospf6_leader_elect counts too many and does nothing.
LeaderRemains == AtRest /\ NoneRestarted => Leaders # {}
=============================================================================
