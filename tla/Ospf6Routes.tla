---------------------------- MODULE Ospf6Routes ----------------------------
(***************************************************************************)
(* The routes of one area: the shortest-path calculation over the router   *)
(* and network LSAs (ospf6_spf.c, with the heap of lib/pqueue.c), the      *)
(* intra-area routes built on it (ospf6_intra.c), the route lists          *)
(* (ospf6_route.c), the copies in the process-wide table (ospf6_area.c,    *)
(* ospf6_top.c) and what is told to the controllers (sibling_ctrl.c,       *)
(* ctrl_client.c).                                                         *)
(*                                                                         *)
(* Two vertices have at most one link between them, so the interface of a  *)
(* vertex is named after the vertex at its other end.                      *)
(***************************************************************************)
EXTENDS Integers, SequencesExt, FiniteSets

CONSTANTS
  Routers,            \* the routers of the area, in the order of the LSDB (a sequence)
  Networks,           \* the transit networks
  Self,               \* this router
  Dests,              \* the destinations of intra-area-prefix LSAs
  Hosts,              \* the host numbers of the controllers
  RouterBodies,       \* [router -> set of bodies: [vertex -> metric], partial]
  NetworkBodies,      \* the bodies of a network LSA: sets of routers
  PrefixBodies,       \* [router -> set of bodies of its intra-area-prefix LSA]
  LinkPairs,          \* <<interface, router>>: the Link-LSAs that can be heard
  MULTI_PATH_LIMIT,   \* OSPF6_MULTI_PATH_LIMIT
  MaxRoutes,          \* the bound on the routes of one list
  NoEvent,            \* the SPF thread pointer is NULL
  NoRoute             \* the controller was told of no route

RouterSet == ToSet(Routers)
Vertices == RouterSet \cup Networks

ASSUME RoutesAssumption ==
  /\ Self \in RouterSet /\ RouterSet \cap Networks = {}
  /\ 0 \notin Hosts /\ NoEvent \notin Hosts /\ MULTI_PATH_LIMIT \in Nat \ {0}
  /\ \A r \in RouterSet : \A b \in RouterBodies[r] :
        DOMAIN b \subseteq Vertices \ {r} /\ \A v \in DOMAIN b : b[v] \in Nat \ {0}
  /\ LinkPairs \subseteq Vertices \X RouterSet
  /\ \A r \in RouterSet : \A b \in PrefixBodies[r] : b.pre \subseteq Dests /\ b.ref \in {"router"} \cup Networks

VARIABLES
  lsdb,    \* the area's LSDB: rtr, net and pfx, partial functions from the advertising vertex to a body
  links,   \* the Link-LSAs held: <<interface, advertising router>>
  spf,     \* oa->spf_table: the installed vertices, [cost, hops, nh]
  tab,     \* per prefix: area (oa->route_table), top (ospf6->route_table), told (by controller)
  pend,    \* oa->thread_spf_calculation: the host number it was scheduled with
  fresh    \* history: no LSA was installed since the last calculation

vars == <<lsdb, links, spf, tab, pend, fresh>>

----------------------------------------------------------------------------
(* lib/pqueue.c: queue->array[0 .. size - 1] is the sequence h.            *)

\* Negative, zero or positive, as a is closer, as close, or farther than b.
ospf6_vertex_cmp(a, b) == IF a.cost # b.cost THEN a.cost - b.cost ELSE a.hops - b.hops

Swap(h, i, j) == [h EXCEPT ![i] = h[j], ![j] = h[i]]

RECURSIVE trickle_up(_, _)
trickle_up(i, h) ==
  LET parent == i \div 2 IN
  IF i > 1 /\ ospf6_vertex_cmp(h[i], h[parent]) < 0
  THEN trickle_up(parent, Swap(h, i, parent))
  ELSE h

RECURSIVE trickle_down(_, _)
trickle_down(i, h) ==
  LET left  == 2 * i
      which == IF left < Len(h) /\ ospf6_vertex_cmp(h[left], h[left + 1]) > 0
               THEN left + 1 ELSE left IN
  IF left > Len(h) \/ ospf6_vertex_cmp(h[which], h[i]) > 0 THEN h
  ELSE trickle_down(which, Swap(h, i, which))

pqueue_enqueue(v, h) == trickle_up(Len(h) + 1, Append(h, v))

\* The queue left by pqueue_dequeue, which returns h[1].
pqueue_rest(h) ==
  IF Len(h) = 1 THEN <<>> ELSE trickle_down(1, Front([h EXCEPT ![1] = Last(h)]))

----------------------------------------------------------------------------
(* ospf6_spf.c.                                                            *)

NextHop(if, addr) == [if |-> if, addr |-> addr]

\* The links the LSA of vertex v describes: the vertices and the cost to reach them.
Described(db, v) ==
  IF v \in Networks
  THEN IF v \in DOMAIN db.net THEN [w \in db.net[v] |-> 0] ELSE <<>>
  ELSE IF v \in DOMAIN db.rtr THEN db.rtr[v] ELSE <<>>

HasLsa(db, v) == v \in DOMAIN db.rtr \cup DOMAIN db.net

\* ospf6_lsdesc_lsa finds the LSA of w, and it describes the link back to v.
ForwardOnly(db, v, w) == HasLsa(db, w)
ospf6_lsdesc_backlink(db, v, w) == HasLsa(db, w) /\ v \in DOMAIN Described(db, w)

\* ospf6_lsdb_type_router_head and ..._next: the Link-LSAs of router w in the interface's LSDB.
LinkLsas(ln, if, w) == {x \in ln : x = <<if, w>>}

\* The address a neighbour announced on the interface in its Link-LSA, if any.
ospf6_nexthop_calc(ln, if, w) == SetToSeq({NextHop(x[1], x[2]) : x \in LinkLsas(ln, if, w)})

\* The candidate for w found through the installed vertex v.
Candidate(db, ln, v, w) ==
  LET hops == v.hops + (IF w \in Networks THEN 0 ELSE 1) IN
  [id   |-> w,
   cost |-> v.cost + Described(db, v.id)[w],
   hops |-> hops,
   nh   |-> CASE hops = 0               -> <<NextHop(w, NoRoute)>>
              [] hops = 1 /\ v.hops = 0 ->
                   ospf6_nexthop_calc(ln, IF v.id \in Networks THEN v.nh[1].if ELSE w, w)
              [] OTHER                  -> v.nh]

\* Adds the next hops of a second path of the same cost, up to the limit.
MergeNextHops(old, new) ==
  FoldLeft(LAMBDA nh, x : IF x \in ToSet(nh) \/ Len(nh) = MULTI_PATH_LIMIT
                          THEN nh ELSE Append(nh, x), old, new)

\* ospf6_spf_install for a vertex that is in the table already: the table it leaves.
InstallAgain(t, v) ==
  IF t[v.id].cost < v.cost THEN t
  ELSE [t EXCEPT ![v.id].nh = MergeNextHops(@, v.nh)]

\* The links of a vertex are examined in the order of its LSA; the model takes the routers first.
LinkOrder(db, v) == SelectSeq(Routers \o SetToSeq(Networks), LAMBDA w : w \in DOMAIN Described(db, v))

\* The loop of ospf6_spf_calculation: h is the candidate list, t the result table and ok
\* the assertions of ospf6_spf_install passed so far.
RECURSIVE SpfLoop(_, _, _, _, _)
SpfLoop(db, ln, h, t, ok) ==
  IF h = <<>> THEN [table |-> t, ok |-> ok]
  ELSE LET v == h[1]
           rest == pqueue_rest(h) IN
       IF v.id \in DOMAIN t
       THEN SpfLoop(db, ln, rest, InstallAgain(t, v),
                    /\ ok
                    /\ t[v.id].cost <= v.cost
                    /\ t[v.id].cost = v.cost => t[v.id].hops <= v.hops)
       ELSE SpfLoop(db, ln,
                    FoldLeft(LAMBDA q, w : IF ospf6_lsdesc_backlink(db, v.id, w)
                                           THEN pqueue_enqueue(Candidate(db, ln, v, w), q)
                                           ELSE q,
                             rest, LinkOrder(db, v.id)),
                    (v.id :> [cost |-> v.cost, hops |-> v.hops, nh |-> v.nh]) @@ t, ok)

EmptySpf == [table |-> <<>>, ok |-> TRUE]

ospf6_spf_calculation(db, ln) ==
  IF Self \notin DOMAIN db.rtr THEN EmptySpf
  ELSE SpfLoop(db, ln,
               <<[id |-> Self, cost |-> 0, hops |-> 0, nh |-> <<NextHop(NoRoute, Self)>>]>>,
               <<>>, TRUE)

----------------------------------------------------------------------------
(* ospf6_route.c: the routes of one prefix, in the order of the list.      *)

ospf6_route_is_identical(a, b) == a.org = b.org /\ a.cost = b.cost /\ a.nh = b.nh

\* Where the search of ospf6_route_add stops: at the route of the same origin or at
\* the first less preferred one, whichever comes first.
Place(q, r) ==
  LET stop == {i \in DOMAIN q : q[i].org = r.org \/ q[i].cost > r.cost} IN
  IF stop = {} THEN Len(q) + 1 ELSE CHOOSE i \in stop : \A j \in stop : i <= j

Flag(r, on) == [r EXCEPT !.flag = @ \cup on]
Unflag(r, off) == [r EXCEPT !.flag = @ \ off]

\* The list after ospf6_route_add, and the route passed to the add hook, if it is called.
ospf6_route_add(q, r) ==
  LET i    == Place(q, r)
      best == IF i = 1 THEN {"BEST"} ELSE {}
      new  == Flag(r, best \cup {"CHANGE"})
      add  == Flag(r, best \cup {"ADD"})
      rest == IF i = 1 /\ q # <<>> THEN [q EXCEPT ![1] = Unflag(@, {"BEST"})] ELSE q IN
  IF i <= Len(q) /\ q[i].org = r.org
  THEN IF ospf6_route_is_identical(q[i], r)
       THEN [list |-> [q EXCEPT ![i] = Flag(@, {"ADD"})], hook |-> <<>>]
       ELSE [list |-> [q EXCEPT ![i] = new], hook |-> <<new>>]
  ELSE [list |-> InsertAt(rest, i, add), hook |-> <<add>>]

ospf6_route_remove(q, i) ==
  LET rest == RemoveAt(q, i) IN
  IF i = 1 /\ rest # <<>> THEN [rest EXCEPT ![1] = Flag(@, {"BEST"})] ELSE rest

----------------------------------------------------------------------------
(* ospf6_area.c, ospf6_top.c, sibling_ctrl.c, ctrl_client.c: the hooks.    *)
(* t holds the two lists of one prefix and what the controllers were told. *)

\* A controller that has a route for the prefix is not told of a change.
ToldOnce(told, r) ==
  IF r.host \notin Hosts \/ told[r.host] # NoRoute THEN told
  ELSE [h \in Hosts |-> IF r.nh = <<>> THEN NextHop(NoRoute, NoRoute) ELSE r.nh[1]]

\* Every controller is told of a best route: the one of the route's host of its first
\* next hop, the others of the way to that host.  A route of no host goes nowhere.
sibling_ctrl_route_set(told, r) ==
  IF r.host \notin Hosts \/ "BEST" \notin r.flag THEN told
  ELSE [h \in Hosts |-> IF h # r.host THEN NextHop("inter", r.host)
                        ELSE IF r.nh = <<>> THEN NextHop(NoRoute, NoRoute) ELSE r.nh[1]]

\* The flags of the copies are read for BEST alone.
ospf6_area_route_hook_add(t, r) ==
  LET a == ospf6_route_add(t.top, r) IN
  [t EXCEPT !.top  = [i \in DOMAIN a.list |-> Unflag(a.list[i], {"ADD", "CHANGE", "REMOVE"})],
            !.told = IF a.hook = <<>> THEN @ ELSE sibling_ctrl_route_set(@, a.hook[1])]

\* The copy of a removed route stays.
CopyStays(t, r) == t

\* ospf6_top_route_hook_remove tells the controllers nothing: ctrl_client_route_unset sends no message.
ospf6_area_route_hook_remove(t, r) ==
  LET same == {i \in DOMAIN t.top : ospf6_route_is_identical(t.top[i], r)} IN
  IF same = {} THEN t
  ELSE [t EXCEPT !.top = ospf6_route_remove(@, CHOOSE i \in same : \A j \in same : i <= j)]

\* ospf6_lsdb_type_head and ospf6_lsdb_type_next: the Intra-Area-Prefix LSAs in key order.
PrefixLsas(db) == SelectSeq(Routers, LAMBDA r : r \in DOMAIN db.pfx)

\* The route of prefix p that ospf6_intra_prefix_lsa_add makes of the LSA of router r.
HasRoute(db, st, r, p) ==
  /\ ~db.pfx[r].maxage /\ p \in db.pfx[r].pre
  /\ (IF db.pfx[r].ref = "router" THEN r ELSE db.pfx[r].ref) \in DOMAIN st

RouteOf(db, st, r) ==
  LET b == db.pfx[r]
      ls_entry == st[IF b.ref = "router" THEN r ELSE b.ref] IN
  [org |-> r, cost |-> ls_entry.cost + b.metric, nh |-> ls_entry.nh, host |-> 0, flag |-> {}]

\* With the hooks of the area's table in place: a route added or changed is copied to the top.
ospf6_intra_prefix_lsa_add(db, st, t, r, p) ==
  LET a == ospf6_route_add(t.area, RouteOf(db, st, r)) IN
  IF ~HasRoute(db, st, r, p) THEN t
  ELSE IF a.hook = <<>> THEN [t EXCEPT !.area = a.list]
  ELSE ospf6_area_route_hook_add([t EXCEPT !.area = a.list], a.hook[1])

\* The last loop of ospf6_intra_route_calculation, from the i-th route of the area's list.
RECURSIVE Reconcile(_, _, _)
Reconcile(t, i, host) ==
  IF i > Len(t.area) THEN t
  ELSE LET r == t.area[i]
           both == {"REMOVE", "ADD"} \subseteq r.flag IN
       CASE ~both /\ "REMOVE" \in r.flag ->
              Reconcile(ospf6_area_route_hook_remove(
                          [t EXCEPT !.area = ospf6_route_remove(@, i)], r), i, host)
         [] "REMOVE" \notin r.flag /\ r.flag \cap {"ADD", "CHANGE"} # {} ->
              LET set == [r EXCEPT !.host = host] IN
              Reconcile(ospf6_area_route_hook_add(
                          [t EXCEPT !.area[i] = [set EXCEPT !.flag = {}]], set), i + 1, host)
         [] OTHER ->
              Reconcile([t EXCEPT !.area[i].flag = {}], i + 1, host)

\* The routes the LSDB no longer gives are kept.
NothingMarked(db, st, t, p, host) ==
  Reconcile(FoldLeft(LAMBDA u, r : IF HasRoute(db, st, r, p)
                                   THEN [u EXCEPT !.area = ospf6_route_add(@, RouteOf(db, st, r)).list]
                                   ELSE u, t, PrefixLsas(db)), 1, host)

\* Without the hooks every prefix LSA is added again; then what was not is removed.
ospf6_intra_route_calculation(db, st, t, p, host) ==
  LET marked == [t EXCEPT !.area = [i \in DOMAIN t.area |-> [t.area[i] EXCEPT !.flag = {"REMOVE"}]]]
      added  == FoldLeft(LAMBDA u, r : IF HasRoute(db, st, r, p)
                                       THEN [u EXCEPT !.area = ospf6_route_add(@, RouteOf(db, st, r)).list]
                                       ELSE u, marked, PrefixLsas(db)) IN
  Reconcile(added, 1, host)

----------------------------------------------------------------------------
(* The steps.                                                              *)

ospf6_spf_schedule(h) == IF pend # NoEvent THEN pend ELSE h

\* Copies left behind pile up in the process-wide table: the model stops at MaxRoutes.
Bounded == \A p \in Dests : Len(tab[p].top) < MaxRoutes

Init ==
  /\ lsdb = [rtr |-> <<>>, net |-> <<>>, pfx |-> <<>>]
  /\ links = {} /\ spf = EmptySpf /\ pend = NoEvent /\ fresh = FALSE
  /\ tab = [p \in Dests |-> [area |-> <<>>, top |-> <<>>, told |-> [h \in Hosts |-> NoRoute]]]

\* A router LSA, new or of a changed body, enters the area's LSDB: the hook schedules SPF.
InstallRouter(r, b, h) ==
  /\ Bounded
  /\ (r \in DOMAIN lsdb.rtr => lsdb.rtr[r] # b)
  /\ lsdb' = [lsdb EXCEPT !.rtr = (r :> b) @@ @]
  /\ pend' = ospf6_spf_schedule(h) /\ fresh' = FALSE
  /\ UNCHANGED <<links, spf, tab>>

\* An instance of MaxAge replaces the one held: the hook schedules SPF, which does not
\* look at the age, so the body still counts.
PurgeRouter(r, h) ==
  /\ r \in DOMAIN lsdb.rtr
  /\ pend' = ospf6_spf_schedule(h)
  /\ UNCHANGED <<lsdb, links, spf, tab, fresh>>

InstallNetwork(n, b, h) ==
  /\ Bounded
  /\ (n \in DOMAIN lsdb.net => lsdb.net[n] # b)
  /\ lsdb' = [lsdb EXCEPT !.net = (n :> b) @@ @]
  /\ pend' = ospf6_spf_schedule(h) /\ fresh' = FALSE
  /\ UNCHANGED <<links, spf, tab>>

\* An intra-area-prefix LSA: its routes are added at once, from the last SPF table; the
\* routes of the old instance stay, and so do those of one that reached MaxAge.
InstallPrefix(r, b) ==
  /\ Bounded
  /\ (r \in DOMAIN lsdb.pfx => lsdb.pfx[r] # b)
  /\ LET db == [lsdb EXCEPT !.pfx = (r :> b) @@ @] IN
     /\ lsdb' = db
     /\ tab' = [p \in Dests |-> ospf6_intra_prefix_lsa_add(db, spf.table, tab[p], r, p)]
  /\ fresh' = FALSE
  /\ UNCHANGED <<links, spf, pend>>

\* A Link-LSA enters an interface's LSDB: ospf6_interface_lsdb_hook.
InstallLink(if, r, h) ==
  /\ <<if, r>> \notin links
  /\ links' = links \cup {<<if, r>>}
  /\ pend' = ospf6_spf_schedule(h) /\ fresh' = FALSE
  /\ UNCHANGED <<lsdb, spf, tab>>

ospf6_spf_calculation_thread ==
  /\ pend # NoEvent
  /\ pend' = NoEvent /\ fresh' = TRUE
  /\ LET s == ospf6_spf_calculation(lsdb, links) IN
     /\ spf' = s
     /\ tab' = [p \in Dests |-> ospf6_intra_route_calculation(lsdb, s.table, tab[p], p, pend)]
  /\ UNCHANGED <<lsdb, links>>

Next ==
  \/ \E h \in Hosts, r \in RouterSet : \E b \in RouterBodies[r] : InstallRouter(r, b, h)
  \/ \E h \in Hosts, r \in RouterSet : PurgeRouter(r, h)
  \/ \E h \in Hosts, n \in Networks, b \in NetworkBodies : InstallNetwork(n, b, h)
  \/ \E r \in RouterSet : \E b \in PrefixBodies[r] : InstallPrefix(r, b)
  \/ \E h \in Hosts, l \in LinkPairs : InstallLink(l[1], l[2], h)
  \/ ospf6_spf_calculation_thread

Spec == Init /\ [][Next]_vars
----------------------------------------------------------------------------
(* Properties.                                                             *)

\* The fields hold values of their kinds: costs and hops of installed vertices are
\* naturals and no list of next hops passes the limit of ospf6_nexthop_copy.
TypeOK ==
  /\ pend \in Hosts \cup {NoEvent} /\ fresh \in BOOLEAN
  /\ links \subseteq LinkPairs
  /\ \A v \in DOMAIN spf.table :
       /\ spf.table[v].cost \in Nat /\ spf.table[v].hops \in Nat
       /\ Len(spf.table[v].nh) <= MULTI_PATH_LIMIT
  /\ \A p \in Dests : \A i \in DOMAIN tab[p].area : tab[p].area[i].host \in Hosts \cup {0}

\* The reference: simple paths over links that both ends describe.
Linked(v, w) ==
  /\ HasLsa(lsdb, v) /\ HasLsa(lsdb, w)
  /\ w \in DOMAIN Described(lsdb, v) /\ v \in DOMAIN Described(lsdb, w)

Paths ==
  {s \in UNION {[1 .. n -> Vertices] : n \in 1 .. Cardinality(Vertices)} :
     /\ s[1] = Self /\ Self \in DOMAIN lsdb.rtr /\ IsInjective(s)
     /\ \A i \in 1 .. Len(s) - 1 : Linked(s[i], s[i + 1])}

PathCost(s) == FoldLeft(LAMBDA c, i : c + Described(lsdb, s[i])[s[i + 1]], 0,
                        [i \in 1 .. Len(s) - 1 |-> i])
PathHops(s) == Cardinality({i \in 2 .. Len(s) : s[i] \in RouterSet})

Shortest(ps, v) ==
  {s \in ps : Last(s) = v /\ \A u \in ps : Last(u) = v => PathCost(s) <= PathCost(u)}

FirstHop(s) ==
  CASE Len(s) = 1                      -> NextHop(NoRoute, Self)
    [] Len(s) > 1 /\ s[2] \in RouterSet -> NextHop(s[2], s[2])
    [] Len(s) = 2 /\ s[2] \in Networks  -> NextHop(s[2], NoRoute)
    [] OTHER                           -> NextHop(s[2], s[3])

\* When no calculation is pending the SPF table is the shortest-path tree of the LSDB:
\* exactly the vertices with a path over links described at both ends, each with the
\* least cost, the fewest hops of a path of that cost and next hops of such paths.
\* On the way the assertion of ospf6_spf_install holds: the heap hands out no candidate
\* closer, or at the same cost with fewer hops, than the one installed.
SpfIsShortest ==
  spf.ok /\ (pend = NoEvent /\ Self \in DOMAIN lsdb.rtr =>
    LET ps == Paths IN
    /\ DOMAIN spf.table = {Last(s) : s \in ps}
    /\ \A v \in DOMAIN spf.table :
         LET sh == Shortest(ps, v) IN
         /\ \A s \in sh : spf.table[v].cost = PathCost(s) /\ spf.table[v].hops <= PathHops(s)
         /\ \E s \in sh : spf.table[v].hops = PathHops(s)
         /\ ToSet(spf.table[v].nh) \subseteq {FirstHop(s) : s \in sh})

Key(r) == <<r.org, r.cost, r.nh>>
Keys(q) == {Key(q[i]) : i \in DOMAIN q}

\* After a calculation the area's routes are those the LSDB gives: one for every prefix
\* LSA that is in force and whose vertex is reachable; stale ones and the duplicates that
\* ospf6_intra_prefix_lsa_add leaves behind are gone.
RoutesFollowLsdb ==
  fresh => \A p \in Dests :
    /\ Keys(tab[p].area) = {Key(RouteOf(lsdb, spf.table, r)) :
                              r \in {x \in DOMAIN lsdb.pfx : HasRoute(lsdb, spf.table, x, p)}}
    /\ \A i, j \in DOMAIN tab[p].area : tab[p].area[i].org = tab[p].area[j].org => i = j

\* As long as one router alone has advertised prefixes, the area's table and the
\* process-wide one hold the same routes, whatever the order of additions, changes and
\* removals, with the first of each list marked as the best.  (With two advertisers of a
\* prefix they do not: a change of costs can remove a copy or leave one behind.)
OneOriginMirrored ==
  Cardinality(DOMAIN lsdb.pfx) <= 1 =>
    \A p \in Dests :
      /\ Keys(tab[p].area) = Keys(tab[p].top) /\ Len(tab[p].area) = Len(tab[p].top)
      /\ \A i \in DOMAIN tab[p].top : "BEST" \in tab[p].top[i].flag <=> i = 1

\* As long as one router alone has advertised prefixes, the controller of a route's host
\* holds the first next hop the route has now, not one of an earlier calculation.
OneOriginTold ==
  Cardinality(DOMAIN lsdb.pfx) <= 1 =>
    \A p \in Dests : \A i \in DOMAIN tab[p].top :
      LET r == tab[p].top[i] IN
      r.host \in Hosts =>
        tab[p].told[r.host] = IF r.nh = <<>> THEN NextHop(NoRoute, NoRoute) ELSE r.nh[1]
=============================================================================
