------------------------- MODULE LeaderElectProofs -------------------------
(***************************************************************************)
(* Registered siblings that lead started at the same time, for any number  *)
(* of siblings, crashes and lost messages: at most one leads when no two   *)
(* processes start in the same hundredth of a second.                      *)
(***************************************************************************)
EXTENDS LeaderElect, TLAPS, FiniteSetTheorems, WellFoundedInduction

USE ZenonT(20)

\* What LeaderInv speaks of, apart from own_replica->leader.
regVars == <<inc, life, table, stamp, clock, gone, crashes>>

\* A step that leaves the addresses alone keeps LeaderInv if whoever leads after
\* it led before or is older than all others.
LEMMA SameAddresses ==
  ASSUME LeaderInv, UNCHANGED regVars, leader' \in [Sibs -> BOOLEAN],
         \A p \in Sibs : leader'[p] => \/ leader[p]
                                       \/ \A a \in table \ {addr(p)} : stamp[a] >= stamp[addr(p)]
  PROVE  LeaderInv'
<1>1. /\ \A p \in Sibs : Running(p)' <=> Running(p)
      /\ \A p \in Sibs : addr(p)' = addr(p)
      /\ \A a \in Addrs : a[1] \in Sibs
  BY DEF regVars, Running, addr, Addrs
<1>2. \A p \in Leaders' : \A a \in table' : stamp'[addr(p)'] <= stamp'[a]
  <2> SUFFICES ASSUME NEW p \in Leaders', NEW a \in table
               PROVE  stamp[addr(p)] <= stamp[a]
    BY <1>1 DEF regVars, Leaders
  <2>1. p \in Sibs /\ Running(p) /\ addr(p) \in table /\ leader'[p]
    BY <1>1 DEF Leaders, regVars
  <2>2. CASE leader[p]
    BY <2>1, <2>2 DEF Leaders, LeaderInv
  <2>3. CASE \A b \in table \ {addr(p)} : stamp[b] >= stamp[addr(p)]
    <3>1. stamp[a] \in Int /\ stamp[addr(p)] \in Int
      BY <2>1, SMTT(20) DEF LeaderInv
    <3> QED
      BY <3>1, <2>3, SMTT(20)
  <2> QED
    BY <2>1, <2>2, <2>3
<1>3. \A a \in Addrs : a \in table \/ (\E p \in Sibs : a \in gone[p])
                       => a[2] < inc[a[1]] \/ (a[2] = inc[a[1]] /\ Running(a[1])')
  BY <1>1 DEF LeaderInv
<1> QED
  BY <1>1, <1>2, <1>3 DEF LeaderInv, regVars

\* Initially nobody is registered.
LEMMA InitLeaderInv == Init => LeaderInv
  BY ElectAssumption, SMTT(20) DEF Init, Booted, LeaderInv, Leaders, Running, Sibs, Addrs

\* A process that starts gets an address that was never used and a later time.
LEMMA StartStep ==
  ASSUME LeaderInv, NEW p \in Sibs, Start(p)
  PROVE  LeaderInv'
<1> DEFINE new == addr(p)
<1>1. /\ new \in Addrs /\ new \notin table
      /\ \A q \in Sibs : new \notin gone[q]
      /\ new[1] = p /\ new[2] = inc[p]
  BY ElectAssumption, SMTT(20) DEF LeaderInv, Start, Addrs, addr, Running
<1>2. /\ clock' \in Nat /\ clock' >= clock
      /\ stamp' = [stamp EXCEPT ![new] = clock']
  BY SMTT(20) DEF Start, LeaderInv
<1>3. /\ inc' = inc /\ crashes' = crashes /\ table' = table \cup {new}
      /\ life' = [life EXCEPT ![p] = "up"]
      /\ leader' = [leader EXCEPT ![p] = FALSE]
      /\ gone' = [gone EXCEPT ![p] = {}]
  BY DEF Start
<1>4. /\ \A q \in Sibs : addr(q)' = addr(q)
      /\ \A q \in Sibs : Running(q)' <=> (q = p \/ Running(q))
  BY <1>3 DEF addr, Running, LeaderInv
<1>5. /\ stamp' \in [Addrs -> 0..clock'] /\ stamp'[new] = clock'
      /\ \A a \in table : stamp'[a] = stamp[a] /\ stamp[a] <= clock
  BY <1>1, <1>2, SMTT(20) DEF LeaderInv
<1>7. \A q \in Leaders' : \A a \in table' : stamp'[addr(q)'] <= stamp'[a]
  <2> SUFFICES ASSUME NEW q \in Leaders', NEW a \in table'
               PROVE  stamp'[addr(q)] <= stamp'[a]
    BY <1>4 DEF Leaders
  <2>1. q \in Sibs /\ q # p /\ leader[q] /\ Running(q) /\ addr(q) \in table
    BY <1>3, <1>4 DEF Leaders, LeaderInv, addr
  <2>2. CASE a = new
    BY <2>1, <2>2, <1>2, <1>5, SMTT(20) DEF LeaderInv
  <2>3. CASE a \in table
    BY <2>1, <2>3, <1>5 DEF LeaderInv, Leaders
  <2> QED
    BY <1>3, <2>2, <2>3
<1>8. \A q \in Sibs : /\ inc'[q] <= crashes'
                      /\ Running(q)' /\ addr(q)' \notin table' => inc'[q] < crashes'
  BY <1>3, <1>4 DEF LeaderInv
<1>9. \A q \in Sibs : \A a \in gone'[q] : a \notin table'
  BY <1>1, <1>3 DEF LeaderInv
<1>10. \A a \in Addrs : a \in table' \/ (\E q \in Sibs : a \in gone'[q])
                        => a[2] < inc'[a[1]] \/ (a[2] = inc'[a[1]] /\ Running(a[1])')
  <2> SUFFICES ASSUME NEW a \in Addrs, a \in table' \/ (\E q \in Sibs : a \in gone'[q])
               PROVE  a[2] < inc[a[1]] \/ (a[2] = inc[a[1]] /\ Running(a[1])')
    BY <1>3
  <2>1. CASE a = new
    BY <2>1, <1>1, <1>4
  <2>2. CASE a # new
    <3>1. a \in table \/ (\E q \in Sibs : a \in gone[q])
      BY <2>2, <1>3 DEF LeaderInv
    <3>2. a[1] \in Sibs
      BY DEF Addrs
    <3> QED
      BY <3>1, <3>2, <1>4 DEF LeaderInv
  <2> QED
    BY <2>1, <2>2
<1> QED
  BY <1>1, <1>2, <1>3, <1>5, <1>7, <1>8, <1>9, <1>10 DEF LeaderInv

\* A process that ends no longer leads, and its address stays used.
LEMMA EndStep ==
  ASSUME LeaderInv, NEW p \in Sibs, Running(p), Ends(p),
         UNCHANGED <<table, stamp, clock, gone, leader>>,
         crashes' \in crashes..MaxCrashes, inc[p] < crashes'
  PROVE  LeaderInv'
<1>1. /\ inc' = [inc EXCEPT ![p] = @ + 1]
      /\ life' = [life EXCEPT ![p] = "down"]
  BY DEF Ends
<1>2. /\ \A q \in Sibs : Running(q)' <=> (q # p /\ Running(q))
      /\ \A q \in Sibs \ {p} : addr(q)' = addr(q) /\ inc'[q] = inc[q]
      /\ inc'[p] = inc[p] + 1
  BY <1>1 DEF Running, addr, LeaderInv
<1>3. Leaders' \subseteq Leaders \ {p}
  BY <1>2 DEF Leaders
<1>4. \A q \in Leaders' : \A a \in table' : stamp'[addr(q)'] <= stamp'[a]
  BY <1>2, <1>3 DEF LeaderInv, Leaders
<1>5. crashes' \in 0..MaxCrashes /\ crashes <= crashes'
  BY SMTT(20) DEF LeaderInv
<1>6. \A q \in Sibs : /\ inc'[q] <= crashes'
                      /\ Running(q)' /\ addr(q)' \notin table' => inc'[q] < crashes'
  BY <1>2, <1>5, ElectAssumption, SMTT(20) DEF LeaderInv
<1>7. \A a \in Addrs : a \in table' \/ (\E q \in Sibs : a \in gone'[q])
                       => a[2] < inc'[a[1]] \/ (a[2] = inc'[a[1]] /\ Running(a[1])')
  <2> SUFFICES ASSUME NEW a \in Addrs, a \in table \/ (\E q \in Sibs : a \in gone[q])
               PROVE  a[2] < inc'[a[1]] \/ (a[2] = inc'[a[1]] /\ Running(a[1])')
    OBVIOUS
  <2>1. a[1] \in Sibs /\ a[2] \in Nat
    BY ElectAssumption, SMTT(20) DEF Addrs
  <2>2. a[2] < inc[a[1]] \/ (a[2] = inc[a[1]] /\ Running(a[1]))
    BY DEF LeaderInv
  <2> QED
    BY <2>1, <2>2, <1>2, SMTT(20) DEF LeaderInv
<1> QED
  BY <1>1, <1>4, <1>5, <1>6, <1>7, SMTT(20) DEF LeaderInv

\* An address that is withdrawn may belong to a leader, which is then not registered.
LEMMA WithdrawStep ==
  ASSUME LeaderInv, NEW a \in table, Withdraw(a), UNCHANGED <<inc, life, stamp, clock, leader>>,
         crashes' \in crashes..MaxCrashes,
         \A q \in Sibs : Running(q) /\ addr(q) = a => inc[q] < crashes'
  PROVE  LeaderInv'
<1>1. /\ table' = table \ {a}
      /\ gone' = [q \in Sibs |-> IF Running(q) THEN gone[q] \cup {a} ELSE gone[q]]
  BY DEF Withdraw
<1>2. \A q \in Sibs : (Running(q)' <=> Running(q)) /\ addr(q)' = addr(q)
  BY DEF Running, addr
<1>3. Leaders' \subseteq Leaders
  BY <1>1, <1>2 DEF Leaders
<1>4. \A q \in Leaders' : \A b \in table' : stamp'[addr(q)'] <= stamp'[b]
  BY <1>1, <1>2, <1>3 DEF LeaderInv, Leaders
<1>5. crashes' \in 0..MaxCrashes /\ crashes <= crashes'
  BY SMTT(20) DEF LeaderInv
<1>6. \A q \in Sibs : /\ inc'[q] <= crashes'
                      /\ Running(q)' /\ addr(q)' \notin table' => inc'[q] < crashes'
  <2> TAKE q \in Sibs
  <2>1. inc[q] \in Nat /\ inc[q] <= crashes /\ crashes \in Nat /\ crashes' \in Nat
    BY <1>5, ElectAssumption, SMTT(20) DEF LeaderInv
  <2>2. Running(q) /\ addr(q) \notin table => inc[q] < crashes
    BY DEF LeaderInv
  <2>3. Running(q) /\ addr(q) \notin table' => inc[q] < crashes'
    BY <2>1, <2>2, <1>1, <1>5, SMTT(20)
  <2> QED
    BY <2>1, <2>3, <1>2, <1>5, SMTT(20)
<1>7. a \in Addrs
  BY DEF LeaderInv
<1>8. gone' \in [Sibs -> SUBSET Addrs] /\ \A q \in Sibs : \A b \in gone'[q] : b \notin table'
  BY <1>1, <1>7 DEF LeaderInv
<1>9. \A b \in Addrs : b \in table' \/ (\E q \in Sibs : b \in gone'[q])
                       => b[2] < inc'[b[1]] \/ (b[2] = inc'[b[1]] /\ Running(b[1])')
  <2> SUFFICES ASSUME NEW b \in Addrs, b \in table' \/ (\E q \in Sibs : b \in gone'[q])
               PROVE  b[2] < inc[b[1]] \/ (b[2] = inc[b[1]] /\ Running(b[1])')
    OBVIOUS
  <2>1. b[1] \in Sibs
    BY DEF Addrs
  <2>2. b \in table \/ (\E q \in Sibs : b \in gone[q])
    BY <1>1
  <2> QED
    BY <2>1, <2>2, <1>2 DEF LeaderInv
<1> QED
  BY <1>1, <1>4, <1>5, <1>6, <1>8, <1>9 DEF LeaderInv

\* Reading a LEADER_ELECT makes a leader only of the oldest.
LEMMA ElectStep ==
  ASSUME LeaderInv, NEW p \in Sibs, RecvElect(p)
  PROVE  LeaderInv'
<1>1. UNCHANGED regVars
  BY DEF RecvElect, regVars
<1>2. CASE UNCHANGED leader
  BY <1>1, <1>2, SameAddresses DEF LeaderInv
<1>3. CASE \E s : ospf6_leader_elect(p, s)
  <2>1. PICK r : leader' = [leader EXCEPT ![p] = IF Debug THEN oldest_sibling(p, r) ELSE leader[p]]
    BY <1>3 DEF ospf6_leader_elect
  <2>2. oldest_sibling(p, r) \in BOOLEAN
    BY DEF oldest_sibling
  <2>3. leader' \in [Sibs -> BOOLEAN]
    BY <2>1, <2>2 DEF LeaderInv
  <2>4. leader'[p] => leader[p] \/ oldest_sibling(p, r)
    BY <2>1, <2>2 DEF LeaderInv
  <2>5. \A q \in Sibs \ {p} : leader'[q] = leader[q]
    BY <2>1 DEF LeaderInv
  <2>6. oldest_sibling(p, r) => \A a \in table \ {addr(p)} : stamp[a] >= stamp[addr(p)]
    BY DEF oldest_sibling
  <2> QED
    BY <1>1, <2>3, <2>4, <2>5, <2>6, SameAddresses
<1> QED
  BY <1>2, <1>3 DEF RecvElect

\* Reading an id never makes a leader.
LEMMA IdStep ==
  ASSUME LeaderInv, NEW p \in Sibs, NEW m, RecvId(p, m)
  PROVE  LeaderInv'
<1>1. UNCHANGED regVars
  BY DEF RecvId, regVars
<1>2. CASE UNCHANGED leader
  BY <1>1, <1>2, SameAddresses DEF LeaderInv
<1>3. CASE leader' = [leader EXCEPT ![p] = leader[p] /\ ~GivesWay(p, m)]
  <2>1. leader' \in [Sibs -> BOOLEAN]
    BY <1>3 DEF LeaderInv
  <2>2. \A q \in Sibs : leader'[q] => leader[q]
    BY <1>3 DEF LeaderInv
  <2> QED
    BY <1>1, <2>1, <2>2, SameAddresses
<1> QED
  BY <1>2, <1>3 DEF RecvId, fill_id, fill_unknown

\* The invariant of the leader election is inductive.
THEOREM StepLeaderInv == LeaderInv /\ [Next]_vars => LeaderInv'
<1> SUFFICES ASSUME LeaderInv, [Next]_vars PROVE LeaderInv'
  OBVIOUS
<1>1. ASSUME NEW p \in Sibs, Handshake(p) PROVE LeaderInv'
  <2>1. /\ life' = [life EXCEPT ![p] = "routing"] /\ life[p] = "up"
        /\ UNCHANGED <<inc, table, stamp, clock, gone, leader, crashes>>
    BY <1>1 DEF Handshake
  <2>2. /\ \A q \in Sibs : (Running(q)' <=> Running(q)) /\ addr(q)' = addr(q)
        /\ life' \in [Sibs -> {"down", "up", "routing"}]
    BY <2>1 DEF Running, addr, LeaderInv
  <2>3. Leaders' = Leaders /\ \A a \in Addrs : a[1] \in Sibs
    BY <2>1, <2>2 DEF Leaders, Addrs
  <2>4. \A q \in Leaders : q \in Sibs
    BY DEF Leaders
  <2> QED
    BY <2>1, <2>2, <2>3, <2>4 DEF LeaderInv
<1>2. ASSUME NEW p \in Sibs, Kill(p) PROVE LeaderInv'
  <2>1. crashes' \in crashes..MaxCrashes /\ inc[p] < crashes'
    BY <1>2, ElectAssumption, SMTT(20) DEF Kill, LeaderInv
  <2> QED
    BY <1>2, <2>1, EndStep DEF Kill
<1>3. ASSUME NEW p \in Sibs, terminate(p) PROVE LeaderInv'
  <2>1. crashes' \in crashes..MaxCrashes /\ \A q \in Sibs : inc[q] < crashes'
    BY <1>3, ElectAssumption, SMTT(20) DEF terminate, LeaderInv
  <2> QED
    BY <1>3, <2>1, WithdrawStep DEF terminate
<1>4. ASSUME NEW p \in Sibs, OwnRouteRemoved(p) PROVE LeaderInv'
  <2>1. crashes' \in crashes..MaxCrashes /\ inc[p] < crashes'
    BY <1>4, ElectAssumption, SMTT(20) DEF OwnRouteRemoved, LeaderInv
  <2> QED
    BY <1>4, <2>1, EndStep DEF OwnRouteRemoved
<1>5. ASSUME NEW p \in Sibs, NEW a \in Addrs, RouteRemoved(p, a) PROVE LeaderInv'
  <2>1. /\ gone' = [gone EXCEPT ![p] = @ \ {a}]
        /\ UNCHANGED <<inc, life, table, stamp, clock, leader, crashes>>
    BY <1>5 DEF RouteRemoved
  <2>2. \A q \in Sibs : (Running(q)' <=> Running(q)) /\ addr(q)' = addr(q)
    BY <2>1 DEF Running, addr
  <2>3. Leaders' = Leaders /\ (\A b \in Addrs : b[1] \in Sibs) /\ \A q \in Leaders : q \in Sibs
    BY <2>1, <2>2 DEF Leaders, Addrs
  <2>4. gone' \in [Sibs -> SUBSET Addrs] /\ \A q \in Sibs : gone'[q] \subseteq gone[q]
    BY <2>1 DEF LeaderInv
  <2> QED
    BY <2>1, <2>2, <2>3, <2>4, SMTT(20) DEF LeaderInv
<1>6. ASSUME NEW a \in Addrs, WithdrawDead(a) PROVE LeaderInv'
  <2>1. crashes' \in crashes..MaxCrashes
    BY <1>6, ElectAssumption, SMTT(20) DEF WithdrawDead, LeaderInv
  <2>2. \A q \in Sibs : Running(q) => addr(q) # a
    BY <1>6 DEF WithdrawDead
  <2> QED
    BY <1>6, <2>1, <2>2, WithdrawStep DEF WithdrawDead
<1>7. ASSUME NEW p \in Sibs, CtlLeader(p) PROVE LeaderInv'
  BY <1>7, SameAddresses DEF CtlLeader, regVars, LeaderInv
<1>8. ASSUME NEW m, LoseId(m) PROVE LeaderInv'
  BY <1>8, SameAddresses DEF LoseId, regVars, LeaderInv
<1>9. ASSUME UNCHANGED vars PROVE LeaderInv'
  BY <1>9, SameAddresses DEF vars, regVars, LeaderInv
<1> QED
  BY <1>1, <1>2, <1>3, <1>4, <1>5, <1>6, <1>7, <1>8, <1>9, StartStep, ElectStep, IdStep DEF Next

\* Neither of two leaders is older than the other.
LEMMA OneLeaderFromInv == LeaderInv => OneLeader
<1> SUFFICES ASSUME LeaderInv, NEW p \in Leaders, NEW q \in Leaders
             PROVE  stamp[addr(p)] = stamp[addr(q)]
  BY DEF OneLeader
<1>1. p \in Sibs /\ q \in Sibs /\ addr(p) \in table /\ addr(q) \in table
  BY DEF Leaders
<1>2. stamp[addr(p)] <= stamp[addr(q)] /\ stamp[addr(q)] <= stamp[addr(p)]
  BY <1>1 DEF LeaderInv
<1>3. stamp[addr(p)] \in Int /\ stamp[addr(q)] \in Int
  BY <1>1, SMTT(20) DEF LeaderInv
<1> QED
  BY <1>2, <1>3, SMTT(20)

\* No registered process is older than a sibling that believes it leads
\* (own_replica->leader), in every reachable state.
THEOREM LeaderOldest == Spec => []LeaderInv
  BY InitLeaderInv, StepLeaderInv, PTL DEF Spec

\* Registered siblings that started at different times never lead at the same time
\* (ospf6_leader_elect, fill_id).
THEOREM AtMostOneLeader == Spec => []OneLeader
  BY LeaderOldest, OneLeaderFromInv, PTL
-----------------------------------------------------------------------------
(* The first election.                                                       *)

AllRouting == \A p \in Sibs : life[p] = "routing"

\* Every sibling is registered, and nothing else is.
Full == table = {addr(p) : p \in Sibs}

Oldest(a) == \A b \in table : stamp[a] <= stamp[b]

\* The sibling that is to lead: the oldest, with the smallest id of those.
First(m) == \A p \in Sibs : \/ stamp[addr(m)] < stamp[addr(p)]
                            \/ stamp[addr(m)] = stamp[addr(p)] /\ m <= p

\* The records and the messages: an id that is marked valid is right, and nobody has a
\* record of itself or sends to itself.
RecInv ==
  /\ list \in [Sibs -> Seq(Addrs)] /\ rec \in [Sibs -> [Addrs -> Records]]
  /\ ids \subseteq Msgs /\ round \in [Sibs -> Nat]
  /\ \A p \in Sibs : \A a \in Addrs : rec[p][a].id_valid => rec[p][a].id = a[1]
  /\ \A p \in Sibs : Running(p) => addr(p) \notin In(list[p])
  /\ \A m \in ids : m.from # m.to

\* Before the controller has asked.
Quiet ==
  /\ ids = {} /\ boss = NoSib
  /\ \A p \in Sibs : /\ elect[p] = 0 /\ told[p] = <<>> /\ ~leader[p]
                     /\ Running(p) => proc[p] = UpProc(FALSE)

\* Since it has asked: the first sibling leads or is about to, and only the oldest
\* claim to lead.
Electing ==
  /\ \A p \in Sibs : First(p) => leader[p] \/ (elect[p] > 0 /\ proc[p] = UpProc(FALSE))
  /\ \A m \in ids : m.leader => m.from \in table /\ Oldest(m.from)
  /\ \A p \in Sibs : \A i \in 1..Len(told[p]) : told[p][i] => Oldest(addr(p))
  /\ boss # NoSib => Oldest(addr(boss))
  /\ \A p \in Sibs : leader[p] => \/ boss # NoSib
                                  \/ \E q \in Sibs : \E i \in 1..Len(told[q]) : told[q][i]

FirstInv ==
  /\ elect \in [Sibs -> Nat] /\ told \in [Sibs -> Seq(BOOLEAN)] /\ boss \in Sibs \cup {NoSib}
  /\ proc = [p \in Sibs |-> proc[p]]
  /\ NoneRestarted /\ ~AllRouting => Quiet
  /\ Debug /\ NoneRestarted /\ AllRouting /\ Full => Electing

\* A set of times or ids has a smallest one.
LEMMA Smallest ==
  ASSUME NEW T, T \subseteq Nat, T # {}
  PROVE  \E x \in T : \A y \in T : x <= y
<1> DEFINE R == OpToRel(<, Nat)
<1>1. IsWellFoundedOn(R, Nat)
  BY NatLessThanWellFounded
<1>2. \A x, y \in Nat : y < x => <<y, x>> \in R
  BY DEF OpToRel
<1> HIDE DEF R
<1>3. PICK x \in T : \A y \in T : ~(<<y, x>> \in R)
  BY <1>1, WFMin
<1>4. ASSUME NEW y \in T PROVE x <= y
  <2>1. x \in Nat /\ y \in Nat
    OBVIOUS
  <2>2. ~(y < x)
    BY <1>2, <1>3, <2>1, Zenon
  <2> QED
    BY <2>1, <2>2, SMTT(20)
<1> QED
  BY <1>4

\* The routes of the kernel table, in the order they are read.
LEMMA OrdersIs ==
  ASSUME NEW S, IsFiniteSet(S), NEW l \in Orders(S)
  PROVE  l \in Seq(S) /\ In(l) = S
<1>1. Cardinality(S) \in Nat
  BY FS_CardinalityType, Zenon
<1>2. l \in [1..Cardinality(S) -> S] /\ In(l) = S
  BY DEF Orders
<1> QED
  BY <1>1, <1>2, SMTT(20)

\* Every set of addresses is finite.
LEMMA AddrsFinite == \A S \in SUBSET Addrs : IsFiniteSet(S)
<1>1. 1 \in Int /\ 0 \in Int /\ NumSibs \in Int /\ MaxCrashes \in Int
  BY ElectAssumption, SMTT(20)
<1>2. IsFiniteSet(1..NumSibs) /\ IsFiniteSet(0..MaxCrashes)
  BY <1>1, FS_Interval, Zenon
<1>3. IsFiniteSet(Addrs)
  BY <1>2, FS_Product, Zenon DEF Addrs, Sibs
<1> QED
  BY <1>3, FS_Subset, Zenon

\* find_replica_from_addr adds no record.
LEMMA PurgedIn ==
  ASSUME NEW p \in Sibs, list[p] \in Seq(Addrs), NEW end, NEW l \in Purged(p, end)
  PROVE  l \in Seq(Addrs) /\ In(l) \subseteq In(list[p])
<1> DEFINE kept == {i \in 1..Len(list[p]) : i >= end \/ rec[p][list[p][i]].valid}
<1> SUFFICES ASSUME kept # 1..Len(list[p])
             PROVE  l \in Seq(Addrs) /\ In(l) \subseteq In(list[p])
  <2>1. ASSUME kept = 1..Len(list[p]) PROVE l = list[p]
    BY <2>1 DEF Purged
  <2> QED
    BY <2>1
<1>1. PICK k \in Orders(kept) : l = [i \in 1..Len(k) |-> list[p][k[i]]]
  BY DEF Purged
<1>2. IsFiniteSet(1..Len(list[p]))
  <2>1. 1 \in Int /\ Len(list[p]) \in Int
    BY SMTT(20)
  <2> QED
    BY <2>1, FS_Interval, Zenon
<1>3. kept \in SUBSET (1..Len(list[p]))
  OBVIOUS
<1> HIDE DEF kept
<1>4. IsFiniteSet(kept)
  BY <1>2, <1>3, FS_Subset, Zenon
<1>5. k \in Seq(kept)
  BY <1>1, <1>4, OrdersIs
<1>6. Len(k) \in Nat /\ \A i \in 1..Len(k) : k[i] \in 1..Len(list[p])
  <2>1. Len(k) \in Nat /\ \A i \in 1..Len(k) : k[i] \in kept
    BY <1>5, SMTT(20)
  <2> QED
    BY <1>3, <2>1, Zenon
<1>7. \A i \in 1..Len(k) : list[p][k[i]] \in Addrs
  BY <1>6, SMTT(20)
<1>8. l \in Seq(Addrs) /\ Len(l) = Len(k) /\ \A i \in 1..Len(l) : l[i] = list[p][k[i]]
  BY <1>1, <1>6, <1>7, SMTT(20)
<1> QED
  BY <1>6, <1>8, SMTT(20) DEF In

\* What is in a concatenation is in one of its parts.
LEMMA InConcat ==
  ASSUME NEW s \in Seq(Addrs), NEW t \in Seq(Addrs)
  PROVE  s \o t \in Seq(Addrs) /\ In(s \o t) \subseteq In(s) \cup In(t)
<1>1. s \o t \in Seq(Addrs) /\ Len(s \o t) = Len(s) + Len(t)
  BY SMTT(20)
<1>2. ASSUME NEW i \in 1..Len(s \o t) PROVE (s \o t)[i] \in In(s) \cup In(t)
  <2>1. CASE i <= Len(s)
    BY <1>1, <2>1, SMTT(20) DEF In
  <2>2. CASE i > Len(s)
    <3>1. (s \o t)[i] = t[i - Len(s)] /\ i - Len(s) \in 1..Len(t)
      BY <1>1, <2>2, SMTT(20)
    <3> QED
      BY <3>1 DEF In
  <2> QED
    BY <1>1, <2>1, <2>2, SMTT(20)
<1> QED
  BY <1>1, <1>2 DEF In

\* A running process has an address, and one that is not running has an unused one.
LEMMA AddrIs ==
  ASSUME LeaderInv, NEW p \in Sibs
  PROVE  addr(p) \in Addrs /\ addr(p)[1] = p /\ (~Running(p) => addr(p) \notin table)
<1>1. addr(p) \in Addrs /\ addr(p)[1] = p /\ addr(p)[2] = inc[p]
  BY ElectAssumption, SMTT(20) DEF LeaderInv, Addrs, addr
<1>2. ASSUME ~Running(p), addr(p) \in table PROVE FALSE
  <2>1. inc[p] < inc[p]
    BY <1>1, <1>2 DEF LeaderInv
  <2> QED
    BY <2>1, SMTT(20) DEF LeaderInv
<1> QED
  BY <1>1, <1>2

\* Steps that leave the records alone.
LEMMA SameRecords ==
  ASSUME RecInv, UNCHANGED <<list, rec, round>>, ids' \subseteq ids,
         \A p \in Sibs : Running(p)' => Running(p) /\ addr(p)' = addr(p)
  PROVE  RecInv'
  BY DEF RecInv

\* RecInv holds at the start.
LEMMA InitRecInv == Init => RecInv
<1> SUFFICES ASSUME Init PROVE RecInv
  OBVIOUS
<1>1. NewRecord \in Records /\ ~NewRecord.id_valid
  BY DEF NewRecord, Records
<1>2. \A p \in Sibs : ~Running(p)
  BY DEF Init, Booted, Running
<1> QED
  BY <1>1, <1>2, SMTT(20) DEF Init, Booted, RecInv, Msgs

\* A process that starts makes a record of every registered address but its own.
LEMMA StartRecInv ==
  ASSUME LeaderInv, RecInv, NEW p \in Sibs, Start(p)
  PROVE  RecInv'
<1>1. PICK l \in Orders(table) : list' = [list EXCEPT ![p] = l]
  BY DEF Start
<1>2. table \in SUBSET Addrs
  BY DEF LeaderInv
<1>3. l \in Seq(table) /\ In(l) = table
  BY <1>1, <1>2, AddrsFinite, OrdersIs
<1>4. /\ rec' = [rec EXCEPT ![p] = [a \in Addrs |-> NewRecord]]
      /\ life' = [life EXCEPT ![p] = "up"]
      /\ UNCHANGED <<inc, ids, round>>
  BY DEF Start
<1>5. NewRecord \in Records /\ ~NewRecord.id_valid
  BY DEF NewRecord, Records
<1>6. l \in Seq(Addrs) /\ addr(p) \notin In(l)
  BY <1>2, <1>3, AddrIs, SMTT(20) DEF Start
<1>7. \A q \in Sibs : addr(q)' = addr(q) /\ (q # p /\ Running(q)' => Running(q))
  BY <1>4 DEF addr, Running, LeaderInv
<1>8. list' \in [Sibs -> Seq(Addrs)] /\ rec' \in [Sibs -> [Addrs -> Records]]
  BY <1>1, <1>4, <1>5, <1>6 DEF RecInv
<1>9. \A q \in Sibs : \A a \in Addrs : rec'[q][a].id_valid => rec'[q][a].id = a[1]
  BY <1>4, <1>5 DEF RecInv
<1>10. \A q \in Sibs : Running(q)' => addr(q)' \notin In(list'[q])
  BY <1>1, <1>6, <1>7 DEF RecInv
<1> QED
  BY <1>4, <1>8, <1>9, <1>10 DEF RecInv

\* One process's list and records change.
LEMMA RecordsChange ==
  ASSUME RecInv, NEW p \in Sibs, NEW l \in Seq(Addrs), NEW r \in [Addrs -> Records],
         list' = [list EXCEPT ![p] = l], rec' = [rec EXCEPT ![p] = r],
         addr(p) \notin In(l), \A a \in Addrs : r[a].id_valid => r[a].id = a[1],
         UNCHANGED <<inc, life>>, round' \in [Sibs -> Nat], ids' \subseteq Msgs,
         \A m \in ids' : m.from # m.to
  PROVE  RecInv'
<1>1. \A q \in Sibs : addr(q)' = addr(q) /\ (Running(q)' <=> Running(q))
  BY DEF addr, Running
<1>2. list' \in [Sibs -> Seq(Addrs)] /\ rec' \in [Sibs -> [Addrs -> Records]]
  BY DEF RecInv
<1>3. list'[p] = l /\ rec'[p] = r /\ \A q \in Sibs \ {p} : list'[q] = list[q] /\ rec'[q] = rec[q]
  BY DEF RecInv
<1>4. \A q \in Sibs : \A a \in Addrs : rec'[q][a].id_valid => rec'[q][a].id = a[1]
  BY <1>3 DEF RecInv
<1>5. \A q \in Sibs : Running(q)' => addr(q)' \notin In(list'[q])
  BY <1>1, <1>3, SMTT(20) DEF RecInv
<1> QED
  BY <1>2, <1>4, <1>5 DEF RecInv

\* A removed route keeps RecInv.
LEMMA RouteRecInv ==
  ASSUME RecInv, NEW p \in Sibs, NEW a \in Addrs, RouteRemoved(p, a)
  PROVE  RecInv'
<1>1. PICK l \in AfterFind(p, a) : list' = [list EXCEPT ![p] = l]
  BY DEF RouteRemoved
<1>2. list[p] \in Seq(Addrs) /\ rec[p] \in [Addrs -> Records] /\ addr(p) \notin In(list[p])
  BY DEF RecInv, RouteRemoved
<1>3. l \in Seq(Addrs) /\ In(l) \subseteq In(list[p])
  BY <1>1, <1>2, PurgedIn DEF AfterFind
<1>4. UNCHANGED <<inc, life, round, ids>>
  BY DEF RouteRemoved
<1> DEFINE r == IF Found(p, a) THEN [rec[p] EXCEPT ![a].valid = FALSE] ELSE rec[p]
<1>5. rec' = [rec EXCEPT ![p] = r]
  BY DEF RouteRemoved, RecInv
<1>6. [rec[p][a] EXCEPT !.valid = FALSE] \in Records
      /\ [rec[p][a] EXCEPT !.valid = FALSE].id = rec[p][a].id
      /\ [rec[p][a] EXCEPT !.valid = FALSE].id_valid = rec[p][a].id_valid
  BY <1>2 DEF Records
<1>7. r \in [Addrs -> Records] /\ \A b \in Addrs : r[b].id_valid => r[b].id = b[1]
  BY <1>2, <1>6 DEF RecInv
<1> HIDE DEF r
<1> QED
  BY <1>1, <1>2, <1>3, <1>4, <1>5, <1>7, RecordsChange DEF RecInv

\* What ospf6_leader_elect does: l, r and leads are the list, the records and the claim.
Held(p, l, r, leads) ==
  /\ addr(p) \notin In(l) /\ \A a \in Addrs : r[a].id_valid => r[a].id = a[1]
  /\ leads = IF Debug THEN oldest_sibling(p, r) ELSE leader[p]
  /\ list' = [list EXCEPT ![p] = l] /\ rec' = [rec EXCEPT ![p] = r]
  /\ leader' = [leader EXCEPT ![p] = leads]
  /\ \A m \in ids' \ ids : m \in Msgs /\ m.from = addr(p) /\ m.to \in In(l) /\ m.leader = leads
  /\ round' = [round EXCEPT ![p] = @ + 1]
  /\ told' = [told EXCEPT ![p] = Append(@, leads)]
  /\ \E t : proc' = [proc EXCEPT ![p] = t]

\* ospf6_leader_elect changes the list, the records and the role of one sibling.
LEMMA ElectIs ==
  ASSUME LeaderInv, RecInv, NEW p \in Sibs, Running(p), NEW s, ospf6_leader_elect(p, s)
  PROVE  \E l \in Seq(Addrs), r \in [Addrs -> Records], leads \in BOOLEAN : Held(p, l, r, leads)
<1> DEFINE new == {a \in table \ {addr(p)} : ~Found(p, a)}
           last == {Position(p, a) : a \in (table \ {addr(p)}) \ new}
           end == IF new # {} THEN Len(list[p]) + 1
                  ELSE IF last = {} THEN 1 ELSE CHOOSE i \in last : \A j \in last : j <= i
           r == [a \in Addrs |-> IF a \in new THEN NewRecord ELSE rec[p][a]]
           leads == IF Debug THEN oldest_sibling(p, r) ELSE leader[p]
<1>1. PICK left \in Purged(p, end), more \in Orders(new) :
        LET l == left \o more
        IN /\ list' = [list EXCEPT ![p] = l]
           /\ rec' = [rec EXCEPT ![p] = r]
           /\ leader' = [leader EXCEPT ![p] = leads]
           /\ proc' = [proc EXCEPT ![p] = IF ospf6_replica_all_id_valid(l, r)
                                          THEN ElectionComplete(s) ELSE s]
           /\ ids' = ids \cup [from : {addr(p)}, to : {a \in In(l) \cap table : r[a].valid},
                               leader : {leads}, round : {round[p]}]
           /\ round' = [round EXCEPT ![p] = @ + 1]
           /\ told' = [told EXCEPT ![p] = Append(@, leads)]
  BY Zenon DEF ospf6_leader_elect
<1> DEFINE l == left \o more
<1>2. new \in SUBSET Addrs /\ addr(p) \notin new
  BY DEF LeaderInv
<1>3. NewRecord \in Records /\ ~NewRecord.id_valid
  BY DEF NewRecord, Records
<1>4. r \in [Addrs -> Records] /\ \A a \in Addrs : r[a].id_valid => r[a].id = a[1]
  BY <1>3 DEF RecInv
<1>5. leads \in BOOLEAN
  BY DEF LeaderInv, oldest_sibling
<1> HIDE DEF new, end, r, leads
<1>6. list[p] \in Seq(Addrs) /\ addr(p) \notin In(list[p]) /\ round[p] \in Nat
  BY DEF RecInv
<1>7. left \in Seq(Addrs) /\ In(left) \subseteq In(list[p])
  BY <1>1, <1>6, PurgedIn
<1>8. more \in Seq(Addrs) /\ In(more) = new
  <2>1. IsFiniteSet(new)
    BY <1>2, AddrsFinite
  <2>2. more \in Seq(new) /\ In(more) = new
    BY <1>1, <2>1, OrdersIs
  <2> QED
    BY <1>2, <2>2, SMTT(20)
<1>9. l \in Seq(Addrs) /\ addr(p) \notin In(l)
  <2>1. l \in Seq(Addrs) /\ In(l) \subseteq In(left) \cup In(more)
    BY <1>7, <1>8, InConcat
  <2> HIDE DEF l
  <2> QED
    BY <2>1, <1>2, <1>6, <1>7, <1>8
<1>10. \A m \in ids' \ ids : m \in Msgs /\ m.from = addr(p) /\ m.to \in In(l) /\ m.leader = leads
  <2>1. addr(p) \in Addrs /\ table \subseteq Addrs
    BY AddrIs DEF LeaderInv
  <2>2. ids' = ids \cup [from : {addr(p)}, to : {a \in In(l) \cap table : r[a].valid},
                         leader : {leads}, round : {round[p]}]
    BY <1>1
  <2> HIDE DEF l
  <2> QED
    BY <2>1, <2>2, <1>5, <1>6 DEF Msgs
<1>11. /\ list' = [list EXCEPT ![p] = l] /\ rec' = [rec EXCEPT ![p] = r]
       /\ leader' = [leader EXCEPT ![p] = leads]
       /\ round' = [round EXCEPT ![p] = @ + 1]
       /\ told' = [told EXCEPT ![p] = Append(@, leads)]
       /\ \E t : proc' = [proc EXCEPT ![p] = t]
  BY <1>1
<1>12. leads = IF Debug THEN oldest_sibling(p, r) ELSE leader[p]
  BY DEF leads
<1> HIDE DEF l
<1>13. Held(p, l, r, leads)
  BY <1>4, <1>9, <1>10, <1>11, <1>12, Zenon DEF Held
<1> QED
  BY <1>4, <1>5, <1>9, <1>13, Zenon

\* The request to elect keeps RecInv,
LEMMA ElectRecInv ==
  ASSUME LeaderInv, RecInv, NEW p \in Sibs, RecvElect(p)
  PROVE  RecInv'
<1>1. Running(p) /\ UNCHANGED <<inc, life>>
  BY DEF RecvElect
<1>2. CASE UNCHANGED <<list, rec, ids, round>>
  <2>1. \A q \in Sibs : Running(q)' => Running(q) /\ addr(q)' = addr(q)
    BY <1>1 DEF Running, addr
  <2> QED
    BY <1>2, <2>1, SameRecords
<1>3. CASE \E s : ospf6_leader_elect(p, s)
  <2>1. PICK l \in Seq(Addrs), r \in [Addrs -> Records], leads \in BOOLEAN : Held(p, l, r, leads)
    BY <1>1, <1>3, ElectIs, Zenon
  <2>2. ids' \subseteq Msgs /\ \A m \in ids' : m.from # m.to
    BY <2>1 DEF RecInv, Held
  <2>3. round' \in [Sibs -> Nat]
    BY <2>1, SMTT(20) DEF RecInv, Held
  <2> QED
    BY <1>1, <2>1, <2>2, <2>3, RecordsChange DEF Held
<1> QED
  BY <1>2, <1>3 DEF RecvElect

\* and so does the id of another sibling.
LEMMA IdRecInv ==
  ASSUME LeaderInv, RecInv, NEW p \in Sibs, NEW m \in ids, RecvId(p, m)
  PROVE  RecInv'
<1> DEFINE from == m.from
<1>1. /\ from \in Addrs /\ from[1] \in Sibs /\ m.leader \in BOOLEAN /\ from # addr(p)
      /\ Running(p) /\ UNCHANGED <<inc, life, round>>
      /\ ids' \subseteq Msgs /\ \A k \in ids' : k.from # k.to
  BY DEF RecvId, RecInv, Msgs, Addrs
<1>2. /\ list[p] \in Seq(Addrs) /\ rec[p] \in [Addrs -> Records] /\ addr(p) \notin In(list[p])
      /\ round' \in [Sibs -> Nat] /\ leader[p] \in BOOLEAN
      /\ \A a \in Addrs : rec[p][a].id_valid => rec[p][a].id = a[1]
  BY <1>1 DEF RecInv, LeaderInv
<1>3. \A l \in AfterFind(p, from) : l \in Seq(Addrs) /\ In(l) \subseteq In(list[p])
  BY <1>2, PurgedIn DEF AfterFind
<1> SUFFICES \E l \in Seq(Addrs), r \in [Addrs -> Records] :
               /\ list' = [list EXCEPT ![p] = l] /\ rec' = [rec EXCEPT ![p] = r]
               /\ addr(p) \notin In(l) /\ \A a \in Addrs : r[a].id_valid => r[a].id = a[1]
  BY <1>1, <1>2, RecordsChange
<1>4. CASE fill_id(p, m)
  <2> DEFINE claim == m.leader /\ ~(leader[p] /\ p < from[1])
             new == [valid |-> TRUE, id_valid |-> TRUE, leader |-> claim, id |-> from[1]]
             r == [rec[p] EXCEPT ![from] = new]
  <2>1. PICK l \in AfterFind(p, from) : list' = [list EXCEPT ![p] = l]
    BY <1>4 DEF fill_id
  <2>2. rec' = [rec EXCEPT ![p] = r]
    BY <1>4 DEF fill_id, RecInv
  <2>3. new \in Records /\ new.id = from[1]
    BY <1>1, <1>2 DEF Records
  <2> HIDE DEF new, from
  <2>4. r \in [Addrs -> Records] /\ \A a \in Addrs : r[a].id_valid => r[a].id = a[1]
    BY <1>1, <1>2, <2>3
  <2> HIDE DEF r
  <2> QED
    BY <1>2, <1>3, <2>1, <2>2, <2>4
<1>5. CASE fill_unknown(p, m)
  <2> DEFINE new == [NewRecord EXCEPT !.leader = m.leader, !.id = from[1]]
             more == IF Debug THEN <<from>> ELSE <<>>
             r == IF Debug THEN [rec[p] EXCEPT ![from] = new] ELSE rec[p]
  <2>1. PICK l \in AfterFind(p, from) : list' = [list EXCEPT ![p] = l \o more]
    BY <1>5 DEF fill_unknown
  <2>2. rec' = [rec EXCEPT ![p] = r]
    BY <1>5 DEF fill_unknown, RecInv
  <2>3. new \in Records /\ ~new.id_valid
    BY <1>1 DEF Records, NewRecord
  <2>4. more \in Seq(Addrs) /\ addr(p) \notin In(more)
    BY <1>1, SMTT(20) DEF In
  <2> HIDE DEF new, from, more
  <2>5. r \in [Addrs -> Records] /\ \A a \in Addrs : r[a].id_valid => r[a].id = a[1]
    BY <1>1, <1>2, <2>3
  <2>6. l \o more \in Seq(Addrs) /\ addr(p) \notin In(l \o more)
    BY <1>2, <1>3, <2>1, <2>4, InConcat
  <2> HIDE DEF r
  <2> QED
    BY <2>1, <2>2, <2>5, <2>6
<1> QED
  BY <1>4, <1>5 DEF RecvId

\* The records stay right.
LEMMA StepRecInv == LeaderInv /\ RecInv /\ [Next]_vars => RecInv'
<1> SUFFICES ASSUME LeaderInv, RecInv, [Next]_vars PROVE RecInv'
  OBVIOUS
<1>1. ASSUME UNCHANGED <<inc, list, rec, round>>, ids' \subseteq ids,
             life' = life \/ \E p \in Sibs : life[p] = "up" /\ life' = [life EXCEPT ![p] = "routing"]
      PROVE  RecInv'
  <2>1. \A p \in Sibs : Running(p)' => Running(p) /\ addr(p)' = addr(p)
    BY <1>1 DEF Running, addr, LeaderInv
  <2> QED
    BY <1>1, <2>1, SameRecords
<1>2. ASSUME NEW p \in Sibs, Kill(p) \/ OwnRouteRemoved(p) PROVE RecInv'
  <2>1. Ends(p) /\ UNCHANGED <<list, rec, round>>
    BY <1>2 DEF Kill, OwnRouteRemoved
  <2>2. \A q \in Sibs : Running(q)' => Running(q) /\ addr(q)' = addr(q)
    BY <2>1 DEF Ends, Running, addr, LeaderInv
  <2>3. ids' \subseteq ids
    BY <2>1 DEF Ends
  <2> QED
    BY <2>1, <2>2, <2>3, SameRecords
<1>3. ASSUME NEW p \in Sibs, Handshake(p) \/ terminate(p) \/ CtlLeader(p) PROVE RecInv'
  BY <1>1, <1>3 DEF Handshake, terminate, CtlLeader
<1>4. ASSUME NEW a, WithdrawDead(a) PROVE RecInv'
  BY <1>1, <1>4 DEF WithdrawDead
<1>5. ASSUME NEW m, LoseId(m) PROVE RecInv'
  BY <1>1, <1>5 DEF LoseId
<1>6. CASE UNCHANGED vars
  BY <1>1, <1>6 DEF vars
<1> QED
  BY <1>2, <1>3, <1>4, <1>5, <1>6, StartRecInv, RouteRecInv, ElectRecInv, IdRecInv DEF Next

-----------------------------------------------------------------------------
\* All controller connections of a process are in state x, and it is in state sc.
InStates(q, x, sc) == {"ctrl", "sc"} \subseteq DOMAIN q /\ q.ctrl = [c \in conn |-> x] /\ q.sc = sc

\* Reads and updates of these states.
LEMMA SetStates ==
  ASSUME NEW q, NEW x, NEW sc, NEW y, InStates(q, x, sc)
  PROVE  /\ q.ctrl["controller"] = x
         /\ InStates([q EXCEPT !.ctrl["controller"] = y], y, sc)
         /\ InStates([q EXCEPT !.sc = y], x, y)
  BY DEF InStates, conn

\* A process that has its interface up and was not asked yet takes the request.
LEMMA UpTakes ==
  LeadElectTaken(UpProc(FALSE), "controller") /\ ~past_leader_elect_start(UpProc(FALSE).sc)
<1> DEFINE new == NewProc(conn, FALSE)
           rcvd == [new EXCEPT !.ctrl["controller"] = "CTRL_RCVD_HELLO"]
           int == [rcvd EXCEPT !.ctrl["controller"] = "CTRL_INTERFACE_UP"]
           up == [int EXCEPT !.sc = "SC_ALL_INT_UP"]
           asked == [up EXCEPT !.ctrl["controller"] = "CTRL_CONNECTED"]
<1>1. InStates(new, "CTRL_CONNECTING", "SC_INIT")
  BY DEF NewProc, InStates
<1> HIDE DEF new
<1>2. InStates(rcvd, "CTRL_RCVD_HELLO", "SC_INIT")
  BY <1>1, SetStates
<1>3. UpProc(FALSE) = InterfaceUp(rcvd, "controller")
  BY DEF UpProc, new
<1> HIDE DEF rcvd
<1>4. InStates(int, "CTRL_INTERFACE_UP", "SC_INIT")
  BY <1>2, SetStates
<1>5. InterfaceUp(rcvd, "controller") = ScInterfaceUp(int)
  <2>1. rcvd.ctrl["controller"] = "CTRL_RCVD_HELLO"
    BY <1>2, SetStates
  <2> QED
    BY <2>1, SMTT(20) DEF InterfaceUp
<1> HIDE DEF int
<1>6. InStates(up, "CTRL_INTERFACE_UP", "SC_ALL_INT_UP")
  BY <1>4, SetStates
<1>7. ScInterfaceUp(int) = up
  <2>1. int.sc = "SC_INIT" /\ check_all_interface_up(int.ctrl)
    BY <1>4 DEF InStates, check_all_interface_up
  <2> QED
    BY <2>1, SMTT(20) DEF ScInterfaceUp
<1> HIDE DEF up
<1>8. InStates(asked, "CTRL_CONNECTED", "SC_ALL_INT_UP")
  BY <1>6, SetStates
<1>9. up.ctrl["controller"] = "CTRL_INTERFACE_UP" /\ up.sc = "SC_ALL_INT_UP"
  <2>1. up.ctrl["controller"] = "CTRL_INTERFACE_UP"
    BY <1>6, SetStates
  <2>2. up.sc = "SC_ALL_INT_UP"
    BY <1>6 DEF InStates
  <2>3. QED
    BY <2>1, <2>2
<1>10. LeadElectRcvd(up, "controller") = asked
  BY <1>9, SMTT(20) DEF LeadElectRcvd
<1> HIDE DEF asked
<1>11. StartsElection(asked)
  BY <1>8 DEF InStates, StartsElection, check_all_rcvd_lead_elect
<1>12. LeadElectTaken(up, "controller") /\ ~past_leader_elect_start(up.sc)
  BY <1>9, <1>10, <1>11 DEF LeadElectTaken, past_leader_elect_start
<1> QED
  BY <1>3, <1>5, <1>7, <1>12

\* While nobody has restarted the registered addresses are the first ones.
LEMMA FullCount ==
  ASSUME NoneRestarted, Full
  PROVE  Cardinality(table) = NumSibs
<1>1. table = Sibs \X {0}
  BY SMTT(20) DEF Full, NoneRestarted, addr
<1>2. 1 \in Int /\ NumSibs \in Int /\ NumSibs >= 1
  BY ElectAssumption, SMTT(20)
<1>3. IsFiniteSet(Sibs) /\ Cardinality(Sibs) = IF 1 > NumSibs THEN 0 ELSE NumSibs - 1 + 1
  BY <1>2, FS_Interval, Zenon DEF Sibs
<1>4. IsFiniteSet({0}) /\ Cardinality({0}) = 1
  BY FS_Singleton, Zenon
<1>5. Cardinality(Sibs \X {0}) = Cardinality(Sibs) * Cardinality({0})
  BY <1>3, <1>4, FS_Product, Zenon
<1> QED
  BY <1>1, <1>2, <1>3, <1>4, <1>5, SMTT(20)

\* One sibling is to lead.
LEMMA FirstExists == LeaderInv => \E m \in Sibs : First(m)
<1> SUFFICES ASSUME LeaderInv PROVE \E m \in Sibs : First(m)
  OBVIOUS
<1>1. \A p \in Sibs : stamp[addr(p)] \in Nat /\ p \in Nat
  <2> TAKE p \in Sibs
  <2>1. addr(p) \in Addrs
    BY AddrIs
  <2> QED
    BY <2>1, SMTT(20) DEF LeaderInv, Sibs
<1>2. 1 \in Sibs
  BY ElectAssumption, SMTT(20) DEF Sibs
<1> DEFINE T == {stamp[addr(p)] : p \in Sibs}
<1>3. T \subseteq Nat /\ T # {}
  BY <1>1, <1>2
<1>4. PICK t \in T : \A u \in T : t <= u
  BY <1>3, Smallest
<1> DEFINE P == {p \in Sibs : stamp[addr(p)] = t}
<1>5. P \subseteq Nat /\ P # {}
  BY <1>1, <1>4
<1>6. PICK m \in P : \A p \in P : m <= p
  BY <1>5, Smallest
<1>7. ASSUME NEW p \in Sibs PROVE \/ stamp[addr(m)] < stamp[addr(p)]
                                  \/ stamp[addr(m)] = stamp[addr(p)] /\ m <= p
  BY <1>1, <1>4, <1>6, SMTT(20)
<1> QED
  BY <1>6, <1>7 DEF First

\* The first sibling is among the oldest.
LEMMA FirstIsOldest ==
  ASSUME LeaderInv, Full, NEW p \in Sibs, First(p)
  PROVE  Oldest(addr(p))
<1>1. \A q \in Sibs : stamp[addr(q)] \in Nat
  <2> TAKE q \in Sibs
  <2>1. addr(q) \in Addrs
    BY AddrIs
  <2> QED
    BY <2>1, SMTT(20) DEF LeaderInv
<1>2. \A q \in Sibs : stamp[addr(p)] <= stamp[addr(q)]
  BY <1>1, SMTT(20) DEF First
<1> QED
  BY <1>2 DEF Oldest, Full

\* oldest_sibling holds only of the oldest, and of the first sibling.
LEMMA OldestIs ==
  ASSUME LeaderInv, Full, NEW p \in Sibs, NEW r \in [Addrs -> Records],
         \A a \in Addrs : r[a].id_valid => r[a].id = a[1]
  PROVE  (oldest_sibling(p, r) => Oldest(addr(p))) /\ (First(p) => oldest_sibling(p, r))
<1>1. \A q \in Sibs : stamp[addr(q)] \in Nat /\ q \in Nat /\ addr(q) \in Addrs /\ addr(q)[1] = q
  <2> TAKE q \in Sibs
  <2>1. addr(q) \in Addrs /\ addr(q)[1] = q
    BY AddrIs
  <2> QED
    BY <2>1, SMTT(20) DEF LeaderInv, Sibs
<1>2. ASSUME oldest_sibling(p, r), NEW a \in table PROVE stamp[addr(p)] <= stamp[a]
  <2>1. PICK q \in Sibs : a = addr(q)
    BY DEF Full
  <2> QED
    BY <1>1, <1>2, <2>1, SMTT(20) DEF oldest_sibling
<1>3. ASSUME First(p), NEW a \in table \ {addr(p)}
      PROVE  /\ stamp[a] >= stamp[addr(p)]
             /\ stamp[a] = stamp[addr(p)] /\ r[a].id_valid => ~(r[a].id < p)
  <2>1. PICK q \in Sibs : a = addr(q)
    BY DEF Full
  <2>2. \/ stamp[addr(p)] < stamp[a]
        \/ stamp[addr(p)] = stamp[a] /\ p <= q
    BY <1>3, <2>1 DEF First
  <2>3. stamp[a] \in Nat /\ stamp[addr(p)] \in Nat /\ q \in Nat /\ p \in Nat
    BY <1>1, <2>1
  <2>4. r[a].id_valid => r[a].id = q
    BY <1>1, <2>1
  <2> QED
    BY <2>2, <2>3, <2>4, SMTT(20)
<1> QED
  BY <1>2, <1>3 DEF Oldest, oldest_sibling

\* Steps that leave the election alone.
LEMMA SameElecting ==
  ASSUME Electing, UNCHANGED <<inc, table, stamp, proc, told, boss, elect, leader>>, ids' \subseteq ids
  PROVE  Electing'
<1>1. \A p \in Sibs : addr(p)' = addr(p) /\ (First(p)' <=> First(p))
  BY DEF addr, First
<1>2. \A a : Oldest(a)' <=> Oldest(a)
  BY DEF Oldest
<1>3. boss # NoSib => Oldest(addr(boss))'
  BY DEF Electing, Oldest, addr
<1> QED
  BY <1>1, <1>2, <1>3 DEF Electing

\* A first election is held where the first sibling has not led yet.
LEMMA ElectElecting ==
  ASSUME LeaderInv, RecInv, FirstInv, Debug, NoneRestarted, Full, Electing,
         NEW p \in Sibs, RecvElect(p)
  PROVE  Electing'
<1>1. /\ UNCHANGED <<inc, table, stamp, boss>> /\ Running(p)
      /\ elect[p] > 0 /\ elect' = [elect EXCEPT ![p] = @ - 1]
  BY DEF RecvElect
<1>2. /\ \A q \in Sibs : addr(q)' = addr(q) /\ (First(q)' <=> First(q))
      /\ \A a : Oldest(a)' <=> Oldest(a)
  BY <1>1 DEF addr, First, Oldest
<1>3. boss # NoSib => Oldest(addr(boss))'
  BY <1>1 DEF Electing, Oldest, addr
<1>4. \A q \in Sibs \ {p} : elect'[q] = elect[q]
  BY <1>1 DEF FirstInv
<1>5. CASE LeadElectTaken(proc[p], "controller") /\ Cardinality(table) = NumSibs
  <2>1. PICK s : ospf6_leader_elect(p, s)
    BY <1>5, Zenon DEF RecvElect
  <2>2. PICK l \in Seq(Addrs), r \in [Addrs -> Records], leads \in BOOLEAN : Held(p, l, r, leads)
    BY <1>1, <2>1, ElectIs, Zenon
  <2>3. (leads => Oldest(addr(p))) /\ (First(p) => leads)
    <3>1. leads = oldest_sibling(p, r) /\ \A a \in Addrs : r[a].id_valid => r[a].id = a[1]
      BY <2>2, Zenon DEF Held
    <3> QED
      BY <3>1, OldestIs, Zenon
  <2>4. /\ leader'[p] = leads /\ \A q \in Sibs \ {p} : leader'[q] = leader[q] /\ proc'[q] = proc[q]
    BY <2>2 DEF LeaderInv, FirstInv, Held
  <2>5. \A q \in Sibs : First(q)' => leader'[q] \/ (elect'[q] > 0 /\ proc'[q] = UpProc(FALSE))
    BY <1>2, <1>4, <2>3, <2>4 DEF Electing
  <2>6. addr(p) \in table
    BY DEF Full
  <2>7. \A m \in ids' : m.leader => m.from \in table' /\ Oldest(m.from)'
    BY <1>1, <1>2, <2>2, <2>3, <2>6 DEF Electing, Held
  <2>8. /\ told[p] \in Seq(BOOLEAN) /\ told'[p] = Append(told[p], leads)
        /\ \A q \in Sibs \ {p} : told'[q] = told[q]
    BY <2>2 DEF FirstInv, Held
  <2>9. /\ Len(told'[p]) = Len(told[p]) + 1 /\ Len(told[p]) \in Nat /\ told'[p][Len(told[p]) + 1] = leads
        /\ \A i \in 1..Len(told[p]) : told'[p][i] = told[p][i]
    BY <2>8, SMTT(20)
  <2>10. \A q \in Sibs : \A i \in 1..Len(told'[q]) : told'[q][i] => Oldest(addr(q))'
    <3> TAKE q \in Sibs
    <3>1. CASE q # p
      BY <1>2, <2>8, <3>1 DEF Electing
    <3>2. CASE q = p
      <4> TAKE i \in 1..Len(told'[q])
      <4>1. i \in 1..Len(told[p]) \/ i = Len(told[p]) + 1
        BY <2>9, <3>2, SMTT(20)
      <4> QED
        BY <1>2, <2>3, <2>9, <3>2, <4>1 DEF Electing
    <3> QED
      BY <3>1, <3>2
  <2>11. \A q \in Sibs : \A i \in 1..Len(told[q]) : i \in 1..Len(told'[q]) /\ told'[q][i] = told[q][i]
    <3> TAKE q \in Sibs
    <3>1. CASE q = p
      BY <2>9, <3>1, SMTT(20)
    <3>2. CASE q # p
      BY <2>8, <3>2
    <3> QED
      BY <3>1, <3>2
  <2>12. ASSUME NEW q \in Sibs, leader'[q]
         PROVE  boss # NoSib \/ \E o \in Sibs : \E i \in 1..Len(told'[o]) : told'[o][i]
    <3>1. CASE q = p
      <4>1. Len(told[p]) + 1 \in 1..Len(told'[p]) /\ told'[p][Len(told[p]) + 1]
        BY <2>4, <2>9, <2>12, <3>1, SMTT(20)
      <4> QED
        BY <4>1
    <3>2. CASE q # p
      BY <2>4, <2>11, <2>12, <3>2 DEF Electing
    <3> QED
      BY <3>1, <3>2
  <2> QED
    BY <1>1, <1>3, <2>5, <2>7, <2>10, <2>12 DEF Electing
<1>6. CASE ~(LeadElectTaken(proc[p], "controller") /\ Cardinality(table) = NumSibs)
  <2>1. UNCHANGED <<leader, ids, told>> /\ \A q \in Sibs \ {p} : proc'[q] = proc[q]
    BY <1>6 DEF RecvElect, FirstInv
  <2>2. proc[p] # UpProc(FALSE)
    BY <1>6, UpTakes, FullCount
  <2>3. \A q \in Sibs : First(q)' => leader'[q] \/ (elect'[q] > 0 /\ proc'[q] = UpProc(FALSE))
    BY <1>2, <1>4, <2>1, <2>2 DEF Electing
  <2> QED
    BY <1>1, <1>2, <1>3, <2>1, <2>3 DEF Electing
<1> QED
  BY <1>5, <1>6

\* The first sibling does not give way: whoever claims to lead as well is as old and has
\* a larger id.
LEMMA IdElecting ==
  ASSUME LeaderInv, RecInv, FirstInv, Full, Electing, NEW p \in Sibs, NEW m \in ids, RecvId(p, m)
  PROVE  Electing'
<1>1. UNCHANGED <<inc, table, stamp, boss, elect, told>> /\ ids' \subseteq ids /\ m.to = addr(p)
  BY DEF RecvId
<1>2. /\ \A q \in Sibs : addr(q)' = addr(q) /\ (First(q)' <=> First(q))
      /\ \A a : Oldest(a)' <=> Oldest(a)
  BY <1>1 DEF addr, First, Oldest
<1>3. boss # NoSib => Oldest(addr(boss))'
  BY <1>1 DEF Electing, Oldest, addr
<1>4. leader' = leader \/ leader' = [leader EXCEPT ![p] = leader[p] /\ ~GivesWay(p, m)]
  BY DEF RecvId, fill_id, fill_unknown
<1>5. /\ \A q \in Sibs : leader'[q] => leader[q]
      /\ \A q \in Sibs : leader[q] => leader'[q] \/ (q = p /\ GivesWay(p, m))
  BY <1>4 DEF LeaderInv
<1>6. ASSUME First(p), GivesWay(p, m) PROVE FALSE
  <2>1. m.leader /\ ~(p < m.from[1])
    BY <1>6 DEF GivesWay
  <2>2. m.from \in table /\ Oldest(m.from)
    BY <2>1 DEF Electing
  <2>3. PICK q \in Sibs : m.from = addr(q)
    BY <2>2 DEF Full
  <2>4. /\ addr(q) \in Addrs /\ addr(q)[1] = q /\ addr(p) \in Addrs /\ addr(p) \in table
        /\ q # p /\ q \in Nat /\ p \in Nat
    BY <1>1, <2>3, AddrIs, SMTT(20) DEF RecInv, Full, Sibs
  <2>5. stamp[addr(q)] \in Nat /\ stamp[addr(p)] \in Nat /\ stamp[addr(q)] <= stamp[addr(p)]
    BY <2>2, <2>3, <2>4, SMTT(20) DEF LeaderInv, Oldest
  <2>6. p <= q
    BY <1>6, <2>5, SMTT(20) DEF First
  <2> QED
    BY <2>1, <2>3, <2>4, <2>6, SMTT(20)
<1>7. \A q \in Sibs : proc[q] = UpProc(FALSE) => proc'[q] = proc[q]
  BY UpTakes DEF RecvId, FirstInv
<1>8. \A q \in Sibs : First(q)' => leader'[q] \/ (elect'[q] > 0 /\ proc'[q] = UpProc(FALSE))
  BY <1>1, <1>2, <1>5, <1>6, <1>7 DEF Electing
<1> QED
  BY <1>1, <1>2, <1>3, <1>5, <1>8 DEF Electing

\* The rest of a sequence.
LEMMA TailIs ==
  ASSUME NEW S, NEW s \in Seq(S), s # <<>>
  PROVE  /\ Len(s) \in Nat \ {0} /\ Head(s) = s[1] /\ Len(Tail(s)) = Len(s) - 1
         /\ \A i \in 1..(Len(s) - 1) : Tail(s)[i] = s[i + 1]
  BY SMTT(20)

\* The controller takes the word of the oldest only.
LEMMA CtlElecting ==
  ASSUME FirstInv, Electing, NEW p \in Sibs, CtlLeader(p)
  PROVE  Electing'
<1>1. /\ UNCHANGED <<inc, table, stamp, proc, leader, elect, ids>>
      /\ told[p] # <<>> /\ told' = [told EXCEPT ![p] = Tail(@)]
      /\ boss' = IF Head(told[p]) THEN p ELSE boss
  BY DEF CtlLeader, leader_sibling
<1>2. /\ \A q \in Sibs : addr(q)' = addr(q) /\ (First(q)' <=> First(q))
      /\ \A a : Oldest(a)' <=> Oldest(a)
  BY <1>1 DEF addr, First, Oldest
<1>3. told[p] \in Seq(BOOLEAN) /\ p # NoSib
  BY SMTT(20) DEF FirstInv, Sibs, NoSib
<1>4. /\ Len(told[p]) \in Nat \ {0} /\ Head(told[p]) = told[p][1]
      /\ Len(Tail(told[p])) = Len(told[p]) - 1
      /\ \A i \in 1..(Len(told[p]) - 1) : Tail(told[p])[i] = told[p][i + 1]
  BY <1>1, <1>3, TailIs
<1>5. told'[p] = Tail(told[p]) /\ \A q \in Sibs \ {p} : told'[q] = told[q]
  BY <1>1 DEF FirstInv
<1>6. boss' # NoSib => Oldest(addr(boss))'
  <2>1. CASE Head(told[p])
    <3>1. 1 \in 1..Len(told[p])
      BY <1>4, SMTT(20)
    <3>2. boss' = p /\ Oldest(addr(p))
      BY <1>1, <1>4, <2>1, <3>1, Zenon DEF Electing
    <3> QED
      BY <1>1, <3>2 DEF Oldest, addr
  <2>2. CASE ~Head(told[p])
    BY <1>1, <2>2 DEF Electing, Oldest, addr
  <2> QED
    BY <2>1, <2>2
<1>7. \A q \in Sibs : \A i \in 1..Len(told'[q]) : told'[q][i] => Oldest(addr(q))'
  <2> TAKE q \in Sibs
  <2>1. CASE q # p
    BY <1>2, <1>5, <2>1 DEF Electing
  <2>2. CASE q = p
    <3> TAKE i \in 1..Len(told'[q])
    <3>0. Len(told'[q]) = Len(told[p]) - 1
      BY <1>4, <1>5, <2>2, Zenon
    <3>1. i \in 1..(Len(told[p]) - 1) /\ i + 1 \in 1..Len(told[p])
      BY <1>4, <3>0, SMTT(20)
    <3>2. told'[q][i] = told[p][i + 1]
      BY <1>4, <1>5, <2>2, <3>1, Zenon
    <3> QED
      BY <1>2, <2>2, <3>1, <3>2, Zenon DEF Electing
  <2> QED
    BY <2>1, <2>2
<1>8. ASSUME NEW q \in Sibs, leader'[q]
      PROVE  boss' # NoSib \/ \E o \in Sibs : \E i \in 1..Len(told'[o]) : told'[o][i]
  <2>1. CASE Head(told[p])
    BY <1>1, <1>3, <2>1
  <2>2. CASE ~Head(told[p]) /\ boss # NoSib
    BY <1>1, <2>2
  <2>3. CASE ~Head(told[p]) /\ boss = NoSib
    <3>1. PICK o \in Sibs : \E i \in 1..Len(told[o]) : told[o][i]
      BY <1>1, <1>8, <2>3 DEF Electing
    <3>2. PICK i \in 1..Len(told[o]) : told[o][i]
      BY <3>1
    <3>3. CASE o # p
      BY <1>5, <3>2, <3>3
    <3>4. CASE o = p
      <4>1. i # 1
        BY <1>4, <2>3, <3>2, <3>4
      <4>2. i - 1 \in 1..Len(told'[p]) /\ told'[p][i - 1] = told[p][(i - 1) + 1] /\ (i - 1) + 1 = i
        BY <1>4, <1>5, <3>4, <4>1, SMTT(20)
      <4> QED
        BY <3>2, <3>4, <4>2
    <3> QED
      BY <3>3, <3>4
  <2> QED
    BY <2>1, <2>2, <2>3
<1> QED
  BY <1>1, <1>2, <1>6, <1>7, <1>8 DEF Electing

\* The last handshake: everybody is asked.
LEMMA HandshakeElecting ==
  ASSUME FirstInv, Quiet, NEW p \in Sibs, Handshake(p), AllRouting'
  PROVE  Electing'
<1>1. /\ UNCHANGED <<inc, table, stamp, proc, told, boss, leader, ids>> /\ life[p] = "up"
      /\ life' = [life EXCEPT ![p] = "routing"]
  BY DEF Handshake
<1>2. \A q \in Sibs \ {p} : life[q] = "routing"
  BY <1>1, SMTT(20) DEF AllRouting
<1>3. elect' = [q \in Sibs |-> elect[q] + 1]
  BY <1>2 DEF Handshake
<1>4. \A q \in Sibs : elect'[q] > 0 /\ proc'[q] = UpProc(FALSE)
  <2> TAKE q \in Sibs
  <2>1. elect[q] = 0 /\ (Running(q) => proc[q] = UpProc(FALSE))
    BY DEF Quiet
  <2>2. Running(q)
    BY <1>1, <1>2 DEF Running
  <2>3. elect'[q] > 0
    BY <1>3, <2>1, SMTT(20)
  <2> QED
    BY <1>1, <2>1, <2>2, <2>3
<1>5. ids' = {} /\ boss' = NoSib /\ \A q \in Sibs : told'[q] = <<>> /\ ~leader'[q]
  BY <1>1 DEF Quiet
<1>6. \A q \in Sibs : ~ \E i \in 1..Len(told'[q]) : TRUE
  BY <1>5, SMTT(20)
<1> QED
  BY <1>4, <1>5, <1>6, Zenon DEF Electing

\* FirstInv holds at the start.
LEMMA InitFirstInv == Init => FirstInv
<1> SUFFICES ASSUME Init PROVE FirstInv
  OBVIOUS
<1>1. \A p \in Sibs : ~Running(p) /\ life[p] # "routing"
  BY DEF Init, Booted, Running
<1>2. 1 \in Sibs
  BY ElectAssumption, SMTT(20) DEF Sibs
<1>3. Quiet /\ ~AllRouting
  BY <1>1, <1>2 DEF Quiet, AllRouting, Init, Booted
<1> QED
  BY <1>3, SMTT(20) DEF FirstInv, Init, Booted

\* The messages keep their types.
LEMMA StepElectTypes ==
  ASSUME LeaderInv, RecInv, FirstInv, [Next]_vars
  PROVE  /\ elect' \in [Sibs -> Nat] /\ told' \in [Sibs -> Seq(BOOLEAN)]
         /\ boss' \in Sibs \cup {NoSib} /\ (proc = [p \in Sibs |-> proc[p]])'
<1> DEFINE Types == /\ elect' \in [Sibs -> Nat] /\ told' \in [Sibs -> Seq(BOOLEAN)]
                    /\ boss' \in Sibs \cup {NoSib} /\ proc' = [p \in Sibs |-> proc'[p]]
<1>1. /\ elect \in [Sibs -> Nat] /\ told \in [Sibs -> Seq(BOOLEAN)]
      /\ boss \in Sibs \cup {NoSib} /\ proc = [p \in Sibs |-> proc[p]]
  BY DEF FirstInv
<1>2. ASSUME UNCHANGED <<told, boss, proc>>,
             UNCHANGED elect \/ (\E p \in Sibs : elect' = [elect EXCEPT ![p] = 0])
               \/ elect' = [q \in Sibs |-> elect[q] + 1]
      PROVE  Types
  <2>1. elect' \in [Sibs -> Nat]
    <3>1. CASE UNCHANGED elect
      BY <1>1, <3>1
    <3>2. CASE \E p \in Sibs : elect' = [elect EXCEPT ![p] = 0]
      BY <1>1, <3>2, SMTT(20)
    <3>3. CASE elect' = [q \in Sibs |-> elect[q] + 1]
      BY <1>1, <3>3, SMTT(20)
    <3> QED
      BY <1>2, <3>1, <3>2, <3>3
  <2> QED
    BY <1>1, <1>2, <2>1, Zenon
<1>3. ASSUME NEW p \in Sibs, Start(p) PROVE Types
  <2>1. UNCHANGED <<elect, told, boss>> /\ proc' = [proc EXCEPT ![p] = UpProc(inc[p] > 0)]
    BY <1>3 DEF Start
  <2> QED
    BY <1>1, <2>1
<1>4. ASSUME NEW p \in Sibs, Handshake(p) PROVE Types
  BY <1>2, <1>4 DEF Handshake
<1>5. ASSUME NEW p \in Sibs, Kill(p) \/ OwnRouteRemoved(p) PROVE Types
  BY <1>2, <1>5 DEF Kill, OwnRouteRemoved, Ends
<1>6. ASSUME NEW p \in Sibs, terminate(p) \/ \E a \in Addrs : RouteRemoved(p, a) PROVE Types
  BY <1>2, <1>6 DEF terminate, RouteRemoved
<1>7. ASSUME NEW p \in Sibs, RecvElect(p) PROVE Types
  <2>1. elect' \in [Sibs -> Nat] /\ boss' = boss
    BY <1>1, <1>7, SMTT(20) DEF RecvElect
  <2>2. CASE \E s : ospf6_leader_elect(p, s)
    <3>0. PICK l \in Seq(Addrs), r \in [Addrs -> Records], leads \in BOOLEAN : Held(p, l, r, leads)
      BY <1>7, <2>2, ElectIs, Zenon DEF RecvElect
    <3>1. /\ told' = [told EXCEPT ![p] = Append(@, leads)]
          /\ \E t : proc' = [proc EXCEPT ![p] = t]
      BY <3>0, Zenon DEF Held
    <3>2. told' \in [Sibs -> Seq(BOOLEAN)]
      BY <1>1, <3>1, SMTT(20)
    <3>3. proc' = [q \in Sibs |-> proc'[q]]
      BY <1>1, <3>1
    <3> QED
      BY <1>1, <2>1, <3>2, <3>3
  <2>3. CASE told' = told /\ proc' = [proc EXCEPT ![p] = LeadElect(proc[p], "controller")]
    BY <1>1, <2>1, <2>3
  <2> QED
    BY <1>7, <2>2, <2>3, Zenon DEF RecvElect
<1>8. ASSUME NEW p \in Sibs, NEW m \in ids, RecvId(p, m) PROVE Types
  <2>1. UNCHANGED <<elect, told, boss>>
        /\ (proc' = proc \/ proc' = [proc EXCEPT ![p] = ElectionComplete(proc[p])])
    BY <1>8 DEF RecvId
  <2> QED
    BY <1>1, <2>1
<1>9. ASSUME NEW p \in Sibs, CtlLeader(p) PROVE Types
  <2>1. /\ UNCHANGED <<elect, proc>> /\ (boss' = p \/ boss' = boss)
        /\ told[p] # <<>> /\ told' = [told EXCEPT ![p] = Tail(@)]
    BY <1>9 DEF CtlLeader, leader_sibling
  <2> QED
    BY <1>1, <2>1, SMTT(20)
<1>10. ASSUME NEW a, WithdrawDead(a) PROVE Types
  BY <1>2, <1>10 DEF WithdrawDead
<1>11. ASSUME NEW m, LoseId(m) PROVE Types
  BY <1>2, <1>11 DEF LoseId
<1>12. ASSUME UNCHANGED vars PROVE Types
  BY <1>2, <1>12 DEF vars
<1>13. Types
  <2> HIDE DEF Types
  <2>1. CASE Next
    BY <2>1, <1>3, <1>4, <1>5, <1>6, <1>7, <1>8, <1>9, <1>10, <1>11, Zenon DEF Next
  <2> QED
    BY <2>1, <1>12
<1> QED
  BY <1>13

\* Until all are in SIB_ROUTING nobody is asked.
LEMMA StepQuiet ==
  ASSUME LeaderInv, FirstInv, [Next]_vars, NoneRestarted', ~AllRouting'
  PROVE  Quiet'
<1>1. ASSUME NEW p \in Sibs, Ends(p) PROVE FALSE
  <2>1. inc'[p] = inc[p] + 1 /\ inc[p] \in Nat
    BY <1>1 DEF Ends, LeaderInv
  <2> QED
    BY <2>1, SMTT(20) DEF NoneRestarted
<1>2. CASE \E p \in Sibs : Start(p)
  <2>1. PICK p \in Sibs : Start(p)
    BY <1>2
  <2>2. /\ UNCHANGED <<inc, elect, ids, told, boss>> /\ ~Running(p)
        /\ life' = [life EXCEPT ![p] = "up"] /\ leader' = [leader EXCEPT ![p] = FALSE]
        /\ proc' = [proc EXCEPT ![p] = UpProc(inc[p] > 0)]
    BY <2>1 DEF Start
  <2>3. (inc[p] > 0) = FALSE
    BY <2>2, SMTT(20) DEF NoneRestarted
  <2>4. proc'[p] = UpProc(FALSE) /\ \A q \in Sibs \ {p} : proc'[q] = proc[q]
    BY <2>2, <2>3 DEF FirstInv
  <2>5. Quiet
    BY <2>2 DEF FirstInv, NoneRestarted, AllRouting, Running
  <2>6. \A q \in Sibs : ~leader'[q] /\ (Running(q)' => q = p \/ Running(q))
    BY <2>2, <2>5 DEF LeaderInv, Running, Quiet
  <2> QED
    BY <2>2, <2>4, <2>5, <2>6 DEF Quiet
<1>3. CASE \E p \in Sibs : Handshake(p)
  <2>1. PICK p \in Sibs : Handshake(p)
    BY <1>3
  <2>2. /\ UNCHANGED <<inc, ids, told, boss, leader, proc>> /\ life[p] = "up"
        /\ life' = [life EXCEPT ![p] = "routing"]
    BY <2>1 DEF Handshake
  <2>3. ~(\A q \in Sibs \ {p} : life[q] = "routing")
    BY <2>2 DEF AllRouting, LeaderInv
  <2>4. elect' = elect
    BY <2>1, <2>3 DEF Handshake
  <2>5. Quiet
    BY <2>2 DEF FirstInv, NoneRestarted, AllRouting
  <2>6. \A q \in Sibs : Running(q)' => Running(q)
    BY <2>2 DEF Running, LeaderInv
  <2> QED
    BY <2>2, <2>4, <2>5, <2>6 DEF Quiet
<1>4. ASSUME UNCHANGED <<inc, life>> PROVE Quiet
  BY <1>4 DEF FirstInv, NoneRestarted, AllRouting
<1>5. ASSUME UNCHANGED <<inc, life, elect, ids, told, boss, leader, proc>> PROVE Quiet'
  <2>1. \A q \in Sibs : Running(q)' <=> Running(q)
    BY <1>5 DEF Running
  <2> QED
    BY <1>4, <1>5, <2>1 DEF Quiet
<1>6. CASE \E p \in Sibs : terminate(p) \/ \E a \in Addrs : RouteRemoved(p, a)
  BY <1>5, <1>6 DEF terminate, RouteRemoved
<1>7. CASE \E p \in Sibs : RecvElect(p)
  <2>1. PICK p \in Sibs : elect[p] > 0 /\ UNCHANGED <<inc, life>>
    BY <1>7 DEF RecvElect
  <2>2. elect[p] = 0
    BY <1>4, <2>1 DEF Quiet
  <2> QED
    BY <2>1, <2>2, SMTT(20)
<1>8. CASE \E p \in Sibs : \E m \in ids : RecvId(p, m)
  BY <1>4, <1>8 DEF RecvId, Quiet
<1>9. CASE \E p \in Sibs : CtlLeader(p)
  BY <1>4, <1>9 DEF CtlLeader, Quiet
<1>10. CASE \E a \in Addrs : WithdrawDead(a)
  BY <1>5, <1>10 DEF WithdrawDead
<1>11. CASE \E m \in ids : LoseId(m)
  BY <1>4, <1>11 DEF LoseId, Quiet
<1>12. CASE UNCHANGED vars
  BY <1>5, <1>12 DEF vars
<1>13. CASE \E p \in Sibs : Kill(p) \/ OwnRouteRemoved(p)
  BY <1>1, <1>13 DEF Kill, OwnRouteRemoved
<1> QED
  BY <1>2, <1>3, <1>6, <1>7, <1>8, <1>9, <1>10, <1>11, <1>12, <1>13 DEF Next

\* Then the first election goes its way until somebody leaves.
LEMMA StepElecting ==
  ASSUME LeaderInv, RecInv, FirstInv, [Next]_vars, Debug, NoneRestarted', AllRouting', Full'
  PROVE  Electing'
<1>1. ASSUME NEW p \in Sibs, Ends(p) PROVE FALSE
  <2>1. inc'[p] = inc[p] + 1 /\ inc[p] \in Nat
    BY <1>1 DEF Ends, LeaderInv
  <2> QED
    BY <2>1, SMTT(20) DEF NoneRestarted
<1>2. ASSUME UNCHANGED <<inc, life, table>> PROVE NoneRestarted /\ AllRouting /\ Full /\ Electing
  <2>1. \A q \in Sibs : addr(q)' = addr(q)
    BY <1>2 DEF addr
  <2>2. NoneRestarted /\ AllRouting /\ Full
    BY <1>2, <2>1 DEF NoneRestarted, AllRouting, Full
  <2> QED
    BY <2>2 DEF FirstInv
<1>3. CASE \E p \in Sibs : Start(p)
  BY <1>3 DEF Start, AllRouting, LeaderInv
<1>4. CASE \E p \in Sibs : Handshake(p)
  <2>1. PICK p \in Sibs : Handshake(p)
    BY <1>4
  <2>2. Quiet
    BY <2>1 DEF Handshake, FirstInv, NoneRestarted, AllRouting
  <2> QED
    BY <2>1, <2>2, HandshakeElecting
<1>5. CASE \E p \in Sibs : terminate(p)
  <2>1. PICK p \in Sibs : terminate(p)
    BY <1>5
  <2>2. addr(p)' = addr(p) /\ addr(p) \notin table'
    BY <2>1 DEF terminate, Withdraw, addr
  <2> QED
    BY <2>2 DEF Full
<1>6. CASE \E a \in Addrs : WithdrawDead(a)
  <2>1. PICK a \in Addrs : WithdrawDead(a)
    BY <1>6
  <2>2. a[1] \in Sibs /\ a[2] \in Nat /\ a = <<a[1], a[2]>>
    BY ElectAssumption, SMTT(20) DEF Addrs
  <2>3. inc[a[1]] = 0
    BY <2>1, <2>2 DEF WithdrawDead, NoneRestarted
  <2>4. a[2] < inc[a[1]] \/ (a[2] = inc[a[1]] /\ Running(a[1]))
    BY <2>1 DEF WithdrawDead, LeaderInv
  <2>5. Running(a[1]) /\ addr(a[1]) = a
    BY <2>2, <2>3, <2>4, SMTT(20) DEF addr
  <2> QED
    BY <2>1, <2>2, <2>5 DEF WithdrawDead
<1>7. CASE \E p \in Sibs : \E a \in Addrs : RouteRemoved(p, a)
  BY <1>2, <1>7, SameElecting DEF RouteRemoved
<1>8. CASE \E p \in Sibs : RecvElect(p)
  <2>1. PICK p \in Sibs : RecvElect(p)
    BY <1>8
  <2>2. NoneRestarted /\ Full /\ Electing
    BY <1>2, <2>1 DEF RecvElect
  <2> QED
    BY <2>1, <2>2, ElectElecting
<1>9. CASE \E p \in Sibs : \E m \in ids : RecvId(p, m)
  <2>1. PICK p \in Sibs, m \in ids : RecvId(p, m)
    BY <1>9
  <2>2. Full /\ Electing
    BY <1>2, <2>1 DEF RecvId
  <2> QED
    BY <2>1, <2>2, IdElecting
<1>10. CASE \E p \in Sibs : CtlLeader(p)
  BY <1>2, <1>10, CtlElecting DEF CtlLeader
<1>11. CASE \E m \in ids : LoseId(m)
  BY <1>2, <1>11, SameElecting DEF LoseId
<1>12. CASE UNCHANGED vars
  BY <1>2, <1>12, SameElecting DEF vars
<1>13. CASE \E p \in Sibs : Kill(p) \/ OwnRouteRemoved(p)
  BY <1>1, <1>13 DEF Kill, OwnRouteRemoved
<1> QED
  BY <1>3, <1>4, <1>5, <1>6, <1>7, <1>8, <1>9, <1>10, <1>11, <1>12, <1>13 DEF Next

\* Every step keeps FirstInv.
LEMMA StepFirstInv == LeaderInv /\ RecInv /\ FirstInv /\ [Next]_vars => FirstInv'
<1> SUFFICES ASSUME LeaderInv, RecInv, FirstInv, [Next]_vars PROVE FirstInv'
  OBVIOUS
<1>1. (NoneRestarted /\ ~AllRouting => Quiet)'
  BY StepQuiet
<1>2. (Debug /\ NoneRestarted /\ AllRouting /\ Full => Electing)'
  BY StepElecting
<1> QED
  BY <1>1, <1>2, StepElectTypes DEF FirstInv

\* At rest the first sibling leads, and the controller has heard of one of the oldest.
LEMMA AtRestLeads ==
  ASSUME LeaderInv, FirstInv, Debug, AtRest, NoneRestarted
  PROVE  /\ \E f \in Sibs : f \in Leaders /\ Oldest(addr(f))
         /\ boss \in Sibs /\ Oldest(addr(boss))
<1>1. AllRouting /\ Full /\ \A p \in Sibs : elect[p] = 0 /\ told[p] = <<>> /\ Running(p)
  BY DEF AtRest, AllRouting, Full, Running
<1>2. Electing
  BY <1>1 DEF FirstInv
<1>3. PICK f \in Sibs : First(f)
  BY FirstExists
<1>4. leader[f]
  <2>1. ~(elect[f] > 0)
    BY <1>1, SMTT(20)
  <2> QED
    BY <1>2, <1>3, <2>1, Zenon DEF Electing
<1>5. f \in Leaders /\ Oldest(addr(f))
  BY <1>1, <1>3, <1>4, FirstIsOldest DEF Leaders, Full
<1>6. boss # NoSib
  BY <1>1, <1>2, <1>4, SMTT(20) DEF Electing
<1> QED
  BY <1>2, <1>5, <1>6 DEF FirstInv, Electing

\* At rest, with "debug ospf6 replica" configured, the oldest sibling leads.
LEMMA AtRestBoss == LeaderInv /\ FirstInv /\ Debug => LeaderRemains /\ BossLeads
<1> SUFFICES ASSUME LeaderInv, FirstInv, Debug PROVE LeaderRemains /\ BossLeads
  OBVIOUS
<1>1. LeaderRemains
  BY AtRestLeads DEF LeaderRemains
<1>2. ASSUME AtRest, NoneRestarted, \A a, b \in table : stamp[a] = stamp[b] => a = b
      PROVE  Leaders = {boss}
  <2>1. PICK f \in Sibs : f \in Leaders /\ Oldest(addr(f))
    BY <1>2, AtRestLeads
  <2>2. boss \in Sibs /\ Oldest(addr(boss))
    BY <1>2, AtRestLeads
  <2>3. \A q \in Sibs : addr(q) \in table /\ stamp[addr(q)] \in Nat /\ addr(q)[1] = q
    <3> TAKE q \in Sibs
    <3>1. addr(q) \in Addrs /\ addr(q)[1] = q /\ addr(q) \in table
      BY <1>2, AddrIs DEF AtRest
    <3> QED
      BY <3>1, SMTT(20) DEF LeaderInv
  <2>4. \A q \in Sibs : Oldest(addr(q)) => q = boss
    <3> SUFFICES ASSUME NEW q \in Sibs, Oldest(addr(q)) PROVE q = boss
      OBVIOUS
    <3>1. stamp[addr(q)] = stamp[addr(boss)]
      BY <2>2, <2>3, SMTT(20) DEF Oldest
    <3> QED
      BY <1>2, <2>2, <2>3, <3>1, SMTT(20)
  <2>5. \A q \in Leaders : q \in Sibs /\ Oldest(addr(q))
    BY DEF LeaderInv, Leaders, Oldest
  <2> QED
    BY <2>1, <2>4, <2>5
<1> QED
  BY <1>1, <1>2 DEF BossLeads

\* The first election, whatever is lost of it: the oldest sibling with the smallest id
\* leads or is about to, and whoever says it leads is among the oldest.
THEOREM FirstElection == Spec => [](LeaderInv /\ RecInv /\ FirstInv)
  BY InitLeaderInv, InitRecInv, InitFirstInv, StepLeaderInv, StepRecInv, StepFirstInv, PTL DEF Spec

\* With "debug ospf6 replica" configured somebody leads once everything of the first
\* election has been delivered (oldest_sibling, fill_id).
THEOREM SomebodyLeads == Spec => [](Debug => LeaderRemains)
  BY FirstElection, AtRestBoss, PTL

\* With "debug ospf6 replica" configured and siblings that started at different times the
\* controller's leader_sibling is then the one that leads.
THEOREM BossAlwaysLeads == Spec => [](Debug => BossLeads)
  BY FirstElection, AtRestBoss, PTL
=============================================================================
