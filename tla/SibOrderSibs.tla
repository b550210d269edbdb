---------------------------- MODULE SibOrderSibs ----------------------------
(***************************************************************************)
(* The invariant of SibOrderInv is kept by the steps of the siblings, and  *)
(* what it says of the connections, of the replicas and of their processes *)
(* is kept by every step.                                                  *)
(***************************************************************************)
EXTENDS SibOrderInv, TLAPS, SequenceTheorems

\* A step is proved by Zenon unless it names another prover.
USE ZenonT(20)

-----------------------------------------------------------------------------
(***************************************************************************)
(* Facts about the operators                                               *)
(***************************************************************************)

\* Where there is no egress message, the next xid is the first one.
LEMMA RunsNone ==
  ASSUME NEW S, NEW t \in Seq(S), ~Has(t, "EGRESS"), NEW x \in Nat
  PROVE  Runs(t, x, x)
<1> DEFINE f == [i \in 1 .. Len(t) + 1 |-> x]
<1>1. Len(t) \in Nat
  BY SMTT(20)
<1>2. f \in [1 .. Len(t) + 1 -> Nat] /\ f[1] = x /\ f[Len(t) + 1] = x
  BY <1>1, SMTT(20)
<1>3. \A i \in 1..Len(t) : t[i].type # "EGRESS" /\ f[i + 1] = f[i]
  BY <1>1, SMTT(20) DEF Has
<1> HIDE DEF f
<1>4. QED
  BY <1>2, <1>3 DEF Runs

\* A message is sent: an egress message has the next xid.
LEMMA RunsSend ==
  ASSUME NEW S, NEW t \in Seq(S), NEW e \in S, NEW a \in Nat, NEW b \in Nat, Runs(t, a, b),
         e.type = "EGRESS" => e.msg.xid = b
  PROVE  Runs(t \o <<e>>, a, IF e.type = "EGRESS" THEN b + 1 ELSE b)
<1> DEFINE n == Len(t)
           u == t \o <<e>>
           c == IF e.type = "EGRESS" THEN b + 1 ELSE b
<1>1. PICK f \in [1 .. n + 1 -> Nat] :
        /\ f[1] = a /\ f[n + 1] = b
        /\ \A i \in 1..n :
             IF t[i].type = "EGRESS" THEN t[i].msg.xid = f[i] /\ f[i + 1] = f[i] + 1
                                     ELSE f[i + 1] = f[i]
  BY DEF Runs
<1>2. n \in Nat /\ Len(u) = n + 1 /\ u[n + 1] = e /\ \A i \in 1..n : u[i] = t[i]
  BY SMTT(20)
<1> DEFINE g == [i \in 1 .. Len(u) + 1 |-> IF i = n + 2 THEN c ELSE f[i]]
<1>3. /\ g \in [1 .. Len(u) + 1 -> Nat] /\ g[1] = a /\ g[Len(u) + 1] = c
      /\ \A i \in 1 .. n + 1 : g[i] = f[i]
  BY <1>1, <1>2, SMTT(20)
<1> HIDE DEF g, u
<1>4. \A i \in 1..Len(u) :
        IF u[i].type = "EGRESS" THEN u[i].msg.xid = g[i] /\ g[i + 1] = g[i] + 1
                                ELSE g[i + 1] = g[i]
  <2> TAKE i \in 1..Len(u)
  <2>1. CASE i = n + 1
    <3>1. u[i] = e /\ g[i] = b /\ g[i + 1] = c
      BY <1>1, <1>2, <1>3, <2>1
    <3>2. QED
      BY <3>1
  <2>2. CASE i # n + 1
    <3>1. i \in 1..n /\ u[i] = t[i] /\ g[i] = f[i] /\ g[i + 1] = f[i + 1]
      BY <1>2, <1>3, <2>2, SMTT(20)
    <3>2. QED
      BY <1>1, <3>1
  <2>3. QED
    BY <2>1, <2>2
<1>5. Runs(u, a, c)
  BY <1>3, <1>4 DEF Runs
<1>6. QED
  BY <1>5 DEF u

\* Two messages written one after the other.
LEMMA TwoOf == ASSUME NEW a, NEW b PROVE <<a>> \o <<b>> = <<a, b>>
<1> DEFINE u == <<a>> \o <<b>>
           v == <<a, b>>
<1>1. <<a>> \in Seq({a, b}) /\ <<b>> \in Seq({a, b})
  BY SMTT(20)
<1>2. u \in Seq({a, b}) /\ Len(u) = 2 /\ u[1] = a /\ u[2] = b
  BY <1>1, ConcatProperties, SMTT(20)
<1>3. v \in Seq({a, b}) /\ Len(v) = 2 /\ v[1] = a /\ v[2] = b
  BY SMTT(20)
<1> HIDE DEF u, v
<1>4. \A i \in 1..2 : u[i] = v[i]
  BY <1>2, <1>3, SMTT(20)
<1>5. u = v
  BY <1>2, <1>3, <1>4, SeqEqual
<1>6. QED
  BY <1>5 DEF u, v

-----------------------------------------------------------------------------
(***************************************************************************)
(* The connections                                                         *)
(***************************************************************************)

\* What the controller writes reaches only processes that are there.
LEMMA DeliverLinks ==
  ASSUME NEW extra \in [Slots -> Seq({"HELLO"})], LinkInv, IInv', Deliver(extra)
  PROVE  /\ toSib' \in [Slots -> Seq(Replies \cup {"HELLO"})]
         /\ \A s \in Slots : peer'[s] = NoSib => toSib'[s] = <<>>
<1> DEFINE R == Replies \cup {"HELLO"}
<1>1. ASSUME NEW s \in Slots PROVE toSib[s] \o extra[s] \o sent'[s] \in Seq(R)
  <2>1. toSib[s] \in Seq(R) /\ extra[s] \in Seq({"HELLO"}) /\ sent'[s] \in Seq(Replies)
    BY DEF LinkInv, IInv, TypeOK
  <2>2. extra[s] \in Seq(R) /\ sent'[s] \in Seq(R)
    BY <2>1, SeqMonotonic, Zenon
  <2>3. QED
    BY <2>1, <2>2, SMTT(20)
<1>2. QED
  BY <1>1, EmptySeq DEF Deliver

\* A request that is read takes no slot out of use.
LEMMA RecvStates ==
  ASSUME TInv, NEW s \in Slots, CtrlRecv(s), NEW t \in Slots
  PROVE  state'[t] = state[t] \/ state'[t] \in Reading
<1>1. CtrlProcess(s, Head(toCtrl[s])) /\ DOMAIN state = Slots
  BY DEF CtrlRecv, TInv, Numbers
<1>2. CASE state' = state
  BY <1>2
<1>3. ASSUME NEW new \in Reading, NEW replies, TakeRequest(s, new, replies)
      PROVE  state'[t] = state[t] \/ state'[t] \in Reading
  BY <1>1, <1>3 DEF TakeRequest, state_transition
<1>4. ASSUME NEW x, FeaturesRequest(s, x) PROVE state'[t] = state[t] \/ state'[t] \in Reading
  BY <1>2, <1>3, <1>4 DEF FeaturesRequest, Ignore, slotVars, AfterFeatures, Reading, States
<1>5. ASSUME NEW x, RedistributeRequest(s, x) PROVE state'[t] = state[t] \/ state'[t] \in Reading
  BY <1>2, <1>3, <1>5 DEF RedistributeRequest, Ignore, slotVars, AfterRedistribute, Reading, States
<1>6. ASSUME NEW x, IfAddressReq(s, x) PROVE state'[t] = state[t] \/ state'[t] \in Reading
  BY <1>2, <1>3, <1>6 DEF IfAddressReq, Ignore, slotVars, Reading, States
<1>7. ASSUME NEW m, Ipv6RouteSet(s, m) \/ ForwardOspf6(s, m) PROVE state' = state
  BY <1>7 DEF Ipv6RouteSet, ForwardOspf6, Egress
<1>8. ASSUME NEW l, RedistributeLeaderElect(s, l) PROVE state' = state
  BY <1>8 DEF RedistributeLeaderElect
<1>9. QED
  BY <1>1, <1>2, <1>4, <1>5, <1>6, <1>7, <1>8 DEF CtrlProcess

\* What travels to the processes, and which slots have one.
LEMMA LinkStep ==
  ASSUME TInv, LinkInv, TInv', IInv', [SysNext]_sysVars
  PROVE  LinkInv'
<1> DEFINE Gone == {"NULL", "SIB_DISCONNECTED"}
<1>1. /\ peer \in [Slots -> Sibs \cup {NoSib}] /\ DOMAIN state = Slots
      /\ toSib \in [Slots -> Seq(Replies \cup {"HELLO"})]
  BY DEF TInv, Shape, Numbers, LinkInv
<1>2. Quiet \in [Slots -> Seq({"HELLO"})]
  BY EmptySeq DEF Quiet
<1>3. CASE UNCHANGED <<peer, toSib, state>>
  BY <1>3 DEF LinkInv
<1>4. ASSUME NEW s \in Slots, CtrlConnected(s) PROVE LinkInv'
  <2>1. <<"HELLO">> \in Seq({"HELLO"})
    BY SMTT(20)
  <2>2. [Quiet EXCEPT ![s] = <<"HELLO">>] \in [Slots -> Seq({"HELLO"})]
    BY <1>2, <2>1
  <2>3. Deliver([Quiet EXCEPT ![s] = <<"HELLO">>]) /\ peer' = peer
    BY <1>4 DEF CtrlConnected
  <2>4. state' = [state EXCEPT ![s] = "SIB_CONNECTED"]
    BY <1>4 DEF CtrlConnected, Connected, state_transition
  <2>5. QED
    BY <1>1, <2>2, <2>3, <2>4, DeliverLinks DEF LinkInv
<1>5. ASSUME NEW s \in Slots, CtrlDestroy(s) PROVE LinkInv'
  <2>1. Deliver(Quiet) /\ peer' = peer /\ peer[s] = NoSib
    BY <1>5 DEF CtrlDestroy
  <2>2. state' = [state EXCEPT ![s] = "SIB_DISCONNECTED"]
    BY <1>5 DEF CtrlDestroy, Destroy, state_transition
  <2>3. QED
    BY <1>1, <1>2, <2>1, <2>2, DeliverLinks DEF LinkInv
<1>6. ASSUME NEW s \in Slots, CtrlRecv(s) PROVE LinkInv'
  <2>1. Deliver(Quiet) /\ peer' = peer
    BY <1>6 DEF CtrlRecv
  <2>2. \A t \in Slots : state'[t] \in Gone => state[t] \in Gone
    BY <1>6, RecvStates DEF Reading
  <2>3. QED
    BY <1>1, <1>2, <2>1, <2>2, DeliverLinks DEF LinkInv
<1>7. ASSUME NEW p \in Sibs, NEW s \in Slots, Connect(p, s) PROVE LinkInv'
  <2>1. Deliver(Quiet) /\ peer' = [peer EXCEPT ![s] = p]
    BY <1>7 DEF Connect
  <2>2. state' = [state EXCEPT ![s] = "SIB_CONNECTING"]
    BY <1>7 DEF Connect, AcceptReuse, AcceptNew, state_transition
  <2>3. QED
    BY <1>1, <1>2, <2>1, <2>2, DeliverLinks DEF LinkInv
<1>8. ASSUME NEW p \in Sibs, NEW s \in Slots, SibRecv(p, s) PROVE LinkInv'
  <2>1. UNCHANGED <<peer, state>> /\ peer[s] = p /\ toSib[s] # <<>>
        /\ toSib' = [toSib EXCEPT ![s] = Tail(@)]
    BY <1>8 DEF SibRecv, CtrlIdle, slotVars
  <2>2. Tail(toSib[s]) \in Seq(Replies \cup {"HELLO"})
    BY <1>1, <2>1, HeadTailProperties
  <2>3. p # NoSib
    BY SMTT(20) DEF Sibs, NoSib
  <2>4. QED
    BY <1>1, <2>1, <2>2, <2>3 DEF LinkInv
<1>9. ASSUME NEW p \in Sibs, Crash(p) PROVE LinkInv'
  BY <1>1, <1>9, EmptySeq DEF Crash, CtrlIdle, slotVars, LinkInv
<1>10. QED
  <2>1. CASE CtrlRouterAccept
    BY <1>3, <2>1 DEF CtrlRouterAccept, RouterAccept, sibVars, slotVars
  <2>2. CASE UNCHANGED sysVars
    BY <1>3, <2>2 DEF sysVars, vars, slotVars, sibVars
  <2>3. ASSUME NEW p \in Sibs,
               \/ SibElected(p) \/ RestartDone(p) \/ Restart(p)
               \/ \E val \in Payload : SibSend(p, val)
        PROVE  LinkInv'
    BY <1>3, <2>3 DEF SibElected, RestartDone, Restart, SibSend, CtrlIdle, slotVars
  <2>4. QED
    BY <1>4, <1>5, <1>6, <1>7, <1>8, <1>9, <2>1, <2>2, <2>3 DEF SysNext

-----------------------------------------------------------------------------
(***************************************************************************)
(* The siblings' processes                                                 *)
(***************************************************************************)

\* ctrl_client_state_transition changes neither what a process sends nor its mode.
SameModes(r, u) == u.hellos = r.hellos /\ u.sync = r.sync /\ u.restart_mode = r.restart_mode

\* The interface comes up: no election starts or ends.
LEMMA InterfaceUpIs ==
  ASSUME NEW r \in Procs(conn), NEW u, u = InterfaceUp(r, "controller")
  PROVE  /\ u \in Procs(conn) /\ SameModes(r, u)
         /\ r.sc \in Unelected => u.sc \in Unelected
         /\ r.sc \in Sending => u.sc \in Sending
<1>1. r.ctrl \in [conn -> CtrlStates] /\ r.sc \in ScStates /\ "controller" \in conn
  BY DEF Procs, conn
<1>2. ASSUME NEW v \in CtrlStates
      PROVE  [r EXCEPT !.ctrl["controller"] = v] \in Procs(conn)
  BY <1>1 DEF Procs
<1>3. \/ u = r
      \/ \E v \in CtrlStates : u = ScInterfaceUp([r EXCEPT !.ctrl["controller"] = v])
  BY <1>1, SMTT(20) DEF InterfaceUp, CtrlStates
<1>4. ASSUME NEW w \in Procs(conn), w.sc = r.sc, SameModes(r, w), u = ScInterfaceUp(w)
      PROVE  /\ u \in Procs(conn) /\ SameModes(r, u)
             /\ r.sc \in Unelected => u.sc \in Unelected
             /\ r.sc \in Sending => u.sc \in Sending
  <2>1. \/ u = w
        \/ w.sc = "SC_INIT" /\ u = [w EXCEPT !.sc = "SC_ALL_INT_UP"]
        \/ w.sc = "SC_LEAD_ELECT_START" /\ u = [w EXCEPT !.sc = "SC_ALL_INT_UP_LEAD_ELECT_START"]
        \/ w.sc = "SC_LEAD_ELECT_COMPL" /\ u = [w EXCEPT !.sc = "SC_READY_TO_SEND"]
    BY <1>4, SMTT(20) DEF ScInterfaceUp
  <2>2. QED
    BY <1>4, <2>1 DEF Procs, ScStates, SameModes, Unelected, Sending
<1>5. CASE u = r
  BY <1>5 DEF SameModes
<1>6. ASSUME NEW v \in CtrlStates, u = ScInterfaceUp([r EXCEPT !.ctrl["controller"] = v])
      PROVE  /\ u \in Procs(conn) /\ SameModes(r, u)
             /\ r.sc \in Unelected => u.sc \in Unelected
             /\ r.sc \in Sending => u.sc \in Sending
  <2> DEFINE w == [r EXCEPT !.ctrl["controller"] = v]
  <2>1. w \in Procs(conn)
    BY <1>2
  <2>2. w.sc = r.sc /\ SameModes(r, w)
    BY DEF SameModes, Procs
  <2> HIDE DEF w
  <2>3. QED
    BY <1>4, <1>6, <2>1, <2>2 DEF w
<1>7. QED
  BY <1>3, <1>5, <1>6

\* A request for an election: where it is not taken the machine does not move.
LEMMA LeadElectIs ==
  ASSUME NEW r \in Procs(conn), NEW u, u = LeadElect(r, "controller")
  PROVE  /\ u \in Procs(conn) /\ SameModes(r, u)
         /\ r.sc \in Sending => u.sc \in Sending
         /\ ~LeadElectTaken(r, "controller") => u.sc = r.sc
<1>1. r.ctrl \in [conn -> CtrlStates] /\ r.sc \in ScStates /\ "controller" \in conn
  BY DEF Procs, conn
<1> DEFINE w == LeadElectRcvd(r, "controller")
<1>2. w = r \/ \E v \in CtrlStates : w = [r EXCEPT !.ctrl["controller"] = v]
  BY <1>1, SMTT(20) DEF LeadElectRcvd, CtrlStates
<1>3. w \in Procs(conn) /\ w.sc = r.sc /\ SameModes(r, w)
  BY <1>1, <1>2, SMTT(20) DEF Procs, SameModes
<1>4. \/ u = ScElectionStart(w) /\ LeadElectTaken(r, "controller")
      \/ u = w
  BY DEF LeadElect
<1> HIDE DEF w
<1>5. \/ u = w
      \/ /\ LeadElectTaken(r, "controller")
         /\ \/ w.sc = "SC_INIT" /\ u = [w EXCEPT !.sc = "SC_LEAD_ELECT_START"]
            \/ w.sc = "SC_ALL_INT_UP" /\ u = [w EXCEPT !.sc = "SC_ALL_INT_UP_LEAD_ELECT_START"]
            \/ w.sc = "SC_READY_TO_SEND" /\ u = [w EXCEPT !.sc = "SC_READY_TO_SEND_LEAD_ELECT_START"]
  BY <1>4, SMTT(20) DEF ScElectionStart, StartsElection
<1>6. QED
  BY <1>3, <1>5 DEF Procs, ScStates, SameModes, Sending

\* An election is over: only a first one starts the hellos, and only then does a process
\* in restart mode have to synchronize.
LEMMA ElectionCompleteIs ==
  ASSUME NEW r \in Procs(conn), past_leader_elect_start(r.sc), NEW u, u = ElectionComplete(r)
  PROVE  /\ u \in Procs(conn) /\ u.sc \in Sending /\ u.restart_mode = r.restart_mode
         /\ \/ r.sc \in Sending /\ u.hellos = r.hellos /\ u.sync = r.sync
            \/ r.sc \notin Sending /\ u.hellos /\ u.sync = (r.sync \/ r.restart_mode)
<1>1. \/ /\ r.sc = "SC_LEAD_ELECT_START"
         /\ u = [r EXCEPT !.sc = "SC_LEAD_ELECT_COMPL", !.sync = r.sync \/ r.restart_mode, !.hellos = TRUE]
      \/ /\ r.sc = "SC_ALL_INT_UP_LEAD_ELECT_START"
         /\ u = [r EXCEPT !.sc = "SC_READY_TO_SEND", !.sync = r.sync \/ r.restart_mode, !.hellos = TRUE]
      \/ r.sc = "SC_READY_TO_SEND_LEAD_ELECT_START" /\ u = [r EXCEPT !.sc = "SC_READY_TO_SEND"]
  BY DEF ElectionComplete, past_leader_elect_start
<1>2. QED
  BY <1>1 DEF Procs, ScStates, Sending

\* A process that ends leaves the order; the others keep their places.
LEMMA CrashOrder ==
  ASSUME OrderInv, NEW p \in Sibs, Crash(p)
  PROVE  \E i \in 1..Len(order) :
           /\ order[i] = p
           /\ order' \in Seq(Sibs) /\ Len(order') = Len(order) - 1
           /\ \A j \in 1 .. Len(order) - 1 : order'[j] = IF j < i THEN order[j] ELSE order[j + 1]
<1>1. PICK i \in 1..Len(order) :
        /\ order[i] = p
        /\ order' = SubSeq(order, 1, i - 1) \o SubSeq(order, i + 1, Len(order))
  BY DEF Crash
<1> DEFINE u == SubSeq(order, 1, i - 1)
           v == SubSeq(order, i + 1, Len(order))
<1>2. order \in Seq(Sibs) /\ Len(order) \in Nat
  BY SMTT(20) DEF OrderInv
<1>3. u \in Seq(Sibs) /\ Len(u) = i - 1 /\ \A j \in 1 .. i - 1 : u[j] = order[j]
  BY <1>2, SubSeqProperties, SMTT(20)
<1>4. v \in Seq(Sibs) /\ Len(v) = Len(order) - i /\ \A j \in 1 .. Len(order) - i : v[j] = order[i + j]
  BY <1>2, SubSeqProperties, SMTT(20)
<1> HIDE DEF u, v
<1>5. order' = u \o v
  BY <1>1 DEF u, v
<1>6. order' \in Seq(Sibs) /\ Len(order') = Len(order) - 1
  <2>1. u \o v \in Seq(Sibs) /\ Len(u \o v) = Len(u) + Len(v)
    BY <1>3, <1>4, ConcatProperties, Zenon
  <2>2. Len(u) = i - 1 /\ Len(v) = Len(order) - i
    BY <1>3, <1>4
  <2>3. QED
    BY ONLY <1>2, <1>5, <2>1, <2>2, i \in 1..Len(order), SMTT(20)
<1>7. ASSUME NEW j \in 1 .. Len(order) - 1
      PROVE  order'[j] = IF j < i THEN order[j] ELSE order[j + 1]
  <2>1. CASE j < i
    <3>1. j \in 1 .. Len(u) + Len(v) /\ j <= Len(u) /\ j \in 1 .. i - 1
      BY <1>2, <1>3, <1>4, <2>1, SMTT(20)
    <3>2. order'[j] = u[j]
      BY <1>3, <1>4, <1>5, <3>1, ConcatProperties
    <3>3. QED
      BY <1>3, <2>1, <3>1, <3>2
  <2>2. CASE ~(j < i)
    <3>1. j \in 1 .. Len(u) + Len(v) /\ ~(j <= Len(u)) /\ j - Len(u) \in 1 .. Len(order) - i
      BY <1>2, <1>3, <1>4, <2>2, SMTT(20)
    <3>2. order'[j] = v[j - Len(u)]
      BY <1>3, <1>4, <1>5, <3>1, ConcatProperties
    <3>3. i + (j - Len(u)) = j + 1
      BY <1>2, <1>3, SMTT(20)
    <3>4. QED
      BY <1>4, <2>2, <3>1, <3>2, <3>3
  <2>3. QED
    BY <2>1, <2>2
<1>8. QED
  BY <1>1, <1>6, <1>7

\* The oldest sibling stays first.
LEMMA OrderStep ==
  ASSUME LeaderStays, OrderInv, [SysNext]_sysVars
  PROVE  OrderInv'
<1>1. CASE order' = order
  BY <1>1 DEF OrderInv
<1>2. ASSUME NEW p \in Sibs, Crash(p) PROVE OrderInv'
  <2>1. PICK i \in 1..Len(order) :
          /\ order[i] = p
          /\ order' \in Seq(Sibs) /\ Len(order') = Len(order) - 1
          /\ \A j \in 1 .. Len(order) - 1 : order'[j] = IF j < i THEN order[j] ELSE order[j + 1]
    BY <1>2, CrashOrder
  <2>2. order \in Seq(Sibs) /\ Len(order) \in Nat /\ order[1] = Oldest
    BY SMTT(20) DEF OrderInv
  <2>3. p # Oldest
    BY <1>2 DEF LeaderStays, Crash
  <2>4. i >= 2 /\ Len(order) >= 2
    BY <2>1, <2>2, <2>3, SMTT(20)
  <2>5. order'[1] = Oldest /\ order' # <<>>
    BY <2>1, <2>2, <2>4, SMTT(20)
  <2>6. \A j, k \in 1..Len(order') : order'[j] = order'[k] => j = k
    <3>1. SUFFICES ASSUME NEW j \in 1..Len(order'), NEW k \in 1..Len(order'), order'[j] = order'[k]
                   PROVE  j = k
      OBVIOUS
    <3> DEFINE jj == IF j < i THEN j ELSE j + 1
               kk == IF k < i THEN k ELSE k + 1
    <3>2. order'[j] = order[jj] /\ order'[k] = order[kk] /\ jj \in 1..Len(order) /\ kk \in 1..Len(order)
      BY <2>1, <2>2, SMTT(20)
    <3>3. jj = kk
      BY <3>1, <3>2 DEF OrderInv
    <3>4. QED
      BY <2>1, <2>2, <3>3, SMTT(20)
  <2>7. QED
    BY <2>1, <2>5, <2>6 DEF OrderInv
<1>3. ASSUME NEW p \in Sibs, Restart(p) PROVE OrderInv'
  <2>1. order' = Append(order, p) /\ \A i \in 1..Len(order) : order[i] # p
    BY <1>3 DEF Restart, Alive
  <2>2. order \in Seq(Sibs) /\ Len(order) \in Nat /\ Len(order) >= 1 /\ order[1] = Oldest
    BY SMTT(20) DEF OrderInv
  <2>3. /\ order' \in Seq(Sibs) /\ Len(order') = Len(order) + 1 /\ order'[Len(order) + 1] = p
        /\ \A i \in 1..Len(order) : order'[i] = order[i]
    BY <2>1, <2>2, AppendProperties, SMTT(20)
  <2>4. order' # <<>> /\ order'[1] = Oldest
    BY <2>2, <2>3, SMTT(20)
  <2>5. \A i, j \in 1..Len(order') : order'[i] = order'[j] => i = j
    BY <2>1, <2>2, <2>3, SMTT(20) DEF OrderInv
  <2>6. QED
    BY <2>3, <2>4, <2>5 DEF OrderInv
<1>4. QED
  <2>1. CASE UNCHANGED sysVars
    BY <1>1, <2>1 DEF sysVars, sibVars
  <2>2. CASE CtrlRouterAccept \/ \E s \in Slots : CtrlConnected(s) \/ CtrlDestroy(s) \/ CtrlRecv(s)
    BY <1>1, <2>2 DEF CtrlRouterAccept, sibVars, CtrlConnected, CtrlDestroy, CtrlRecv
  <2>3. ASSUME NEW p \in Sibs,
               \/ \E s \in Slots : Connect(p, s) \/ SibRecv(p, s)
               \/ SibElected(p) \/ RestartDone(p) \/ \E val \in Payload : SibSend(p, val)
        PROVE  OrderInv'
    BY <1>1, <2>3 DEF Connect, SibRecv, SibElected, RestartDone, SibSend
  <2>4. QED
    BY <1>2, <1>3, <2>1, <2>2, <2>3 DEF SysNext

\* What does not touch a process leaves it as it was.
SameProc(q) ==
  /\ proc'[q] = proc[q] /\ xid'[q] = xid[q]
  /\ SlotsOf(q)' = SlotsOf(q) /\ (Alive(q)' <=> Alive(q))

\* ProcAt of a sibling that does not change,
LEMMA SameProcAt ==
  ASSUME NEW q, ProcAt(q), SameProc(q)
  PROVE  ProcAt(q)'
BY DEF ProcAt, SameProc

\* A process sends hellos only once it was elected, and it is new as long as it has
\* no connection.
LEMMA ProcStep ==
  ASSUME TInv, LinkInv, OrderInv, ProcInv, [SysNext]_sysVars
  PROVE  ProcInv'
<1>1. /\ proc \in [Sibs -> Procs(conn)] /\ xid \in [Sibs -> Nat]
      /\ peer \in [Slots -> Sibs \cup {NoSib}] /\ \A p \in Sibs : ProcAt(p)
  BY DEF TInv, Shape, Numbers, ProcInv
<1>2. ASSUME UNCHANGED <<peer, proc, xid, order>> PROVE ProcInv'
  <2>1. \A q \in Sibs : SameProc(q)
    BY <1>2 DEF SameProc, SlotsOf, Alive
  <2>2. QED
    BY <1>1, <1>2, <2>1, SameProcAt DEF ProcInv
<1>3. ASSUME NEW p \in Sibs, NEW r \in Procs(conn), proc' = [proc EXCEPT ![p] = r],
             UNCHANGED <<peer, order>>, xid' \in [Sibs -> Nat],
             \A q \in Sibs \ {p} : xid'[q] = xid[q], ProcAt(p)'
      PROVE  ProcInv'
  <2>1. \A q \in Sibs \ {p} : SameProc(q)
    BY <1>1, <1>3 DEF SameProc, SlotsOf, Alive
  <2>2. QED
    BY <1>1, <1>3, <2>1, SameProcAt DEF ProcInv
<1>4. ASSUME NEW p \in Sibs, NEW s \in Slots, Connect(p, s) PROVE ProcInv'
  <2>1. /\ Alive(p) /\ SlotsOf(p) = {} /\ peer' = [peer EXCEPT ![s] = p] /\ xid' = xid /\ order' = order
        /\ proc' = [proc EXCEPT ![p].ctrl["controller"] = "CTRL_SENT_HELLO"]
        /\ AcceptReuse(s) \/ AcceptNew(s)
    BY <1>4 DEF Connect
  <2>2. peer[s] = NoSib
    <3>1. CASE AcceptReuse(s)
      BY <3>1 DEF AcceptReuse, Disconnected, LinkInv
    <3>2. CASE AcceptNew(s)
      BY <3>2, SMTT(20) DEF AcceptNew, TInv, Numbers, SlotAt, LinkInv
    <3>3. QED
      BY <2>1, <3>1, <3>2
  <2>3. /\ proc' \in [Sibs -> Procs(conn)] /\ \A q \in Sibs \ {p} : proc'[q] = proc[q]
        /\ proc'[p].sc = proc[p].sc /\ proc'[p].hellos = proc[p].hellos /\ proc'[p].sync = proc[p].sync
    BY <1>1, <2>1 DEF Procs, conn, CtrlStates
  <2>4. Alive(p)' /\ s \in SlotsOf(p)'
    BY <1>1, <2>1 DEF Alive, SlotsOf
  <2>5. ProcAt(p)'
    BY <1>1, <2>3, <2>4 DEF ProcAt
  <2>6. \A q \in Sibs \ {p} : SameProc(q)
    <3> TAKE q \in Sibs \ {p}
    <3>1. q # NoSib
      BY SMTT(20) DEF Sibs, NoSib
    <3>2. SlotsOf(q)' = SlotsOf(q)
      BY <1>1, <2>1, <2>2, <3>1 DEF SlotsOf
    <3>3. QED
      BY <2>1, <2>3, <3>2 DEF SameProc, Alive
  <2>7. QED
    BY <1>1, <2>3, <2>5, <2>6, SameProcAt DEF ProcInv
<1>5. ASSUME NEW p \in Sibs, NEW s \in Slots, SibRecv(p, s) PROVE ProcInv'
  <2>1. peer[s] = p /\ UNCHANGED <<peer, order>> /\ proc[p] \in Procs(conn)
    BY <1>1, <1>5 DEF SibRecv
  <2>2. SlotsOf(p)' # {} /\ Alive(p)'
    BY <1>1, <2>1 DEF SlotsOf, Alive, ProcAt
  <2>3. \E r \in Procs(conn) : /\ proc' = [proc EXCEPT ![p] = r] /\ SameModes(proc[p], r)
                               /\ proc[p].sc \in Sending => r.sc \in Sending
    <3>1. CASE SibHello(p)
      <4> DEFINE r == [proc[p] EXCEPT !.ctrl["controller"] = "CTRL_RCVD_HELLO"]
      <4>1. r \in Procs(conn) /\ r.sc = proc[p].sc /\ SameModes(proc[p], r)
        BY <2>1 DEF Procs, conn, CtrlStates, SameModes
      <4>2. proc' = [proc EXCEPT ![p] = r]
        BY <1>1, <3>1 DEF SibHello
      <4>3. QED
        BY <4>1, <4>2
    <3>2. CASE SibFeaturesReply(p)
      <4>1. proc' = [proc EXCEPT ![p] = InterfaceUp(proc[p], "controller")]
        BY <3>2 DEF SibFeaturesReply
      <4>2. QED
        BY <2>1, <4>1, InterfaceUpIs
    <3>3. CASE SibLeaderElect(p)
      <4>1. proc' = [proc EXCEPT ![p] = LeadElect(proc[p], "controller")]
        BY <3>3 DEF SibLeaderElect
      <4>2. QED
        BY <2>1, <4>1, LeadElectIs
    <3>4. QED
      BY <1>5, <3>1, <3>2, <3>3 DEF SibRecv
  <2>4. xid' \in [Sibs -> Nat] /\ \A q \in Sibs \ {p} : xid'[q] = xid[q]
    <3>1. \E x \in Nat : xid' = [xid EXCEPT ![p] = x]
      <4>1. xid[p] \in Nat /\ xid = [xid EXCEPT ![p] = xid[p]] /\ xid[p] + 1 \in Nat /\ xid[p] + 2 \in Nat
        BY <1>1, SMTT(20)
      <4>2. \/ xid' = [xid EXCEPT ![p] = xid[p] + 2]
            \/ xid' = [xid EXCEPT ![p] = xid[p] + 1]
            \/ xid' = xid
        BY <1>5 DEF SibRecv, SibHello, SibFeaturesReply, SibLeaderElect
      <4>3. QED
        BY <4>1, <4>2
    <3>2. QED
      BY <1>1, <3>1
  <2>5. PICK r \in Procs(conn) : /\ proc' = [proc EXCEPT ![p] = r] /\ SameModes(proc[p], r)
                                 /\ proc[p].sc \in Sending => r.sc \in Sending
    BY <2>3
  <2>6. ProcAt(p)'
    BY <1>1, <2>2, <2>5 DEF ProcAt, SameModes
  <2>7. QED
    BY <1>3, <2>1, <2>4, <2>5, <2>6
<1>6. ASSUME NEW p \in Sibs, SibElected(p) PROVE ProcInv'
  <2>1. /\ Alive(p) /\ past_leader_elect_start(proc[p].sc) /\ proc' = [proc EXCEPT ![p] = ElectionComplete(proc[p])]
        /\ UNCHANGED <<peer, order, xid>> /\ proc[p] \in Procs(conn)
    BY <1>1, <1>6 DEF SibElected
  <2>2. SlotsOf(p)' # {} /\ Alive(p)'
    BY <1>1, <2>1 DEF SlotsOf, Alive, ProcAt, past_leader_elect_start
  <2> DEFINE r == ElectionComplete(proc[p])
  <2>3. /\ r \in Procs(conn) /\ r.sc \in Sending
        /\ \/ proc[p].sc \in Sending /\ r.hellos = proc[p].hellos /\ r.sync = proc[p].sync
           \/ r.hellos
    BY <2>1, ElectionCompleteIs
  <2> HIDE DEF r
  <2>4. proc'[p] = r
    BY <1>1, <2>1 DEF r
  <2>5. ProcAt(p)'
    BY <1>1, <2>2, <2>3, <2>4 DEF ProcAt
  <2>6. QED
    BY <1>1, <1>3, <2>1, <2>3, <2>5 DEF r
<1>7. ASSUME NEW p \in Sibs, RestartDone(p) \/ \E val \in Payload : SibSend(p, val) PROVE ProcInv'
  <2>1. /\ UNCHANGED <<peer, order>>
        /\ \/ proc' = [proc EXCEPT ![p].restart_mode = FALSE]
           \/ proc' = [proc EXCEPT ![p].sync = FALSE]
        /\ xid' = xid \/ SlotsOf(p) # {}
    BY <1>7 DEF RestartDone, SibSend
  <2>2. xid' \in [Sibs -> Nat] /\ \A q \in Sibs \ {p} : xid'[q] = xid[q]
    <3>1. egress_db \in Nat /\ xid[p] \in Nat
      BY <1>1 DEF TInv, Numbers
    <3>2. xid' = xid \/ \E x \in Nat : xid' = [xid EXCEPT ![p] = x + 1]
      BY <1>7, <3>1 DEF RestartDone, SibSend, synchronize_current_xid, db_get_egress_xid
    <3>3. QED
      BY <1>1, <3>2, SMTT(20)
  <2>3. \E r \in Procs(conn) : /\ proc' = [proc EXCEPT ![p] = r] /\ r.sc = proc[p].sc /\ r.hellos = proc[p].hellos
                               /\ r.sync => proc[p].sync
    <3>1. proc[p] \in Procs(conn) /\ DOMAIN proc = Sibs
      BY <1>1
    <3>2. CASE proc' = [proc EXCEPT ![p].restart_mode = FALSE]
      <4>1. [proc[p] EXCEPT !.restart_mode = FALSE] \in Procs(conn)
        BY <3>1 DEF Procs
      <4>2. QED
        BY <3>1, <3>2, <4>1 DEF Procs
    <3>3. CASE proc' = [proc EXCEPT ![p].sync = FALSE]
      <4>1. [proc[p] EXCEPT !.sync = FALSE] \in Procs(conn)
        BY <3>1 DEF Procs
      <4>2. QED
        BY <3>1, <3>3, <4>1 DEF Procs
    <3>4. QED
      BY <2>1, <3>2, <3>3
  <2>4. PICK r \in Procs(conn) : /\ proc' = [proc EXCEPT ![p] = r] /\ r.sc = proc[p].sc /\ r.hellos = proc[p].hellos
                                 /\ r.sync => proc[p].sync
    BY <2>3
  <2>5. SlotsOf(p)' = SlotsOf(p) /\ (Alive(p)' <=> Alive(p))
    BY <2>1 DEF SlotsOf, Alive
  <2>6. ProcAt(p)'
    BY <1>1, <2>1, <2>4, <2>5 DEF ProcAt
  <2>7. QED
    BY <1>3, <2>1, <2>2, <2>4, <2>6
<1>8. ASSUME NEW p \in Sibs, Crash(p) PROVE ProcInv'
  <2>1. /\ UNCHANGED <<proc, xid>> /\ peer' = [s \in Slots |-> IF peer[s] = p THEN NoSib ELSE peer[s]]
    BY <1>8 DEF Crash
  <2>2. PICK i \in 1..Len(order) :
           /\ order[i] = p
           /\ order' \in Seq(Sibs) /\ Len(order') = Len(order) - 1
           /\ \A j \in 1 .. Len(order) - 1 : order'[j] = IF j < i THEN order[j] ELSE order[j + 1]
    BY <1>8, CrashOrder
  <2>3. order \in Seq(Sibs) /\ Len(order) \in Nat
    BY SMTT(20) DEF OrderInv
  <2>4. ~Alive(p)'
    BY <2>2, <2>3, SMTT(20) DEF Alive, OrderInv
  <2>5. SlotsOf(p)' = {}
    BY <2>1, SMTT(20) DEF SlotsOf, Sibs, NoSib
  <2>6. ProcAt(p)'
    BY <1>1, <2>1, <2>4, <2>5 DEF ProcAt
  <2>7. ASSUME NEW q \in Sibs \ {p} PROVE SameProc(q)
    <3>1. SlotsOf(q)' = SlotsOf(q)
      BY <1>1, <2>1, SMTT(20) DEF SlotsOf, Sibs, NoSib
    <3>2. Alive(q)' => Alive(q)
      BY <2>2, <2>3, SMTT(20) DEF Alive
    <3>3. ASSUME NEW j \in 1..Len(order), order[j] = q PROVE Alive(q)'
      <4>1. j # i
        BY <2>2, <3>3
      <4>2. CASE j < i
        BY <2>2, <2>3, <3>3, <4>2, SMTT(20) DEF Alive
      <4>3. CASE j > i
        <5>1. j - 1 \in 1..Len(order') /\ ~(j - 1 < i) /\ order'[j - 1] = order[(j - 1) + 1] /\ (j - 1) + 1 = j
          BY <2>2, <2>3, <4>3, SMTT(20)
        <5>2. QED
          BY <3>3, <5>1 DEF Alive
      <4>4. QED
        BY <2>3, <4>1, <4>2, <4>3, SMTT(20)
    <3>4. QED
      BY <2>1, <3>1, <3>2, <3>3 DEF SameProc, Alive
  <2>8. QED
    BY <1>1, <2>1, <2>6, <2>7, SameProcAt DEF ProcInv
<1>9. ASSUME NEW p \in Sibs, Restart(p) PROVE ProcInv'
  <2>1. /\ ~Alive(p) /\ order' = Append(order, p) /\ proc' = [proc EXCEPT ![p] = NewProc(conn, TRUE)]
        /\ xid' = [xid EXCEPT ![p] = 0] /\ peer' = peer
    BY <1>9 DEF Restart
  <2>2. NewProc(conn, TRUE) \in Procs(conn)
    BY DEF NewProc, Procs, CtrlStates, ScStates
  <2>3. /\ order \in Seq(Sibs) /\ Len(order) \in Nat /\ Len(order') = Len(order) + 1
        /\ order'[Len(order) + 1] = p /\ \A i \in 1..Len(order) : order'[i] = order[i]
    BY <2>1, AppendProperties, SMTT(20) DEF OrderInv
  <2>4. Alive(p)'
    BY <2>3, SMTT(20) DEF Alive
  <2>5. xid'[p] = 0 /\ proc'[p] = NewProc(conn, TRUE)
    BY <1>1, <2>1
  <2>6. ProcAt(p)'
    BY <2>4, <2>5, SMTT(20) DEF ProcAt, NewProc
  <2>7. ASSUME NEW q \in Sibs \ {p} PROVE SameProc(q)
    <3>1. Alive(q)' <=> Alive(q)
      BY <2>3, SMTT(20) DEF Alive
    <3>2. QED
      BY <1>1, <2>1, <3>1 DEF SameProc, SlotsOf
  <2>8. QED
    BY <1>1, <2>1, <2>2, <2>6, <2>7, SameProcAt DEF ProcInv
<1>10. QED
  <2>1. CASE CtrlRouterAccept \/ UNCHANGED sysVars
    BY <1>2, <2>1 DEF CtrlRouterAccept, sibVars, sysVars
  <2>2. ASSUME NEW s \in Slots, CtrlConnected(s) \/ CtrlDestroy(s) \/ CtrlRecv(s) PROVE ProcInv'
    BY <1>2, <2>2 DEF CtrlConnected, CtrlDestroy, CtrlRecv
  <2>3. QED
    BY <1>4, <1>5, <1>6, <1>7, <1>8, <1>9, <2>1, <2>2 DEF SysNext

-----------------------------------------------------------------------------
(***************************************************************************)
(* What a step leaves alone                                                *)
(***************************************************************************)

\* and SlotLive of a slot that does not change.
LEMMA SlotFrame ==
  ASSUME NEW t \in Slots, SlotLive(t), SameSlot(t), Shape,
         Common' = Common, is_leader[t] => leader_sibling' = leader_sibling
  PROVE  SlotLive(t)'
<1>1. peer[t] # NoSib <=> peer[t] \in Sibs
  BY SMTT(20) DEF Shape, Sibs, NoSib
<1>2. ASSUME Handshaking(t) PROVE Handshaking(t)'
  BY <1>1, <1>2 DEF SameSlot, Handshaking, NotElected
<1>3. ASSUME Fresh(t) PROVE Fresh(t)'
  BY <1>1, <1>3 DEF SameSlot, Fresh
<1>4. ASSUME Streaming(t) PROVE Streaming(t)'
  BY <1>1, <1>3, <1>4 DEF SameSlot, Streaming
<1>5. QED
  BY <1>2, <1>4 DEF SlotLive, SameSlot

\* Common is read off the leader's slot.
LEMMA CommonFrame ==
  ASSUME leader_sibling' = leader_sibling,
         leader_sibling # NoSlot => current_egress_xid'[leader_sibling] = current_egress_xid[leader_sibling]
  PROVE  Common' = Common
BY DEF Common

\* A step that changes nothing that the invariant speaks of.
LEMMA LiveFrame ==
  ASSUME LiveInv, Shape, UNCHANGED <<leader_sibling, slotVars, egress_db, sibVars>>
  PROVE  LiveInv'
<1>1. Common' = Common /\ UNCHANGED <<leader_sibling, egress_db, peer, state, queue, toCtrl, toSib, order, proc>>
  BY DEF Common, slotVars, sibVars
<1>2. \A t \in Slots : SameSlot(t)
  BY DEF SameSlot, slotVars, sibVars
<1>3. \A t \in Slots : SlotLive(t)'
  BY <1>1, <1>2, SlotFrame DEF LiveInv
<1>4. NoLeaderYet => NoLeaderYet'
  BY <1>1, SMTT(20) DEF NoLeaderYet, NotElected
<1>5. (Begun => Begun') /\ (Quiescent => Quiescent')
  BY <1>1 DEF Begun, Quiescent, NotElected
<1>6. QED
  BY <1>1, <1>3, <1>4, <1>5 DEF LiveInv

-----------------------------------------------------------------------------
(***************************************************************************)
(* Steps of the siblings                                                   *)
(***************************************************************************)

\* A step of process p: what has to be shown is about its own slot s.
LEMMA SibFrame ==
  ASSUME Base, LiveInv, NEW p \in Sibs, NEW s \in Slots, peer[s] = p, CtrlIdle, UNCHANGED <<peer, order>>,
         \A q \in Sibs \ {p} : proc'[q] = proc[q] /\ xid'[q] = xid[q],
         \A t \in Slots \ {s} : toCtrl'[t] = toCtrl[t] /\ toSib'[t] = toSib[t],
         SlotLive(s)',
         NoLeaderYet =>
           /\ \A i \in 1..Len(toCtrl'[s]) : toCtrl'[s][i].type = "EGRESS" =>
                \E j \in 1..(i - 1) : toCtrl'[s][j].type = "REDISTRIBUTE_LEADER_ELECT"
           /\ ~proc'[p].restart_mode /\ ~proc'[p].sync
           /\ ~NotElected(p)' => Has(toCtrl'[s], "REDISTRIBUTE_LEADER_ELECT"),
         Quiescent =>
           /\ \A i \in 1..Len(toSib'[s]) : toSib'[s][i] # "LEADER_ELECT"
           /\ ~Has(toCtrl'[s], "REDISTRIBUTE_LEADER_ELECT")
           /\ NotElected(p)'
  PROVE  LiveInv'
<1>1. UNCHANGED <<leader_sibling, state, queue, current_egress_xid, waiting_on_first_egress_msg,
                  is_leader, egress_db>>
  BY DEF CtrlIdle, slotVars
<1>2. Common' = Common
  BY <1>1, CommonFrame
<1>3. /\ Shape /\ \A t \in Slots : peer[t] \in Sibs \cup {NoSib}
      /\ \A t \in Slots : peer[t] = p => t = s
  BY DEF Base, TInv, Shape, OneSlot
<1>4. \A t \in Slots \ {s} : SameSlot(t)
  BY <1>1, <1>3 DEF SameSlot
<1>5. \A t \in Slots : SlotLive(t)'
  BY <1>1, <1>2, <1>3, <1>4, SlotFrame DEF LiveInv
<1>6. \A q \in Sibs \ {p} : NotElected(q)' <=> NotElected(q)
  BY DEF NotElected
<1>7. NoLeaderYet => NoLeaderYet'
  <2>1. SUFFICES ASSUME NoLeaderYet PROVE NoLeaderYet'
    OBVIOUS
  <2>2. order' = [q \in Sibs |-> q] /\ \A q \in Sibs : ~proc'[q].restart_mode /\ ~proc'[q].sync
    BY <2>1 DEF NoLeaderYet
  <2>3. \A t \in Slots :
               /\ state'[t] # "NULL" => peer'[t] # NoSib
               /\ queue'[t] = <<>>
               /\ \A i \in 1..Len(toCtrl'[t]) : toCtrl'[t][i].type = "EGRESS" =>
                    \E j \in 1..(i - 1) : toCtrl'[t][j].type = "REDISTRIBUTE_LEADER_ELECT"
    BY <1>1, <2>1, SMTT(20) DEF NoLeaderYet
  <2>4. ASSUME NEW q \in Sibs, ~NotElected(q)'
        PROVE  \E t \in Slots : peer'[t] = q /\ Has(toCtrl'[t], "REDISTRIBUTE_LEADER_ELECT")
    <3>1. CASE q = p
      BY <2>1, <2>4, <3>1
    <3>2. CASE q # p
      <4>1. PICK t \in Slots : peer[t] = q /\ Has(toCtrl[t], "REDISTRIBUTE_LEADER_ELECT")
        BY <1>6, <2>1, <2>4, <3>2 DEF NoLeaderYet
      <4>2. QED
        BY <3>2, <4>1
    <3>3. QED
      BY <3>1, <3>2
  <2>5. QED
    BY <2>2, <2>3, <2>4 DEF NoLeaderYet
<1>8. Begun => Begun'
  BY <1>1 DEF Begun
<1>9. Quiescent => Quiescent'
  <2>1. SUFFICES ASSUME Quiescent PROVE Quiescent'
    OBVIOUS
  <2>2. \A q \in Sibs : NotElected(q)'
    BY <1>6, <2>1 DEF Quiescent
  <2>3. \A t \in Slots : /\ \A i \in 1..Len(toSib'[t]) : toSib'[t][i] # "LEADER_ELECT"
                         /\ ~Has(toCtrl'[t], "REDISTRIBUTE_LEADER_ELECT")
    BY <2>1, SMTT(20) DEF Quiescent
  <2>4. QED
    BY <1>1, <2>1, <2>2, <2>3 DEF Quiescent
<1>10. QED
  BY <1>1, <1>2, <1>5, <1>7, <1>8, <1>9 DEF LiveInv

\* The bytes that a process writes go to its one slot.
LEMMA WriteIs ==
  ASSUME Base, NEW p \in Sibs, NEW s \in Slots, peer[s] = p, NEW msgs, Write(p, msgs)
  PROVE  /\ toCtrl'[s] = toCtrl[s] \o msgs
         /\ \A t \in Slots \ {s} : toCtrl'[t] = toCtrl[t]
BY DEF Base, TInv, OneSlot, Write

\* What a process with a connection has: a slot in its handshake, or a routing one.
LEMMA SlotOfIs ==
  ASSUME Base, LiveInv, NEW s \in Slots, peer[s] \in Sibs
  PROVE  /\ peer[s] # NoSib
         /\ \/ /\ state[s] \notin {"NULL", "SIB_DISCONNECTED", "SIB_ROUTING"} /\ Handshaking(s)
            \/ state[s] = "SIB_ROUTING" /\ Streaming(s)
<1>1. peer[s] # NoSib
  BY SMTT(20) DEF Sibs, NoSib
<1>2. QED
  BY <1>1 DEF Base, LinkInv, LiveInv, SlotLive

\* A process that is elected has a routing slot, and an election has begun.
LEMMA ElectedIs ==
  ASSUME Base, LiveInv, NEW s \in Slots, peer[s] \in Sibs, ~NotElected(peer[s])
  PROVE  state[s] = "SIB_ROUTING" /\ Streaming(s) /\ ~Quiescent
<1>1. ~Handshaking(s)
  <2>1. peer[s] # NoSib
    BY SMTT(20) DEF Sibs, NoSib
  <2>2. QED
    BY <2>1 DEF Handshaking
<1>2. QED
  BY <1>1, SlotOfIs DEF Quiescent

\* ctrl_client_connected: the two requests after the HELLO.
LEMMA HelloLive ==
  ASSUME Base, LiveInv, NEW p \in Sibs, NEW s \in Slots, SibRecv(p, s),
         Head(toSib[s]) = "HELLO", SibHello(p)
  PROVE  LiveInv'
<1>1. /\ peer[s] = p /\ toSib[s] # <<>> /\ toSib' = [toSib EXCEPT ![s] = Tail(toSib[s])]
      /\ UNCHANGED <<peer, order>> /\ CtrlIdle /\ p # NoSib
      /\ toSib \in [Slots -> Seq(Replies \cup {"HELLO"})]
  BY DEF SibRecv, Sibs, NoSib, Base, LinkInv
<1>2. UNCHANGED <<leader_sibling, state, queue, current_egress_xid, is_leader>>
  BY <1>1 DEF CtrlIdle, slotVars
<1>3. toSib[s] \in Seq(Replies \cup {"HELLO"}) /\ Len(toSib[s]) \in Nat /\ Len(toSib[s]) >= 1
      /\ Head(toSib[s]) = toSib[s][1]
  BY <1>1, SMTT(20)
<1>4. Handshaking(s)
  <2>1. Streaming(s) => toSib[s][1] = "LEADER_ELECT"
    BY <1>3, SMTT(20) DEF Streaming
  <2>2. QED
    BY <1>1, <1>3, <2>1, SlotOfIs
<1>5. Shake(state[s], toCtrl[s], toSib[s], xid[p]) /\ NotElected(p) /\ ~proc[p].hellos /\ queue[s] = <<>>
  BY <1>1, <1>4 DEF Handshaking
<1>6. state[s] = "SIB_CONNECTED" /\ toCtrl[s] = <<>> /\ toSib[s] = <<"HELLO">> /\ xid[p] = 0
  BY <1>1, <1>3, <1>5, SMTT(20) DEF Shake
<1>7. /\ proc' \in [Sibs -> Procs(conn)] /\ \A q \in Sibs \ {p} : proc'[q] = proc[q]
      /\ proc'[p].sc = proc[p].sc /\ SameModes(proc[p], proc'[p])
  <2>1. proc \in [Sibs -> Procs(conn)] /\ proc' = [proc EXCEPT ![p].ctrl["controller"] = "CTRL_RCVD_HELLO"]
    BY DEF Base, ProcInv, SibHello
  <2>2. QED
    BY <2>1 DEF Procs, conn, CtrlStates, SameModes
<1>8. xid'[p] = 2 /\ \A q \in Sibs \ {p} : xid'[q] = xid[q]
  <2>1. xid \in [Sibs -> Nat] /\ xid' = [xid EXCEPT ![p] = @ + 2]
    BY DEF Base, TInv, Numbers, SibHello
  <2>2. QED
    BY <1>6, <2>1, SMTT(20)
<1>9. toCtrl'[s] = <<Features0, Redistribute1>> /\ \A t \in Slots \ {s} : toCtrl'[t] = toCtrl[t]
  <2> DEFINE msgs == <<Request("FEATURES_REQUEST", xid[p]), Request("REDISTRIBUTE_REQUEST", xid[p] + 1)>>
  <2>1. Write(p, msgs) /\ msgs = <<Features0, Redistribute1>>
    BY <1>6, SMTT(20) DEF SibHello, Features0, Redistribute1
  <2> HIDE DEF msgs
  <2>2. <<>> \o <<Features0, Redistribute1>> = <<Features0, Redistribute1>>
    BY SMTT(20)
  <2>3. QED
    BY <1>1, <1>6, <2>1, <2>2, WriteIs
<1>10. toSib'[s] = <<>> /\ \A t \in Slots \ {s} : toSib'[t] = toSib[t]
  BY <1>1, <1>6, SMTT(20)
<1>11. /\ Features0.type = "FEATURES_REQUEST" /\ Redistribute1.type = "REDISTRIBUTE_REQUEST"
       /\ \A i \in 1..Len(toCtrl'[s]) : toCtrl'[s][i] \in {Features0, Redistribute1}
  BY <1>9, SMTT(20) DEF Features0, Redistribute1, Request
<1>12. Handshaking(s)'
  <2>1. Shake("SIB_CONNECTED", <<Features0, Redistribute1>>, <<>>, 2)
    BY DEF Shake
  <2>2. peer[s] \in Sibs \ Crashers => current_egress_xid[s] = Rank["SIB_CONNECTED"]
    BY <1>4, <1>6 DEF Handshaking
  <2>3. "SIB_CONNECTED" \in DOMAIN Rank
    BY DEF Rank
  <2>4. toCtrl'[s] # <<>> /\ toCtrl'[s][1] = Features0
    BY <1>9, SMTT(20)
  <2>5. NotElected(p)' /\ ~proc'[p].hellos
    BY <1>5, <1>7 DEF NotElected, SameModes
  <2>6. QED
    BY <1>1, <1>2, <1>5, <1>6, <1>8, <1>9, <1>10, <2>1, <2>2, <2>3, <2>4, <2>5 DEF Handshaking, NotElected
<1>13. SlotLive(s)'
  <2>1. is_leader[s] => s = leader_sibling
    BY DEF LiveInv, SlotLive
  <2>2. QED
    BY <1>2, <1>6, <1>11, <1>12, <2>1 DEF SlotLive
<1>14. /\ \A i \in 1..Len(toCtrl'[s]) : toCtrl'[s][i].type # "EGRESS"
       /\ ~Has(toCtrl'[s], "REDISTRIBUTE_LEADER_ELECT")
       /\ NotElected(p)'
  BY <1>5, <1>7, <1>11 DEF Has, NotElected
<1>15. NoLeaderYet => ~proc'[p].restart_mode /\ ~proc'[p].sync
  BY <1>7 DEF NoLeaderYet, SameModes
<1>16. \A i \in 1..Len(toSib'[s]) : toSib'[s][i] # "LEADER_ELECT"
  BY <1>10, SMTT(20)
<1>17. QED
  BY <1>1, <1>7, <1>8, <1>9, <1>10, <1>13, <1>14, <1>15, <1>16, SibFrame

\* recv_features_reply: the address request.
LEMMA FeaturesReplyLive ==
  ASSUME Base, LiveInv, NEW p \in Sibs, NEW s \in Slots, SibRecv(p, s),
         Head(toSib[s]) = "FEATURES_REPLY", SibFeaturesReply(p)
  PROVE  LiveInv'
<1>1. /\ peer[s] = p /\ toSib[s] # <<>> /\ toSib' = [toSib EXCEPT ![s] = Tail(toSib[s])]
      /\ UNCHANGED <<peer, order>> /\ CtrlIdle /\ p # NoSib
      /\ toSib \in [Slots -> Seq(Replies \cup {"HELLO"})]
  BY DEF SibRecv, Sibs, NoSib, Base, LinkInv
<1>2. UNCHANGED <<leader_sibling, state, queue, current_egress_xid, is_leader>>
  BY <1>1 DEF CtrlIdle, slotVars
<1>3. toSib[s] \in Seq(Replies \cup {"HELLO"}) /\ Len(toSib[s]) \in Nat /\ Len(toSib[s]) >= 1
      /\ Head(toSib[s]) = toSib[s][1]
  BY <1>1, SMTT(20)
<1>4. Handshaking(s)
  <2>1. Streaming(s) => toSib[s][1] = "LEADER_ELECT"
    BY <1>3, SMTT(20) DEF Streaming
  <2>2. QED
    BY <1>1, <1>3, <2>1, SlotOfIs
<1>5. Shake(state[s], toCtrl[s], toSib[s], xid[p]) /\ NotElected(p) /\ ~proc[p].hellos /\ queue[s] = <<>>
  BY <1>1, <1>4 DEF Handshaking
<1>6. /\ toSib[s] = <<"FEATURES_REPLY">> /\ xid[p] = 2
      /\ \/ state[s] = "SIB_FEATURES_REQ_RCVD" /\ toCtrl[s] = <<Redistribute1>>
         \/ /\ state[s] \in {"SIB_FEATURES_REQ_RCVD", "SIB_FEATURES_REDIS_REQ_RCVD"}
            /\ toCtrl[s] = <<>>
  BY <1>1, <1>3, <1>5, SMTT(20) DEF Shake
<1>7. /\ \A q \in Sibs \ {p} : proc'[q] = proc[q]
      /\ NotElected(p)' /\ SameModes(proc[p], proc'[p])
  <2>1. proc \in [Sibs -> Procs(conn)] /\ proc' = [proc EXCEPT ![p] = InterfaceUp(proc[p], "controller")]
    BY DEF Base, ProcInv, SibFeaturesReply
  <2>2. proc'[p] = InterfaceUp(proc[p], "controller") /\ proc[p] \in Procs(conn)
    BY <2>1
  <2>3. QED
    BY <1>5, <2>1, <2>2, InterfaceUpIs DEF NotElected
<1>8. xid'[p] = 3 /\ \A q \in Sibs \ {p} : xid'[q] = xid[q]
  <2>1. xid \in [Sibs -> Nat] /\ xid' = [xid EXCEPT ![p] = @ + 1]
    BY DEF Base, TInv, Numbers, SibFeaturesReply
  <2>2. QED
    BY <1>6, <2>1, SMTT(20)
<1>9. toCtrl'[s] = toCtrl[s] \o <<IfAddress2>> /\ \A t \in Slots \ {s} : toCtrl'[t] = toCtrl[t]
  <2>1. Write(p, <<IfAddress2>>)
    BY <1>6 DEF SibFeaturesReply, ctrl_client_if_addr_req, IfAddress2
  <2>2. QED
    BY <1>1, <2>1, WriteIs
<1>10. toSib'[s] = <<>> /\ \A t \in Slots \ {s} : toSib'[t] = toSib[t]
  BY <1>1, <1>6, SMTT(20)
<1>11. /\ \/ /\ state[s] = "SIB_FEATURES_REQ_RCVD" /\ toCtrl'[s] = <<Redistribute1, IfAddress2>>
             /\ toCtrl[s] = <<Redistribute1>>
          \/ /\ state[s] \in {"SIB_FEATURES_REQ_RCVD", "SIB_FEATURES_REDIS_REQ_RCVD"}
             /\ toCtrl'[s] = <<IfAddress2>> /\ toCtrl[s] = <<>>
  <2>1. <<>> \o <<IfAddress2>> = <<IfAddress2>>
    BY SMTT(20)
  <2>2. <<Redistribute1>> \o <<IfAddress2>> = <<Redistribute1, IfAddress2>>
    BY TwoOf
  <2>3. QED
    BY <1>6, <1>9, <2>1, <2>2
<1>12. /\ IfAddress2.type = "IF_ADDRESS_REQ" /\ Redistribute1.type = "REDISTRIBUTE_REQUEST"
       /\ \A i \in 1..Len(toCtrl'[s]) : toCtrl'[s][i] \in {IfAddress2, Redistribute1}
  BY <1>11, SMTT(20) DEF IfAddress2, Redistribute1, Request
<1>13. Handshaking(s)'
  <2>1. Shake(state[s], toCtrl'[s], <<>>, 3)
    BY <1>11 DEF Shake
  <2>2. ASSUME peer[s] \in Sibs \ Crashers
        PROVE  /\ state[s] \in DOMAIN Rank /\ current_egress_xid[s] = Rank[state[s]]
               /\ state[s] = "SIB_FEATURES_REQ_RCVD" => toCtrl'[s] # <<>> /\ toCtrl'[s][1] = Redistribute1
    BY <1>4, <1>11, <2>2, SMTT(20) DEF Handshaking
  <2>3. state[s] # "SIB_CONNECTED"
    BY <1>11
  <2>4. NotElected(p)' /\ ~proc'[p].hellos
    BY <1>5, <1>7 DEF SameModes
  <2>5. QED
    BY <1>1, <1>2, <1>5, <1>8, <1>10, <2>1, <2>2, <2>3, <2>4 DEF Handshaking, NotElected
<1>14. SlotLive(s)'
  <2>1. is_leader[s] => s = leader_sibling
    BY DEF LiveInv, SlotLive
  <2>2. QED
    BY <1>2, <1>11, <1>12, <1>13, <2>1 DEF SlotLive
<1>15. /\ \A i \in 1..Len(toCtrl'[s]) : toCtrl'[s][i].type # "EGRESS"
       /\ ~Has(toCtrl'[s], "REDISTRIBUTE_LEADER_ELECT")
  BY <1>12 DEF Has
<1>16. NoLeaderYet => ~proc'[p].restart_mode /\ ~proc'[p].sync
  BY <1>7 DEF NoLeaderYet, SameModes
<1>17. \A i \in 1..Len(toSib'[s]) : toSib'[s][i] # "LEADER_ELECT"
  BY <1>10, SMTT(20)
<1>18. QED
  BY <1>1, <1>7, <1>8, <1>9, <1>10, <1>14, <1>15, <1>16, <1>17, SibFrame

\* A message behind the others of a routing slot keeps them in line.
LEMMA StreamSend ==
  ASSUME NEW S, NEW t \in Seq(S), NEW e \in S, NEW ty
  PROVE  /\ Len(t) \in Nat /\ Len(t \o <<e>>) = Len(t) + 1 /\ (t \o <<e>>)[Len(t) + 1] = e
         /\ \A i \in 1..Len(t) : (t \o <<e>>)[i] = t[i]
         /\ Has(t \o <<e>>, ty) <=> Has(t, ty) \/ e.type = ty
<1> DEFINE u == t \o <<e>>
<1>1. /\ Len(t) \in Nat /\ Len(u) = Len(t) + 1 /\ u[Len(t) + 1] = e
      /\ \A i \in 1..Len(t) : u[i] = t[i]
  BY SMTT(20)
<1> HIDE DEF u
<1>2. ASSUME Has(u, ty) PROVE Has(t, ty) \/ e.type = ty
  <2>1. PICK i \in 1..Len(u) : u[i].type = ty
    BY <1>2 DEF Has
  <2>2. i = Len(t) + 1 \/ i \in 1..Len(t)
    BY <1>1, SMTT(20)
  <2>3. QED
    BY <1>1, <2>1, <2>2 DEF Has
<1>3. ASSUME Has(t, ty) \/ e.type = ty PROVE Has(u, ty)
  BY <1>1, <1>3, SMTT(20) DEF Has
<1>4. QED
  BY <1>1, <1>2, <1>3 DEF u

\* The outcome of an election goes to the controller behind what was sent before.
LEMMA LeaderElectLive ==
  ASSUME Base, LiveInv, NEW p \in Sibs, NEW s \in Slots, SibRecv(p, s),
         Head(toSib[s]) = "LEADER_ELECT", SibLeaderElect(p)
  PROVE  LiveInv'
<1>1. /\ peer[s] = p /\ toSib[s] # <<>> /\ toSib' = [toSib EXCEPT ![s] = Tail(toSib[s])]
      /\ UNCHANGED <<peer, order>> /\ CtrlIdle /\ p # NoSib
      /\ toSib \in [Slots -> Seq(Replies \cup {"HELLO"})]
  BY DEF SibRecv, Sibs, NoSib, Base, LinkInv
<1>2. UNCHANGED <<leader_sibling, state, queue, current_egress_xid, waiting_on_first_egress_msg, is_leader>>
  BY <1>1 DEF CtrlIdle, slotVars
<1>3. /\ toSib[s] \in Seq(Replies \cup {"HELLO"}) /\ Len(toSib[s]) \in Nat /\ Len(toSib[s]) >= 1
      /\ Head(toSib[s]) = toSib[s][1]
      /\ Len(Tail(toSib[s])) = Len(toSib[s]) - 1
      /\ \A i \in 1..Len(Tail(toSib[s])) : Tail(toSib[s])[i] = toSib[s][i + 1]
  BY <1>1, SMTT(20)
<1>4. state[s] = "SIB_ROUTING" /\ Streaming(s) /\ ~Quiescent
  <2>1. Handshaking(s) => toSib[s] \in ToSibs
    BY <1>1 DEF Handshaking, Shake, ToSibs
  <2>2. toSib[s] \notin ToSibs
    BY <1>1, <1>3, SMTT(20) DEF ToSibs
  <2>3. ~Quiescent
    BY <1>3, SMTT(20) DEF Quiescent
  <2>4. QED
    BY <1>1, <2>1, <2>2, <2>3, SlotOfIs
<1> DEFINE taken == LeadElectTaken(proc[p], "controller") /\ Len(order) = NumSibs
           e == [type |-> "REDISTRIBUTE_LEADER_ELECT", leads |-> p = Oldest]
           W == WrittenBy(p)
<1>5. /\ \A q \in Sibs \ {p} : proc'[q] = proc[q]
      /\ SameModes(proc[p], proc'[p])
      /\ ~LeadElectTaken(proc[p], "controller") => proc'[p].sc = proc[p].sc
  <2>1. proc \in [Sibs -> Procs(conn)] /\ proc' = [proc EXCEPT ![p] = LeadElect(proc[p], "controller")]
    BY DEF Base, ProcInv, SibLeaderElect
  <2>2. proc'[p] = LeadElect(proc[p], "controller") /\ proc[p] \in Procs(conn)
    BY <2>1
  <2>3. QED
    BY <2>1, <2>2, LeadElectIs
<1>6. /\ toCtrl[s] \in Seq(W) /\ e \in W /\ e.type = "REDISTRIBUTE_LEADER_ELECT" /\ (e.leads <=> p = Oldest)
  BY <1>1 DEF Base, TInv, SlotAt, WrittenBy
<1>7. /\ IF taken THEN toCtrl'[s] = toCtrl[s] \o <<e>> ELSE toCtrl'[s] = toCtrl[s]
      /\ \A t \in Slots \ {s} : toCtrl'[t] = toCtrl[t]
  <2>1. Head(order) = Oldest
    BY SMTT(20) DEF Base, OrderInv
  <2>2. taken => Write(p, <<e>>)
    BY <2>1 DEF SibLeaderElect
  <2>3. ~taken => toCtrl' = toCtrl
    BY DEF SibLeaderElect
  <2> HIDE DEF taken, e
  <2>4. QED
    BY <1>1, <2>2, <2>3, WriteIs
<1> HIDE DEF taken, e, W
<1>8. /\ toSib'[s] = Tail(toSib[s]) /\ \A t \in Slots \ {s} : toSib'[t] = toSib[t]
      /\ xid' = xid
  BY <1>1 DEF SibLeaderElect
<1>9. /\ Len(toCtrl[s]) \in Nat /\ Len(toCtrl'[s]) >= Len(toCtrl[s]) /\ Len(toCtrl'[s]) \in Nat
      /\ \A i \in 1..Len(toCtrl'[s]) : \/ i \in 1..Len(toCtrl[s]) /\ toCtrl'[s][i] = toCtrl[s][i]
                                       \/ i \notin 1..Len(toCtrl[s]) /\ toCtrl'[s][i] = e
      /\ \A i \in 1..Len(toCtrl[s]) : toCtrl'[s][i] = toCtrl[s][i]
      /\ Has(toCtrl'[s], "EGRESS") <=> Has(toCtrl[s], "EGRESS")
      /\ Has(toCtrl'[s], "REDISTRIBUTE_LEADER_ELECT") <=> Has(toCtrl[s], "REDISTRIBUTE_LEADER_ELECT") \/ taken
  <2>1. CASE ~taken
    <3>1. toCtrl'[s] = toCtrl[s] /\ Len(toCtrl[s]) \in Nat
      BY <1>6, <1>7, <2>1, SMTT(20)
    <3>2. QED
      BY <2>1, <3>1, SMTT(20)
  <2>2. CASE taken
    <3> DEFINE u == toCtrl[s] \o <<e>>
    <3>1. /\ Len(toCtrl[s]) \in Nat /\ Len(u) = Len(toCtrl[s]) + 1 /\ u[Len(toCtrl[s]) + 1] = e
          /\ \A i \in 1..Len(toCtrl[s]) : u[i] = toCtrl[s][i]
      BY <1>6, StreamSend, SMTT(20)
    <3>2. /\ Has(u, "EGRESS") <=> Has(toCtrl[s], "EGRESS")
          /\ Has(u, "REDISTRIBUTE_LEADER_ELECT")
      BY <1>6, StreamSend, SMTT(20)
    <3>3. toCtrl'[s] = u
      BY <1>7, <2>2
    <3> HIDE DEF u
    <3>4. QED
      BY <2>2, <3>1, <3>2, <3>3, SMTT(20)
  <2>3. QED
    BY <2>1, <2>2
<1>10. ASSUME NEW a \in Nat, NEW b \in Nat, Runs(toCtrl[s], a, b) PROVE Runs(toCtrl'[s], a, b)
  BY <1>6, <1>7, <1>10, RunsSend
<1>11. Common' = Common
  BY <1>2, CommonFrame
<1>12. Fresh(s) => Fresh(s)'
  <2>1. SUFFICES ASSUME Fresh(s) PROVE Fresh(s)'
    OBVIOUS
  <2>2. ASSUME NEW i \in 1..Len(toCtrl'[s]), toCtrl'[s][i].type = "EGRESS",
               \A j \in 1..(i - 1) : toCtrl'[s][j].type # "EGRESS"
        PROVE  toCtrl'[s][i].msg.val \notin RouteSet
    <3>1. i \in 1..Len(toCtrl[s]) /\ toCtrl'[s][i] = toCtrl[s][i]
      BY <1>6, <1>9, <2>2
    <3>2. \A j \in 1..(i - 1) : j \in 1..Len(toCtrl[s]) /\ toCtrl'[s][j] = toCtrl[s][j]
      BY <1>9, <3>1, SMTT(20)
    <3>3. QED
      BY <2>1, <2>2, <3>1, <3>2 DEF Fresh
  <2>3. proc'[p].sync = proc[p].sync
    BY <1>5 DEF SameModes
  <2>4. QED
    BY <1>1, <1>2, <1>8, <1>9, <2>1, <2>2, <2>3 DEF Fresh
<1>13. Streaming(s)'
  <2>1. \A i \in 1..Len(toCtrl'[s]) : toCtrl'[s][i].type \in {"EGRESS", "REDISTRIBUTE_LEADER_ELECT"}
    BY <1>4, <1>6, <1>9 DEF Streaming
  <2>2. \A i \in 1..Len(toSib'[s]) : toSib'[s][i] = "LEADER_ELECT"
    <3> TAKE i \in 1..Len(toSib'[s])
    <3>1. toSib'[s][i] = toSib[s][i + 1] /\ i + 1 \in 1..Len(toSib[s])
      BY <1>3, <1>8, SMTT(20)
    <3>2. QED
      BY <1>4, <3>1 DEF Streaming
  <2>3. current_egress_xid'[s] = Common' \/ Fresh(s)'
    BY <1>2, <1>4, <1>11, <1>12 DEF Streaming
  <2>4. \A i \in 1..Len(queue'[s]) : queue'[s][i].xid = Common' + i - 1
    BY <1>2, <1>4, <1>11 DEF Streaming
  <2>5. \E a, b \in Nat :
       /\ Runs(toCtrl'[s], a, b)
       /\ peer'[s] # NoSib => b = xid'[peer'[s]]
       /\ a <= Common' + Len(queue'[s])
       /\ queue'[s] # <<>> => a = Common' + Len(queue'[s])
    BY <1>1, <1>2, <1>4, <1>8, <1>10, <1>11 DEF Streaming
  <2>6. proc'[p].sync = proc[p].sync /\ proc'[p].hellos = proc[p].hellos
    BY <1>5 DEF SameModes
  <2>7. peer'[s] # NoSib /\ (~proc'[peer'[s]].hellos \/ proc'[peer'[s]].sync) =>
         xid'[peer'[s]] = FirstEgress /\ ~Has(toCtrl'[s], "EGRESS") /\ queue'[s] = <<>>
    BY <1>1, <1>2, <1>4, <1>8, <1>9, <2>6 DEF Streaming
  <2>8. QED
    BY <2>1, <2>2, <2>3, <2>4, <2>5, <2>7 DEF Streaming
<1>14. SlotLive(s)'
  <2>1. SlotLive(s)
    BY DEF LiveInv
  <2>2. ASSUME NEW i \in 1..Len(toCtrl'[s]), toCtrl'[s][i].type = "REDISTRIBUTE_LEADER_ELECT"
        PROVE  toCtrl'[s][i].leads <=> peer'[s] = Oldest
    BY <1>1, <1>6, <1>9, <2>1, <2>2 DEF SlotLive
  <2>3. QED
    BY <1>2, <1>4, <1>13, <2>1, <2>2 DEF SlotLive
<1>15. ASSUME NoLeaderYet
       PROVE  /\ \A i \in 1..Len(toCtrl'[s]) : toCtrl'[s][i].type = "EGRESS" =>
                   \E j \in 1..(i - 1) : toCtrl'[s][j].type = "REDISTRIBUTE_LEADER_ELECT"
              /\ ~proc'[p].restart_mode /\ ~proc'[p].sync
              /\ ~NotElected(p)' => Has(toCtrl'[s], "REDISTRIBUTE_LEADER_ELECT")
  <2>1. ASSUME NEW i \in 1..Len(toCtrl'[s]), toCtrl'[s][i].type = "EGRESS"
        PROVE  \E j \in 1..(i - 1) : toCtrl'[s][j].type = "REDISTRIBUTE_LEADER_ELECT"
    <3>1. i \in 1..Len(toCtrl[s]) /\ toCtrl'[s][i] = toCtrl[s][i]
      BY <1>6, <1>9, <2>1
    <3>2. PICK j \in 1..(i - 1) : toCtrl[s][j].type = "REDISTRIBUTE_LEADER_ELECT"
      BY <1>15, <2>1, <3>1, SMTT(20) DEF NoLeaderYet
    <3>3. j \in 1..Len(toCtrl[s])
      BY <1>9, <3>1, SMTT(20)
    <3>4. QED
      BY <1>9, <3>2, <3>3
  <2>2. ~proc'[p].restart_mode /\ ~proc'[p].sync
    BY <1>5, <1>15 DEF NoLeaderYet, SameModes
  <2>3. ASSUME ~NotElected(p)' PROVE Has(toCtrl'[s], "REDISTRIBUTE_LEADER_ELECT")
    <3>1. CASE LeadElectTaken(proc[p], "controller")
      <4>1. Len(order) = NumSibs
        <5>1. order = [q \in Sibs |-> q] /\ order \in Seq(Sibs)
          BY <1>15 DEF NoLeaderYet, Base, OrderInv
        <5>2. DOMAIN order = 1..NumSibs /\ DOMAIN order = 1..Len(order) /\ Len(order) \in Nat
          BY <5>1, LenProperties DEF Sibs
        <5>3. NumSibs \in 1..NumSibs /\ Len(order) \in 1..Len(order)
          BY <5>2, NumSibsAssumption, SMTT(20) DEF Base, OrderInv
        <5>4. NumSibs <= Len(order) /\ Len(order) <= NumSibs
          BY <5>2, <5>3, SMTT(20)
        <5>5. QED
          BY NumSibsAssumption, <5>2, <5>4, SMTT(20)
      <4>2. QED
        BY <1>9, <3>1, <4>1 DEF taken
    <3>2. CASE ~LeadElectTaken(proc[p], "controller")
      <4>1. ~NotElected(p)
        BY <1>5, <2>3, <3>2 DEF NotElected
      <4>2. \E t \in Slots : peer[t] = p /\ Has(toCtrl[t], "REDISTRIBUTE_LEADER_ELECT")
        BY <1>15, <4>1 DEF NoLeaderYet
      <4>3. QED
        BY <1>1, <1>9, <4>2 DEF Base, TInv, OneSlot
    <3>3. QED
      BY <3>1, <3>2
  <2>4. QED
    BY <2>1, <2>2, <2>3
<1>16. QED
  BY <1>1, <1>4, <1>5, <1>7, <1>8, <1>14, <1>15, SibFrame

\* An election ends: the first message of a sibling that it starts is still to come.
LEMMA ElectedLive ==
  ASSUME Base, LiveInv, NEW p \in Sibs, SibElected(p)
  PROVE  LiveInv'
<1>1. /\ Alive(p) /\ past_leader_elect_start(proc[p].sc) /\ proc' = [proc EXCEPT ![p] = ElectionComplete(proc[p])]
      /\ UNCHANGED <<peer, toCtrl, toSib, xid, order>> /\ CtrlIdle
      /\ proc \in [Sibs -> Procs(conn)]
  BY DEF SibElected, Base, ProcInv
<1>2. UNCHANGED <<leader_sibling, state, queue, current_egress_xid, waiting_on_first_egress_msg, is_leader>>
  BY <1>1 DEF CtrlIdle, slotVars
<1>3. ~NotElected(p) /\ proc[p].sc # "SC_INIT"
  BY <1>1 DEF NotElected, Unelected, past_leader_elect_start
<1>4. PICK s \in Slots : peer[s] = p
  BY <1>1, <1>3 DEF Base, ProcInv, ProcAt, SlotsOf
<1>5. state[s] = "SIB_ROUTING" /\ Streaming(s) /\ ~Quiescent
  BY <1>3, <1>4, ElectedIs
<1>6. /\ \A q \in Sibs \ {p} : proc'[q] = proc[q]
      /\ proc'[p].sc \in Sending /\ proc'[p].restart_mode = proc[p].restart_mode
      /\ \/ proc[p].sc \in Sending /\ proc'[p].hellos = proc[p].hellos /\ proc'[p].sync = proc[p].sync
         \/ proc[p].sc \notin Sending /\ proc'[p].hellos /\ proc'[p].sync = (proc[p].sync \/ proc[p].restart_mode)
  <2>1. proc'[p] = ElectionComplete(proc[p]) /\ proc[p] \in Procs(conn)
    BY <1>1
  <2>2. QED
    BY <1>1, <2>1, ElectionCompleteIs, SMTT(20)
<1>7. Common' = Common
  BY <1>2, CommonFrame
<1>8. Fresh(s) => Fresh(s)'
  BY <1>1, <1>2, <1>4, <1>6 DEF Fresh
<1>9. proc[p].sc \notin Sending => ~proc[p].hellos
  BY DEF Base, ProcInv, ProcAt
<1>10. Streaming(s)'
  <2>1. ~proc'[p].hellos \/ proc'[p].sync =>
          xid[p] = FirstEgress /\ ~Has(toCtrl[s], "EGRESS") /\ queue[s] = <<>>
    <3>1. ~proc[p].hellos \/ proc[p].sync =>
            xid[p] = FirstEgress /\ ~Has(toCtrl[s], "EGRESS") /\ queue[s] = <<>>
      BY <1>4, <1>5, SlotOfIs DEF Streaming
    <3>2. QED
      BY <1>6, <1>9, <3>1
  <2>2. QED
    BY <1>1, <1>2, <1>4, <1>5, <1>7, <1>8, <2>1 DEF Streaming
<1>11. SlotLive(s)'
  <2>1. SlotLive(s)
    BY DEF LiveInv
  <2>2. QED
    BY <1>1, <1>2, <1>5, <1>10, <2>1 DEF SlotLive
<1>12. ASSUME NoLeaderYet
       PROVE  /\ \A i \in 1..Len(toCtrl'[s]) : toCtrl'[s][i].type = "EGRESS" =>
                   \E j \in 1..(i - 1) : toCtrl'[s][j].type = "REDISTRIBUTE_LEADER_ELECT"
              /\ ~proc'[p].restart_mode /\ ~proc'[p].sync
              /\ Has(toCtrl'[s], "REDISTRIBUTE_LEADER_ELECT")
  <2>1. ~proc[p].restart_mode /\ ~proc[p].sync
    BY <1>12 DEF NoLeaderYet
  <2>2. Has(toCtrl[s], "REDISTRIBUTE_LEADER_ELECT")
    BY <1>3, <1>4, <1>12 DEF NoLeaderYet, Base, TInv, OneSlot
  <2>3. ~proc'[p].restart_mode /\ ~proc'[p].sync
    BY <1>6, <2>1
  <2>4. \A i \in 1..Len(toCtrl[s]) : toCtrl[s][i].type = "EGRESS" =>
           \E j \in 1..(i - 1) : toCtrl[s][j].type = "REDISTRIBUTE_LEADER_ELECT"
    BY <1>12 DEF NoLeaderYet
  <2>5. QED
    BY <1>1, <2>2, <2>3, <2>4
<1>13. QED
  BY <1>1, <1>4, <1>5, <1>6, <1>11, <1>12, SibFrame

\* The restart thread is done: nothing but the mode changes.
LEMMA RestartDoneLive ==
  ASSUME Base, LiveInv, NEW p \in Sibs, RestartDone(p)
  PROVE  LiveInv'
<1>1. /\ UNCHANGED <<peer, toCtrl, toSib, xid, order>> /\ CtrlIdle
      /\ proc' = [proc EXCEPT ![p].restart_mode = FALSE] /\ proc \in [Sibs -> Procs(conn)]
  BY DEF RestartDone, Base, ProcInv
<1>2. UNCHANGED <<leader_sibling, state, queue, current_egress_xid, waiting_on_first_egress_msg,
                  is_leader, egress_db>>
  BY <1>1 DEF CtrlIdle, slotVars
<1>3. \A q \in Sibs : /\ proc'[q].sc = proc[q].sc /\ proc'[q].hellos = proc[q].hellos
                      /\ proc'[q].sync = proc[q].sync /\ (proc'[q].restart_mode => proc[q].restart_mode)
  <2>1. /\ proc'[p].sc = proc[p].sc /\ proc'[p].hellos = proc[p].hellos
        /\ proc'[p].sync = proc[p].sync /\ ~proc'[p].restart_mode
    BY <1>1 DEF Procs
  <2>2. QED
    BY <1>1, <2>1
<1>4. Common' = Common
  BY <1>2, CommonFrame
<1>5. \A t \in Slots : peer[t] # NoSib <=> peer[t] \in Sibs
  BY SMTT(20) DEF Base, TInv, Shape, Sibs, NoSib
<1>6. \A q \in Sibs : NotElected(q)' <=> NotElected(q)
  BY <1>3 DEF NotElected
<1>7. ASSUME NEW t \in Slots PROVE SlotLive(t)'
  <2>1. Handshaking(t) => Handshaking(t)'
    BY <1>1, <1>2, <1>3, <1>5 DEF Handshaking, NotElected
  <2>2. Fresh(t) => Fresh(t)'
    BY <1>1, <1>2, <1>3, <1>5 DEF Fresh
  <2>3. Streaming(t) => Streaming(t)'
    BY <1>1, <1>2, <1>3, <1>4, <1>5, <2>2, SMTT(20) DEF Streaming
  <2>4. QED
    BY <1>1, <1>2, <2>1, <2>3 DEF LiveInv, SlotLive
<1>8. NoLeaderYet => NoLeaderYet'
  BY <1>1, <1>2, <1>3, <1>6, SMTT(20) DEF NoLeaderYet
<1>9. (Begun => Begun') /\ (Quiescent => Quiescent')
  BY <1>1, <1>2, <1>6 DEF Begun, Quiescent
<1>10. QED
  BY <1>1, <1>2, <1>4, <1>7, <1>8, <1>9 DEF LiveInv

\* A sibling is started again: no slot is its own yet.
LEMMA RestartLive ==
  ASSUME Base, LiveInv, NEW p \in Sibs, Restart(p)
  PROVE  LiveInv'
<1>1. /\ ~Alive(p) /\ UNCHANGED <<peer, toCtrl, toSib>> /\ CtrlIdle
      /\ proc' = [proc EXCEPT ![p] = NewProc(conn, TRUE)] /\ xid' = [xid EXCEPT ![p] = 0]
      /\ proc \in [Sibs -> Procs(conn)] /\ xid \in [Sibs -> Nat] /\ Shape
  BY DEF Restart, Base, ProcInv, TInv, Numbers
<1>2. UNCHANGED <<leader_sibling, state, queue, current_egress_xid, waiting_on_first_egress_msg,
                  is_leader, egress_db>>
  BY <1>1 DEF CtrlIdle, slotVars
<1>3. leader_sibling # NoSlot
  <2>1. SUFFICES ASSUME NoLeaderYet PROVE FALSE
    BY DEF LiveInv
  <2>2. order = [q \in Sibs |-> q] /\ order \in Seq(Sibs)
    BY <2>1 DEF NoLeaderYet, Base, OrderInv
  <2>3. DOMAIN order = Sibs /\ DOMAIN order = 1..Len(order)
    BY <2>2, LenProperties
  <2>4. p \in 1..Len(order) /\ order[p] = p
    BY <2>2, <2>3
  <2>5. QED
    BY <1>1, <2>4 DEF Alive
<1>4. \A t \in Slots : peer[t] # p
  BY <1>1 DEF Base, ProcInv, ProcAt, SlotsOf
<1>5. Common' = Common
  BY <1>2, CommonFrame
<1>6. ASSUME NEW t \in Slots PROVE SameSlot(t)
  <2>1. peer[t] # NoSib => peer[t] \in Sibs \ {p}
    BY <1>1, <1>4 DEF Shape
  <2>2. QED
    BY <1>1, <1>2, <2>1 DEF SameSlot
<1>7. \A t \in Slots : SlotLive(t)'
  BY <1>1, <1>2, <1>5, <1>6, SlotFrame DEF LiveInv
<1>8. Begun'
  BY <1>1, <1>2, <1>3 DEF LiveInv, Quiescent, Begun
<1>9. QED
  BY <1>1, <1>2, <1>3, <1>5, <1>7, <1>8 DEF LiveInv

\* A process ends: its slot keeps what it had sent.
LEMMA CrashLive ==
  ASSUME LeaderStays, Base, LiveInv, NEW p \in Sibs, Crash(p), leader_sibling # NoSlot
  PROVE  LiveInv'
<1>1. /\ UNCHANGED <<toCtrl, proc, xid>> /\ CtrlIdle /\ p \in Crashers /\ p # Oldest /\ Shape
      /\ \A t \in Slots : /\ peer'[t] = IF peer[t] = p THEN NoSib ELSE peer[t]
                          /\ toSib'[t] = IF peer[t] = p THEN <<>> ELSE toSib[t]
  BY DEF Crash, LeaderStays, Base, TInv
<1>2. UNCHANGED <<leader_sibling, state, queue, current_egress_xid, waiting_on_first_egress_msg,
                  is_leader, egress_db>>
  BY <1>1 DEF CtrlIdle, slotVars
<1>3. Common' = Common
  BY <1>2, CommonFrame
<1>4. ASSUME NEW t \in Slots, peer[t] = p PROVE SlotLive(t)'
  <2>1. peer'[t] = NoSib /\ toSib'[t] = <<>> /\ p # NoSib /\ NoSib \notin Sibs /\ NoSib # Oldest
    BY <1>1, <1>4, SMTT(20) DEF Sibs, NoSib, Oldest
  <2>2. Handshaking(t) => Handshaking(t)'
    <3>1. SUFFICES ASSUME Handshaking(t) PROVE Handshaking(t)'
      OBVIOUS
    <3>2. Shake(state[t], toCtrl[t], toSib[t], xid[p]) /\ queue[t] = <<>>
      BY <1>4, <2>1, <3>1 DEF Handshaking
    <3>3. toSib[t] \in ToSibs /\ xid[p] \in 0..3
      <4>1. toSib[t] \in ToSibs
        BY <3>2 DEF Shake, ToSibs
      <4>2. xid[p] \in {0, 2, 3}
        BY <3>2 DEF Shake
      <4>3. QED
        BY <4>1, <4>2, SMTT(20)
    <3>4. QED
      BY <1>1, <1>2, <2>1, <3>2, <3>3 DEF Handshaking
  <2>3. Fresh(t) => Fresh(t)'
    BY <1>1, <1>2, <2>1 DEF Fresh
  <2>4. Streaming(t) => Streaming(t)'
    BY <1>1, <1>2, <1>3, <2>1, <2>3, SMTT(20) DEF Streaming
  <2>5. QED
    BY <1>1, <1>2, <1>4, <2>1, <2>2, <2>4 DEF LiveInv, SlotLive
<1>5. ASSUME NEW t \in Slots, peer[t] # p PROVE SlotLive(t)'
  <2>1. SameSlot(t)
    BY <1>1, <1>2, <1>5 DEF SameSlot
  <2>2. QED
    BY <1>1, <1>2, <1>3, <2>1, SlotFrame DEF LiveInv
<1>6. Begun'
  <2>1. Begun
    BY DEF LiveInv, Quiescent
  <2>2. QED
    BY <1>1, <1>2, <2>1, SMTT(20) DEF Begun
<1>7. peer'[leader_sibling] = Oldest
  <2>1. leader_sibling \in Slots
    BY DEF Base, TInv, Numbers
  <2>2. QED
    BY <1>1, <2>1 DEF LiveInv
<1>8. QED
  BY <1>2, <1>3, <1>4, <1>5, <1>6, <1>7 DEF LiveInv

\* A sibling sends: the message has the next xid of the run, or, from a restarted
\* sibling that has sent nothing yet, the egress xid stored in Riak.
LEMMA SendLive ==
  ASSUME LeaderStays, Base, LiveInv, NEW p \in Sibs, NEW val \in Payload, SibSend(p, val)
  PROVE  LiveInv'
<1> DEFINE x == IF proc[p].sync THEN egress_db ELSE xid[p]
           e == [type |-> "EGRESS", msg |-> [xid |-> x, val |-> val]]
           W == WrittenBy(p)
<1>1. /\ proc[p].hellos /\ SlotsOf(p) # {} /\ x < MaxXid
      /\ p \in Faulty \/ (val = Correct(x) /\ (proc[p].sync => val = Hello))
      /\ Write(p, <<e>>) /\ xid' = [xid EXCEPT ![p] = x + 1] /\ proc' = [proc EXCEPT ![p].sync = FALSE]
      /\ UNCHANGED <<peer, toSib, order>> /\ CtrlIdle
  BY DEF SibSend, IsSending, synchronize_current_xid, db_get_egress_xid
<1>2. UNCHANGED <<leader_sibling, state, queue, current_egress_xid, waiting_on_first_egress_msg,
                  is_leader, egress_db>>
  BY <1>1 DEF CtrlIdle, slotVars
<1>3. PICK s \in Slots : peer[s] = p
  BY <1>1 DEF SlotsOf
<1>4. proc \in [Sibs -> Procs(conn)] /\ xid \in [Sibs -> Nat] /\ egress_db \in Nat /\ p # NoSib
      /\ xid[p] \in Nat /\ x \in Nat
  BY SMTT(20) DEF Base, ProcInv, TInv, Numbers, Sibs, NoSib
<1>5. ~NotElected(p)
  BY <1>1 DEF Base, ProcInv, ProcAt, NotElected, Sending, Unelected
<1>6. state[s] = "SIB_ROUTING" /\ Streaming(s) /\ ~Quiescent
  BY <1>3, <1>5, ElectedIs
<1>7. /\ \A q \in Sibs \ {p} : proc'[q] = proc[q] /\ xid'[q] = xid[q]
      /\ proc'[p].hellos /\ ~proc'[p].sync /\ proc'[p].restart_mode = proc[p].restart_mode
      /\ xid'[p] = x + 1
  <2>1. proc'[p] = [proc[p] EXCEPT !.sync = FALSE] /\ proc[p] \in Procs(conn)
    BY <1>1, <1>4
  <2>2. proc'[p].hellos = proc[p].hellos /\ ~proc'[p].sync /\ proc'[p].restart_mode = proc[p].restart_mode
    BY <2>1 DEF Procs
  <2>3. QED
    BY <1>1, <1>4, <2>2
<1>8. /\ toCtrl[s] \in Seq(W) /\ e.type = "EGRESS" /\ e.msg.xid = x /\ e.msg.val = val
  BY <1>3 DEF Base, TInv, SlotAt
<1>9. e \in W
  <2>1. x \in Xids /\ [xid |-> x, val |-> val] \in Msgs
    BY <1>1, <1>4, BoundsAssumption, SMTT(20) DEF Xids, Msgs
  <2>2. [xid |-> x, val |-> val] \in EgressOf(p)
    BY <1>1, <2>1 DEF EgressOf, GoodMsg
  <2>3. QED
    BY <2>2 DEF WrittenBy
<1> HIDE DEF e, W
<1>10. toCtrl'[s] = toCtrl[s] \o <<e>> /\ \A t \in Slots \ {s} : toCtrl'[t] = toCtrl[t]
  BY <1>1, <1>3, WriteIs
<1>11. /\ Len(toCtrl[s]) \in Nat /\ Len(toCtrl'[s]) = Len(toCtrl[s]) + 1
       /\ toCtrl'[s][Len(toCtrl[s]) + 1] = e
       /\ \A i \in 1..Len(toCtrl[s]) : toCtrl'[s][i] = toCtrl[s][i]
       /\ Has(toCtrl'[s], "EGRESS")
  BY <1>8, <1>9, <1>10, StreamSend, SMTT(20)
<1>12. Common' = Common
  BY <1>2, CommonFrame
<1>13. proc[p].sync => xid[p] = FirstEgress /\ ~Has(toCtrl[s], "EGRESS") /\ queue[s] = <<>>
  BY <1>3, <1>4, <1>6 DEF Streaming
<1>14. Fresh(s) => Fresh(s)'
  <2>1. SUFFICES ASSUME Fresh(s) PROVE Fresh(s)'
    OBVIOUS
  <2>2. ASSUME NEW i \in 1..Len(toCtrl'[s]), toCtrl'[s][i].type = "EGRESS",
               \A j \in 1..(i - 1) : toCtrl'[s][j].type # "EGRESS"
        PROVE  toCtrl'[s][i].msg.val \notin RouteSet
    <3>1. CASE i \in 1..Len(toCtrl[s])
      <4>1. \A j \in 1..(i - 1) : j \in 1..Len(toCtrl[s]) /\ toCtrl'[s][j] = toCtrl[s][j]
        BY <1>11, <3>1, SMTT(20)
      <4>2. QED
        BY <1>11, <2>1, <2>2, <3>1, <4>1 DEF Fresh
    <3>2. CASE i = Len(toCtrl[s]) + 1
      <4>1. ~Has(toCtrl[s], "EGRESS")
        <5>1. \A j \in 1..Len(toCtrl[s]) : toCtrl[s][j].type # "EGRESS"
          BY <1>11, <2>2, <3>2, SMTT(20)
        <5>2. QED
          BY <5>1 DEF Has
      <4>2. p \notin Faulty
        BY <1>3, <2>1 DEF Fresh, LeaderStays, FaultyStay
      <4>3. proc[p].sync \/ xid[p] = FirstEgress
        BY <1>3, <1>4, <2>1, <4>1 DEF Fresh
      <4>4. val = Hello
        <5>1. CASE proc[p].sync
          BY <1>1, <4>2, <5>1
        <5>2. CASE ~proc[p].sync
          BY <1>1, <4>2, <4>3, <5>2 DEF Correct, LeaderStays
        <5>3. QED
          BY <5>1, <5>2
      <4>5. QED
        BY <1>8, <1>11, <3>2, <4>4, ContentAssumption
    <3>3. QED
      BY <1>11, <3>1, <3>2, SMTT(20)
  <2>3. QED
    BY <1>1, <1>2, <1>11, <2>1, <2>2 DEF Fresh
<1>15. \E a, b \in Nat : /\ Runs(toCtrl'[s], a, b) /\ b = xid'[p]
                         /\ a <= Common + Len(queue[s])
                         /\ queue[s] # <<>> => a = Common + Len(queue[s])
  <2>1. CASE ~proc[p].sync
    <3>1. PICK a, b \in Nat :
            /\ Runs(toCtrl[s], a, b)
            /\ b = xid[p]
            /\ a <= Common + Len(queue[s])
            /\ queue[s] # <<>> => a = Common + Len(queue[s])
      BY <1>3, <1>4, <1>6 DEF Streaming
    <3>2. x = b /\ b + 1 \in Nat
      BY <2>1, <3>1, SMTT(20)
    <3>3. Runs(toCtrl'[s], a, b + 1)
      BY <1>8, <1>9, <1>10, <3>1, <3>2, RunsSend
    <3>4. QED
      BY <1>7, <3>1, <3>2, <3>3
  <2>2. CASE proc[p].sync
    <3>1. x = egress_db /\ x <= Common /\ x + 1 \in Nat
      BY <1>4, <2>2, SMTT(20) DEF LiveInv
    <3>2. Runs(toCtrl[s], x, x)
      BY <1>4, <1>8, <1>13, <2>2, RunsNone
    <3>3. Runs(toCtrl'[s], x, x + 1)
      BY <1>4, <1>8, <1>9, <1>10, <3>2, RunsSend
    <3>4. queue[s] = <<>> /\ Len(queue[s]) = 0
      BY <1>13, <2>2
    <3>5. Common \in Nat
      BY DEF Common, FirstEgress, Base, TInv, Numbers, NoSlot, Slots
    <3>6. x <= Common + Len(queue[s])
      BY <1>4, <3>1, <3>4, <3>5, SMTT(20)
    <3> HIDE DEF x
    <3>7. QED
      BY <1>4, <1>7, <3>1, <3>3, <3>4, <3>6
  <2>3. QED
    BY <2>1, <2>2
<1>16. Streaming(s)'
  <2>1. \A i \in 1..Len(toCtrl'[s]) : toCtrl'[s][i].type \in {"EGRESS", "REDISTRIBUTE_LEADER_ELECT"}
    <3> TAKE i \in 1..Len(toCtrl'[s])
    <3>1. i \in 1..Len(toCtrl[s]) \/ i = Len(toCtrl[s]) + 1
      BY <1>11, SMTT(20)
    <3>2. QED
      BY <1>6, <1>8, <1>11, <3>1 DEF Streaming
  <2>2. \A i \in 1..Len(toSib'[s]) : toSib'[s][i] = "LEADER_ELECT"
    BY <1>1, <1>6 DEF Streaming
  <2>3. current_egress_xid'[s] = Common' \/ Fresh(s)'
    BY <1>2, <1>6, <1>12, <1>14 DEF Streaming
  <2>4. \A i \in 1..Len(queue'[s]) : queue'[s][i].xid = Common' + i - 1
    BY <1>2, <1>6, <1>12 DEF Streaming
  <2>5. \E a, b \in Nat :
       /\ Runs(toCtrl'[s], a, b)
       /\ peer'[s] # NoSib => b = xid'[peer'[s]]
       /\ a <= Common' + Len(queue'[s])
       /\ queue'[s] # <<>> => a = Common' + Len(queue'[s])
    BY <1>1, <1>2, <1>3, <1>12, <1>15
  <2>6. proc'[peer'[s]].hellos /\ ~proc'[peer'[s]].sync
    BY <1>1, <1>3, <1>7
  <2>7. QED
    BY <2>1, <2>2, <2>3, <2>4, <2>5, <2>6 DEF Streaming
<1>17. SlotLive(s)'
  <2>1. SlotLive(s)
    BY DEF LiveInv
  <2>2. ASSUME NEW i \in 1..Len(toCtrl'[s]), toCtrl'[s][i].type = "REDISTRIBUTE_LEADER_ELECT"
        PROVE  toCtrl'[s][i].leads <=> peer'[s] = Oldest
    <3>1. i \in 1..Len(toCtrl[s])
      BY <1>8, <1>11, <2>2, SMTT(20)
    <3>2. QED
      BY <1>1, <1>11, <2>1, <2>2, <3>1 DEF SlotLive
  <2>3. QED
    BY <1>2, <1>6, <1>16, <2>1, <2>2 DEF SlotLive
<1>18. ASSUME NoLeaderYet
       PROVE  /\ \A i \in 1..Len(toCtrl'[s]) : toCtrl'[s][i].type = "EGRESS" =>
                   \E j \in 1..(i - 1) : toCtrl'[s][j].type = "REDISTRIBUTE_LEADER_ELECT"
              /\ ~proc'[p].restart_mode /\ ~proc'[p].sync
              /\ Has(toCtrl'[s], "REDISTRIBUTE_LEADER_ELECT")
  <2>1. Has(toCtrl[s], "REDISTRIBUTE_LEADER_ELECT")
    BY <1>3, <1>5, <1>18 DEF NoLeaderYet, Base, TInv, OneSlot
  <2>2. PICK k \in 1..Len(toCtrl[s]) : toCtrl[s][k].type = "REDISTRIBUTE_LEADER_ELECT"
    BY <2>1 DEF Has
  <2>3. k \in 1..Len(toCtrl'[s]) /\ toCtrl'[s][k].type = "REDISTRIBUTE_LEADER_ELECT"
    BY <1>11, <2>2, SMTT(20)
  <2>4. ASSUME NEW i \in 1..Len(toCtrl'[s]), toCtrl'[s][i].type = "EGRESS"
        PROVE  \E j \in 1..(i - 1) : toCtrl'[s][j].type = "REDISTRIBUTE_LEADER_ELECT"
    <3>1. CASE i \in 1..Len(toCtrl[s])
      <4>1. PICK j \in 1..(i - 1) : toCtrl[s][j].type = "REDISTRIBUTE_LEADER_ELECT"
        BY <1>11, <1>18, <2>4, <3>1, SMTT(20) DEF NoLeaderYet
      <4>2. j \in 1..Len(toCtrl[s])
        BY <1>11, <3>1, SMTT(20)
      <4>3. QED
        BY <1>11, <4>1, <4>2
    <3>2. CASE i = Len(toCtrl[s]) + 1
      <4>1. k \in 1..(i - 1)
        BY <1>11, <3>2, SMTT(20)
      <4>2. QED
        BY <2>3, <4>1
    <3>3. QED
      BY <1>11, <3>1, <3>2, SMTT(20)
  <2>5. ~proc'[p].restart_mode
    BY <1>7, <1>18 DEF NoLeaderYet
  <2>6. QED
    BY <1>7, <2>3, <2>4, <2>5 DEF Has
<1>19. QED
  BY <1>1, <1>3, <1>6, <1>7, <1>10, <1>17, <1>18, SibFrame

=============================================================================
