------------------------- MODULE Ospf6RestartProofs -------------------------
(***************************************************************************)
(* Proofs about Ospf6Restart for any number of siblings, any messages of   *)
(* the router and any number of crashes.                                   *)
(***************************************************************************)
EXTENDS Ospf6Restart, TLAPS

USE ZenonT(20)

-----------------------------------------------------------------------------
(***************************************************************************)
(* The inductive invariant                                                 *)
(***************************************************************************)

Fields == DOMAIN NewThreads(TRUE)

\* What the two threads of a sibling rely on: the mutex of the first hello is held
\* throughout the restart, checkpoints are stored once the own ones are read, the own
\* keys are in the bucket, and so is a message about to be acknowledged.
ThreadsAt(p) ==
  /\ DOMAIN th[p] = Fields
  /\ th[p].restart_mode => th[p].egress_mutex
  /\ th[p].thread \notin {"start", "own"} => th[p].ready_to_checkpoint
  /\ th[p].thread = "own" => th[p].keys \in Seq({CURRENT_XID} \cup DOMAIN bucket[p])
  /\ th[p].main = "ack" /\ conf[p].checkpoint_enabled => th[p].msg \in DOMAIN bucket[p]

\* A sequence, of whatever it holds.
IsHistory(s) == s \in Seq({s[i] : i \in DOMAIN s})

\* ACKs under way are of stored messages, where checkpoints are configured.
StoredAt(p) ==
  /\ conf[p].checkpoint_enabled => toCtl[p] \in Seq(DOMAIN bucket[p])
  /\ IsHistory(applied[p])
  /\ ctl[p] \in [routing : BOOLEAN, xid : Nat, acked : BOOLEAN]

Shape ==
  /\ DOMAIN th = Sibs /\ DOMAIN bucket = Sibs /\ DOMAIN applied = Sibs
  /\ DOMAIN toCtl = Sibs /\ DOMAIN ctl = Sibs /\ ingress_id \in Nat

IInv ==
  /\ Shape
  /\ \A p \in Sibs : ThreadsAt(p) /\ StoredAt(p)
  /\ CheckpointCovers
  /\ AckedIsStored

-----------------------------------------------------------------------------
(***************************************************************************)
(* Facts about the operators                                               *)
(***************************************************************************)

\* A function on 1 .. n is a sequence,
LEMMA FunctionIsSeq ==
  ASSUME NEW S, NEW n \in Nat, NEW f \in [1 .. n -> S]
  PROVE  f \in Seq(S)
BY SMTT(20)

\* and a sequence is such a function.
LEMMA SeqDomain ==
  ASSUME NEW S, NEW s \in Seq(S)
  PROVE  Len(s) \in Nat /\ DOMAIN s = 1 .. Len(s) /\ s \in [1 .. Len(s) -> S]
BY SMTT(20)

\* An element of a sequence.
LEMMA SeqElement ==
  ASSUME NEW S, NEW s \in Seq(S), NEW i \in 1 .. Len(s)
  PROVE  s[i] \in S
BY SMTT(20)

\* A sequence over S is one over every set that includes S.
LEMMA SeqSubset ==
  ASSUME NEW S, NEW T, S \subseteq T, NEW s \in Seq(S)
  PROVE  s \in Seq(T)
BY SMTT(20)

\* The empty sequence.
LEMMA SeqEmpty ==
  ASSUME NEW S
  PROVE  <<>> \in Seq(S) /\ Len(<<>>) = 0
BY SMTT(20)

\* A sequence with one more element.
LEMMA SeqAppend ==
  ASSUME NEW S, NEW s \in Seq(S), NEW e \in S
  PROVE  /\ Append(s, e) \in Seq(S) /\ Append(s, e) # <<>> /\ Len(Append(s, e)) = Len(s) + 1
         /\ Append(s, e)[Len(s) + 1] = e /\ \A i \in 1 .. Len(s) : Append(s, e)[i] = s[i]
BY SMTT(20)

\* A sequence without its first element.
LEMMA SeqTail ==
  ASSUME NEW S, NEW s \in Seq(S), s # <<>>
  PROVE  /\ Head(s) \in S /\ Tail(s) \in Seq(S) /\ Len(Tail(s)) = Len(s) - 1
         /\ \A i \in 1 .. Len(Tail(s)) : Tail(s)[i] = s[i + 1]
BY SMTT(20)

\* One more message processed: the history is longer by one entry.
LEMMA AppendEntry ==
  ASSUME NEW s, NEW e, IsHistory(s)
  PROVE  /\ IsHistory(Append(s, e))
         /\ \A i \in DOMAIN Append(s, e) :
              Append(s, e)[i] = e \/ (i \in DOMAIN s /\ Append(s, e)[i] = s[i])
<1> DEFINE S == {s[i] : i \in DOMAIN s} \cup {e}
           t == Append(s, e)
<1>1. s \in Seq(S) /\ e \in S
  BY SeqSubset DEF IsHistory
<1> HIDE DEF S
<1>2. t \in Seq(S) /\ Len(t) = Len(s) + 1 /\ Len(s) \in Nat /\ DOMAIN s = 1 .. Len(s)
      /\ (\A i \in 1 .. Len(s) : t[i] = s[i]) /\ t[Len(s) + 1] = e
  BY <1>1, SeqAppend, SeqDomain, SMTT(20)
<1>3. DOMAIN t = 1 .. Len(t)
  BY <1>2, SeqDomain
<1> HIDE DEF t
<1>4. t \in [1 .. Len(t) -> {t[i] : i \in DOMAIN t}]
  BY <1>2, <1>3, SeqElement, SMTT(20)
<1>5. t \in Seq({t[i] : i \in DOMAIN t})
  <2>1. Len(t) \in Nat
    BY <1>2, SMTT(20)
  <2>2. QED
    BY <1>4, <2>1, FunctionIsSeq, Zenon
<1>6. \A i \in DOMAIN t : t[i] = e \/ (i \in DOMAIN s /\ t[i] = s[i])
  BY <1>2, <1>3, SMTT(20)
<1>7. QED
  BY <1>5, <1>6, SMTT(20) DEF t, IsHistory

\* Reading the keys of a bucket gives keys of the bucket, whatever the sort does.
LEMMA ListedKeys ==
  ASSUME NEW b, NEW keys \in db_list_keys(b)
  PROVE  keys \in Seq({CURRENT_XID} \cup DOMAIN b)
<1>1. CASE DOMAIN b = {}
  BY <1>1, SMTT(20) DEF db_list_keys
<1>2. CASE DOMAIN b # {}
  <2>1. keys \in Seq(DOMAIN b \cup {CURRENT_XID})
    BY <1>2, Zenon DEF db_list_keys, Orders
  <2>2. QED
    BY <2>1, SeqSubset
<1>3. QED
  BY <1>1, <1>2, Zenon

\* ospf6_receive keeps what is stored and stores what it may store.
LEMMA ReceiveStores ==
  ASSUME Shape, NEW p \in Sibs, NEW xid, NEW msg, NEW source,
         ospf6_receive(p, xid, msg, source)
  PROVE  /\ DOMAIN bucket' = Sibs /\ DOMAIN applied' = Sibs
         /\ \A q \in Sibs \ {p} : bucket'[q] = bucket[q] /\ applied'[q] = applied[q]
         /\ DOMAIN bucket[p] \subseteq DOMAIN bucket'[p]
         /\ Takes(p, msg) /\ checkpoints(p) => xid \in DOMAIN bucket'[p]
<1>1. \/ bucket'[p] = bucket[p]
      \/ \E t : bucket'[p] = riack_put(bucket[p], xid, t)
  BY DEF ospf6_receive, Shape, ospf6_db_put_hello, ospf6_db_put_dbdesc
<1>2. ASSUME NEW t
      PROVE  DOMAIN riack_put(bucket[p], xid, t) = DOMAIN bucket[p] \cup {xid}
  BY DEF riack_put
<1>3. Takes(p, msg) /\ checkpoints(p)
        => \E t : bucket'[p] = riack_put(bucket[p], xid, t)
  BY DEF ospf6_receive, Shape, ospf6_db_put_hello, ospf6_db_put_dbdesc
<1>4. DOMAIN bucket' = Sibs /\ DOMAIN applied' = Sibs
      /\ \A q \in Sibs \ {p} : bucket'[q] = bucket[q] /\ applied'[q] = applied[q]
  BY DEF ospf6_receive, Shape
<1>5. QED
  BY <1>1, <1>2, <1>3, <1>4

\* A message that is stored, or may be, is processed: all but the threads' part of
\* the invariant holds again.
LEMMA ReceiveStep ==
  ASSUME IInv, NEW p \in Sibs, NEW xid, NEW msg, NEW source,
         ospf6_receive(p, xid, msg, source),
         conf[p].checkpoint_enabled => xid \in DOMAIN bucket[p] \/ checkpoints(p),
         toCtl' = toCtl, ctl' = ctl, conf' = conf
  PROVE  /\ \A q \in Sibs : StoredAt(q)'
         /\ CheckpointCovers'
         /\ AckedIsStored'
<1> DEFINE e == [xid |-> xid, msg |-> msg, taken |-> Takes(p, msg), source |-> source]
<1>1. Shape
  BY Zenon DEF IInv, ThreadsAt
<1>2. /\ \A q \in Sibs \ {p} : bucket'[q] = bucket[q] /\ applied'[q] = applied[q]
      /\ DOMAIN bucket[p] \subseteq DOMAIN bucket'[p]
      /\ conf[p].checkpoint_enabled /\ Takes(p, msg) => xid \in DOMAIN bucket'[p]
  BY <1>1, ReceiveStores
<1>3. applied'[p] = Append(applied[p], e)
  BY <1>1 DEF ospf6_receive, Shape
<1>4. /\ IsHistory(applied'[p])
      /\ \A i \in DOMAIN applied'[p] :
           applied'[p][i] = e \/ (i \in DOMAIN applied[p] /\ applied'[p][i] = applied[p][i])
  <2>1. IsHistory(applied[p])
    BY DEF IInv, StoredAt
  <2> HIDE DEF e
  <2>2. QED
    BY <1>3, <2>1, AppendEntry, SMTT(20)
<1>5. ASSUME NEW q \in Sibs PROVE StoredAt(q)'
  <2>1. DOMAIN bucket[q] \subseteq DOMAIN bucket'[q]
    BY <1>2, SMTT(20)
  <2>2. conf[q].checkpoint_enabled => toCtl[q] \in Seq(DOMAIN bucket'[q])
    BY <2>1, SeqSubset, SMTT(20) DEF IInv, StoredAt
  <2>3. IsHistory(applied'[q])
    <3>1. CASE q = p
      BY <3>1, <1>4, SMTT(20)
    <3>2. CASE q # p
      BY <3>2, <1>2, SMTT(20) DEF IInv, StoredAt
    <3>3. QED
      BY <3>1, <3>2, SMTT(20)
  <2>4. QED
    BY <2>2, <2>3, SMTT(20) DEF IInv, StoredAt
<1>6. CheckpointCovers'
  <2>1. SUFFICES ASSUME NEW q \in Sibs, NEW i \in DOMAIN applied'[q],
                        conf[q].checkpoint_enabled, applied'[q][i].taken
                 PROVE  applied'[q][i].xid \in DOMAIN bucket'[q]
    BY DEF CheckpointCovers
  <2>2. CASE q # p
    BY <2>1, <2>2, <1>2, SMTT(20) DEF IInv, CheckpointCovers
  <2>3. CASE q = p /\ applied'[p][i] = e
    BY <2>1, <2>3, <1>2, SMTT(20)
  <2>4. CASE q = p /\ i \in DOMAIN applied[p] /\ applied'[p][i] = applied[p][i]
    BY <2>1, <2>4, <1>2, SMTT(20) DEF IInv, CheckpointCovers
  <2>5. QED
    BY <1>4, <2>2, <2>3, <2>4, SMTT(20)
<1>7. AckedIsStored'
  BY <1>2, SMTT(20) DEF IInv, AckedIsStored
<1>8. QED
  BY <1>5, <1>6, <1>7, SMTT(20)

\* A step of the threads of p that stores nothing.
LEMMA ThreadStep ==
  ASSUME IInv, NEW p \in Sibs, ThreadsAt(p)',
         DOMAIN th' = Sibs, \A q \in Sibs \ {p} : th'[q] = th[q],
         UNCHANGED <<conf, ingress_id, bucket, applied, ctl>>,
         \A q \in Sibs : conf[q].checkpoint_enabled => toCtl'[q] \in Seq(DOMAIN bucket[q]), DOMAIN toCtl' = Sibs
  PROVE  IInv'
<1>1. Shape'
  BY DEF IInv, Shape
<1>2. \A q \in Sibs : ThreadsAt(q)'
  BY Zenon DEF IInv, ThreadsAt
<1>3. \A q \in Sibs : StoredAt(q)'
  BY DEF IInv, StoredAt
<1>4. CheckpointCovers' /\ AckedIsStored'
  BY DEF IInv, CheckpointCovers, AckedIsStored
<1>5. QED
  BY <1>1, <1>2, <1>3, <1>4, SMTT(20) DEF IInv

-----------------------------------------------------------------------------
(***************************************************************************)
(* Every step keeps the invariant                                          *)
(***************************************************************************)

\* The invariant holds when nothing was ever sent.
LEMMA InitInv == Init => IInv
<1> SUFFICES ASSUME Init PROVE IInv
  OBVIOUS
<1>1. Shape
  BY SMTT(20) DEF Init, Shape
<1>2. ASSUME NEW p \in Sibs PROVE ThreadsAt(p)
  <2>1. DOMAIN bucket[p] = {}
    BY DEF Init, EmptyBucket
  <2>2. QED
    BY <2>1, Zenon DEF Init, ThreadsAt, Fields, NewThreads
<1>3. ASSUME NEW p \in Sibs PROVE StoredAt(p)
  BY SeqEmpty DEF Init, StoredAt, IsHistory
<1>4. CheckpointCovers /\ AckedIsStored
  BY SMTT(20) DEF Init, CheckpointCovers, AckedIsStored
<1>5. QED
  BY <1>1, <1>2, <1>3, <1>4 DEF IInv

\* The controller: a message forwarded takes back the acknowledgement, and an ACK
\* taken is of a message that is stored.
LEMMA ControllerStep ==
  ASSUME IInv,
         \/ Forward
         \/ \E p \in Sibs : CtrlAck(p) \/ CtrlClose(p) \/ CtrlRouting(p)
  PROVE  IInv'
<1> DEFINE Ctl == [routing : BOOLEAN, xid : Nat, acked : BOOLEAN]
           Good(q, c, t) == /\ conf[q].checkpoint_enabled => t \in Seq(DOMAIN bucket[q])
                            /\ c \in Ctl
                            /\ conf[q].checkpoint_enabled /\ c.acked /\ c.xid # 0 => c.xid \in DOMAIN bucket[q]
<1>1. \A q \in Sibs : Good(q, ctl[q], toCtl[q])
  BY DEF IInv, StoredAt, AckedIsStored
<1>2. Shape
  BY DEF IInv
<1> DEFINE Kept == /\ UNCHANGED <<conf, bucket, applied, th>>
                   /\ DOMAIN ctl' = Sibs /\ DOMAIN toCtl' = Sibs /\ ingress_id' \in Nat
                   /\ \A q \in Sibs : Good(q, ctl'[q], toCtl'[q])
<1>3. ASSUME Kept PROVE IInv'
  <2>1. Shape'
    BY <1>2, <1>3, SMTT(20) DEF Shape
  <2>2. \A q \in Sibs : ThreadsAt(q)'
    BY <1>3, ZenonT(20) DEF IInv, ThreadsAt
  <2>3. \A q \in Sibs : StoredAt(q)'
    BY <1>3 DEF IInv, StoredAt
  <2>4. CheckpointCovers' /\ AckedIsStored'
    BY <1>3 DEF IInv, CheckpointCovers, AckedIsStored
  <2>5. QED
    BY <2>1, <2>2, <2>3, <2>4, SMTT(20) DEF IInv
<1>4. CASE Forward
  <2>1. \A q \in Sibs : ctl'[q] \in {ctl[q], [ctl[q] EXCEPT !.xid = ingress_id', !.acked = FALSE]}
    BY <1>2, <1>4, Zenon DEF ospfVars, Forward, Shape
  <2>2. ingress_id' = ingress_id + 1 /\ UNCHANGED <<conf, bucket, applied, th, toCtl>> /\ DOMAIN ctl' = Sibs
    BY <1>4, Zenon DEF ospfVars, Forward, db_get_and_set
  <2>3. ingress_id' \in Nat
    BY <1>2, <2>2, SMTT(20) DEF Shape
  <2>4. ASSUME NEW q \in Sibs PROVE Good(q, ctl'[q], toCtl'[q])
    <3>1. ctl[q] \in Ctl /\ (conf[q].checkpoint_enabled => toCtl'[q] \in Seq(DOMAIN bucket[q]))
      BY <1>1, <2>2, SMTT(20)
    <3>2. CASE ctl'[q] = ctl[q]
      BY <1>1, <3>1, <3>2, SMTT(20)
    <3>3. CASE ctl'[q] = [ctl[q] EXCEPT !.xid = ingress_id', !.acked = FALSE]
      <4>1. ctl'[q] \in Ctl /\ ctl'[q].acked = FALSE
        BY <2>3, <3>1, <3>3, Zenon
      <4>2. QED
        BY <3>1, <4>1, SMTT(20)
    <3>4. QED
      BY <2>1, <3>2, <3>3, ZenonT(20)
  <2>5. Kept
    BY <1>2, <2>2, <2>3, <2>4 DEF Shape
  <2>6. QED
    BY <1>3, <2>5
<1>5. ASSUME NEW p \in Sibs, CtrlAck(p) PROVE IInv'
  <2>1. conf[p].checkpoint_enabled
          => Head(toCtl[p]) \in DOMAIN bucket[p] /\ Tail(toCtl[p]) \in Seq(DOMAIN bucket[p])
    BY <1>1, <1>5, SeqTail, Zenon DEF ospfVars, CtrlAck
  <2>2. Good(p, AckRcvd(ctl[p], Head(toCtl[p])), Tail(toCtl[p]))
    BY <1>1, <2>1, Zenon DEF AckRcvd
  <2>3. Kept
    BY <1>1, <1>2, <1>5, <2>2, Zenon DEF ospfVars, CtrlAck, Shape
  <2>4. QED
    BY <1>3, <2>3, SMTT(20)
<1>6. ASSUME NEW p \in Sibs, CtrlClose(p) PROVE IInv'
  <2>1. ASSUME NEW q \in Sibs PROVE Good(q, ctl'[q], toCtl'[q])
    <3>1. conf[q].checkpoint_enabled => toCtl'[q] \in Seq(DOMAIN bucket[q])
      BY <1>1, <1>2, <1>6, SeqEmpty, Zenon DEF ospfVars, CtrlClose, Shape
    <3>2. ctl'[q] \in Ctl /\ ctl'[q].acked = ctl[q].acked /\ ctl'[q].xid = ctl[q].xid
      BY <1>1, <1>2, <1>6, Zenon DEF ospfVars, CtrlClose, Shape
    <3>3. QED
      BY <1>1, <3>1, <3>2
  <2>2. UNCHANGED <<conf, bucket, applied, th>> /\ ingress_id' = ingress_id
    BY <1>6 DEF ospfVars, CtrlClose
  <2>3. DOMAIN ctl' = Sibs /\ DOMAIN toCtl' = Sibs
    BY <1>2, <1>6 DEF ospfVars, CtrlClose, Shape
  <2>4. ingress_id' \in Nat
    BY <1>2, <2>2, SMTT(20) DEF Shape
  <2>5. Kept
    BY <2>1, <2>2, <2>3, <2>4, Zenon
  <2>6. QED
    BY <1>3, <2>5
<1>7. ASSUME NEW p \in Sibs, CtrlRouting(p) PROVE IInv'
  <2>1. UNCHANGED <<conf, bucket, applied, th, toCtl>> /\ ingress_id' = ingress_id
    BY <1>7 DEF ospfVars, CtrlRouting
  <2>2. DOMAIN ctl' = Sibs
        /\ \A q \in Sibs : ctl'[q] \in Ctl /\ (ctl'[q] = ctl[q] \/ ctl'[q].xid = 0)
    <3>1. ctl' = [ctl EXCEPT ![p] = [ctl[p] EXCEPT !.routing = TRUE, !.xid = 0]]
      BY <1>7, Zenon DEF ospfVars, CtrlRouting
    <3>2. [ctl[p] EXCEPT !.routing = TRUE, !.xid = 0] \in Ctl
      BY <1>1, Zenon
    <3>3. QED
      BY <1>1, <1>2, <3>1, <3>2, SMTT(20) DEF Shape
  <2>3. ASSUME NEW q \in Sibs PROVE Good(q, ctl'[q], toCtl'[q])
    BY <1>1, <2>1, <2>2, SMTT(20)
  <2>4. ingress_id' \in Nat /\ DOMAIN toCtl' = Sibs
    BY <1>2, <2>1, SMTT(20) DEF Shape
  <2>5. Kept
    BY <2>1, <2>2, <2>3, <2>4, SMTT(20)
  <2>6. QED
    BY <1>3, <2>5
<1>8. QED
  BY <1>4, <1>5, <1>6, <1>7

\* A message processed live is stored before it is acknowledged; the restart thread
\* stores all it processes but its own, which are stored.
LEMMA ProcessingStep ==
  ASSUME IInv, NEW p \in Sibs,
         Receive(p) \/ OwnKey(p) \/ LeaderKey(p) \/ Queued(p)
  PROVE  IInv'
<1>1. Shape /\ ThreadsAt(p)
  BY DEF IInv
<1>2. ASSUME NEW xid, NEW msg, NEW source,
             ospf6_receive(p, xid, msg, source),
             conf[p].checkpoint_enabled => xid \in DOMAIN bucket[p] \/ checkpoints(p),
             UNCHANGED <<toCtl, ctl, conf, ingress_id>>,
             DOMAIN th' = Sibs, \A q \in Sibs \ {p} : th'[q] = th[q],
             DOMAIN th'[p] = Fields,
             th'[p].restart_mode = th[p].restart_mode,
             th'[p].egress_mutex = th[p].egress_mutex,
             th'[p].thread = th[p].thread,
             th'[p].ready_to_checkpoint = th[p].ready_to_checkpoint,
             th[p].thread = "own" => th'[p].keys \in Seq({CURRENT_XID} \cup DOMAIN bucket[p]),
             th'[p].main = "ack" =>
               \/ th[p].main = "ack" /\ th'[p].msg = th[p].msg
               \/ /\ conf[p].checkpoint_enabled => Takes(p, msg) /\ checkpoints(p)
                  /\ th'[p].msg = xid
      PROVE  IInv'
  <2>1. /\ DOMAIN bucket' = Sibs /\ DOMAIN applied' = Sibs
        /\ \A q \in Sibs \ {p} : bucket'[q] = bucket[q] /\ applied'[q] = applied[q]
        /\ DOMAIN bucket[p] \subseteq DOMAIN bucket'[p]
        /\ Takes(p, msg) /\ checkpoints(p) => xid \in DOMAIN bucket'[p]
    BY <1>1, <1>2, ReceiveStores, SMTT(20) DEF ThreadsAt
  <2>2. (\A q \in Sibs : StoredAt(q)') /\ CheckpointCovers' /\ AckedIsStored'
    BY <1>2, ReceiveStep, SMTT(20)
  <2>3. Shape'
    BY <1>1, <1>2, <2>1, SMTT(20) DEF Shape
  <2>4. ASSUME NEW q \in Sibs PROVE ThreadsAt(q)'
    <3>1. CASE q # p
      BY <3>1, <1>2, <2>1, ZenonT(20) DEF IInv, ThreadsAt
    <3>2. CASE q = p
      <4>1. th[p].thread = "own" => th'[p].keys \in Seq({CURRENT_XID} \cup DOMAIN bucket'[p])
        BY <1>2, <2>1, SeqSubset, SMTT(20)
      <4>2. th'[p].main = "ack" /\ conf[p].checkpoint_enabled => th'[p].msg \in DOMAIN bucket'[p]
        BY <1>1, <1>2, <2>1, SMTT(20) DEF ThreadsAt
      <4>3. QED
        BY <3>2, <1>1, <1>2, <2>1, <4>1, <4>2, Zenon DEF ThreadsAt
    <3>3. QED
      BY <3>1, <3>2, SMTT(20)
  <2>5. QED
    BY <2>2, <2>3, <2>4, SMTT(20) DEF IInv
<1>3. CASE Receive(p)
  <2> DEFINE xid == Head(toSib[p])
  <2>1. ospf6_receive(p, xid, script[xid], "live") /\ ~th[p].restart_mode
    BY <1>3, SMTT(20) DEF Receive
  <2>2. UNCHANGED <<toCtl, ctl, conf, ingress_id>>
    BY <1>3, SMTT(20) DEF Receive, ctlVars
  <2>3. th' = IF Takes(p, script[xid])
              THEN [th EXCEPT ![p].main = "ack", ![p].msg = xid] ELSE th
    BY <1>3, SMTT(20) DEF Receive
  <2>4. th[p].main = "fetch" /\ (conf[p].checkpoint_enabled => checkpoints(p))
    BY <1>3, <2>1, SMTT(20) DEF Receive, Fetches, checkpoints
  <2> HIDE DEF xid
  <2>5. /\ DOMAIN th' = Sibs /\ \A q \in Sibs \ {p} : th'[q] = th[q]
        /\ DOMAIN th'[p] = Fields
    BY <1>1, <2>3, SMTT(20) DEF Shape, ThreadsAt
  <2>6. /\ th'[p].restart_mode = th[p].restart_mode
        /\ th'[p].egress_mutex = th[p].egress_mutex
        /\ th'[p].thread = th[p].thread
        /\ th'[p].ready_to_checkpoint = th[p].ready_to_checkpoint
        /\ th'[p].keys = th[p].keys
        /\ th'[p].main = "ack" => Takes(p, script[xid]) /\ th'[p].msg = xid
    BY <1>1, <2>3, <2>4, SMTT(20) DEF Shape, ThreadsAt, Fields, NewThreads
  <2>7. QED
    BY <1>1, <1>2, <2>1, <2>2, <2>4, <2>5, <2>6, SMTT(20) DEF ThreadsAt
<1>4. ASSUME NEW bid, NEW source, process_restarted_msg(p, bid, Head(th[p].keys), source),
             UNCHANGED <<toCtl, ctl, conf, ingress_id>>,
             \/ (conf[p].checkpoint_enabled => checkpoints(p)) /\ th[p].thread # "own"
             \/ /\ Head(th[p].keys) \in DOMAIN bucket[p]
                /\ Tail(th[p].keys) \in Seq({CURRENT_XID} \cup DOMAIN bucket[p])
      PROVE  IInv'
  <2> DEFINE xid == Head(th[p].keys)
             msg == ospf6_db_get(bucket[bid], xid)
  <2>1. ospf6_receive(p, xid, msg, source)
    BY <1>4, ZenonT(20) DEF process_restarted_msg
  <2>2. th' = [th EXCEPT ![p].keys = Tail(@), ![p].last_key = IF source = "own" THEN xid ELSE @]
    BY <1>4, Zenon DEF process_restarted_msg
  <2> HIDE DEF xid, msg
  <2>3. /\ DOMAIN th' = Sibs /\ \A q \in Sibs \ {p} : th'[q] = th[q]
        /\ DOMAIN th'[p] = Fields
    BY <1>1, <2>2, SMTT(20) DEF Shape, ThreadsAt
  <2>4. /\ th'[p].restart_mode = th[p].restart_mode
        /\ th'[p].egress_mutex = th[p].egress_mutex
        /\ th'[p].thread = th[p].thread
        /\ th'[p].ready_to_checkpoint = th[p].ready_to_checkpoint
        /\ th'[p].keys = Tail(th[p].keys)
        /\ th'[p].main = th[p].main /\ th'[p].msg = th[p].msg
    BY <1>1, <2>2, SMTT(20) DEF Shape, ThreadsAt, Fields, NewThreads
  <2>5. QED
    BY <1>2, <1>4, <2>1, <2>3, <2>4, SMTT(20) DEF xid
<1>5. CASE OwnKey(p)
  <2>1. /\ th[p].thread = "own" /\ th[p].keys # <<>> /\ Head(th[p].keys) # CURRENT_XID
        /\ process_restarted_msg(p, p, Head(th[p].keys), "own")
        /\ UNCHANGED <<toCtl, ctl, conf, ingress_id>>
    BY <1>5, SMTT(20) DEF OwnKey, Thread, ctlVars
  <2>2. th[p].keys \in Seq({CURRENT_XID} \cup DOMAIN bucket[p])
    BY <1>1, <2>1, SMTT(20) DEF ThreadsAt
  <2>3. /\ Head(th[p].keys) \in {CURRENT_XID} \cup DOMAIN bucket[p]
        /\ Tail(th[p].keys) \in Seq({CURRENT_XID} \cup DOMAIN bucket[p])
    BY <2>1, <2>2, SeqTail, SMTT(20)
  <2>4. QED
    BY <1>4, <2>1, <2>3, SMTT(20)
<1>6. CASE LeaderKey(p)
  <2>1. /\ th[p].thread = "range"
        /\ process_restarted_msg(p, th[p].leader_id, Head(th[p].keys), "leader")
        /\ UNCHANGED <<toCtl, ctl, conf, ingress_id>>
    BY <1>6, SMTT(20) DEF LeaderKey, Thread, ctlVars
  <2>2. conf[p].checkpoint_enabled => checkpoints(p)
    BY <1>1, <2>1, SMTT(20) DEF ThreadsAt, checkpoints
  <2>3. QED
    BY <1>4, <2>1, <2>2, SMTT(20)
<1>7. CASE Queued(p)
  <2> DEFINE xid == Head(th[p].keys)
  <2>1. /\ ospf6_receive(p, xid, script[xid], "queue") /\ th[p].thread = "drain"
        /\ th' = [th EXCEPT ![p].keys = Tail(@)]
        /\ UNCHANGED <<toCtl, ctl, conf, ingress_id>>
    BY <1>7, SMTT(20) DEF Queued, Thread, ctlVars
  <2>2. conf[p].checkpoint_enabled => checkpoints(p)
    BY <1>1, <2>1, SMTT(20) DEF ThreadsAt, checkpoints
  <2> HIDE DEF xid
  <2>3. /\ DOMAIN th' = Sibs /\ \A q \in Sibs \ {p} : th'[q] = th[q]
        /\ DOMAIN th'[p] = Fields
    BY <1>1, <2>1, SMTT(20) DEF Shape, ThreadsAt
  <2>4. /\ th'[p].restart_mode = th[p].restart_mode
        /\ th'[p].egress_mutex = th[p].egress_mutex
        /\ th'[p].thread = th[p].thread
        /\ th'[p].ready_to_checkpoint = th[p].ready_to_checkpoint
        /\ th'[p].main = th[p].main /\ th'[p].msg = th[p].msg
    BY <1>1, <2>1, SMTT(20) DEF Shape, ThreadsAt, Fields, NewThreads
  <2>5. QED
    BY <1>2, <2>1, <2>2, <2>3, <2>4, SMTT(20)
<1>8. QED
  BY <1>3, <1>5, <1>6, <1>7, SMTT(20)

\* The steps of the two threads that store nothing, and the start and the end of a
\* process.
LEMMA WaitingStep ==
  ASSUME IInv, NEW p \in Sibs,
         \/ SendAck(p) \/ InRestartMode(p) \/ Push(p) \/ ElectionComplete(p) \/ FirstHello(p)
         \/ SkipCurrentXid(p) \/ ReadyToCheckpoint(p) \/ FirstXid(p) \/ LeaderKeys(p)
         \/ LockQueue(p) \/ UnlockQueue(p) \/ Flip(p) \/ ListKeys(p)
         \/ (\E q \in Sibs : LeaderId(p, q)) \/ \E id \in Numbers : Inactivity(p, id)
  PROVE  IInv'
<1> USE DEF ctlVars, ospfVars, Thread, Fetches
<1>1. Shape /\ ThreadsAt(p)
  BY SMTT(20) DEF IInv
<1>2. \A q \in Sibs : conf[q].checkpoint_enabled => toCtl[q] \in Seq(DOMAIN bucket[q])
  BY SMTT(20) DEF IInv, StoredAt
<1>3. ASSUME UNCHANGED <<conf, ingress_id, bucket, applied, ctl, toCtl>>,
             DOMAIN th' = Sibs, \A q \in Sibs \ {p} : th'[q] = th[q], ThreadsAt(p)'
      PROVE  IInv'
  BY <1>1, <1>2, <1>3, ThreadStep, SMTT(20) DEF Shape
<1> DEFINE Rest == UNCHANGED <<conf, ingress_id, bucket, applied, ctl, toCtl>>
<1> DEFINE Th(q) == DOMAIN th' = Sibs /\ (\A r \in Sibs \ {q} : th'[r] = th[r]) /\ ThreadsAt(q)'
<1> USE DEF Shape, ThreadsAt, Fields, NewThreads
<1>4. CASE InRestartMode(p)
  <2>1. Rest /\ Th(p)
    BY <1>1, <1>4, SMTT(20) DEF InRestartMode
  <2>2. QED
    BY <1>3, <2>1, SMTT(20)
<1>5. CASE Push(p)
  <2>1. Rest /\ Th(p)
    BY <1>1, <1>5, SMTT(20) DEF Push
  <2>2. QED
    BY <1>3, <2>1
<1>6. CASE ElectionComplete(p)
  <2>1. Rest /\ Th(p)
    BY <1>1, <1>6, SMTT(20) DEF ElectionComplete, lead_elect_compl
  <2>2. QED
    BY <1>3, <2>1
<1>7. CASE FirstHello(p)
  <2>1. Rest /\ Th(p)
    BY <1>1, <1>7, SMTT(20) DEF FirstHello
  <2>2. QED
    BY <1>3, <2>1
<1>8. CASE SkipCurrentXid(p)
  <2>1. Tail(th[p].keys) \in Seq({CURRENT_XID} \cup DOMAIN bucket[p])
    BY <1>1, <1>8, SeqTail, SMTT(20) DEF SkipCurrentXid
  <2>2. Rest /\ Th(p)
    BY <1>1, <1>8, <2>1, SMTT(20) DEF SkipCurrentXid
  <2>3. QED
    BY <1>3, <2>2
<1>9. CASE ReadyToCheckpoint(p)
  <2>1. Rest /\ Th(p)
    BY <1>1, <1>9, SMTT(20) DEF ReadyToCheckpoint
  <2>2. QED
    BY <1>3, <2>1
<1>10. CASE FirstXid(p)
  <2>1. Rest /\ Th(p)
    BY <1>1, <1>10, Zenon DEF FirstXid
  <2>2. QED
    BY <1>3, <2>1
<1>11. CASE LeaderKeys(p)
  <2>1. Rest /\ Th(p)
    <3>1. PICK keys : th' = [th EXCEPT ![p].thread = "range", ![p].leader_id = th[p].leader, ![p].keys = keys]
      BY <1>11 DEF LeaderKeys
    <3>2. QED
      BY <1>1, <1>11, <3>1, Zenon DEF LeaderKeys
  <2>2. QED
    BY <1>3, <2>1
<1>12. CASE LockQueue(p)
  <2>1. Rest /\ Th(p)
    BY <1>1, <1>12, SMTT(20) DEF LockQueue
  <2>2. QED
    BY <1>3, <2>1
<1>13. CASE UnlockQueue(p)
  <2>1. Rest /\ Th(p)
    BY <1>1, <1>13, SMTT(20) DEF UnlockQueue
  <2>2. QED
    BY <1>3, <2>1
<1>14. CASE Flip(p)
  <2>1. Rest /\ Th(p)
    BY <1>1, <1>14, SMTT(20) DEF Flip
  <2>2. QED
    BY <1>3, <2>1
<1>15. CASE ListKeys(p)
  <2>1. PICK keys \in db_list_keys(bucket[p]), num_msgs \in BOOLEAN,
               last_key \in Xids \cup {NoId} :
          th' = [th EXCEPT ![p].thread = "own", ![p].keys = keys, ![p].num_msgs = num_msgs,
                           ![p].last_key = last_key]
    BY <1>15, ZenonT(20) DEF ListKeys
  <2>2. keys \in Seq({CURRENT_XID} \cup DOMAIN bucket[p])
    BY <1>1, ListedKeys, ZenonT(20)
  <2>3. Rest
    BY <1>15, Zenon DEF ListKeys
  <2>4. Th(p)
    BY <1>1, <2>1, <2>2, <2>3, SMTT(20)
  <2>5. QED
    BY <1>3, <2>3, <2>4, SMTT(20)
<1>16. ASSUME NEW q \in Sibs, LeaderId(p, q) PROVE IInv'
  <2>1. th' = [th EXCEPT ![p].leader = q]
    BY <1>16, Zenon DEF LeaderId
  <2>2. Rest
    BY <1>16, Zenon DEF LeaderId
  <2>3. Th(p)
    BY <1>1, <2>1, <2>2, SMTT(20)
  <2>4. QED
    BY <1>3, <2>2, <2>3, Zenon
<1>17. CASE SendAck(p)
  <2>1. /\ th[p].main = "ack" /\ toCtl' = [toCtl EXCEPT ![p] = Append(@, th[p].msg)]
        /\ UNCHANGED <<conf, ingress_id, bucket, applied, ctl>>
    BY <1>17, SMTT(20) DEF SendAck
  <2>2. conf[p].checkpoint_enabled => Append(toCtl[p], th[p].msg) \in Seq(DOMAIN bucket[p])
    BY <1>1, <1>2, <2>1, SeqAppend, ZenonT(20)
  <2>3. DOMAIN toCtl' = Sibs /\ \A q \in Sibs : conf[q].checkpoint_enabled => toCtl'[q] \in Seq(DOMAIN bucket[q])
    BY <1>1, <1>2, <2>1, <2>2, Zenon
  <2>4. Th(p)
    BY <1>1, <1>17 DEF SendAck
  <2> HIDE DEF Shape, ThreadsAt
  <2>5. QED
    BY <2>1, <2>3, <2>4, ThreadStep, ZenonT(20)
<1>18. ASSUME NEW id \in Numbers, Inactivity(p, id) PROVE IInv'
  <2>1. Rest /\ th' = th
    BY <1>18, Zenon DEF Inactivity
  <2>2. Th(p)
    BY <1>1, <2>1, SMTT(20)
  <2>3. QED
    BY <1>3, <2>1, <2>2, Zenon
<1>19. QED
  BY <1>4, <1>5, <1>6, <1>7, <1>8, <1>9, <1>10, <1>11, <1>12, <1>13, <1>14, <1>15, <1>16, <1>17, <1>18, SMTT(20)

\* A restarted process starts with its restart mutexes locked and no history; its
\* bucket and the ACKs it sent before remain.
LEMMA ProcessStep ==
  ASSUME IInv, NEW p \in Sibs, Crash(p) \/ Restart(p) \/ NoLeader(p)
  PROVE  IInv'
<1>1. CASE Crash(p) \/ NoLeader(p)
  <2>1. UNCHANGED <<conf, ingress_id, bucket, applied, ctl, toCtl, th>>
    BY <1>1, SMTT(20) DEF Crash, NoLeader, ctlVars, ospfVars
  <2>2. Shape'
    BY <2>1, SMTT(20) DEF IInv, Shape
  <2>3. \A q \in Sibs : ThreadsAt(q)' /\ StoredAt(q)'
    BY <2>1, SMTT(20) DEF IInv, ThreadsAt, StoredAt
  <2>4. CheckpointCovers' /\ AckedIsStored'
    BY <2>1 DEF IInv, CheckpointCovers, AckedIsStored
  <2>5. QED
    BY <2>2, <2>3, <2>4, SMTT(20) DEF IInv
<1>2. CASE Restart(p)
  <2>1. /\ UNCHANGED <<conf, ingress_id, bucket, ctl, toCtl>>
        /\ th' = [th EXCEPT ![p] = NewThreads(TRUE)]
        /\ applied' = [applied EXCEPT ![p] = <<>>]
    BY <1>2, SMTT(20) DEF Restart, ctlVars
  <2>2. Shape'
    BY <2>1, SMTT(20) DEF IInv, Shape
  <2>3. ASSUME NEW q \in Sibs PROVE ThreadsAt(q)'
    <3>1. CASE q = p
      BY <2>1, <3>1, Zenon DEF IInv, Shape, ThreadsAt, Fields, NewThreads
    <3>2. CASE q # p
      BY <2>1, <3>2 DEF IInv, Shape, ThreadsAt
    <3>3. QED
      BY <3>1, <3>2, SMTT(20)
  <2>4. ASSUME NEW q \in Sibs PROVE StoredAt(q)'
    <3>1. IsHistory(<<>>)
      BY SeqEmpty, SMTT(20) DEF IsHistory
    <3>2. IsHistory(applied'[q])
      BY <2>1, <3>1, SMTT(20) DEF IInv, Shape, StoredAt
    <3>3. QED
      BY <2>1, <3>2 DEF IInv, StoredAt
  <2>5. CheckpointCovers' /\ AckedIsStored'
    BY <2>1, SMTT(20) DEF IInv, Shape, CheckpointCovers, AckedIsStored
  <2>6. QED
    BY <2>2, <2>3, <2>4, <2>5, SMTT(20) DEF IInv
<1>3. QED
  BY <1>1, <1>2

\* Every step of the controller, of a process or of its threads keeps the invariant.
LEMMA NextInv == IInv /\ [Next]_vars => IInv'
<1> SUFFICES ASSUME IInv, [Next]_vars PROVE IInv'
  BY SMTT(20)
<1>1. CASE UNCHANGED vars
  BY <1>1, Zenon DEF vars, IInv, Shape, ThreadsAt, StoredAt, CheckpointCovers, AckedIsStored
<1>2. CASE Next
  <2>1. \/ Forward
        \/ \E p \in Sibs : CtrlAck(p) \/ CtrlClose(p) \/ CtrlRouting(p)
        \/ \E p \in Sibs : Crash(p) \/ Restart(p) \/ NoLeader(p)
        \/ \E p \in Sibs : Receive(p) \/ OwnKey(p) \/ LeaderKey(p) \/ Queued(p)
        \/ \E p \in Sibs :
             \/ SendAck(p) \/ InRestartMode(p) \/ Push(p) \/ ElectionComplete(p) \/ FirstHello(p)
             \/ SkipCurrentXid(p) \/ ReadyToCheckpoint(p) \/ FirstXid(p) \/ LeaderKeys(p)
             \/ LockQueue(p) \/ UnlockQueue(p) \/ Flip(p) \/ ListKeys(p)
             \/ (\E q \in Sibs : LeaderId(p, q)) \/ \E id \in Numbers : Inactivity(p, id)
    BY <1>2, Zenon DEF Next, Main, ospf6_restart_start
  <2>2. QED
    BY <2>1, ControllerStep, ProcessStep, ProcessingStep, WaitingStep
<1>3. QED
  BY <1>1, <1>2, SMTT(20)

-----------------------------------------------------------------------------
(***************************************************************************)
(* Theorems                                                                *)
(***************************************************************************)

\* The invariant of the two threads and of the controller's record of a sibling holds
\* throughout, for any siblings, messages, crashes and restarts.
THEOREM Invariance == Spec => []IInv
BY InitInv, NextInv, PTL DEF Spec

\* The controller takes a message for acknowledged only when the sibling has stored
\* it, where checkpoints are configured: sib_router.c's current_ingress_ack_rcvd, through crashes and restarts, though
\* sib_router_reuse does not reset it.
THEOREM AckedAlwaysStored == Spec => []AckedIsStored
<1>1. IInv => AckedIsStored
  BY SMTT(20) DEF IInv
<1>2. QED
  BY <1>1, Invariance, PTL

\* Every Hello and DbDesc that a sibling with checkpoints takes, live or in the restart
\* thread, is in its bucket in Riak: ospf6_hello_recv and ospf6_dbdesc_recv.
THEOREM CheckpointAlwaysCovers == Spec => []CheckpointCovers
<1>1. IInv => CheckpointCovers
  BY DEF IInv
<1>2. QED
  BY <1>1, Invariance, PTL

\* The first hello of a restarted sibling leaves only when the restart is over: the
\* restart thread holds its mutex until it clears restart_mode.
THEOREM FirstHelloWaits == Spec => HelloAfterRestart
<1> DEFINE A == \A p \in Sibs : life[p] = "run" /\ th[p].main = "hello" /\ th'[p].main = "fetch"
                                  => ~th[p].restart_mode
<1>1. ASSUME IInv, Next, NEW p \in Sibs,
             life[p] = "run", th[p].main = "hello", th'[p].main = "fetch"
      PROVE  ~th[p].restart_mode
  <2> USE DEF Shape, ThreadsAt, Fields, NewThreads, Thread
  <2>1. Shape /\ \A q \in Sibs : ThreadsAt(q)
    BY <1>1, Zenon DEF IInv
  <2>2. SUFFICES ASSUME th[p].egress_mutex PROVE FALSE
    BY <2>1, Zenon
  <2>3. th' # th
    BY <1>1
  <2>4. ~Forward
    BY <2>3, Zenon DEF ospfVars, Forward
  <2>5. \A q \in Sibs : ~(CtrlAck(q) \/ CtrlClose(q) \/ CtrlRouting(q) \/ Crash(q) \/ NoLeader(q)
                         \/ \E id \in Numbers : Inactivity(q, id))
    BY <2>3, SMTT(20) DEF ospfVars, CtrlAck, CtrlClose, CtrlRouting, Crash, NoLeader, Inactivity
  <2>6. \A q \in Sibs : ~Restart(q)
    <3>1. ASSUME NEW q \in Sibs, Restart(q) PROVE FALSE
      BY <1>1, <2>1, <3>1, SMTT(20) DEF Restart
    <3>2. QED
      BY <3>1, Zenon
  <2>7. \A q \in Sibs : ~(Receive(q) \/ InRestartMode(q))
    <3>1. ASSUME NEW q \in Sibs, Receive(q) PROVE FALSE
      BY <1>1, <2>1, <3>1, SMTT(20) DEF Receive, Fetches
    <3>2. ASSUME NEW q \in Sibs, InRestartMode(q) PROVE FALSE
      BY <1>1, <2>1, <3>2, SMTT(20) DEF InRestartMode, Fetches
    <3>3. QED
      BY <3>1, <3>2, Zenon
  <2>8. \A q \in Sibs : ~(SendAck(q) \/ Push(q) \/ FirstHello(q))
    BY <1>1, <2>1, <2>2, SMTT(20) DEF SendAck, Push, FirstHello, MaySendHello
  <2>9. \A q \in Sibs : ~(ElectionComplete(q) \/ \E r \in Sibs : LeaderId(q, r))
    BY <1>1, <2>1, SMTT(20) DEF ElectionComplete, LeaderId, Fetches
  <2>10. ASSUME NEW q \in Sibs, ReadyToCheckpoint(q) PROVE FALSE
    BY <1>1, <2>1, <2>10, SMTT(20) DEF ReadyToCheckpoint
  <2>11. ASSUME NEW q \in Sibs, FirstXid(q) PROVE FALSE
    BY <1>1, <2>1, <2>11, Zenon DEF FirstXid
  <2>12. ASSUME NEW q \in Sibs, LeaderKeys(q) PROVE FALSE
    <3>1. PICK keys : th' = [th EXCEPT ![q].thread = "range", ![q].leader_id = th[q].leader, ![q].keys = keys]
      BY <2>12 DEF LeaderKeys
    <3>2. QED
      BY <1>1, <2>1, <3>1, ZenonT(60)
  <2>13. ASSUME NEW q \in Sibs, LockQueue(q) PROVE FALSE
    BY <1>1, <2>1, <2>13, SMTT(20) DEF LockQueue
  <2>14. ASSUME NEW q \in Sibs, UnlockQueue(q) PROVE FALSE
    BY <1>1, <2>1, <2>14, SMTT(20) DEF UnlockQueue
  <2>15. ASSUME NEW q \in Sibs, Flip(q) PROVE FALSE
    BY <1>1, <2>1, <2>15, SMTT(20) DEF Flip
  <2>16. ASSUME NEW q \in Sibs, Queued(q) PROVE FALSE
    BY <1>1, <2>1, <2>16, SMTT(20) DEF Queued
  <2>17. ASSUME NEW q \in Sibs, SkipCurrentXid(q) PROVE FALSE
    BY <1>1, <2>1, <2>17, SMTT(20) DEF SkipCurrentXid
  <2>18. ASSUME NEW q \in Sibs, ListKeys(q) PROVE FALSE
    <3>1. PICK keys \in db_list_keys(bucket[q]), num_msgs \in BOOLEAN,
               last_key \in Xids \cup {NoId} :
            th' = [th EXCEPT ![q].thread = "own", ![q].keys = keys, ![q].num_msgs = num_msgs,
                             ![q].last_key = last_key]
      BY <2>18, Zenon DEF ListKeys
    <3>2. QED
      BY <1>1, <2>1, <3>1, SMTT(20)
  <2>19. ASSUME NEW q \in Sibs, OwnKey(q) \/ LeaderKey(q) PROVE FALSE
    <3>1. ASSUME NEW bid, NEW source, process_restarted_msg(q, bid, Head(th[q].keys), source)
          PROVE  FALSE
      <4> DEFINE xid == Head(th[q].keys)
      <4>1. th' = [th EXCEPT ![q].keys = Tail(@), ![q].last_key = IF source = "own" THEN xid ELSE @]
        BY <3>1, Zenon DEF process_restarted_msg
      <4> HIDE DEF xid
      <4>2. QED
        BY <1>1, <2>1, <4>1, SMTT(20)
    <3>2. QED
      BY <2>19, <3>1, SMTT(20) DEF OwnKey, LeaderKey
  <2> HIDE DEF Shape, ThreadsAt
  <2>20. QED
    BY <1>1, <2>4, <2>5, <2>6, <2>7, <2>8, <2>9, <2>10, <2>11, <2>12, <2>13, <2>14, <2>15, SMTT(20),
       <2>16, <2>17, <2>18, <2>19 DEF Next, Main, ospf6_restart_start
<1>2. ASSUME IInv, [Next]_vars PROVE [A]_vars
  BY <1>1, <1>2, SMTT(20)
<1>3. QED
  BY <1>2, Invariance, PTL DEF Spec, HelloAfterRestart

-----------------------------------------------------------------------------
(***************************************************************************)
(* The order in which messages reach a sibling                             *)
(***************************************************************************)

Before(S, T) == \A x \in S, y \in T : x < y

Increasing(s) == s \in Seq(Nat) /\ \A i, j \in DOMAIN s : i < j => s[i] < s[j]

Early == {"start", "own", "first", "leader"}

\* What of a sibling the order depends on: the ids on the way to it, held by its main
\* thread, in its queue, of the keys its restart thread still has, processed,
\* processed after its own ones, and stored.
View(p) ==
  [sent |-> toSib[p], held |-> IF th[p].main = "push" THEN {th[p].msg} ELSE {},
   queue |-> th[p].restart_msg_queue, thread |-> th[p].thread, keys |-> th[p].keys,
   done |-> {applied[p][i].xid : i \in DOMAIN applied[p]},
   later |-> {applied[p][i].xid : i \in {j \in DOMAIN applied[p] : applied[p][j].source # "own"}},
   stored |-> DOMAIN bucket[p], life |-> life[p], routing |-> ctl[p].routing,
   last |-> ingress_id, last_key |-> th[p].last_key, num_msgs |-> th[p].num_msgs,
   first_xid |-> th[p].first_xid, miss |-> miss[p]]

Coming(v) == IF v.thread \in {"range", "drain"} THEN Range(v.keys) ELSE {}

\* What the sibling will still process of what the controller has sent it; the queue
\* counts until it is read.
Upcoming(v) ==
  v.held \cup Range(v.sent)
    \cup (IF v.thread \in {"flip", "none"} THEN {}
          ELSE IF v.thread = "drain" THEN Range(v.keys) ELSE Range(v.queue))

\* Nothing upcoming is processed or stored, and no message is left out from the first
\* upcoming one on.
Flow(v) ==
  /\ Before(v.done \cup v.stored, Upcoming(v))
  /\ \A x \in Upcoming(v) : x .. v.last \subseteq Upcoming(v)
  /\ v.routing = TRUE \/ Upcoming(v) = {}

\* Wherever ids are, they are in order, and those in an earlier place are smaller.
Ordered(v) ==
  /\ v.last \in Nat /\ v.life \in {"run", "down"}
  /\ Increasing(v.sent) /\ Increasing(v.queue)
  /\ v.thread \in {"range", "drain"} => Increasing(v.keys)
  /\ Range(v.sent) \cup v.held \cup Range(v.queue) \cup Coming(v) \cup v.done \cup v.stored
       \subseteq 1 .. v.last
  /\ Before(Range(v.queue), v.held \cup Range(v.sent))
  /\ Before(v.held, Range(v.sent))
  /\ Before(Coming(v), v.held \cup Range(v.sent))
  /\ v.thread = "range" => Before(Coming(v), Range(v.queue))
  /\ v.later \subseteq v.done /\ Before(v.later, Coming(v))
  /\ v.thread \in Early => v.later = {}
  /\ v.life = "run" => Flow(v)
  /\ v.life = "down" => v.sent = <<>>

\* The Hellos and DbDescs the router has sent or may send.
Checkpoints == {x \in DOMAIN script : checkpointed(script[x])}

\* Those of them that sibling p has not refused.
Due(p) == Checkpoints \ dropped[p]

\* The bucket has no gap.
Complete(v, ck) == \A y \in v.stored : \A x \in ck : x < y => x \in v.stored

\* Of the keys of its bucket those not yet processed are still to be.
Replayed(v) ==
  /\ v.thread = "own" => v.stored \subseteq Range(v.keys) \cup v.done
  /\ v.thread \in {"first", "leader"} => v.stored \subseteq v.done
  /\ v.thread \in {"own", "first", "leader"} => v.last_key \in v.stored \cup {0}

\* It asks the leader for what is before the first message it has queued.
Asking(v) ==
  /\ v.thread \in {"leader", "range"} => v.num_msgs = TRUE
  /\ v.thread = "leader" => v.queue # <<>> /\ v.first_xid = Head(v.queue)

\* Once it has asked, every message is processed or still to come.
Remaining(v, ck) ==
  v.life = "run" /\ v.thread \notin Early
    => /\ v.routing = TRUE
       /\ \A x \in ck : x <= v.last => x \in v.done \cup Coming(v) \cup Upcoming(v)

\* This holds as long as no message of ck has passed the sibling by.
Covered(v, ck) ==
  v.miss = {} => Complete(v, ck) /\ Replayed(v) /\ Asking(v) /\ Remaining(v, ck)

\* What restart_mode and the queue's mutex say of the restart thread, and what it has
\* seen of the queue and of the leader's bucket.
RestartAt(p) ==
  /\ th[p].restart_mode <=> th[p].thread # "none"
  /\ th[p].restart_msg_q_mutex <=> th[p].thread = "drain"
  /\ th[p].thread = "leader" /\ th[p].num_msgs
       => \/ th[p].first_xid = Word - 1
          \/ th[p].restart_msg_queue # <<>> /\ th[p].first_xid = Head(th[p].restart_msg_queue)
  /\ th[p].leader \in Sibs \cup {NoId}
  /\ th[p].thread = "range"
       => th[p].leader_id \in Sibs /\ Range(th[p].keys) \subseteq DOMAIN bucket[th[p].leader_id]

\* Hellos and DbDescs and only these are stored, what is processed is of the kind that
\* was sent, and what is not taken is known to be dropped.
KindsAt(p) ==
  /\ \A x \in DOMAIN bucket[p] : x \in Checkpoints /\ bucket[p][x].type = script[x].type
  /\ \A i \in DOMAIN applied[p] :
       /\ applied[p][i].msg.type = script[applied[p][i].xid].type
       /\ checkpointed(applied[p][i].msg) => applied[p][i].taken \/ applied[p][i].xid \in dropped[p]

\* The first of a sequence, of whatever it holds, is taken off.
LEMMA OneLess ==
  ASSUME NEW S, NEW s \in Seq(S), s # <<>>
  PROVE  Range(s) = Range(Tail(s)) \cup {Head(s)}
<1>1. /\ Len(s) \in Nat \ {0} /\ DOMAIN s = 1 .. Len(s) /\ DOMAIN Tail(s) = 1 .. Len(s) - 1
      /\ Head(s) = s[1] /\ \A i \in 1 .. Len(s) - 1 : Tail(s)[i] = s[i + 1]
  BY SMTT(20)
<1>2. 1 \in DOMAIN s
  BY <1>1, SMTT(20)
<1>3. ASSUME NEW i \in DOMAIN Tail(s) PROVE i + 1 \in DOMAIN s /\ s[i + 1] = Tail(s)[i]
  BY <1>1, SMTT(20)
<1>4. ASSUME NEW i \in DOMAIN s, i # 1 PROVE i - 1 \in DOMAIN Tail(s) /\ s[i] = Tail(s)[i - 1]
  BY <1>1, <1>4, SMTT(20)
<1>5. ASSUME NEW y \in Range(s) PROVE y \in Range(Tail(s)) \cup {Head(s)}
  <2>1. PICK i \in DOMAIN s : y = s[i]
    BY DEF Range
  <2>2. CASE i = 1
    BY <1>1, <2>1, <2>2
  <2>3. CASE i # 1
    BY <1>4, <2>1, <2>3 DEF Range
  <2>4. QED
    BY <2>2, <2>3
<1>6. ASSUME NEW y \in Range(Tail(s)) PROVE y \in Range(s)
  BY <1>3 DEF Range
<1>7. Head(s) \in Range(s)
  BY <1>1, <1>2 DEF Range
<1>8. QED
  BY <1>5, <1>6, <1>7


\* Taking the first of an increasing sequence, and adding one at its end.
LEMMA TakeFirst ==
  ASSUME NEW s, Increasing(s), s # <<>>
  PROVE  /\ Increasing(Tail(s)) /\ Head(s) \in Nat /\ Head(s) \in Range(s)
         /\ Range(s) = Range(Tail(s)) \cup {Head(s)}
         /\ Before({Head(s)}, Range(Tail(s)))
<1>1. s \in Seq(Nat) /\ \A i, j \in DOMAIN s : i < j => s[i] < s[j]
  BY DEF Increasing
<1>2. /\ Tail(s) \in Seq(Nat) /\ Len(Tail(s)) = Len(s) - 1 /\ Len(s) \in Nat \ {0}
      /\ DOMAIN s = 1 .. Len(s) /\ DOMAIN Tail(s) = 1 .. Len(s) - 1
      /\ \A i \in 1 .. Len(s) - 1 : Tail(s)[i] = s[i + 1]
  BY <1>1, SMTT(20)
<1>3. Head(s) = s[1] /\ Head(s) \in Nat /\ 1 \in DOMAIN s
  BY <1>1, <1>2, SMTT(20)
<1>4. Increasing(Tail(s))
  BY <1>1, <1>2, SMTT(20) DEF Increasing
<1>5. ASSUME NEW i \in DOMAIN Tail(s) PROVE i + 1 \in DOMAIN s /\ s[i + 1] = Tail(s)[i] /\ s[1] < s[i + 1]
  BY <1>1, <1>2, SMTT(20)
<1>7. Range(s) = Range(Tail(s)) \cup {Head(s)}
  BY <1>1, OneLess
<1>8. Before({Head(s)}, Range(Tail(s)))
  BY <1>3, <1>5 DEF Before, Range
<1>9. QED
  BY <1>3, <1>4, <1>7, <1>8

\* A larger id is added at the end.
LEMMA AddLast ==
  ASSUME NEW s, Increasing(s), NEW x \in Nat, Before(Range(s), {x})
  PROVE  Increasing(Append(s, x)) /\ Range(Append(s, x)) = Range(s) \cup {x}
         /\ Append(s, x) # <<>> /\ (s # <<>> => Head(Append(s, x)) = Head(s))
<1> DEFINE t == Append(s, x)
<1>1. s \in Seq(Nat) /\ \A i, j \in DOMAIN s : i < j => s[i] < s[j]
  BY DEF Increasing
<1>2. /\ t \in Seq(Nat) /\ Len(s) \in Nat /\ DOMAIN s = 1 .. Len(s) /\ DOMAIN t = 1 .. Len(s) + 1
      /\ t[Len(s) + 1] = x /\ \A i \in 1 .. Len(s) : t[i] = s[i]
  BY <1>1, SMTT(20)
<1>3. \A i \in DOMAIN s : s[i] < x
  BY DEF Before, Range
<1>4. Append(s, x) # <<>> /\ (s # <<>> => Head(Append(s, x)) = Head(s))
  BY <1>1, SMTT(20)
<1> HIDE DEF t
<1>5. ASSUME NEW i \in DOMAIN t, NEW j \in DOMAIN t, i < j PROVE t[i] < t[j]
  <2>1. CASE j = Len(s) + 1
    <3>1. i \in DOMAIN s
      BY <1>2, <1>5, <2>1, SMTT(20)
    <3>2. QED
      BY <1>2, <1>3, <2>1, <3>1
  <2>2. CASE j # Len(s) + 1
    <3>1. i \in DOMAIN s /\ j \in DOMAIN s
      BY <1>2, <1>5, <2>2, SMTT(20)
    <3>2. t[i] = s[i] /\ t[j] = s[j]
      BY <1>2, <3>1
    <3>3. s[i] < s[j]
      BY <1>1, <1>5, <3>1
    <3>4. QED
      BY <3>2, <3>3
  <2>3. QED
    BY <2>1, <2>2
<1>6. Increasing(t)
  BY <1>2, <1>5 DEF Increasing
<1>7. Range(t) = Range(s) \cup {x}
  <2>1. ASSUME NEW i \in DOMAIN t PROVE t[i] = x \/ (i \in DOMAIN s /\ t[i] = s[i])
    BY <1>2, SMTT(20)
  <2>2. ASSUME NEW i \in DOMAIN s PROVE i \in DOMAIN t /\ t[i] = s[i]
    BY <1>2, SMTT(20)
  <2>3. Len(s) + 1 \in DOMAIN t
    BY <1>2, SMTT(20)
  <2>4. QED
    BY <1>2, <2>1, <2>2, <2>3 DEF Range
<1>8. QED
  BY <1>4, <1>6, <1>7 DEF t

\* The empty sequence is in order.
LEMMA NoneLeft == Increasing(<<>>) /\ Range(<<>>) = {}
<1>1. <<>> \in Seq(Nat) /\ DOMAIN <<>> = {}
  BY SMTT(20)
<1>2. QED
  BY <1>1 DEF Increasing, Range

\* Orders of numbers, for steps without arithmetic.
LEMMA LessIsLeq == \A x, y \in Nat : x <= x /\ (x < y => x <= y)
BY SMTT(20)


-----------------------------------------------------------------------------
(***************************************************************************)
(* What the steps do to the order                                          *)
(***************************************************************************)

\* The ids are where they were.
SameIds(v, w) ==
  /\ w.sent = v.sent /\ w.held = v.held /\ w.queue = v.queue /\ w.later = v.later
  /\ w.stored = v.stored /\ w.last = v.last

SameProcess(v, w) == w.life = v.life /\ w.routing = v.routing

\* x was the next message to be processed.
NextOne(v, w, x) ==
  /\ Coming(v) \cup Upcoming(v) \subseteq Coming(w) \cup Upcoming(w) \cup {x}
  /\ \A y \in Coming(v) \cup Upcoming(v) : x <= y

\* What the thread has read is as it was.
SameReads(v, w) ==
  w.last_key = v.last_key /\ w.num_msgs = v.num_msgs /\ w.first_xid = v.first_xid

\* Upcoming ids that are processed or given up are before those that remain.
LEMMA FlowDrop ==
  ASSUME NEW v, NEW w, NEW Q, Flow(v), Upcoming(v) \subseteq Nat, Q \subseteq Nat,
         Upcoming(w) \subseteq Upcoming(v), Upcoming(v) \subseteq Upcoming(w) \cup Q,
         Before(Q, Upcoming(w)), w.done \cup w.stored \subseteq v.done \cup v.stored \cup Q,
         w.last = v.last, SameProcess(v, w)
  PROVE  Flow(w)
<1>1. Before(v.done \cup v.stored, Upcoming(v)) /\ (\A y \in Upcoming(v) : y .. v.last \subseteq Upcoming(v))
      /\ (v.routing = TRUE \/ Upcoming(v) = {})
  BY DEF Flow
<1>2. Before(w.done \cup w.stored, Upcoming(w))
  BY <1>1 DEF Before
<1>3. ASSUME NEW y \in Upcoming(w), NEW z \in y .. v.last, z \notin Upcoming(w) PROVE FALSE
  <2>1. z \in Q /\ z < y
    BY <1>1, <1>3 DEF Before
  <2>2. z \in Int /\ y \in Int /\ y <= z
    BY <2>1, SMTT(20)
  <2>3. QED
    BY <2>1, <2>2, SMTT(20)
<1>4. w.routing = TRUE \/ Upcoming(w) = {}
  BY <1>1 DEF SameProcess
<1>5. QED
  BY <1>2, <1>3, <1>4 DEF Flow

\* The first upcoming id, x, is processed.
LEMMA FlowTake ==
  ASSUME NEW v, NEW w, NEW x \in Nat, Flow(v), Upcoming(v) \subseteq Nat,
         Upcoming(w) \subseteq Upcoming(v), Upcoming(v) \subseteq Upcoming(w) \cup {x},
         Before({x}, Upcoming(w)), w.done \cup w.stored \subseteq v.done \cup v.stored \cup {x},
         w.last = v.last, SameProcess(v, w)
  PROVE  Flow(w)
<1>1. PICK Q : Q = {x}
  OBVIOUS
<1>2. Q \subseteq Nat /\ Before(Q, Upcoming(w)) /\ Upcoming(v) \subseteq Upcoming(w) \cup Q
      /\ w.done \cup w.stored \subseteq v.done \cup v.stored \cup Q
  BY <1>1
<1>3. QED
  BY <1>2, FlowDrop

\* All that is upcoming is a number.
LEMMA UpcomingNat == ASSUME NEW v, Ordered(v) PROVE Upcoming(v) \subseteq Nat /\ Coming(v) \subseteq Nat
<1>1. Range(v.sent) \cup v.held \cup Range(v.queue) \cup Coming(v) \subseteq 1 .. v.last /\ v.last \in Nat
  BY DEF Ordered
<1>2. 1 .. v.last \subseteq Nat
  BY SMTT(20)
<1>3. v.thread = "drain" => Coming(v) = Range(v.keys)
  BY DEF Coming
<1>4. QED
  BY <1>1, <1>2, <1>3 DEF Upcoming

\* Before the leader is asked only messages of the own bucket are processed.
LEMMA EarlyOrder ==
  ASSUME NEW v, NEW w, Ordered(v), v.thread \in Early, w.thread \in Early,
         SameIds(v, w), SameProcess(v, w), v.done \subseteq w.done, w.done \subseteq v.done \cup v.stored
  PROVE  Ordered(w)
<1>1. Coming(v) = {} /\ Coming(w) = {} /\ Upcoming(w) = Upcoming(v)
  BY DEF Coming, Upcoming, Early, SameIds
<1>2. v.life = "run" => Flow(w)
  BY <1>1, SMTT(20) DEF Ordered, Flow, Before, SameIds, SameProcess
<1>3. QED
  BY <1>1, <1>2, SMTT(20) DEF Ordered, Before, SameIds, SameProcess, Early

\* The keys the leader is asked for end before the queue.
LEMMA AskedOrder ==
  ASSUME NEW v, NEW w, Ordered(v), v.thread = "leader", w.thread = "range",
         SameIds(v, w), SameProcess(v, w), w.done = v.done,
         Increasing(w.keys), Range(w.keys) \subseteq 1 .. v.last,
         \/ Range(w.keys) = {}
         \/ v.queue # <<>> /\ Before(Range(w.keys), {Head(v.queue)})
  PROVE  Ordered(w)
<1>1. Coming(v) = {} /\ Coming(w) = Range(w.keys) /\ Upcoming(w) = Upcoming(v)
  BY DEF Coming, Upcoming, SameIds
<1>2. v.life = "run" => Flow(w)
  BY <1>1, SMTT(20) DEF Ordered, Flow, Before, SameIds, SameProcess
<1>3. Before(Range(w.keys), Range(v.queue))
  <2>1. CASE v.queue = <<>>
    BY <2>1, NoneLeft DEF Before
  <2>2. CASE v.queue # <<>>
    <3>1. Increasing(v.queue)
      BY DEF Ordered
    <3>2. Range(v.queue) = Range(Tail(v.queue)) \cup {Head(v.queue)}
          /\ Before({Head(v.queue)}, Range(Tail(v.queue))) /\ Head(v.queue) \in Nat
      BY <2>2, <3>1, TakeFirst
    <3>3. Range(v.queue) \subseteq Int /\ Range(w.keys) \subseteq Int
      BY SMTT(20) DEF Ordered
    <3>4. QED
      BY <3>2, <3>3, SMTT(20) DEF Before
  <2>3. QED
    BY <2>1, <2>2
<1>4. Before(Range(w.keys), v.held \cup Range(v.sent))
  <2>1. CASE v.queue = <<>>
    BY <2>1 DEF Before
  <2>2. CASE v.queue # <<>>
    <3>1. Head(v.queue) \in Range(v.queue)
      BY <2>2, TakeFirst DEF Ordered
    <3>2. QED
      BY <2>2, <3>1, SMTT(20) DEF Ordered, Before
  <2>3. QED
    BY <2>1, <2>2
<1>5. v.later = {}
  BY DEF Ordered, Early
<1>6. QED
  BY <1>1, <1>2, <1>3, <1>4, <1>5, SMTT(20) DEF Ordered, Before, SameIds, SameProcess, Early

\* The restart thread processes the first of its keys.
LEMMA TakenOrder ==
  ASSUME NEW v, NEW w, NEW x, Ordered(v), v.thread \in {"range", "drain"}, w.thread = v.thread,
         v.life = "run", SameProcess(v, w), v.keys # <<>>, x = Head(v.keys), w.keys = Tail(v.keys),
         w.sent = v.sent, w.held = v.held, w.queue = v.queue, w.last = v.last,
         w.done = v.done \cup {x}, w.later = v.later \cup {x},
         v.stored \subseteq w.stored, w.stored \subseteq v.stored \cup {x}
  PROVE  Ordered(w) /\ NextOne(v, w, x) /\ Before(v.later, {x})
<1> DEFINE K == Range(v.keys)
           R == Range(w.keys)
           U == Upcoming(v)
<1>1. Increasing(w.keys) /\ x \in Nat /\ x \in K /\ K = R \cup {x} /\ Before({x}, R)
  BY TakeFirst DEF Ordered
<1>2. Coming(v) = K /\ Coming(w) = R
  BY DEF Coming
<1>3. K \subseteq 1 .. v.last /\ Before(v.later, K) /\ v.later \subseteq v.done /\ v.last \in Nat
      /\ v.done \subseteq 1 .. v.last
  BY <1>2, SMTT(20) DEF Ordered
<1>4. Upcoming(w) = IF v.thread = "drain" THEN U \ {x} ELSE U
  <2>1. CASE v.thread = "range"
    BY <2>1 DEF Upcoming
  <2>2. CASE v.thread = "drain"
    <3>1. x \notin R /\ x \notin v.held \cup Range(v.sent)
      <4>1. \A y \in R \cup v.held \cup Range(v.sent) : x < y
        BY <1>1, <1>2 DEF Ordered, Before
      <4>2. QED
        BY <1>1, <4>1, SMTT(20)
    <3>2. U = v.held \cup Range(v.sent) \cup K /\ Upcoming(w) = v.held \cup Range(v.sent) \cup R
      BY <2>2 DEF Upcoming
    <3>3. QED
      BY <1>1, <2>2, <3>1, <3>2
  <2>3. QED
    BY <2>1, <2>2
<1>5. Before({x}, Upcoming(w))
  <2>1. CASE v.thread = "range"
    BY <1>1, <1>2, <2>1 DEF Ordered, Before, Upcoming
  <2>2. CASE v.thread = "drain"
    BY <1>1, <1>2, <2>2 DEF Ordered, Before, Upcoming
  <2>3. QED
    BY <2>1, <2>2
<1> HIDE DEF K, R, U
<1>6. Flow(w)
  <2>1. Flow(v) /\ U \subseteq Nat
    BY UpcomingNat DEF Ordered, U
  <2>2. Upcoming(v) \subseteq Nat /\ Upcoming(w) \subseteq Upcoming(v) /\ Upcoming(v) \subseteq Upcoming(w) \cup {x}
    BY <1>4, <2>1 DEF U
  <2>3. w.done \cup w.stored \subseteq v.done \cup v.stored \cup {x}
    OBVIOUS
  <2>4. QED
    BY <1>1, <1>5, <2>1, <2>2, <2>3, FlowTake
<1>7. Before(w.later, R)
  BY <1>1, <1>3 DEF Before
<1>8. QED
  <2>1. v.thread \notin Early
    BY DEF Early
  <2>2. w.stored \subseteq 1 .. w.last /\ w.done \subseteq 1 .. w.last /\ Coming(w) \subseteq 1 .. w.last
    BY <1>1, <1>2, <1>3 DEF Ordered
  <2>3. /\ Before(Coming(w), w.held \cup Range(w.sent))
        /\ w.thread = "range" => Before(Coming(w), Range(w.queue))
    BY <1>1, <1>2 DEF Ordered, Before
  <2>4. w.later \subseteq w.done
    BY <1>3
  <2>5. Ordered(w)
    BY <1>1, <1>2, <1>6, <1>7, <2>1, <2>2, <2>3, <2>4 DEF Ordered, SameProcess
  <2>6. NextOne(v, w, x)
    <3>1. \A y \in Coming(w) \cup Upcoming(w) \cup {x} : x <= y
      <4>1. \A y \in Coming(w) \cup Upcoming(w) : x < y /\ y \in Nat
        BY <1>1, <1>2, <1>5, <2>5, UpcomingNat DEF Before
      <4>2. QED
        BY <1>1, <4>1, SMTT(20)
    <3>2. QED
      BY <1>1, <1>2, <1>4, <3>1 DEF NextOne, U
  <2>7. QED
    BY <1>1, <1>3, <2>5, <2>6 DEF Before

\* The main thread processes the first message on the way, out of restart mode.
LEMMA LiveOrder ==
  ASSUME NEW v, NEW w, NEW x, Ordered(v), v.thread = "none", w.thread = "none", v.held = {}, w.held = {},
         v.life = "run", SameProcess(v, w), v.sent # <<>>, x = Head(v.sent), w.sent = Tail(v.sent),
         w.queue = v.queue, w.last = v.last,
         w.done = v.done \cup {x}, w.later = v.later \cup {x},
         v.stored \subseteq w.stored, w.stored \subseteq v.stored \cup {x}
  PROVE  Ordered(w) /\ NextOne(v, w, x) /\ Before(v.later, {x})
<1> DEFINE K == Range(v.sent)
           R == Range(w.sent)
<1>1. Increasing(w.sent) /\ x \in Nat /\ x \in K /\ K = R \cup {x} /\ Before({x}, R)
  BY TakeFirst DEF Ordered
<1>2. Coming(v) = {} /\ Coming(w) = {} /\ Upcoming(v) = K /\ Upcoming(w) = R
  BY DEF Coming, Upcoming
<1> HIDE DEF K, R
<1>3. K \subseteq 1 .. v.last /\ v.later \subseteq v.done /\ v.done \subseteq 1 .. v.last /\ Flow(v) /\ K \subseteq Nat
  <2>1. v.later \subseteq v.done /\ v.done \subseteq 1 .. v.last /\ Flow(v)
    BY DEF Ordered
  <2>2. K \subseteq 1 .. v.last
    BY DEF Ordered, K
  <2>3. K \subseteq Nat
    BY <1>2, UpcomingNat
  <2>4. QED
    BY <2>1, <2>2, <2>3
<1>4. Before(v.later, {x})
  <2>1. Before(v.done \cup v.stored, K)
    BY <1>2, <1>3 DEF Flow
  <2>2. QED
    BY <1>1, <1>3, <2>1 DEF Before
<1>5. Flow(w)
  <2>1. w.done \cup w.stored \subseteq v.done \cup v.stored \cup {x}
    OBVIOUS
  <2>2. {x} \subseteq Nat /\ Upcoming(w) \subseteq Upcoming(v) /\ Upcoming(v) \subseteq Upcoming(w) \cup {x}
    BY <1>1, <1>2
  <2>3. QED
    BY <1>1, <1>2, <1>3, <2>1, <2>2, FlowTake
<1>6. Ordered(w)
  <2>1. w.stored \subseteq 1 .. w.last /\ w.done \subseteq 1 .. w.last /\ R \subseteq 1 .. w.last
    BY <1>1, <1>3 DEF Ordered
  <2>2. Before(Range(w.queue), w.held \cup R)
    BY <1>1 DEF Ordered, Before, K
  <2>3. w.thread \notin Early
    BY DEF Early
  <2>4. QED
    BY <1>1, <1>2, <1>3, <1>5, <2>1, <2>2, <2>3 DEF Ordered, SameProcess, Before, R
<1>7. NextOne(v, w, x)
  <2>1. \A y \in R : x < y /\ y \in Nat
    BY <1>1, <1>3 DEF Before
  <2>2. \A y \in R \cup {x} : x <= y
    BY <1>1, <2>1, LessIsLeq
  <2>3. QED
    BY <1>1, <1>2, <2>2 DEF NextOne
<1>8. QED
  BY <1>4, <1>6, <1>7

\* The main thread takes the first message on the way, to queue it.
LEMMA HeldOrder ==
  ASSUME NEW v, NEW w, NEW x, Ordered(v), v.held = {}, w.held = {x}, v.thread # "none", w.thread = v.thread,
         v.life = "run", SameProcess(v, w), v.sent # <<>>, x = Head(v.sent), w.sent = Tail(v.sent),
         w.queue = v.queue, w.last = v.last, w.keys = v.keys,
         w.done = v.done, w.later = v.later, w.stored = v.stored
  PROVE  Ordered(w) /\ Upcoming(w) = Upcoming(v) /\ Coming(w) = Coming(v)
<1>1. Increasing(w.sent) /\ x \in Nat /\ x \in Range(v.sent) /\ Range(v.sent) = Range(w.sent) \cup {x}
      /\ Before({x}, Range(w.sent))
  BY TakeFirst DEF Ordered
<1>2. v.held \cup Range(v.sent) = w.held \cup Range(w.sent)
  BY <1>1
<1>3. Coming(w) = Coming(v) /\ Upcoming(w) = Upcoming(v)
  BY <1>2 DEF Coming, Upcoming
<1>4. Flow(v) /\ Flow(w)
  BY <1>3 DEF Ordered, Flow, SameProcess
<1>5. Range(w.sent) \cup w.held \subseteq 1 .. w.last
  BY <1>1 DEF Ordered
<1>6. QED
  BY <1>1, <1>2, <1>3, <1>4, <1>5 DEF Ordered, SameProcess

\* The main thread queues the message it holds, too late when the queue has been read.
LEMMA PushedOrder ==
  ASSUME NEW v, NEW w, NEW x, Ordered(v), v.held = {x}, w.held = {}, v.thread # "drain", w.thread = v.thread,
         v.life = "run", SameProcess(v, w), w.sent = v.sent,
         w.queue = Append(v.queue, x), w.last = v.last, w.keys = v.keys,
         w.done = v.done, w.later = v.later, w.stored = v.stored
  PROVE  /\ Ordered(w) /\ Coming(w) = Coming(v)
         /\ v.thread \notin {"flip", "none"} => Upcoming(w) = Upcoming(v)
         /\ v.queue # <<>> => w.queue # <<>> /\ Head(w.queue) = Head(v.queue)
<1>1. x \in 1 .. v.last /\ v.last \in Nat /\ Increasing(v.queue) /\ Before(Range(v.queue), {x})
      /\ Before({x}, Range(v.sent)) /\ Range(v.queue) \subseteq 1 .. v.last
  BY DEF Ordered, Before
<1>2. x \in Nat
  BY <1>1, SMTT(20)
<1>3. Increasing(w.queue) /\ Range(w.queue) = Range(v.queue) \cup {x}
      /\ (v.queue # <<>> => w.queue # <<>> /\ Head(w.queue) = Head(v.queue))
  <2>1. /\ Increasing(Append(v.queue, x)) /\ Range(Append(v.queue, x)) = Range(v.queue) \cup {x}
        /\ Append(v.queue, x) # <<>> /\ (v.queue # <<>> => Head(Append(v.queue, x)) = Head(v.queue))
    BY <1>1, <1>2, AddLast
  <2>2. QED
    BY <2>1
<1>4. Coming(w) = Coming(v) /\ (v.thread \notin {"flip", "none"} => Upcoming(w) = Upcoming(v))
      /\ Upcoming(v) \subseteq Upcoming(w) \cup {x} /\ Upcoming(w) \subseteq Upcoming(v)
  BY <1>3 DEF Coming, Upcoming
<1>5. Flow(w)
  <2>1. CASE v.thread \in {"flip", "none"}
    <3>1. Upcoming(w) = Range(v.sent)
      BY <2>1 DEF Upcoming
    <3>2. w.done \cup w.stored \subseteq v.done \cup v.stored \cup {x} /\ {x} \subseteq Nat
      BY <1>2
    <3>3. Flow(v) /\ Upcoming(v) \subseteq Nat
      BY UpcomingNat DEF Ordered
    <3>4. Before({x}, Upcoming(w))
      BY <1>1, <3>1
    <3>5. QED
      BY <1>2, <1>4, <3>2, <3>3, <3>4, FlowTake
  <2>2. CASE v.thread \notin {"flip", "none"}
    <3>1. Upcoming(w) = Upcoming(v) /\ Flow(v)
      BY <1>4, <2>2 DEF Ordered
    <3>2. QED
      BY <3>1 DEF Flow, SameProcess
  <2>3. QED
    BY <2>1, <2>2
<1>6. /\ Before(Range(w.queue), w.held \cup Range(w.sent)) /\ Before(w.held, Range(w.sent))
      /\ Before(Coming(w), w.held \cup Range(w.sent))
      /\ w.thread = "range" => Before(Coming(w), Range(w.queue))
  <2>1. /\ Before(Range(v.queue), v.held \cup Range(v.sent)) /\ Before(v.held, Range(v.sent))
        /\ Before(Coming(v), v.held \cup Range(v.sent))
        /\ v.thread = "range" => Before(Coming(v), Range(v.queue))
    BY DEF Ordered
  <2>2. QED
    BY <1>3, <1>4, <2>1 DEF Before
<1>7. Range(w.queue) \subseteq 1 .. w.last
  BY <1>1, <1>3
<1>8. Ordered(w)
  BY <1>3, <1>4, <1>5, <1>6, <1>7 DEF Ordered, SameProcess
<1>9. QED
  BY <1>3, <1>4, <1>8

\* The restart thread locks the queue and goes through it.
LEMMA LockedOrder ==
  ASSUME NEW v, NEW w, Ordered(v), v.life = "run", v.thread = "range", w.thread = "drain",
         w.keys = v.queue, SameIds(v, w), SameProcess(v, w), w.done = v.done, v.keys = <<>>
  PROVE  Ordered(w) /\ Upcoming(w) = Upcoming(v) /\ Coming(v) = {}
<1>1. Coming(v) = {} /\ Coming(w) = Range(v.queue) /\ Upcoming(w) = Upcoming(v) /\ Range(v.queue) \subseteq Upcoming(v)
  BY NoneLeft DEF Coming, Upcoming, SameIds
<1>2. Flow(v) /\ Flow(w)
  BY <1>1 DEF Ordered, Flow, SameIds, SameProcess
<1>3. Before(w.later, Coming(w))
  BY <1>1, <1>2 DEF Flow, Ordered, Before, SameIds
<1>4. w.thread \notin Early
  BY DEF Early
<1>5. QED
  BY <1>1, <1>2, <1>3, <1>4 DEF Ordered, SameIds, SameProcess

\* The restart thread is done with the queue.
LEMMA SettledOrder ==
  ASSUME NEW v, NEW w, Ordered(v), v.life = "run", v.thread \in {"range", "drain", "flip"},
         w.thread \in {"flip", "none"}, Coming(v) = {},
         SameIds(v, w), SameProcess(v, w), w.done = v.done
  PROVE  Ordered(w) /\ Coming(w) = {} /\ (v.thread # "range" => Upcoming(w) = Upcoming(v))
<1>1. Coming(w) = {} /\ Upcoming(w) = v.held \cup Range(v.sent)
  BY DEF Coming, Upcoming, SameIds
<1>2. /\ Upcoming(w) \subseteq Upcoming(v) /\ Upcoming(v) \subseteq Upcoming(w) \cup Range(v.queue)
      /\ v.thread # "range" => Upcoming(w) = Upcoming(v)
  BY <1>1 DEF Coming, Upcoming
<1>3. Flow(v) /\ Upcoming(v) \subseteq Nat /\ Before(Range(v.queue), Upcoming(w))
  BY <1>1, UpcomingNat DEF Ordered
<1>4. Range(v.queue) \subseteq Nat
  BY SMTT(20) DEF Ordered
<1>5. Flow(w)
  BY <1>2, <1>3, <1>4, FlowDrop DEF SameIds
<1>6. Before(w.later, Coming(w)) /\ Before(Coming(w), w.held \cup Range(w.sent)) /\ w.thread \notin Early
  BY <1>1 DEF Before, Early
<1>7. QED
  BY <1>1, <1>2, <1>5, <1>6 DEF Ordered, SameIds, SameProcess

\* The controller gives the next id to a message, and sends it to a sibling that is
\* routing and runs.
LEMMA SentOrder ==
  ASSUME NEW v, NEW w, Ordered(v), w.last = v.last + 1,
         w.sent = IF v.routing /\ v.life = "run" THEN Append(v.sent, v.last + 1) ELSE v.sent,
         v.routing \in BOOLEAN,
         SameProcess(v, w), w.held = v.held, w.queue = v.queue, w.thread = v.thread, w.keys = v.keys,
         w.done = v.done, w.later = v.later, w.stored = v.stored
  PROVE  /\ Ordered(w) /\ Coming(w) = Coming(v)
         /\ Upcoming(w) = Upcoming(v) \cup (IF v.routing /\ v.life = "run" THEN {v.last + 1} ELSE {})
<1> DEFINE n == v.last + 1
           U == Upcoming(v)
           Sends == v.routing /\ v.life = "run"
           Ids == Range(v.sent) \cup v.held \cup Range(v.queue) \cup Coming(v) \cup v.done \cup v.stored
<1>1. v.last \in Nat /\ Ids \subseteq 1 .. v.last /\ Coming(w) = Coming(v) /\ Increasing(v.sent)
  BY DEF Ordered, Coming
<1>2. n \in Nat /\ 1 .. v.last \subseteq 1 .. n /\ n \in 1 .. n /\ (\A y \in 1 .. v.last : y < n)
  BY <1>1, SMTT(20)
<1>3. Before(Ids, {n})
  BY <1>1, <1>2 DEF Before
<1>4. /\ Sends => Increasing(w.sent) /\ Range(w.sent) = Range(v.sent) \cup {n}
      /\ ~Sends => w.sent = v.sent
  <2>1. Before(Range(v.sent), {n})
    BY <1>3 DEF Before
  <2>2. Increasing(Append(v.sent, n)) /\ Range(Append(v.sent, n)) = Range(v.sent) \cup {n}
    BY <1>1, <1>2, <2>1, AddLast
  <2>3. QED
    BY <2>2
<1>5. Upcoming(w) = U \cup (IF Sends THEN {n} ELSE {})
  BY <1>4 DEF Upcoming
<1>6. U \subseteq Ids
  BY DEF Upcoming, Coming
<1>7. v.life = "run" => Flow(w)
  <2>1. SUFFICES ASSUME v.life = "run" PROVE Flow(w)
    OBVIOUS
  <2>2. Before(v.done \cup v.stored, U) /\ (\A y \in U : y .. v.last \subseteq U) /\ (v.routing = TRUE \/ U = {})
    BY <2>1 DEF Ordered, Flow
  <2>3. CASE ~Sends
    <3>1. U = {} /\ Upcoming(w) = {}
      BY <1>5, <2>1, <2>2, <2>3
    <3>2. QED
      BY <3>1 DEF Flow, Before
  <2>4. CASE Sends
    <3>1. Upcoming(w) = U \cup {n}
      BY <1>5, <2>4
    <3>2. Before(w.done \cup w.stored, U \cup {n})
      BY <1>3, <2>2 DEF Before
    <3>3. ASSUME NEW y \in U \cup {n} PROVE y .. n \subseteq U \cup {n}
      <4>1. y \in Int
        BY <1>1, <1>2, <1>6, SMTT(20)
      <4>2. \A z \in y .. n : z = n \/ (z \in y .. v.last /\ y # n)
        BY <1>1, <4>1, SMTT(20)
      <4>3. QED
        BY <2>2, <4>2
    <3>4. w.routing = TRUE
      BY <2>4 DEF SameProcess
    <3>5. QED
      BY <3>1, <3>2, <3>3, <3>4 DEF Flow
  <2>5. QED
    BY <2>3, <2>4
<1>8. Range(w.sent) \subseteq Range(v.sent) \cup {n} /\ Increasing(w.sent)
  BY <1>1, <1>4
<1>9. Range(w.sent) \cup w.held \cup Range(w.queue) \cup Coming(w) \cup w.done \cup w.stored \subseteq 1 .. w.last
  BY <1>1, <1>2, <1>8
<1>10. /\ Before(Range(w.queue), w.held \cup Range(w.sent)) /\ Before(w.held, Range(w.sent))
       /\ Before(Coming(w), w.held \cup Range(w.sent))
  <2>1. /\ Before(Range(v.queue), v.held \cup Range(v.sent)) /\ Before(v.held, Range(v.sent))
        /\ Before(Coming(v), v.held \cup Range(v.sent))
    BY DEF Ordered
  <2>2. Before(Range(v.queue) \cup v.held \cup Coming(v), {n})
    BY <1>3 DEF Before
  <2>3. QED
    BY <1>1, <1>8, <2>1, <2>2 DEF Before
<1>11. w.last \in Nat /\ (v.life = "down" => w.sent = <<>>)
  BY <1>2, <1>4 DEF Ordered
<1> HIDE DEF n, U, Sends, Ids
<1>12. Ordered(w)
  BY <1>1, <1>7, <1>8, <1>9, <1>10, <1>11 DEF Ordered, SameProcess
<1>13. QED
  BY <1>1, <1>5, <1>12 DEF n, U, Sends

\* The controller closes or opens the connection of a sibling.
LEMMA RoutingOrder ==
  ASSUME NEW v, NEW w, Ordered(v), SameIds(v, w), w.done = v.done, w.thread = v.thread, w.keys = v.keys,
         w.life = v.life, w.routing = TRUE \/ v.life = "down"
  PROVE  Ordered(w) /\ Coming(w) = Coming(v) /\ Upcoming(w) = Upcoming(v)
<1>1. Coming(w) = Coming(v) /\ Upcoming(w) = Upcoming(v)
  BY DEF Coming, Upcoming, SameIds
<1>2. v.life = "run" => Flow(w)
  BY <1>1 DEF Ordered, Flow, SameIds
<1>3. QED
  BY <1>1, <1>2 DEF Ordered, SameIds

\* The process is gone, and what was on the way to it.
LEMMA GoneOrder ==
  ASSUME NEW v, NEW w, Ordered(v), w.sent = <<>>, w.life = "down",
         w.held = v.held, w.queue = v.queue, w.thread = v.thread, w.keys = v.keys,
         w.done = v.done, w.later = v.later, w.stored = v.stored, w.last = v.last
  PROVE  Ordered(w)
<1>1. Range(w.sent) = {} /\ Increasing(w.sent) /\ Coming(w) = Coming(v)
  BY NoneLeft DEF Coming
<1>2. QED
  BY <1>1 DEF Ordered, Before

\* A new process.
LEMMA RestartedOrder ==
  ASSUME NEW v, NEW w, Ordered(v), v.life = "down", w.life = "run", w.sent = v.sent, w.held = {},
         w.queue = <<>>, w.thread = "start", w.done = {}, w.later = {}, w.stored = v.stored, w.last = v.last
  PROVE  Ordered(w)
<1>1. w.sent = <<>> /\ Range(w.sent) = {} /\ Range(w.queue) = {} /\ Increasing(w.sent) /\ Increasing(w.queue)
  BY NoneLeft DEF Ordered
<1>2. Coming(w) = {} /\ Upcoming(w) = {}
  BY <1>1 DEF Coming, Upcoming
<1>3. Flow(w)
  BY <1>2 DEF Flow, Before
<1>4. QED
  BY <1>1, <1>2, <1>3 DEF Ordered, Before


-----------------------------------------------------------------------------
(***************************************************************************)
(* What the steps leave out                                                *)
(***************************************************************************)

\* Nothing of what is stored, processed or to come is lost.
LEMMA KeptCovered ==
  ASSUME NEW v, NEW w, NEW ck, Covered(v, ck), w.thread = v.thread, w.miss = v.miss,
         w.stored = v.stored, w.done = v.done, SameReads(v, w), w.last = v.last, w.keys = v.keys,
         Coming(v) \cup Upcoming(v) \subseteq Coming(w) \cup Upcoming(w),
         w.life = "run" => v.life = "run" /\ (v.routing = TRUE => w.routing = TRUE),
         v.queue # <<>> => w.queue # <<>> /\ Head(w.queue) = Head(v.queue)
  PROVE  Covered(w, ck)
<1>1. SUFFICES ASSUME v.miss = {} PROVE Complete(w, ck) /\ Replayed(w) /\ Asking(w) /\ Remaining(w, ck)
  BY DEF Covered
<1>2. Complete(v, ck) /\ Replayed(v) /\ Asking(v) /\ Remaining(v, ck)
  BY <1>1 DEF Covered
<1>3. Complete(w, ck)
  BY <1>2 DEF Complete
<1>4. Replayed(w)
  BY <1>2 DEF Replayed, SameReads
<1>5. Asking(w)
  BY <1>2 DEF Asking, SameReads
<1>6. Remaining(w, ck)
  BY <1>2 DEF Remaining
<1>7. QED
  BY <1>3, <1>4, <1>5, <1>6

\* Before the leader is asked only the bucket and what was read of it matter.
LEMMA EarlyCovered ==
  ASSUME NEW v, NEW w, NEW ck, Covered(v, ck), w.thread \in Early, w.stored = v.stored,
         v.miss \subseteq w.miss,
         w.miss = {} /\ Replayed(v) /\ Asking(v) => Replayed(w) /\ Asking(w)
  PROVE  Covered(w, ck)
<1>1. SUFFICES ASSUME w.miss = {} PROVE Complete(w, ck) /\ Replayed(w) /\ Asking(w) /\ Remaining(w, ck)
  BY DEF Covered
<1>2. Complete(v, ck) /\ Replayed(v) /\ Asking(v)
  BY <1>1 DEF Covered
<1>3. Complete(w, ck)
  BY <1>2 DEF Complete
<1>4. Remaining(w, ck)
  BY DEF Remaining
<1>5. QED
  BY <1>1, <1>2, <1>3, <1>4

\* What the leader is asked for is all between the own bucket and the queue.
LEMMA AskedCovered ==
  ASSUME NEW v, NEW w, NEW ck, Ordered(v), Covered(v, ck), ck \subseteq Nat \ {0},
         v.thread = "leader", w.thread = "range", v.life = "run",
         SameIds(v, w), SameProcess(v, w), w.done = v.done, SameReads(v, w), v.miss \subseteq w.miss,
         w.miss = {} => \A x \in ck : v.last_key < x /\ x < v.first_xid /\ v.num_msgs = TRUE
                                        => x \in Range(w.keys)
  PROVE  Covered(w, ck)
<1>1. SUFFICES ASSUME w.miss = {} PROVE Complete(w, ck) /\ Replayed(w) /\ Asking(w) /\ Remaining(w, ck)
  BY DEF Covered
<1>2. Complete(v, ck) /\ Replayed(v) /\ Asking(v)
  BY <1>1 DEF Covered
<1>3. Complete(w, ck) /\ Replayed(w) /\ Asking(w)
  BY <1>2 DEF Complete, Replayed, Asking, SameIds, SameReads
<1>4. v.queue # <<>> /\ v.first_xid = Head(v.queue) /\ v.num_msgs = TRUE
  BY <1>2 DEF Asking
<1>5. Head(v.queue) \in Range(v.queue) /\ Head(v.queue) \in Nat
  BY <1>4, TakeFirst DEF Ordered
<1>6. Range(v.queue) \subseteq Upcoming(v) /\ Upcoming(w) = Upcoming(v) /\ Coming(w) = Range(w.keys)
  BY DEF Upcoming, Coming, SameIds
<1>7. v.routing = TRUE /\ Head(v.queue) .. v.last \subseteq Upcoming(v)
  BY <1>5, <1>6 DEF Ordered, Flow
<1>8. v.last_key \in v.stored \cup {0} /\ v.stored \subseteq v.done /\ v.stored \subseteq 1 .. v.last /\ v.last \in Nat
  BY <1>2 DEF Replayed, Ordered
<1>9. v.last_key \in Nat
  BY <1>8, SMTT(20)
<1>10. ASSUME NEW x \in ck, x <= w.last PROVE x \in w.done \cup Coming(w) \cup Upcoming(w)
  <2>1. x \in Nat /\ x <= v.last
    BY <1>10 DEF SameIds
  <2>2. CASE Head(v.queue) <= x
    <3>1. x \in Head(v.queue) .. v.last
      BY <1>5, <1>8, <2>1, <2>2, SMTT(20)
    <3>2. QED
      BY <1>6, <1>7, <3>1
  <2>3. CASE v.last_key < x /\ x < Head(v.queue)
    BY <1>1, <1>4, <1>6, <2>3
  <2>4. CASE x = v.last_key
    <3>1. x \in v.stored \/ x = 0
      BY <1>8, <2>4
    <3>2. CASE x = 0
      BY <3>2
    <3>3. QED
      BY <1>8, <3>1, <3>2
  <2>5. CASE x < v.last_key
    <3>1. v.last_key # 0
      BY <2>1, <2>5, SMTT(20)
    <3>2. x \in v.stored
      BY <1>2, <1>8, <2>5, <3>1 DEF Complete
    <3>3. QED
      BY <1>8, <3>2
  <2>6. Head(v.queue) <= x \/ (v.last_key < x /\ x < Head(v.queue)) \/ x = v.last_key \/ x < v.last_key
    BY <1>5, <1>9, <2>1, SMTT(20)
  <2>7. QED
    BY <2>2, <2>3, <2>4, <2>5, <2>6
<1>11. Remaining(w, ck)
  BY <1>7, <1>10 DEF Remaining, SameProcess
<1>12. QED
  BY <1>3, <1>11

\* Fewer messages are to be covered.
LEMMA LessCovered ==
  ASSUME NEW v, NEW ck, NEW cl, Covered(v, ck), cl \subseteq ck PROVE Covered(v, cl)
<1>1. Complete(v, ck) => Complete(v, cl)
  BY DEF Complete
<1>2. Remaining(v, ck) => Remaining(v, cl)
  BY DEF Remaining
<1>3. QED
  BY <1>1, <1>2 DEF Covered

\* The next message is processed.
LEMMA NextCovered ==
  ASSUME NEW v, NEW w, NEW x, NEW ck, Ordered(v), Covered(v, ck), NextOne(v, w, x), x \in 1 .. v.last,
         ck \subseteq Nat \ {0}, v.thread \notin Early, w.thread = v.thread, v.life = "run", SameProcess(v, w),
         w.miss = v.miss, w.num_msgs = v.num_msgs, w.last = v.last, w.done = v.done \cup {x},
         v.stored \subseteq w.stored, w.stored \subseteq v.stored \cup {x},
         (\A y \in ck : y \in v.done => y \in v.stored) \/ w.stored = v.stored
  PROVE  Covered(w, ck)
<1>1. SUFFICES ASSUME v.miss = {} PROVE Complete(w, ck) /\ Replayed(w) /\ Asking(w) /\ Remaining(w, ck)
  BY DEF Covered
<1>2. Complete(v, ck) /\ Asking(v) /\ Remaining(v, ck)
  BY <1>1 DEF Covered
<1>3. v.routing = TRUE /\ \A y \in ck : y <= v.last => y \in v.done \cup Coming(v) \cup Upcoming(v)
  BY <1>2 DEF Remaining
<1>4. x \in Nat /\ x <= v.last /\ v.last \in Nat
  BY SMTT(20) DEF Ordered
<1>5. ASSUME \A y \in ck : y \in v.done => y \in v.stored, NEW y \in ck, y < x PROVE y \in v.stored
  <2>1. y \in Nat /\ y <= v.last /\ ~(x <= y)
    BY <1>4, <1>5, SMTT(20)
  <2>2. QED
    BY <1>3, <1>5, <2>1 DEF NextOne
<1>6. Complete(w, ck)
  BY <1>2, <1>5 DEF Complete
<1>7. Replayed(w) /\ Asking(w)
  BY <1>2 DEF Replayed, Asking, Early
<1>8. Remaining(w, ck)
  BY <1>3 DEF Remaining, NextOne, SameProcess
<1>9. QED
  BY <1>6, <1>7, <1>8

\* The restart thread locks the queue, or is done with it.
LEMMA LaterCovered ==
  ASSUME NEW v, NEW w, NEW ck, Covered(v, ck), w.thread \in {"drain", "flip", "none"}, v.thread \notin Early,
         v.life = "run", SameProcess(v, w), SameIds(v, w), w.miss = v.miss, w.done = v.done,
         v.miss = {} /\ Asking(v) => Coming(v) \cup Upcoming(v) \subseteq Coming(w) \cup Upcoming(w)
  PROVE  Covered(w, ck)
<1>1. SUFFICES ASSUME v.miss = {} PROVE Complete(w, ck) /\ Replayed(w) /\ Asking(w) /\ Remaining(w, ck)
  BY DEF Covered
<1>2. Complete(v, ck) /\ Asking(v) /\ Remaining(v, ck)
  BY <1>1 DEF Covered
<1>3. Complete(w, ck)
  BY <1>2 DEF Complete, SameIds
<1>4. Replayed(w) /\ Asking(w)
  BY DEF Replayed, Asking
<1>5. Remaining(w, ck)
  BY <1>1, <1>2 DEF Remaining, SameIds, SameProcess
<1>6. QED
  BY <1>3, <1>4, <1>5

\* The controller sends a message.
LEMMA SentCovered ==
  ASSUME NEW v, NEW w, NEW ck, Ordered(v), Covered(v, ck), ck \subseteq Nat \ {0}, w.thread = v.thread, w.miss = v.miss,
         w.stored = v.stored, w.done = v.done, SameReads(v, w), w.queue = v.queue, w.keys = v.keys,
         SameProcess(v, w), w.last = v.last + 1, Coming(w) = Coming(v),
         Upcoming(w) = Upcoming(v) \cup (IF v.routing /\ v.life = "run" THEN {v.last + 1} ELSE {})
  PROVE  Covered(w, ck)
<1>1. SUFFICES ASSUME v.miss = {} PROVE Complete(w, ck) /\ Replayed(w) /\ Asking(w) /\ Remaining(w, ck)
  BY DEF Covered
<1>2. Complete(v, ck) /\ Replayed(v) /\ Asking(v) /\ Remaining(v, ck)
  BY <1>1 DEF Covered
<1>3. Complete(w, ck)
  BY <1>2 DEF Complete
<1>4. Replayed(w)
  BY <1>2 DEF Replayed, SameReads
<1>5. Asking(w)
  BY <1>2 DEF Asking, SameReads
<1>6. Remaining(w, ck)
  <2>1. SUFFICES ASSUME v.life = "run", v.thread \notin Early
                 PROVE  /\ v.routing = TRUE
                        /\ \A x \in ck : x <= v.last + 1 => x \in v.done \cup Coming(w) \cup Upcoming(w)
    BY DEF Remaining, SameProcess
  <2>2. v.routing = TRUE /\ \A x \in ck : x <= v.last => x \in v.done \cup Coming(v) \cup Upcoming(v)
    BY <1>2, <2>1 DEF Remaining
  <2>3. v.last \in Nat
    BY DEF Ordered
  <2>4. ASSUME NEW x \in ck, x <= v.last + 1 PROVE x <= v.last \/ x = v.last + 1
    BY <2>3, <2>4, SMTT(20)
  <2>5. QED
    BY <2>1, <2>2, <2>4
<1>7. QED
  BY <1>3, <1>4, <1>5, <1>6


-----------------------------------------------------------------------------
(***************************************************************************)
(* The sibling as the steps see it                                         *)
(***************************************************************************)

Held(p) == IF th[p].main = "push" THEN {th[p].msg} ELSE {}

Xs(p) == {applied[p][i].xid : i \in DOMAIN applied[p]}

Ys(p) == {applied[p][i].xid : i \in {j \in DOMAIN applied[p] : applied[p][j].source # "own"}}

\* The view of a sibling, field by field,
LEMMA ViewIs ==
  ASSUME NEW p
  PROVE  /\ View(p).sent = toSib[p] /\ View(p).held = Held(p)
         /\ View(p).queue = th[p].restart_msg_queue /\ View(p).thread = th[p].thread
         /\ View(p).keys = th[p].keys /\ View(p).done = Xs(p) /\ View(p).later = Ys(p)
         /\ View(p).stored = DOMAIN bucket[p] /\ View(p).life = life[p] /\ View(p).routing = ctl[p].routing
         /\ View(p).last = ingress_id /\ View(p).last_key = th[p].last_key
         /\ View(p).num_msgs = th[p].num_msgs /\ View(p).first_xid = th[p].first_xid /\ View(p).miss = miss[p]
BY DEF View, Held, Xs, Ys

\* and after a step.
LEMMA ViewNext ==
  ASSUME NEW p
  PROVE  /\ View(p)'.sent = toSib'[p] /\ View(p)'.held = Held(p)'
         /\ View(p)'.queue = th'[p].restart_msg_queue /\ View(p)'.thread = th'[p].thread
         /\ View(p)'.keys = th'[p].keys /\ View(p)'.done = Xs(p)' /\ View(p)'.later = Ys(p)'
         /\ View(p)'.stored = DOMAIN bucket'[p] /\ View(p)'.life = life'[p] /\ View(p)'.routing = ctl'[p].routing
         /\ View(p)'.last = ingress_id' /\ View(p)'.last_key = th'[p].last_key
         /\ View(p)'.num_msgs = th'[p].num_msgs /\ View(p)'.first_xid = th'[p].first_xid /\ View(p)'.miss = miss'[p]
BY DEF View, Held, Xs, Ys

\* What stays as it is.
LEMMA SameView ==
  ASSUME NEW p
  PROVE  /\ toSib'[p] = toSib[p] => View(p)'.sent = View(p).sent
         /\ Held(p)' = Held(p) => View(p)'.held = View(p).held
         /\ th'[p].restart_msg_queue = th[p].restart_msg_queue => View(p)'.queue = View(p).queue
         /\ th'[p].thread = th[p].thread => View(p)'.thread = View(p).thread
         /\ th'[p].keys = th[p].keys => View(p)'.keys = View(p).keys
         /\ Xs(p)' = Xs(p) => View(p)'.done = View(p).done
         /\ Ys(p)' = Ys(p) => View(p)'.later = View(p).later
         /\ DOMAIN bucket'[p] = DOMAIN bucket[p] => View(p)'.stored = View(p).stored
         /\ life'[p] = life[p] => View(p)'.life = View(p).life
         /\ ctl'[p].routing = ctl[p].routing => View(p)'.routing = View(p).routing
         /\ ingress_id' = ingress_id => View(p)'.last = View(p).last
         /\ th'[p].last_key = th[p].last_key => View(p)'.last_key = View(p).last_key
         /\ th'[p].num_msgs = th[p].num_msgs => View(p)'.num_msgs = View(p).num_msgs
         /\ th'[p].first_xid = th[p].first_xid => View(p)'.first_xid = View(p).first_xid
         /\ miss'[p] = miss[p] => View(p)'.miss = View(p).miss
<1>1. toSib'[p] = toSib[p] => View(p)'.sent = View(p).sent
  <2>1. View(p).sent = toSib[p]
    BY ViewIs
  <2>2. View(p)'.sent = toSib'[p]
    BY ViewNext
  <2>3. QED
    BY <2>1, <2>2
<1>2. Held(p)' = Held(p) => View(p)'.held = View(p).held
  <2>1. View(p).held = Held(p)
    BY ViewIs
  <2>2. View(p)'.held = Held(p)'
    BY ViewNext
  <2>3. QED
    BY <2>1, <2>2
<1>3. th'[p].restart_msg_queue = th[p].restart_msg_queue => View(p)'.queue = View(p).queue
  <2>1. View(p).queue = th[p].restart_msg_queue
    BY ViewIs
  <2>2. View(p)'.queue = th'[p].restart_msg_queue
    BY ViewNext
  <2>3. QED
    BY <2>1, <2>2
<1>4. th'[p].thread = th[p].thread => View(p)'.thread = View(p).thread
  <2>1. View(p).thread = th[p].thread
    BY ViewIs
  <2>2. View(p)'.thread = th'[p].thread
    BY ViewNext
  <2>3. QED
    BY <2>1, <2>2
<1>5. th'[p].keys = th[p].keys => View(p)'.keys = View(p).keys
  <2>1. View(p).keys = th[p].keys
    BY ViewIs
  <2>2. View(p)'.keys = th'[p].keys
    BY ViewNext
  <2>3. QED
    BY <2>1, <2>2
<1>6. Xs(p)' = Xs(p) => View(p)'.done = View(p).done
  <2>1. View(p).done = Xs(p)
    BY ViewIs
  <2>2. View(p)'.done = Xs(p)'
    BY ViewNext
  <2>3. QED
    BY <2>1, <2>2
<1>7. Ys(p)' = Ys(p) => View(p)'.later = View(p).later
  <2>1. View(p).later = Ys(p)
    BY ViewIs
  <2>2. View(p)'.later = Ys(p)'
    BY ViewNext
  <2>3. QED
    BY <2>1, <2>2
<1>8. DOMAIN bucket'[p] = DOMAIN bucket[p] => View(p)'.stored = View(p).stored
  <2>1. View(p).stored = DOMAIN bucket[p]
    BY ViewIs
  <2>2. View(p)'.stored = DOMAIN bucket'[p]
    BY ViewNext
  <2>3. QED
    BY <2>1, <2>2
<1>9. life'[p] = life[p] => View(p)'.life = View(p).life
  <2>1. View(p).life = life[p]
    BY ViewIs
  <2>2. View(p)'.life = life'[p]
    BY ViewNext
  <2>3. QED
    BY <2>1, <2>2
<1>10. ctl'[p].routing = ctl[p].routing => View(p)'.routing = View(p).routing
  <2>1. View(p).routing = ctl[p].routing
    BY ViewIs
  <2>2. View(p)'.routing = ctl'[p].routing
    BY ViewNext
  <2>3. QED
    BY <2>1, <2>2
<1>11. ingress_id' = ingress_id => View(p)'.last = View(p).last
  <2>1. View(p).last = ingress_id
    BY ViewIs
  <2>2. View(p)'.last = ingress_id'
    BY ViewNext
  <2>3. QED
    BY <2>1, <2>2
<1>12. th'[p].last_key = th[p].last_key => View(p)'.last_key = View(p).last_key
  <2>1. View(p).last_key = th[p].last_key
    BY ViewIs
  <2>2. View(p)'.last_key = th'[p].last_key
    BY ViewNext
  <2>3. QED
    BY <2>1, <2>2
<1>13. th'[p].num_msgs = th[p].num_msgs => View(p)'.num_msgs = View(p).num_msgs
  <2>1. View(p).num_msgs = th[p].num_msgs
    BY ViewIs
  <2>2. View(p)'.num_msgs = th'[p].num_msgs
    BY ViewNext
  <2>3. QED
    BY <2>1, <2>2
<1>14. th'[p].first_xid = th[p].first_xid => View(p)'.first_xid = View(p).first_xid
  <2>1. View(p).first_xid = th[p].first_xid
    BY ViewIs
  <2>2. View(p)'.first_xid = th'[p].first_xid
    BY ViewNext
  <2>3. QED
    BY <2>1, <2>2
<1>15. miss'[p] = miss[p] => View(p)'.miss = View(p).miss
  <2>1. View(p).miss = miss[p]
    BY ViewIs
  <2>2. View(p)'.miss = miss'[p]
    BY ViewNext
  <2>3. QED
    BY <2>1, <2>2
<1>16. QED
  BY <1>1, <1>2, <1>3, <1>4, <1>5, <1>6, <1>7, <1>8, <1>9, <1>10, <1>11, <1>12, <1>13, <1>14, <1>15

\* A step that leaves the messages of sibling p where they are.
Resting(p) ==
  /\ toSib'[p] = toSib[p] /\ applied'[p] = applied[p] /\ bucket'[p] = bucket[p] /\ ingress_id' = ingress_id
  /\ th'[p].restart_msg_queue = th[p].restart_msg_queue /\ Held(p)' = Held(p)

\* Such a step leaves all ids where they are.
LEMMA RestingView ==
  ASSUME NEW p, Resting(p)
  PROVE  SameIds(View(p), View(p)') /\ View(p)'.done = View(p).done
<1>1. Xs(p)' = Xs(p) /\ Ys(p)' = Ys(p)
  BY DEF Resting, Xs, Ys
<1>2. View(p)'.sent = View(p).sent /\ View(p)'.held = View(p).held /\ View(p)'.queue = View(p).queue
  BY SameView DEF Resting
<1>3. View(p)'.later = View(p).later /\ View(p)'.done = View(p).done
  BY <1>1, SameView
<1>4. View(p)'.stored = View(p).stored /\ View(p)'.last = View(p).last
  BY SameView DEF Resting
<1>5. QED
  BY <1>2, <1>3, <1>4 DEF SameIds

SameSib(q) ==
  /\ th'[q] = th[q] /\ toSib'[q] = toSib[q] /\ applied'[q] = applied[q] /\ bucket'[q] = bucket[q]
  /\ dropped'[q] = dropped[q] /\ life'[q] = life[q] /\ ctl'[q].routing = ctl[q].routing /\ miss'[q] = miss[q]

\* TailInOrder, sibling by sibling.
TailAt(p) ==
  \A i, j \in DOMAIN applied[p] :
    i < j /\ applied[p][i].source # "own" /\ applied[p][j].source # "own"
      => applied[p][i].xid < applied[p][j].xid

SibInv(p) ==
  /\ Ordered(View(p)) /\ Covered(View(p), Due(p)) /\ RestartAt(p) /\ KindsAt(p) /\ TailAt(p)

OInv ==
  /\ script \in Scripts /\ ingress_id \in 0 .. Len(script)
  /\ DOMAIN toSib = Sibs /\ DOMAIN life = Sibs /\ DOMAIN miss = Sibs /\ DOMAIN dropped = Sibs
  /\ \A p \in Sibs : SibInv(p)

\* The siblings that a step does not concern.
LEMMA OtherSib ==
  ASSUME NEW q \in Sibs, SibInv(q), SameSib(q), script' = script, ingress_id' = ingress_id,
         \A r \in Sibs : DOMAIN bucket[r] \subseteq DOMAIN bucket'[r]
  PROVE  SibInv(q)'
<1>1. View(q)' = View(q)
  BY DEF View, SameSib
<1>2. Checkpoints' = Checkpoints /\ Due(q)' = Due(q)
  BY DEF Due, Checkpoints, checkpointed, SameSib
<1>3. Ordered(View(q))' /\ Covered(View(q), Due(q))'
  BY <1>1, <1>2 DEF SibInv
<1>4. RestartAt(q)'
  BY DEF SibInv, RestartAt, SameSib
<1>5. KindsAt(q)'
  BY <1>2 DEF SibInv, KindsAt, SameSib, checkpointed
<1>6. TailAt(q)'
  BY DEF SibInv, TailAt, SameSib
<1>7. QED
  BY <1>3, <1>4, <1>5, <1>6 DEF SibInv

\* A step of one sibling.
LEMMA OneSib ==
  ASSUME OInv, NEW p \in Sibs, SibInv(p)', \A q \in Sibs \ {p} : SameSib(q),
         script' = script, ingress_id' = ingress_id,
         \A r \in Sibs : DOMAIN bucket[r] \subseteq DOMAIN bucket'[r],
         DOMAIN toSib' = Sibs, DOMAIN life' = Sibs, DOMAIN miss' = Sibs, DOMAIN dropped' = Sibs
  PROVE  OInv'
<1>1. ASSUME NEW q \in Sibs PROVE SibInv(q)'
  <2>1. CASE q = p
    BY <2>1
  <2>2. CASE q # p
    BY <2>2, OtherSib DEF OInv
  <2>3. QED
    BY <2>1, <2>2
<1>2. QED
  BY <1>1 DEF OInv

\* Steps that process nothing leave the histories alone.
LEMMA QuietSib ==
  ASSUME NEW p \in Sibs, SibInv(p), script' = script, bucket' = bucket, applied'[p] = applied[p],
         dropped'[p] = dropped[p], Ordered(View(p)'), Covered(View(p)', Due(p)), RestartAt(p)'
  PROVE  SibInv(p)'
<1>1. Checkpoints' = Checkpoints /\ Due(p)' = Due(p)
  BY DEF Due, Checkpoints, checkpointed
<1>2. Ordered(View(p))' /\ Covered(View(p), Due(p))'
  BY <1>1
<1>3. KindsAt(p)'
  BY <1>1 DEF SibInv, KindsAt, checkpointed
<1>4. TailAt(p)'
  BY DEF SibInv, TailAt
<1>5. QED
  BY <1>2, <1>3, <1>4 DEF SibInv


-----------------------------------------------------------------------------
(***************************************************************************)
(* The restart thread, where it processes nothing                          *)
(***************************************************************************)

\* A step of the restart thread of p.
RtFrame(p) ==
  /\ \A q \in Sibs \ {p} : th'[q] = th[q]
  /\ th'[p].main = th[p].main /\ th'[p].msg = th[p].msg
  /\ th'[p].restart_msg_queue = th[p].restart_msg_queue
  /\ th'[p].leader = th[p].leader
  /\ UNCHANGED <<script, ingress_id, ctl, bucket, life, toSib, applied, dropped>>
  /\ DOMAIN miss' = Sibs /\ (\A q \in Sibs \ {p} : miss'[q] = miss[q]) /\ miss[p] \subseteq miss'[p]

\* Such a step moves no id but those of the keys.
LEMMA RtView ==
  ASSUME NEW p, RtFrame(p)
  PROVE  /\ SameIds(View(p), View(p)') /\ SameProcess(View(p), View(p)') /\ View(p)'.done = View(p).done
         /\ View(p).miss \subseteq View(p)'.miss
<1>1. Resting(p)
  BY DEF RtFrame, Resting, Held
<1>2. SameIds(View(p), View(p)') /\ View(p)'.done = View(p).done
  BY <1>1, RestingView
<1>3. View(p)'.life = View(p).life /\ View(p)'.routing = View(p).routing
  <2>1. View(p)'.life = View(p).life
    BY SameView DEF RtFrame
  <2>2. View(p)'.routing = View(p).routing
    BY SameView DEF RtFrame
  <2>3. QED
    BY <2>1, <2>2
<1>4. View(p).miss \subseteq View(p)'.miss
  BY ViewIs, ViewNext DEF RtFrame
<1>5. QED
  BY <1>2, <1>3, <1>4 DEF SameProcess

\* It is enough to look at the view of p.
LEMMA RtStep ==
  ASSUME OInv, NEW p \in Sibs, RtFrame(p), Ordered(View(p)'), Covered(View(p)', Due(p)), RestartAt(p)'
  PROVE  OInv'
<1>1. SibInv(p)'
  BY QuietSib DEF OInv, RtFrame
<1>2. \A q \in Sibs \ {p} : SameSib(q)
  BY DEF RtFrame, SameSib
<1>3. DOMAIN toSib' = Sibs /\ DOMAIN life' = Sibs /\ DOMAIN miss' = Sibs /\ DOMAIN dropped' = Sibs
  BY DEF RtFrame, OInv
<1>4. QED
  BY <1>1, <1>2, <1>3, OneSib DEF RtFrame

\* What Missed does to miss.
LEMMA MissedIs ==
  ASSUME NEW p \in Sibs, NEW why, NEW cond, DOMAIN miss = Sibs, Missed(p, why, cond)
  PROVE  /\ DOMAIN miss' = Sibs /\ (\A q \in Sibs \ {p} : miss'[q] = miss[q])
         /\ miss[p] \subseteq miss'[p] /\ (cond => miss'[p] # {})
<1>1. CASE cond
  BY <1>1 DEF Missed
<1>2. CASE ~cond
  BY <1>2 DEF Missed
<1>3. QED
  BY <1>1, <1>2

\* What the lemmas below start from.
LEMMA Given ==
  ASSUME IInv, OInv, NEW p \in Sibs
  PROVE  /\ DOMAIN th = Sibs /\ DOMAIN th[p] = Fields /\ DOMAIN miss = Sibs
         /\ Ordered(View(p)) /\ Covered(View(p), Due(p)) /\ RestartAt(p)
         /\ ThreadsAt(p) /\ StoredAt(p) /\ KindsAt(p)
BY DEF IInv, OInv, SibInv, Shape, ThreadsAt

\* The ids of messages.
LEMMA Ids ==
  ASSUME OInv
  PROVE  /\ Checkpoints \subseteq Nat \ {0} /\ (\A p : Due(p) \subseteq Nat \ {0}) /\ Checkpoints \subseteq DOMAIN script
         /\ script \in Seq(Messages) /\ Len(script) \in Nat /\ DOMAIN script = 1 .. Len(script)
         /\ Len(script) < Word \div 2 /\ ingress_id \in Nat /\ ingress_id <= Len(script)
<1>1. script \in Seq(Messages) /\ Len(script) < Word \div 2 /\ ingress_id \in 0 .. Len(script)
  BY RestartAssumption DEF OInv
<1>2. Len(script) \in Nat /\ DOMAIN script = 1 .. Len(script)
  BY <1>1, SeqDomain
<1>3. ingress_id \in Nat /\ ingress_id <= Len(script)
  BY <1>1, <1>2, SMTT(20)
<1>4. 1 .. Len(script) \subseteq Nat \ {0}
  BY <1>2, SMTT(20)
<1>5. QED
  BY <1>1, <1>2, <1>3, <1>4 DEF Checkpoints, Due

\* The bucket is read: all of its keys are listed.
LEMMA AllListed ==
  ASSUME NEW b, NEW keys \in db_list_keys(b), DOMAIN b # {}
  PROVE  DOMAIN b \subseteq Range(keys) /\ keys # <<>>
<1>1. Range(keys) = DOMAIN b \cup {CURRENT_XID}
  BY DEF db_list_keys, Orders
<1>2. QED
  BY <1>1, NoneLeft

\* The restart thread lists the keys of its own bucket.
LEMMA ListKeysStep == ASSUME IInv, OInv, NEW p \in Sibs, ListKeys(p) PROVE OInv'
<1> DEFINE v == View(p)
           w == View(p)'
<1>0. /\ DOMAIN th = Sibs /\ DOMAIN th[p] = Fields /\ DOMAIN miss = Sibs
      /\ Ordered(v) /\ Covered(v, Due(p)) /\ RestartAt(p) /\ ThreadsAt(p)
  BY Given
<1>1. PICK keys \in db_list_keys(bucket[p]), num_msgs \in BOOLEAN :
        \E last_key \in IF keys = <<>> THEN Xids ELSE {NoId} :
          th' = [th EXCEPT ![p].thread = "own", ![p].keys = keys, ![p].num_msgs = num_msgs,
                           ![p].last_key = last_key]
  BY DEF ListKeys
<1>2. PICK last_key \in IF keys = <<>> THEN Xids ELSE {NoId} :
        th' = [th EXCEPT ![p].thread = "own", ![p].keys = keys, ![p].num_msgs = num_msgs,
                         ![p].last_key = last_key]
  BY <1>1
<1>3. /\ th[p].thread = "start" /\ UNCHANGED <<script, ingress_id, ctl, bucket, life, toSib, applied, dropped>>
      /\ Missed(p, "no checkpoint", DOMAIN bucket[p] = {})
  BY DEF ListKeys, Thread, ctlVars, ospfVars
<1>4. /\ DOMAIN miss' = Sibs /\ (\A q \in Sibs \ {p} : miss'[q] = miss[q])
      /\ miss[p] \subseteq miss'[p] /\ (DOMAIN bucket[p] = {} => miss'[p] # {})
  BY <1>0, <1>3, MissedIs
<1>5. /\ \A q \in Sibs \ {p} : th'[q] = th[q]
      /\ th'[p].main = th[p].main /\ th'[p].msg = th[p].msg
      /\ th'[p].restart_msg_queue = th[p].restart_msg_queue
      /\ th'[p].leader = th[p].leader
      /\ th'[p].restart_mode = th[p].restart_mode /\ th'[p].restart_msg_q_mutex = th[p].restart_msg_q_mutex
      /\ th'[p].thread = "own" /\ th'[p].keys = keys /\ th'[p].last_key = last_key
  BY <1>0, <1>2, SMTT(20) DEF Fields, NewThreads
<1>6. RtFrame(p)
  BY <1>3, <1>4, <1>5 DEF RtFrame
<1>7. /\ v.thread = "start" /\ w.thread = "own" /\ w.keys = keys /\ w.last_key = last_key
      /\ v.stored = DOMAIN bucket[p] /\ w.miss = miss'[p]
  BY <1>3, <1>5, ViewIs, ViewNext
<1>8. SameIds(v, w) /\ SameProcess(v, w) /\ w.done = v.done /\ v.miss \subseteq w.miss
  BY <1>6, RtView
<1> HIDE DEF v, w
<1>9. Ordered(w)
  BY <1>0, <1>7, <1>8, EarlyOrder DEF Early
<1>10. w.miss = {} => Replayed(w) /\ Asking(w)
  <2>1. SUFFICES ASSUME w.miss = {} PROVE Replayed(w) /\ Asking(w)
    OBVIOUS
  <2>2. DOMAIN bucket[p] \subseteq Range(keys) /\ keys # <<>>
    BY <1>0, <1>4, <1>7, <2>1, AllListed DEF ThreadsAt
  <2>3. last_key = 0
    BY <2>2 DEF NoId
  <2>4. QED
    BY <1>7, <1>8, <2>2, <2>3 DEF Replayed, Asking, SameIds
<1>11. Covered(w, Due(p))
  BY <1>0, <1>7, <1>8, <1>10, EarlyCovered DEF Early, SameIds
<1>12. RestartAt(p)'
  BY <1>0, <1>3, <1>5 DEF RestartAt
<1>13. QED
  BY <1>6, <1>9, <1>11, <1>12, RtStep DEF w

\* It skips the key "cur_xid".
LEMMA SkipStep == ASSUME IInv, OInv, NEW p \in Sibs, SkipCurrentXid(p) PROVE OInv'
<1> DEFINE v == View(p)
           w == View(p)'
<1>0. /\ DOMAIN th = Sibs /\ DOMAIN th[p] = Fields /\ DOMAIN miss = Sibs
      /\ Ordered(v) /\ Covered(v, Due(p)) /\ RestartAt(p) /\ ThreadsAt(p)
  BY Given
<1>1. /\ th[p].thread = "own" /\ th[p].keys # <<>> /\ Head(th[p].keys) = CURRENT_XID
      /\ th' = [th EXCEPT ![p].keys = Tail(@)]
      /\ UNCHANGED <<script, ingress_id, ctl, bucket, life, toSib, applied, dropped, miss>>
  BY DEF SkipCurrentXid, Thread, ctlVars, ospfVars
<1>2. /\ \A q \in Sibs \ {p} : th'[q] = th[q]
      /\ th'[p].main = th[p].main /\ th'[p].msg = th[p].msg
      /\ th'[p].restart_msg_queue = th[p].restart_msg_queue
      /\ th'[p].leader = th[p].leader
      /\ th'[p].restart_mode = th[p].restart_mode /\ th'[p].restart_msg_q_mutex = th[p].restart_msg_q_mutex
      /\ th'[p].thread = "own" /\ th'[p].keys = Tail(th[p].keys) /\ th'[p].last_key = th[p].last_key
  BY <1>0, <1>1, SMTT(20) DEF Fields, NewThreads
<1>3. RtFrame(p)
  BY <1>0, <1>1, <1>2 DEF RtFrame
<1>4. /\ v.thread = "own" /\ w.thread = "own" /\ w.keys = Tail(v.keys) /\ w.last_key = v.last_key
      /\ v.keys = th[p].keys
  BY <1>1, <1>2, ViewIs, ViewNext
<1>5. SameIds(v, w) /\ SameProcess(v, w) /\ w.done = v.done /\ v.miss \subseteq w.miss
  BY <1>3, RtView
<1>6. Range(v.keys) \subseteq Range(w.keys) \cup {CURRENT_XID}
  <2>1. v.keys \in Seq({CURRENT_XID} \cup DOMAIN bucket[p])
    BY <1>0, <1>1, <1>4 DEF ThreadsAt
  <2>2. QED
    BY <1>1, <1>4, <2>1, OneLess
<1> HIDE DEF v, w
<1>7. Ordered(w)
  BY <1>0, <1>4, <1>5, EarlyOrder DEF Early
<1>8. CURRENT_XID \notin v.stored
  <2>1. v.last \in Nat /\ v.stored \subseteq 1 .. v.last
    BY <1>0 DEF Ordered
  <2>2. QED
    BY <2>1, SMTT(20) DEF CURRENT_XID
<1>9. Replayed(v) => Replayed(w) /\ Asking(w)
  BY <1>4, <1>5, <1>6, <1>8 DEF Replayed, Asking, SameIds
<1>10. Covered(w, Due(p))
  BY <1>0, <1>4, <1>5, <1>9, EarlyCovered DEF Early, SameIds
<1>11. RestartAt(p)'
  BY <1>0, <1>1, <1>2 DEF RestartAt
<1>12. QED
  BY <1>3, <1>7, <1>10, <1>11, RtStep DEF w

\* It turns checkpoints on when its own keys are processed.
LEMMA ReadyStep == ASSUME IInv, OInv, NEW p \in Sibs, ReadyToCheckpoint(p) PROVE OInv'
<1> DEFINE v == View(p)
           w == View(p)'
<1>0. /\ DOMAIN th = Sibs /\ DOMAIN th[p] = Fields /\ DOMAIN miss = Sibs
      /\ Ordered(v) /\ Covered(v, Due(p)) /\ RestartAt(p) /\ ThreadsAt(p)
  BY Given
<1>1. /\ th[p].thread = "own" /\ th[p].keys = <<>>
      /\ th' = [th EXCEPT ![p].ready_to_checkpoint = TRUE, ![p].thread = "first"]
      /\ UNCHANGED <<script, ingress_id, ctl, bucket, life, toSib, applied, dropped, miss>>
  BY DEF ReadyToCheckpoint, Thread, ctlVars, ospfVars
<1>2. /\ \A q \in Sibs \ {p} : th'[q] = th[q]
      /\ th'[p].main = th[p].main /\ th'[p].msg = th[p].msg
      /\ th'[p].restart_msg_queue = th[p].restart_msg_queue
      /\ th'[p].leader = th[p].leader
      /\ th'[p].restart_mode = th[p].restart_mode /\ th'[p].restart_msg_q_mutex = th[p].restart_msg_q_mutex
      /\ th'[p].thread = "first" /\ th'[p].last_key = th[p].last_key
  BY <1>0, <1>1, SMTT(20) DEF Fields, NewThreads
<1>3. RtFrame(p)
  BY <1>0, <1>1, <1>2 DEF RtFrame
<1>4. v.thread = "own" /\ w.thread = "first" /\ v.keys = <<>> /\ w.last_key = v.last_key
  BY <1>1, <1>2, ViewIs, ViewNext
<1>5. SameIds(v, w) /\ SameProcess(v, w) /\ w.done = v.done /\ v.miss \subseteq w.miss
  BY <1>3, RtView
<1> HIDE DEF v, w
<1>6. Ordered(w)
  BY <1>0, <1>4, <1>5, EarlyOrder DEF Early
<1>7. Replayed(v) => Replayed(w) /\ Asking(w)
  BY <1>4, <1>5, NoneLeft DEF Replayed, Asking, SameIds
<1>8. Covered(w, Due(p))
  BY <1>0, <1>4, <1>5, <1>7, EarlyCovered DEF Early, SameIds
<1>9. RestartAt(p)'
  BY <1>0, <1>1, <1>2 DEF RestartAt
<1>10. QED
  BY <1>3, <1>6, <1>8, <1>9, RtStep DEF w

\* It looks at the first message in the queue.
LEMMA FirstXidStep == ASSUME IInv, OInv, NEW p \in Sibs, FirstXid(p) PROVE OInv'
<1> DEFINE v == View(p)
           w == View(p)'
           first == IF th[p].num_msgs THEN sibling_ctrl_first_xid_rcvd(th[p]) ELSE th[p].first_xid
           why == IF ~th[p].num_msgs THEN {"not read"}
                  ELSE IF th[p].restart_msg_queue = <<>> THEN {"no first"} ELSE {}
<1>0. /\ DOMAIN th = Sibs /\ DOMAIN th[p] = Fields /\ DOMAIN miss = Sibs
      /\ Ordered(v) /\ Covered(v, Due(p)) /\ RestartAt(p) /\ ThreadsAt(p)
  BY Given
<1>1. /\ th[p].thread = "first"
      /\ UNCHANGED <<script, ingress_id, ctl, bucket, life, toSib, applied, dropped>>
      /\ miss' = [miss EXCEPT ![p] = @ \cup why]
  BY DEF FirstXid, Thread, ctlVars, ospfVars
<1>2. th' = [th EXCEPT ![p].thread = "leader", ![p].first_xid = first]
  BY <1>0, <1>1 DEF FirstXid
<1> HIDE DEF first, why
<1>3. /\ \A q \in Sibs \ {p} : th'[q] = th[q]
      /\ th'[p].main = th[p].main /\ th'[p].msg = th[p].msg
      /\ th'[p].restart_msg_queue = th[p].restart_msg_queue
      /\ th'[p].leader = th[p].leader
      /\ th'[p].restart_mode = th[p].restart_mode /\ th'[p].restart_msg_q_mutex = th[p].restart_msg_q_mutex
      /\ th'[p].thread = "leader" /\ th'[p].last_key = th[p].last_key
      /\ th'[p].num_msgs = th[p].num_msgs /\ th'[p].first_xid = first
  BY <1>0, <1>2, SMTT(20) DEF Fields, NewThreads
<1>4. /\ DOMAIN miss' = Sibs /\ (\A q \in Sibs \ {p} : miss'[q] = miss[q]) /\ miss'[p] = miss[p] \cup why
  BY <1>0, <1>1
<1>5. RtFrame(p)
  BY <1>0, <1>1, <1>3, <1>4 DEF RtFrame
<1>6. /\ v.thread = "first" /\ w.thread = "leader" /\ w.last_key = v.last_key
      /\ w.num_msgs = th[p].num_msgs /\ w.first_xid = first /\ v.queue = th[p].restart_msg_queue
      /\ w.miss = miss[p] \cup why
  BY <1>1, <1>3, <1>4, ViewIs, ViewNext
<1>7. SameIds(v, w) /\ SameProcess(v, w) /\ w.done = v.done /\ v.miss \subseteq w.miss
  BY <1>5, RtView
<1> HIDE DEF v, w
<1>8. Ordered(w)
  BY <1>0, <1>6, <1>7, EarlyOrder DEF Early
<1>9. w.miss = {} => v.queue # <<>> /\ first = Head(v.queue) /\ th[p].num_msgs
  BY <1>6 DEF why, first, sibling_ctrl_first_xid_rcvd
<1>10. w.miss = {} /\ Replayed(v) => Replayed(w) /\ Asking(w)
  BY <1>6, <1>7, <1>9 DEF Replayed, Asking, SameIds
<1>11. Covered(w, Due(p))
  BY <1>0, <1>6, <1>7, <1>10, EarlyCovered DEF Early, SameIds
<1>12. RestartAt(p)'
  <2>1. th[p].num_msgs => first = Word - 1 \/ (th[p].restart_msg_queue # <<>> /\ first = Head(th[p].restart_msg_queue))
    BY DEF first, sibling_ctrl_first_xid_rcvd
  <2>2. QED
    BY <1>0, <1>1, <1>3, <2>1 DEF RestartAt
<1>13. QED
  BY <1>5, <1>8, <1>11, <1>12, RtStep DEF w


\* What "%d" makes of small numbers, and of the one before -1.
LEMMA PrintedLow == ASSUME NEW n \in Nat, n < Word \div 2 PROVE Printed(n % Word) = n
<1>1. n < Word /\ n % Word = n
  BY WordAssumption, SMTT(20)
<1>2. QED
  BY <1>1 DEF Printed

\* Below an unset first_xid_rcvd: the id is printed as a negative number, and the range is empty.
LEMMA PrintedTop == Printed((Word - 1 - 1) % Word) < 0
<1>1. Word - 2 < Word /\ Word - 2 >= Word \div 2 /\ (Word - 1 - 1) % Word = Word - 2 /\ Word - 2 # Word
      /\ ~(Word - 2 < Word \div 2) /\ (Word - 2) - Word < 0
  BY WordAssumption, SMTT(20)
<1>2. Printed(Word - 2) = (Word - 2) - Word
  BY <1>1 DEF Printed
<1>3. QED
  BY <1>1, <1>2

\* The keys of a range are in order.
LEMMA RangeKeys ==
  ASSUME NEW b, NEW a, NEW z, DOMAIN b \subseteq Nat, NEW keys \in db_range_keys(b, a, z)
  PROVE  Increasing(keys) /\ Range(keys) = {x \in DOMAIN b : Printed(a) <= x /\ x <= Printed(z)}
<1> DEFINE S == {x \in DOMAIN b : Printed(a) <= x /\ x <= Printed(z)}
<1>1. keys \in Seq(S) /\ Range(keys) = S /\ \A i, j \in DOMAIN keys : i < j => keys[i] < keys[j]
  BY DEF db_range_keys, Ascending, Orders
<1>2. S \subseteq Nat
  OBVIOUS
<1> HIDE DEF S
<1>3. keys \in Seq(Nat)
  BY <1>1, <1>2, SeqSubset
<1>4. QED
  BY <1>1, <1>3 DEF Increasing, S

\* What the range is for a thread that is to ask the leader.
LEMMA LeaderRangeIs ==
  ASSUME IInv, OInv, NEW p \in Sibs, th[p].thread = "leader", th[p].leader # NoId, th[p].num_msgs,
         NEW keys \in LeaderRange(th[p])
  PROVE  /\ Increasing(keys) /\ Range(keys) \subseteq DOMAIN bucket[th[p].leader]
         /\ Range(keys) \subseteq 1 .. ingress_id
         /\ \/ Range(keys) = {}
            \/ th[p].restart_msg_queue # <<>> /\ Before(Range(keys), {Head(th[p].restart_msg_queue)})
         /\ th[p].last_key \in 0 .. ingress_id /\ th[p].restart_msg_queue # <<>>
            /\ th[p].first_xid = Head(th[p].restart_msg_queue)
              => \A x \in DOMAIN script \cap DOMAIN bucket[th[p].leader] :
                   th[p].last_key < x /\ x < th[p].first_xid => x \in Range(keys)
<1> DEFINE l == th[p].leader
           lo == (th[p].last_key + 1) % Word
           hi == (th[p].first_xid - 1) % Word
           queue == th[p].restart_msg_queue
<1>1. l \in Sibs
  BY DEF OInv, SibInv, RestartAt
<1>2. DOMAIN bucket[l] \subseteq 1 .. ingress_id /\ ingress_id \in Nat
  <2>1. Ordered(View(l)) /\ View(l).stored = DOMAIN bucket[l] /\ View(l).last = ingress_id
    BY <1>1, ViewIs DEF OInv, SibInv
  <2>2. QED
    BY <2>1 DEF Ordered
<1>3. 1 .. ingress_id \subseteq Nat
  BY <1>2, SMTT(20)
<1>4. Increasing(keys) /\ Range(keys) = {x \in DOMAIN bucket[l] : Printed(lo) <= x /\ x <= Printed(hi)}
  <2>1. keys \in db_range_keys(bucket[l], lo, hi)
    BY DEF LeaderRange
  <2>2. DOMAIN bucket[l] \subseteq Nat
    BY <1>2, <1>3
  <2> HIDE DEF lo, hi, l
  <2>3. Increasing(keys) /\ Range(keys) = {x \in DOMAIN bucket[l] : Printed(lo) <= x /\ x <= Printed(hi)}
    BY <1>2, <2>1, <2>2, RangeKeys, SMTT(20)
  <2>4. QED
    BY <2>3 DEF lo, hi, l
<1>5. \/ th[p].first_xid = Word - 1
      \/ queue # <<>> /\ th[p].first_xid = Head(queue)
  BY DEF OInv, SibInv, RestartAt
<1>6. queue # <<>> => Head(queue) \in 1 .. ingress_id
  <2>1. Ordered(View(p)) /\ View(p).queue = queue /\ View(p).last = ingress_id
    BY ViewIs DEF OInv, SibInv
  <2>2. QED
    BY <2>1, TakeFirst DEF Ordered
<1>7. ingress_id < Word \div 2 /\ Word \div 2 \in Nat /\ Len(script) < Word \div 2 /\ DOMAIN script = 1 .. Len(script)
      /\ Len(script) \in Nat
  BY Ids, WordAssumption, SMTT(20)
<1>8. queue # <<>> /\ th[p].first_xid = Head(queue) => Printed(hi) = th[p].first_xid - 1
  <2>1. SUFFICES ASSUME queue # <<>>, th[p].first_xid = Head(queue) PROVE Printed(hi) = th[p].first_xid - 1
    OBVIOUS
  <2>2. th[p].first_xid - 1 \in Nat /\ th[p].first_xid - 1 < Word \div 2
    BY <1>2, <1>6, <1>7, <2>1, SMTT(20)
  <2>3. QED
    BY <2>2, PrintedLow
<1>9. th[p].first_xid = Word - 1 => Printed(hi) < 0
  BY PrintedTop
<1> HIDE DEF lo, hi, l, queue
<1>10. Range(keys) = {} \/ (queue # <<>> /\ Before(Range(keys), {Head(queue)}))
  <2>1. CASE th[p].first_xid = Word - 1
    <3>1. Printed(hi) \in Int /\ Printed(hi) < 0
      <4>1. hi \in Int
        BY <2>1, WordAssumption, SMTT(20) DEF hi
      <4>2. QED
        BY <1>9, <2>1, <4>1, WordAssumption, SMTT(20) DEF Printed
    <3>2. \A x \in Nat : ~(x <= Printed(hi))
      BY <3>1, SMTT(20)
    <3>3. QED
      BY <1>2, <1>3, <1>4, <3>2
  <2>2. CASE queue # <<>> /\ th[p].first_xid = Head(queue)
    <3>1. \A x \in Range(keys) : x \in Nat /\ x <= Head(queue) - 1 /\ Head(queue) \in Int
      BY <1>2, <1>3, <1>4, <1>6, <1>8, <2>2, SMTT(20)
    <3>2. \A x \in Range(keys) : x < Head(queue)
      BY <3>1, SMTT(20)
    <3>3. QED
      BY <2>2, <3>2 DEF Before
  <2>3. QED
    BY <1>5, <2>1, <2>2
<1>11. ASSUME th[p].last_key \in 0 .. ingress_id, queue # <<>>, th[p].first_xid = Head(queue),
              NEW x \in DOMAIN script \cap DOMAIN bucket[l], th[p].last_key < x, x < th[p].first_xid
       PROVE  x \in Range(keys)
  <2>1. x \in Nat /\ x < Word \div 2 /\ th[p].last_key + 1 \in Nat /\ th[p].last_key + 1 < Word \div 2
        /\ th[p].last_key + 1 <= x /\ x <= th[p].first_xid - 1
    BY <1>2, <1>6, <1>7, <1>11, SMTT(20)
  <2>2. Printed(lo) = th[p].last_key + 1
    BY <2>1, PrintedLow DEF lo
  <2>3. QED
    BY <1>4, <1>8, <1>11, <2>1, <2>2
<1>12. QED
  BY <1>2, <1>4, <1>10, <1>11 DEF l, queue

\* It asks the leader's bucket for what it has missed.
LEMMA LeaderKeysStep == ASSUME IInv, OInv, NEW p \in Sibs, LeaderKeys(p) PROVE OInv'
<1> DEFINE v == View(p)
           w == View(p)'
           l == th[p].leader
           queue == th[p].restart_msg_queue
<1>0. /\ DOMAIN th = Sibs /\ DOMAIN th[p] = Fields /\ DOMAIN miss = Sibs
      /\ Ordered(v) /\ Covered(v, Due(p)) /\ RestartAt(p) /\ ThreadsAt(p)
  BY Given
<1>1. PICK keys \in IF th[p].num_msgs THEN LeaderRange(th[p]) ELSE {<<>>} :
        th' = [th EXCEPT ![p].thread = "range", ![p].leader_id = l, ![p].keys = keys]
  BY DEF LeaderKeys
<1>2. /\ th[p].thread = "leader" /\ life[p] = "run" /\ l # NoId
      /\ UNCHANGED <<script, ingress_id, ctl, bucket, life, toSib, applied, dropped>>
      /\ Missed(p, "leader behind", LeaderBehind(p))
  BY DEF LeaderKeys, Thread, ctlVars, ospfVars
<1>3. /\ DOMAIN miss' = Sibs /\ (\A q \in Sibs \ {p} : miss'[q] = miss[q])
      /\ miss[p] \subseteq miss'[p] /\ (LeaderBehind(p) => miss'[p] # {})
  BY <1>0, <1>2, MissedIs
<1> HIDE DEF l
<1>4. /\ \A q \in Sibs \ {p} : th'[q] = th[q]
      /\ th'[p].main = th[p].main /\ th'[p].msg = th[p].msg
      /\ th'[p].restart_msg_queue = th[p].restart_msg_queue
      /\ th'[p].leader = th[p].leader
      /\ th'[p].restart_mode = th[p].restart_mode /\ th'[p].restart_msg_q_mutex = th[p].restart_msg_q_mutex
      /\ th'[p].thread = "range" /\ th'[p].last_key = th[p].last_key
      /\ th'[p].num_msgs = th[p].num_msgs /\ th'[p].first_xid = th[p].first_xid
      /\ th'[p].keys = keys /\ th'[p].leader_id = l
  BY <1>0, <1>1, SMTT(20) DEF Fields, NewThreads
<1>5. RtFrame(p)
  BY <1>0, <1>2, <1>3, <1>4 DEF RtFrame
<1>6. /\ v.thread = "leader" /\ w.thread = "range" /\ v.life = "run" /\ SameReads(v, w)
      /\ v.queue = queue /\ v.last = ingress_id /\ w.keys = keys /\ w.miss = miss'[p]
      /\ v.last_key = th[p].last_key /\ v.first_xid = th[p].first_xid /\ v.num_msgs = th[p].num_msgs
  BY <1>2, <1>4, ViewIs, ViewNext DEF SameReads
<1>7. SameIds(v, w) /\ SameProcess(v, w) /\ w.done = v.done /\ v.miss \subseteq w.miss
  BY <1>5, RtView
<1>8. /\ Increasing(keys) /\ Range(keys) \subseteq DOMAIN bucket[l] /\ Range(keys) \subseteq 1 .. ingress_id
      /\ Range(keys) = {} \/ (queue # <<>> /\ Before(Range(keys), {Head(queue)}))
  <2>1. CASE th[p].num_msgs
    BY <1>1, <1>2, <2>1, LeaderRangeIs DEF l
  <2>2. CASE ~th[p].num_msgs
    BY <1>1, <2>2, NoneLeft
  <2>3. QED
    BY <2>1, <2>2
<1>9. ASSUME w.miss = {}, NEW x \in Due(p), v.last_key < x, x < v.first_xid, v.num_msgs = TRUE
      PROVE  x \in Range(keys)
  <2>1. v.miss = {}
    BY <1>7, <1>9
  <2>2. Replayed(v) /\ Asking(v) /\ v.stored \subseteq 1 .. v.last /\ v.last \in Nat
    BY <1>0, <2>1 DEF Covered, Ordered
  <2>3. v.last_key \in v.stored \cup {0} /\ v.queue # <<>> /\ v.first_xid = Head(v.queue)
    BY <1>6, <2>2 DEF Replayed, Asking
  <2>4. v.last_key \in 0 .. v.last
    BY <2>2, <2>3, SMTT(20)
  <2>5. x \in DOMAIN script /\ checkpointed(script[x]) /\ x \in Nat /\ v.first_xid \in Nat
    <3>1. v.first_xid \in Nat
      BY <1>0, <2>3, TakeFirst DEF Ordered
    <3>2. QED
      BY <3>1, Ids DEF Checkpoints, Due
  <2>6. x \in th[p].last_key + 1 .. th[p].first_xid - 1
    BY <1>6, <1>9, <2>2, <2>4, <2>5, SMTT(20)
  <2>7. x \in DOMAIN bucket[l]
    BY <1>3, <1>6, <1>9, <2>5, <2>6 DEF LeaderBehind, l
  <2>8. QED
    BY <1>1, <1>2, <1>6, <1>9, <2>3, <2>4, <2>5, <2>7, LeaderRangeIs DEF l
<1> HIDE DEF v, w, queue
<1>10. Ordered(w)
  BY <1>0, <1>6, <1>7, <1>8, AskedOrder
<1>11. Covered(w, Due(p))
  BY <1>0, <1>6, <1>7, <1>9, Ids, AskedCovered
<1>12. RestartAt(p)'
  <2>1. l \in Sibs
    BY <1>0, <1>2 DEF RestartAt, l
  <2>2. QED
    BY <1>0, <1>2, <1>4, <1>8, <2>1 DEF RestartAt
<1>13. QED
  BY <1>5, <1>10, <1>11, <1>12, RtStep DEF w

\* It locks the queue and starts to read it.
LEMMA LockStep == ASSUME IInv, OInv, NEW p \in Sibs, LockQueue(p) PROVE OInv'
<1> DEFINE v == View(p)
           w == View(p)'
           queue == th[p].restart_msg_queue
           n == th[p].num_msgs
<1>0. /\ DOMAIN th = Sibs /\ DOMAIN th[p] = Fields /\ DOMAIN miss = Sibs
      /\ Ordered(v) /\ Covered(v, Due(p)) /\ RestartAt(p) /\ ThreadsAt(p)
  BY Given
<1>1. /\ th[p].thread = "range" /\ life[p] = "run" /\ th[p].keys = <<>>
      /\ th' = IF n
               THEN [th EXCEPT ![p].thread = "drain", ![p].restart_msg_q_mutex = TRUE, ![p].keys = queue]
               ELSE [th EXCEPT ![p].thread = "flip"]
      /\ UNCHANGED <<script, ingress_id, ctl, bucket, life, toSib, applied, dropped, miss>>
  BY DEF LockQueue, Thread, ctlVars, ospfVars
<1> HIDE DEF n, queue
<1>2. /\ \A q \in Sibs \ {p} : th'[q] = th[q]
      /\ th'[p].main = th[p].main /\ th'[p].msg = th[p].msg
      /\ th'[p].restart_msg_queue = th[p].restart_msg_queue
      /\ th'[p].leader = th[p].leader
      /\ th'[p].restart_mode = th[p].restart_mode
  BY <1>0, <1>1, SMTT(20) DEF Fields, NewThreads
<1>3. /\ n => th'[p].thread = "drain" /\ th'[p].restart_msg_q_mutex = TRUE /\ th'[p].keys = queue
      /\ ~n => th'[p].thread = "flip" /\ th'[p].restart_msg_q_mutex = th[p].restart_msg_q_mutex
  <2>1. CASE n
    <3>1. th' = [th EXCEPT ![p].thread = "drain", ![p].restart_msg_q_mutex = TRUE, ![p].keys = queue]
      BY <1>1, <2>1
    <3>2. th'[p].thread = "drain" /\ th'[p].restart_msg_q_mutex = TRUE /\ th'[p].keys = queue
      BY <1>0, <3>1 DEF Fields, NewThreads
    <3>3. QED
      BY <2>1, <3>2
  <2>2. CASE ~n
    <3>1. th' = [th EXCEPT ![p].thread = "flip"]
      BY <1>1, <2>2
    <3>2. th'[p].thread = "flip" /\ th'[p].restart_msg_q_mutex = th[p].restart_msg_q_mutex
      BY <1>0, <3>1 DEF Fields, NewThreads
    <3>3. QED
      BY <2>2, <3>2
  <2>3. QED
    BY <2>1, <2>2
<1>4. RtFrame(p)
  BY <1>0, <1>1, <1>2 DEF RtFrame
<1>5. /\ v.thread = "range" /\ v.life = "run" /\ v.keys = <<>> /\ v.num_msgs = n /\ w.miss = v.miss
      /\ n => w.thread = "drain" /\ w.keys = v.queue
      /\ ~n => w.thread = "flip"
  <2>1. w.miss = v.miss
    BY <1>1, <1>3, SameView DEF n, queue
  <2>2. v.thread = "range" /\ v.life = "run" /\ v.keys = <<>> /\ v.num_msgs = n
    BY <1>1, <1>3, ViewIs DEF n, queue
  <2>3. /\ ~n => w.thread = "flip"
    BY <1>1, <1>3, ViewNext DEF n, queue
  <2>4. /\ n => w.thread = "drain" /\ w.keys = v.queue
    BY <1>1, <1>3, ViewIs, ViewNext DEF n, queue
  <2>5. QED
    BY <2>1, <2>2, <2>3, <2>4
<1>6. SameIds(v, w) /\ SameProcess(v, w) /\ w.done = v.done
  BY <1>4, RtView
<1>7. Coming(v) = {}
  BY <1>5, NoneLeft DEF Coming
<1> HIDE DEF v, w
<1>8. Ordered(w) /\ (n => Upcoming(w) = Upcoming(v))
  <2>1. CASE n
    BY <1>0, <1>5, <1>6, <2>1, LockedOrder
  <2>2. CASE ~n
    BY <1>0, <1>5, <1>6, <1>7, <2>2, SettledOrder
  <2>3. QED
    BY <2>1, <2>2
<1>9. Covered(w, Due(p))
  <2>1. Asking(v) => n
    BY <1>5 DEF Asking
  <2>2. v.miss = {} /\ Asking(v) => Coming(v) \cup Upcoming(v) \subseteq Coming(w) \cup Upcoming(w)
    BY <1>7, <1>8, <2>1
  <2>3. w.thread \in {"drain", "flip", "none"} /\ v.thread \notin Early
    BY <1>5 DEF Early
  <2>4. QED
    BY <1>0, <1>5, <1>6, <2>2, <2>3, LaterCovered
<1>10. RestartAt(p)'
  BY <1>0, <1>1, <1>2, <1>3 DEF RestartAt
<1>11. QED
  BY <1>4, <1>8, <1>9, <1>10, RtStep DEF w

\* It unlocks the queue and leaves restart mode.
LEMMA SettleStep == ASSUME IInv, OInv, NEW p \in Sibs, UnlockQueue(p) \/ Flip(p) PROVE OInv'
<1> DEFINE v == View(p)
           w == View(p)'
<1>0. /\ DOMAIN th = Sibs /\ DOMAIN th[p] = Fields /\ DOMAIN miss = Sibs
      /\ Ordered(v) /\ Covered(v, Due(p)) /\ RestartAt(p) /\ ThreadsAt(p)
  BY Given
<1>1. /\ life[p] = "run" /\ UNCHANGED <<script, ingress_id, ctl, bucket, life, toSib, applied, dropped, miss>>
      /\ \/ /\ th[p].thread = "drain" /\ th[p].keys = <<>>
            /\ th' = [th EXCEPT ![p].thread = "flip", ![p].restart_msg_q_mutex = FALSE]
         \/ /\ th[p].thread = "flip"
            /\ th' = [th EXCEPT ![p].thread = "none", ![p].restart_mode = FALSE, ![p].egress_mutex = FALSE]
  BY DEF UnlockQueue, Flip, Thread, ctlVars, ospfVars
<1>2. /\ \A q \in Sibs \ {p} : th'[q] = th[q]
      /\ th'[p].main = th[p].main /\ th'[p].msg = th[p].msg
      /\ th'[p].restart_msg_queue = th[p].restart_msg_queue
      /\ th'[p].leader = th[p].leader
  BY <1>0, <1>1, SMTT(20) DEF Fields, NewThreads
<1>3. \/ /\ th[p].thread = "drain" /\ th[p].keys = <<>> /\ th'[p].thread = "flip"
         /\ th'[p].restart_msg_q_mutex = FALSE /\ th'[p].restart_mode = th[p].restart_mode
      \/ /\ th[p].thread = "flip" /\ th'[p].thread = "none" /\ th'[p].restart_mode = FALSE
         /\ th'[p].restart_msg_q_mutex = th[p].restart_msg_q_mutex
  BY <1>0, <1>1, SMTT(20) DEF Fields, NewThreads
<1>4. RtFrame(p)
  BY <1>0, <1>1, <1>2 DEF RtFrame
<1>5. /\ v.life = "run" /\ w.miss = v.miss
      /\ (v.thread = "drain" /\ v.keys = <<>> /\ w.thread = "flip") \/ (v.thread = "flip" /\ w.thread = "none")
  <2>1. v.life = life[p] /\ v.miss = miss[p] /\ v.thread = th[p].thread /\ v.keys = th[p].keys
    BY ViewIs
  <2>2. w.miss = miss'[p] /\ w.thread = th'[p].thread
    BY ViewNext
  <2>3. QED
    BY <1>1, <1>3, <2>1, <2>2
<1>6. SameIds(v, w) /\ SameProcess(v, w) /\ w.done = v.done
  BY <1>4, RtView
<1>7. Coming(v) = {}
  BY <1>5, NoneLeft DEF Coming
<1> HIDE DEF v, w
<1>8. Ordered(w) /\ Upcoming(w) = Upcoming(v)
  BY <1>0, <1>5, <1>6, <1>7, SettledOrder
<1>9. Covered(w, Due(p))
  BY <1>0, <1>5, <1>6, <1>7, <1>8, LaterCovered DEF Early
<1>10. RestartAt(p)'
  BY <1>0, <1>1, <1>2, <1>3 DEF RestartAt
<1>11. QED
  BY <1>4, <1>8, <1>9, <1>10, RtStep DEF w


-----------------------------------------------------------------------------
(***************************************************************************)
(* The main thread, where it processes nothing                             *)
(***************************************************************************)

\* A step of the main thread of p.
MainFrame(p) ==
  /\ \A q \in Sibs \ {p} : th'[q] = th[q]
  /\ th'[p].thread = th[p].thread /\ th'[p].keys = th[p].keys /\ th'[p].last_key = th[p].last_key
  /\ th'[p].num_msgs = th[p].num_msgs /\ th'[p].first_xid = th[p].first_xid
  /\ th'[p].leader_id = th[p].leader_id
  /\ th'[p].restart_mode = th[p].restart_mode /\ th'[p].restart_msg_q_mutex = th[p].restart_msg_q_mutex
  /\ UNCHANGED <<script, ingress_id, bucket, life, applied, dropped>>
  /\ ctl' = ctl

\* The events that carry no message of the router.
LEMMA EventStep ==
  ASSUME IInv, OInv, NEW p \in Sibs,
         \/ SendAck(p) \/ ElectionComplete(p) \/ FirstHello(p) \/ (\E q \in Sibs : LeaderId(p, q))
         \/ \E id \in Numbers : Inactivity(p, id)
  PROVE  OInv'
<1> DEFINE v == View(p)
           w == View(p)'
<1>0. /\ DOMAIN th = Sibs /\ DOMAIN th[p] = Fields /\ DOMAIN miss = Sibs
      /\ Ordered(v) /\ Covered(v, Due(p)) /\ RestartAt(p) /\ ThreadsAt(p)
  BY Given
<1>1. /\ UNCHANGED <<script, ingress_id, bucket, life, applied, dropped, toSib, miss>> /\ ctl' = ctl
      /\ \/ th[p].main = "ack" /\ th' = [th EXCEPT ![p].main = "fetch", ![p].msg = NoId]
         \/ th[p].main = "fetch" /\ th' = [th EXCEPT ![p] = lead_elect_compl(@)]
         \/ th[p].main = "hello" /\ th' = [th EXCEPT ![p].main = "fetch", ![p].restarted_first_egress_not_sent = FALSE]
         \/ \E q \in Sibs : th' = [th EXCEPT ![p].leader = q]
         \/ th' = th
  BY DEF SendAck, ElectionComplete, FirstHello, LeaderId, Inactivity, Fetches, ctlVars, ospfVars
<1>2. ASSUME th[p].main = "ack", th' = [th EXCEPT ![p].main = "fetch", ![p].msg = NoId]
      PROVE  /\ MainFrame(p) /\ th'[p].restart_msg_queue = th[p].restart_msg_queue
             /\ th'[p].main # "push" /\ th'[p].leader = th[p].leader
  BY <1>0, <1>1, <1>2, SMTT(20) DEF Fields, NewThreads, MainFrame
<1>3. ASSUME th[p].main = "fetch", th' = [th EXCEPT ![p] = lead_elect_compl(@)]
      PROVE  /\ MainFrame(p) /\ th'[p].restart_msg_queue = th[p].restart_msg_queue
             /\ th'[p].main # "push" /\ th'[p].leader = th[p].leader
  BY <1>0, <1>1, <1>3, SMTT(20) DEF Fields, NewThreads, MainFrame, lead_elect_compl
<1>4. ASSUME th[p].main = "hello",
             th' = [th EXCEPT ![p].main = "fetch", ![p].restarted_first_egress_not_sent = FALSE]
      PROVE  /\ MainFrame(p) /\ th'[p].restart_msg_queue = th[p].restart_msg_queue
             /\ th'[p].main # "push" /\ th'[p].leader = th[p].leader
  BY <1>0, <1>1, <1>4, SMTT(20) DEF Fields, NewThreads, MainFrame
<1>5. ASSUME NEW q \in Sibs, th' = [th EXCEPT ![p].leader = q]
      PROVE  /\ MainFrame(p) /\ th'[p].restart_msg_queue = th[p].restart_msg_queue
             /\ th'[p].main = th[p].main /\ th'[p].msg = th[p].msg /\ th'[p].leader = q
  BY <1>0, <1>1, <1>5, SMTT(20) DEF Fields, NewThreads, MainFrame
<1>6. /\ MainFrame(p) /\ th'[p].restart_msg_queue = th[p].restart_msg_queue /\ Held(p)' = Held(p)
      /\ th'[p].leader \in Sibs \cup {NoId}
  <2>1. th[p].leader \in Sibs \cup {NoId}
    BY <1>0 DEF RestartAt
  <2>2. th' = th => MainFrame(p)
    BY <1>1 DEF MainFrame
  <2>3. QED
    BY <1>1, <1>2, <1>3, <1>4, <1>5, <2>1, <2>2 DEF Held
<1>7. w = v
  <2>1. Xs(p)' = Xs(p) /\ Ys(p)' = Ys(p)
    BY <1>1 DEF Xs, Ys
  <2>2. QED
    BY <1>1, <1>6, <2>1 DEF View, MainFrame, Held, Xs, Ys
<1>8. RestartAt(p)'
  BY <1>0, <1>6 DEF RestartAt, MainFrame
<1>9. SibInv(p)'
  <2>1. Ordered(View(p)') /\ Covered(View(p)', Due(p))
    BY <1>0, <1>7
  <2>2. QED
    BY <1>6, <1>8, <2>1, QuietSib DEF OInv, MainFrame
<1>10. \A q \in Sibs \ {p} : SameSib(q)
  BY <1>1, <1>6 DEF MainFrame, SameSib
<1>11. QED
  BY <1>1, <1>9, <1>10, OneSib DEF OInv

\* A step of one sibling on its messages, when nothing is processed.
LEMMA MoveStep ==
  ASSUME OInv, NEW p \in Sibs, MainFrame(p), th'[p].leader = th[p].leader,
         DOMAIN toSib' = Sibs, \A q \in Sibs \ {p} : toSib'[q] = toSib[q],
         DOMAIN miss' = Sibs, \A q \in Sibs \ {p} : miss'[q] = miss[q],
         Ordered(View(p)'), Covered(View(p)', Due(p)), RestartAt(p)'
  PROVE  OInv'
<1>1. SibInv(p)'
  BY QuietSib DEF OInv, MainFrame
<1>2. \A q \in Sibs \ {p} : SameSib(q)
  BY DEF MainFrame, SameSib
<1>3. DOMAIN life' = Sibs /\ DOMAIN dropped' = Sibs
  BY DEF OInv, MainFrame
<1>4. QED
  BY <1>1, <1>2, <1>3, OneSib DEF MainFrame

\* The main thread takes a message from the controller in restart mode
LEMMA HoldStep == ASSUME IInv, OInv, NEW p \in Sibs, InRestartMode(p) PROVE OInv'
<1> DEFINE v == View(p)
           w == View(p)'
           x == Head(toSib[p])
<1>0. /\ DOMAIN th = Sibs /\ DOMAIN th[p] = Fields /\ DOMAIN miss = Sibs
      /\ Ordered(v) /\ Covered(v, Due(p)) /\ RestartAt(p) /\ ThreadsAt(p)
  BY Given
<1>1. /\ life[p] = "run" /\ th[p].main = "fetch" /\ th[p].restart_mode /\ toSib[p] # <<>>
      /\ th' = [th EXCEPT ![p].main = "push", ![p].msg = x]
      /\ toSib' = [toSib EXCEPT ![p] = Tail(@)]
      /\ UNCHANGED <<script, ingress_id, ctl, bucket, life, applied, dropped, miss>>
  BY DEF InRestartMode, Fetches, ctlVars, ospfVars
<1> HIDE DEF x
<1>2. /\ MainFrame(p) /\ th'[p].restart_msg_queue = th[p].restart_msg_queue
      /\ th'[p].main = "push" /\ th'[p].msg = x /\ th'[p].leader = th[p].leader
  <2>1. MainFrame(p)
    BY <1>0, <1>1 DEF Fields, NewThreads, MainFrame
  <2>2. th'[p].restart_msg_queue = th[p].restart_msg_queue
    BY <1>0, <1>1 DEF Fields, NewThreads, MainFrame
  <2>3. th'[p].main = "push"
    BY <1>0, <1>1 DEF Fields, NewThreads, MainFrame
  <2>4. th'[p].msg = x
    BY <1>0, <1>1 DEF Fields, NewThreads, MainFrame
  <2>5. th'[p].leader = th[p].leader
    BY <1>0, <1>1 DEF Fields, NewThreads, MainFrame
  <2>6. QED
    BY <2>1, <2>2, <2>3, <2>4, <2>5
<1>3. DOMAIN toSib' = Sibs /\ (\A q \in Sibs \ {p} : toSib'[q] = toSib[q]) /\ toSib'[p] = Tail(toSib[p])
  BY <1>1 DEF OInv
<1>4. Held(p) = {} /\ Held(p)' = {x}
  BY <1>1, <1>2 DEF Held
<1>5. Xs(p)' = Xs(p) /\ Ys(p)' = Ys(p) /\ th[p].thread # "none"
  BY <1>0, <1>1 DEF Xs, Ys, RestartAt
<1>6. /\ v.held = {} /\ w.held = {x} /\ v.thread # "none" /\ w.thread = v.thread
      /\ v.life = "run" /\ SameProcess(v, w) /\ v.sent # <<>> /\ x = Head(v.sent) /\ w.sent = Tail(v.sent)
      /\ w.queue = v.queue /\ w.last = v.last /\ w.keys = v.keys
      /\ w.done = v.done /\ w.later = v.later /\ w.stored = v.stored /\ SameReads(v, w) /\ w.miss = v.miss
  <2>1. w.thread = v.thread /\ SameProcess(v, w) /\ w.queue = v.queue /\ w.last = v.last
    BY <1>1, <1>2, <1>3, <1>4, <1>5, SameView DEF MainFrame, SameProcess, x
  <2>2. w.keys = v.keys /\ w.done = v.done /\ w.later = v.later /\ w.stored = v.stored
    BY <1>1, <1>2, <1>3, <1>4, <1>5, SameView DEF MainFrame, x
  <2>3. SameReads(v, w) /\ w.miss = v.miss
    BY <1>1, <1>2, <1>3, <1>4, <1>5, SameView DEF MainFrame, SameReads, x
  <2>4. v.held = {} /\ v.thread # "none" /\ v.life = "run" /\ v.sent # <<>>
    BY <1>1, <1>2, <1>3, <1>4, <1>5, ViewIs DEF MainFrame, x
  <2>5. x = Head(v.sent)
    BY <1>1, <1>2, <1>3, <1>4, <1>5, ViewIs DEF MainFrame, x
  <2>6. w.held = {x}
    BY <1>1, <1>2, <1>3, <1>4, <1>5, ViewNext DEF MainFrame, x
  <2>7. w.sent = Tail(v.sent)
    BY <1>1, <1>2, <1>3, <1>4, <1>5, ViewIs, ViewNext DEF MainFrame, x
  <2>8. QED
    BY <2>1, <2>2, <2>3, <2>4, <2>5, <2>6, <2>7
<1> HIDE DEF v, w
<1>7. Ordered(w) /\ Upcoming(w) = Upcoming(v) /\ Coming(w) = Coming(v)
  BY <1>0, <1>6, HeldOrder
<1>8. Covered(w, Due(p))
  BY <1>0, <1>6, <1>7, KeptCovered DEF SameProcess
<1>9. RestartAt(p)'
  BY <1>0, <1>2 DEF RestartAt, MainFrame
<1>10. QED
  BY <1>0, <1>1, <1>2, <1>3, <1>7, <1>8, <1>9, MoveStep DEF w

\* and puts it in the queue.
LEMMA PushStep == ASSUME IInv, OInv, NEW p \in Sibs, Push(p) PROVE OInv'
<1> DEFINE v == View(p)
           w == View(p)'
           x == th[p].msg
           late == th[p].thread \in {"flip", "none"}
<1>0. /\ DOMAIN th = Sibs /\ DOMAIN th[p] = Fields /\ DOMAIN miss = Sibs
      /\ Ordered(v) /\ Covered(v, Due(p)) /\ RestartAt(p) /\ ThreadsAt(p)
  BY Given
<1>1. /\ life[p] = "run" /\ th[p].main = "push" /\ ~th[p].restart_msg_q_mutex
      /\ th' = [th EXCEPT ![p].main = "fetch", ![p].msg = NoId,
                          ![p].restart_msg_queue = Append(@, x), ![p].first_xid_mutex = FALSE]
      /\ UNCHANGED <<script, ingress_id, ctl, bucket, life, applied, dropped, toSib>>
  BY DEF Push, ctlVars, ospfVars
<1>2. /\ DOMAIN miss' = Sibs /\ (\A q \in Sibs \ {p} : miss'[q] = miss[q])
      /\ (late => miss'[p] # {}) /\ (~late => miss'[p] = miss[p])
  <2>1. miss' = IF late THEN [miss EXCEPT ![p] = @ \cup {"late"}] ELSE miss
    BY DEF Push
  <2> HIDE DEF late
  <2>2. CASE late
    BY <1>0, <2>1, <2>2
  <2>3. CASE ~late
    BY <1>0, <2>1, <2>3
  <2>4. QED
    BY <2>2, <2>3
<1> HIDE DEF x
<1>3. /\ MainFrame(p) /\ th'[p].restart_msg_queue = Append(th[p].restart_msg_queue, x)
      /\ th'[p].main = "fetch" /\ th'[p].leader = th[p].leader
  BY <1>0, <1>1, SMTT(20) DEF Fields, NewThreads, MainFrame
<1>4. Held(p) = {x} /\ Held(p)' = {}
  BY <1>1, <1>3 DEF Held, x
<1>5. Xs(p)' = Xs(p) /\ Ys(p)' = Ys(p) /\ th[p].thread # "drain"
  BY <1>0, <1>1 DEF Xs, Ys, RestartAt
<1>6. /\ v.held = {x} /\ w.held = {} /\ v.thread # "drain" /\ w.thread = v.thread
      /\ v.life = "run" /\ SameProcess(v, w) /\ w.sent = v.sent
      /\ w.queue = Append(v.queue, x) /\ w.last = v.last /\ w.keys = v.keys
      /\ w.done = v.done /\ w.later = v.later /\ w.stored = v.stored /\ SameReads(v, w)
      /\ v.thread = th[p].thread /\ w.miss = miss'[p] /\ v.miss = miss[p]
  <2>1. w.thread = v.thread /\ SameProcess(v, w) /\ w.sent = v.sent /\ w.last = v.last
    BY <1>1, <1>3, <1>4, <1>5, SameView DEF MainFrame, SameProcess
  <2>2. w.keys = v.keys /\ w.done = v.done /\ w.later = v.later /\ w.stored = v.stored
    BY <1>1, <1>3, <1>4, <1>5, SameView DEF MainFrame
  <2>3. SameReads(v, w)
    BY <1>1, <1>3, <1>4, <1>5, SameView DEF MainFrame, SameReads
  <2>4. v.held = {x} /\ v.thread # "drain" /\ v.life = "run" /\ v.thread = th[p].thread
    BY <1>1, <1>3, <1>4, <1>5, ViewIs DEF MainFrame
  <2>5. v.miss = miss[p]
    BY <1>1, <1>3, <1>4, <1>5, ViewIs DEF MainFrame
  <2>6. w.held = {} /\ w.miss = miss'[p]
    BY <1>1, <1>3, <1>4, <1>5, ViewNext DEF MainFrame
  <2>7. w.queue = Append(v.queue, x)
    BY <1>1, <1>3, <1>4, <1>5, ViewIs, ViewNext DEF MainFrame
  <2>8. QED
    BY <2>1, <2>2, <2>3, <2>4, <2>5, <2>6, <2>7
<1> HIDE DEF v, w
<1>7. /\ Ordered(w) /\ Coming(w) = Coming(v)
      /\ v.thread \notin {"flip", "none"} => Upcoming(w) = Upcoming(v)
      /\ v.queue # <<>> => w.queue # <<>> /\ Head(w.queue) = Head(v.queue)
  BY <1>0, <1>6, PushedOrder
<1>8. Covered(w, Due(p))
  <2>1. CASE late
    BY <1>2, <1>6, <2>1 DEF Covered
  <2>2. CASE ~late
    BY <1>0, <1>2, <1>6, <1>7, <2>2, KeptCovered DEF SameProcess
  <2>3. QED
    BY <2>1, <2>2
<1>9. RestartAt(p)'
  <2>1. th[p].restart_msg_queue # <<>> =>
          th'[p].restart_msg_queue # <<>> /\ Head(th'[p].restart_msg_queue) = Head(th[p].restart_msg_queue)
    <3>1. v.queue = th[p].restart_msg_queue
      BY ViewIs DEF v
    <3>2. w.queue = th'[p].restart_msg_queue
      BY <1>3, <1>6, <3>1
    <3>3. QED
      BY <1>7, <3>1, <3>2
  <2>2. QED
    BY <1>0, <1>1, <1>3, <2>1 DEF RestartAt, MainFrame
<1>10. QED
  BY <1>1, <1>2, <1>3, <1>7, <1>8, <1>9, MoveStep DEF w, OInv


-----------------------------------------------------------------------------
(***************************************************************************)
(* The controller, and the start and end of a process                      *)
(***************************************************************************)

\* The controller's steps on one sibling, and the end of a process.
LEMMA ConnectionStep ==
  ASSUME IInv, OInv, NEW p \in Sibs, CtrlAck(p) \/ CtrlClose(p) \/ CtrlRouting(p) \/ Crash(p) \/ NoLeader(p)
  PROVE  OInv'
<1> DEFINE v == View(p)
           w == View(p)'
<1>0. /\ DOMAIN th = Sibs /\ DOMAIN th[p] = Fields /\ DOMAIN miss = Sibs /\ DOMAIN ctl = Sibs
      /\ Ordered(v) /\ Covered(v, Due(p)) /\ RestartAt(p)
      /\ ctl[p] \in [routing : BOOLEAN, xid : Nat, acked : BOOLEAN]
      /\ DOMAIN toSib = Sibs /\ DOMAIN life = Sibs
  BY Given DEF IInv, Shape, StoredAt, OInv
<1>1. UNCHANGED <<script, ingress_id, bucket, th, applied, dropped, miss>>
  BY DEF CtrlAck, CtrlClose, CtrlRouting, Crash, NoLeader, ctlVars, ospfVars
<1>2. \/ ctl'[p].routing = ctl[p].routing /\ UNCHANGED <<life, toSib>>
      \/ life[p] = "down" /\ UNCHANGED <<life, toSib>>
      \/ ctl'[p].routing = TRUE /\ UNCHANGED <<life, toSib>>
      \/ ctl' = ctl /\ Gone(p)
  <2>1. CASE CtrlAck(p)
    <3>1. ctl'[p] = AckRcvd(ctl[p], Head(toCtl[p])) /\ UNCHANGED <<life, toSib>>
      BY <1>0, <2>1 DEF CtrlAck
    <3>2. AckRcvd(ctl[p], Head(toCtl[p])).routing = ctl[p].routing
      BY <1>0 DEF AckRcvd
    <3>3. QED
      BY <3>1, <3>2
  <2>2. CASE CtrlClose(p)
    BY <2>2 DEF CtrlClose
  <2>3. CASE CtrlRouting(p)
    <3>1. ctl' = [ctl EXCEPT ![p].routing = TRUE, ![p].xid = 0]
      BY <2>3 DEF CtrlRouting
    <3>2. ctl'[p].routing = TRUE
      BY <1>0, <3>1, SMTT(20)
    <3>3. QED
      BY <2>3, <3>2 DEF CtrlRouting
  <2>4. CASE Crash(p) \/ NoLeader(p)
    BY <2>4 DEF Crash, NoLeader, ctlVars, ospfVars
  <2>5. QED
    BY <2>1, <2>2, <2>3, <2>4
<1>3. \A q \in Sibs \ {p} : ctl'[q] = ctl[q] /\ life'[q] = life[q] /\ toSib'[q] = toSib[q]
  BY <1>0 DEF CtrlAck, CtrlClose, CtrlRouting, Crash, NoLeader, Gone, ctlVars, ospfVars
<1>4. DOMAIN toSib' = Sibs /\ DOMAIN life' = Sibs
  BY <1>0 DEF CtrlAck, CtrlClose, CtrlRouting, Crash, NoLeader, Gone, ctlVars, ospfVars
<1>5. Xs(p)' = Xs(p) /\ Ys(p)' = Ys(p) /\ Held(p)' = Held(p)
  BY <1>1 DEF Xs, Ys, Held
<1>6. /\ w.held = v.held /\ w.thread = v.thread /\ w.queue = v.queue /\ w.last = v.last /\ w.keys = v.keys
      /\ w.done = v.done /\ w.later = v.later /\ w.stored = v.stored /\ SameReads(v, w) /\ w.miss = v.miss
      /\ w.sent = toSib'[p] /\ v.sent = toSib[p] /\ w.life = life'[p] /\ v.life = life[p]
      /\ w.routing = ctl'[p].routing /\ v.routing = ctl[p].routing
  <2>1. w.held = v.held /\ w.thread = v.thread /\ w.queue = v.queue /\ w.last = v.last
    BY <1>1, <1>5, SameView
  <2>2. w.keys = v.keys /\ w.done = v.done /\ w.later = v.later /\ w.stored = v.stored
    BY <1>1, <1>5, SameView
  <2>3. SameReads(v, w) /\ w.miss = v.miss
    BY <1>1, <1>5, SameView DEF SameReads
  <2>4. v.sent = toSib[p] /\ v.life = life[p] /\ v.routing = ctl[p].routing
    BY <1>1, <1>5, ViewIs
  <2>5. w.sent = toSib'[p] /\ w.life = life'[p] /\ w.routing = ctl'[p].routing
    BY <1>1, <1>5, ViewNext
  <2>6. QED
    BY <2>1, <2>2, <2>3, <2>4, <2>5
<1> HIDE DEF v, w
<1>7. Ordered(w) /\ Covered(w, Due(p))
  <2>1. ASSUME UNCHANGED <<life, toSib>>, w.routing = v.routing \/ w.routing = TRUE \/ v.life = "down"
        PROVE  Ordered(w) /\ Covered(w, Due(p))
    <3>1. SameIds(v, w) /\ w.life = v.life
      BY <1>6, <2>1 DEF SameIds
    <3>2. Coming(w) = Coming(v) /\ Upcoming(w) = Upcoming(v)
      BY <1>6, <3>1 DEF Coming, Upcoming, SameIds
    <3>3. Ordered(w)
      <4>1. CASE w.routing = v.routing
        <5>1. v.life = "run" => Flow(w)
          BY <1>0, <1>6, <3>2, <4>1 DEF Ordered, Flow
        <5>2. QED
          BY <1>0, <1>6, <3>1, <3>2, <5>1 DEF Ordered, SameIds
      <4>2. CASE w.routing = TRUE \/ v.life = "down"
        BY <1>0, <1>6, <3>1, <4>2, RoutingOrder
      <4>3. QED
        BY <2>1, <4>1, <4>2
    <3>4. v.life = "run" /\ v.routing = TRUE => w.routing = TRUE
      <4>1. v.life = "run" => v.life # "down"
        OBVIOUS
      <4>2. QED
        BY <2>1, <4>1
    <3>5. Covered(w, Due(p))
      BY <1>0, <1>6, <3>1, <3>2, <3>4, KeptCovered
    <3>6. QED
      BY <3>3, <3>5
  <2>2. ASSUME Gone(p) PROVE Ordered(w) /\ Covered(w, Due(p))
    <3>1. w.life = "down" /\ w.sent = <<>>
      BY <1>0, <1>6, <2>2 DEF Gone
    <3>2. Ordered(w)
      BY <1>0, <1>6, <3>1, GoneOrder
    <3>3. Covered(w, Due(p))
      <4>1. SUFFICES ASSUME v.miss = {}
                     PROVE  Complete(w, Due(p)) /\ Replayed(w) /\ Asking(w) /\ Remaining(w, Due(p))
        BY <1>6 DEF Covered
      <4>2. Complete(v, Due(p)) /\ Replayed(v) /\ Asking(v)
        BY <1>0, <4>1 DEF Covered
      <4>3. Complete(w, Due(p))
        BY <1>6, <4>2 DEF Complete
      <4>4. Replayed(w)
        BY <1>6, <4>2 DEF Replayed, SameReads
      <4>5. Asking(w)
        BY <1>6, <4>2 DEF Asking, SameReads
      <4>6. Remaining(w, Due(p))
        BY <3>1 DEF Remaining
      <4>7. QED
        BY <4>3, <4>4, <4>5, <4>6
    <3>4. QED
      BY <3>2, <3>3
  <2>3. QED
    BY <1>2, <1>6, <2>1, <2>2
<1>8. RestartAt(p)'
  BY <1>0, <1>1 DEF RestartAt
<1>9. SibInv(p)'
  BY <1>1, <1>7, <1>8, QuietSib DEF OInv, w
<1>10. \A q \in Sibs \ {p} : SameSib(q)
  BY <1>1, <1>3 DEF SameSib
<1>11. /\ DOMAIN miss' = Sibs /\ DOMAIN dropped' = Sibs
       /\ script' = script /\ ingress_id' = ingress_id /\ bucket' = bucket
  BY <1>0, <1>1 DEF OInv
<1>12. QED
  BY <1>4, <1>9, <1>10, <1>11, OneSib

\* The controller sends a message of the router to every sibling.
LEMMA ForwardStep == ASSUME IInv, OInv, Forward PROVE OInv'
<1>1. /\ ingress_id' = ingress_id + 1 /\ ingress_id < Len(script)
      /\ UNCHANGED <<script, bucket, life, th, applied, dropped, miss>>
      /\ DOMAIN toSib' = Sibs
  BY DEF ospfVars, Forward, db_get_and_set
<1>2. ASSUME NEW p \in Sibs PROVE SibInv(p)'
  <2> DEFINE v == View(p)
             w == View(p)'
  <2>0. /\ Ordered(v) /\ Covered(v, Due(p)) /\ RestartAt(p)
        /\ ctl[p] \in [routing : BOOLEAN, xid : Nat, acked : BOOLEAN]
    BY Given DEF StoredAt
  <2>1. toSib'[p] = IF ctl[p].routing /\ life[p] = "run" THEN Append(toSib[p], ingress_id + 1) ELSE toSib[p]
    BY DEF ospfVars, Forward, db_get_and_set
  <2>2. ctl'[p].routing = ctl[p].routing
    <3>1. ctl'[p] = IF ctl[p].routing
                    THEN [ctl[p] EXCEPT !.xid = ingress_id + 1, !.acked = FALSE] ELSE ctl[p]
      BY DEF ospfVars, Forward, db_get_and_set
    <3>2. QED
      BY <2>0, <3>1, SMTT(20)
  <2>3. Xs(p)' = Xs(p) /\ Ys(p)' = Ys(p) /\ Held(p)' = Held(p)
    BY <1>1 DEF Xs, Ys, Held
  <2>4. /\ w.held = v.held /\ w.thread = v.thread /\ w.queue = v.queue /\ w.last = v.last + 1 /\ w.keys = v.keys
        /\ w.done = v.done /\ w.later = v.later /\ w.stored = v.stored /\ SameReads(v, w) /\ w.miss = v.miss
        /\ w.sent = toSib'[p] /\ v.sent = toSib[p] /\ SameProcess(v, w) /\ v.last = ingress_id
        /\ v.routing = ctl[p].routing /\ v.life = life[p] /\ v.routing \in BOOLEAN
    <3>1. w.held = v.held /\ w.thread = v.thread /\ w.queue = v.queue /\ w.keys = v.keys
      BY <1>1, <2>0, <2>2, <2>3, SameView
    <3>2. w.done = v.done /\ w.later = v.later /\ w.stored = v.stored /\ SameReads(v, w)
      BY <1>1, <2>0, <2>2, <2>3, SameView DEF SameReads
    <3>3. w.miss = v.miss /\ SameProcess(v, w)
      BY <1>1, <2>0, <2>2, <2>3, SameView DEF SameProcess
    <3>4. v.sent = toSib[p] /\ v.last = ingress_id /\ v.routing = ctl[p].routing /\ v.life = life[p]
      BY <1>1, <2>0, <2>2, <2>3, ViewIs
    <3>5. v.routing \in BOOLEAN
      BY <1>1, <2>0, <2>2, <2>3, ViewIs
    <3>6. w.sent = toSib'[p]
      BY <1>1, <2>0, <2>2, <2>3, ViewNext
    <3>7. w.last = v.last + 1
      <4>1. w.last = ingress_id'
        BY ViewNext
      <4>2. QED
        BY <1>1, <3>4, <4>1
    <3>8. QED
      BY <3>1, <3>2, <3>3, <3>4, <3>5, <3>6, <3>7
  <2>5. w.sent = IF v.routing /\ v.life = "run" THEN Append(v.sent, v.last + 1) ELSE v.sent
    BY <2>1, <2>4
  <2> HIDE DEF v, w
  <2>6. /\ Ordered(w) /\ Coming(w) = Coming(v)
        /\ Upcoming(w) = Upcoming(v) \cup (IF v.routing /\ v.life = "run" THEN {v.last + 1} ELSE {})
    BY <2>0, <2>4, <2>5, SentOrder
  <2>7. Covered(w, Due(p))
    BY <2>0, <2>4, <2>6, Ids, SentCovered
  <2>8. RestartAt(p)'
    BY <1>1, <2>0 DEF RestartAt
  <2>9. QED
    BY <1>1, <2>6, <2>7, <2>8, QuietSib DEF OInv, w
<1>3. ingress_id' \in 0 .. Len(script')
  BY <1>1, Ids, SMTT(20)
<1>4. QED
  BY <1>1, <1>2, <1>3 DEF OInv

\* A sibling is started again with an empty memory and its bucket.
LEMMA RestartStep == ASSUME IInv, OInv, NEW p \in Sibs, Restart(p) PROVE OInv'
<1> DEFINE v == View(p)
           w == View(p)'
<1>0. /\ DOMAIN th = Sibs /\ DOMAIN miss = Sibs /\ DOMAIN life = Sibs /\ DOMAIN toSib = Sibs
      /\ DOMAIN applied = Sibs /\ Ordered(v) /\ Covered(v, Due(p)) /\ KindsAt(p)
  BY Given DEF OInv, IInv, Shape
<1>1. /\ life[p] = "down" /\ life' = [life EXCEPT ![p] = "run"]
      /\ th' = [th EXCEPT ![p] = NewThreads(TRUE)]
      /\ applied' = [applied EXCEPT ![p] = <<>>]
      /\ UNCHANGED <<script, ingress_id, ctl, bucket, toSib, dropped, miss>>
  BY DEF Restart, ctlVars, ospfVars
<1>2. /\ \A q \in Sibs \ {p} : th'[q] = th[q] /\ applied'[q] = applied[q] /\ life'[q] = life[q]
      /\ th'[p] = NewThreads(TRUE) /\ applied'[p] = <<>> /\ life'[p] = "run" /\ DOMAIN life' = Sibs
  BY <1>0, <1>1
<1>3. /\ th'[p].main = "fetch" /\ th'[p].restart_msg_queue = <<>> /\ th'[p].thread = "start"
      /\ th'[p].restart_mode = TRUE /\ th'[p].restart_msg_q_mutex = FALSE /\ th'[p].leader = NoId
  <2> DEFINE t == NewThreads(TRUE)
  <2>1. /\ t.main = "fetch" /\ t.restart_msg_queue = <<>> /\ t.thread = "start"
        /\ t.restart_mode = TRUE /\ t.restart_msg_q_mutex = FALSE /\ t.leader = NoId
    BY DEF NewThreads
  <2> HIDE DEF t
  <2>2. th'[p] = t
    BY <1>2 DEF t
  <2>3. QED
    BY <2>1, <2>2
<1>4. DOMAIN applied'[p] = {}
  BY <1>2, SMTT(20)
<1>5. Xs(p)' = {} /\ Ys(p)' = {} /\ Held(p)' = {}
  BY <1>3, <1>4 DEF Xs, Ys, Held
<1>6. /\ v.life = "down" /\ w.life = "run" /\ w.sent = v.sent /\ w.held = {} /\ w.queue = <<>>
      /\ w.thread = "start" /\ w.done = {} /\ w.later = {} /\ w.stored = v.stored /\ w.last = v.last
      /\ w.miss = v.miss
  <2>1. w.sent = v.sent /\ w.stored = v.stored /\ w.last = v.last /\ w.miss = v.miss
    BY <1>1, SameView
  <2>2. v.life = "down"
    BY <1>1, ViewIs
  <2>3. w.life = "run" /\ w.held = {} /\ w.queue = <<>> /\ w.thread = "start"
    BY <1>2, <1>3, <1>5, ViewNext
  <2>4. w.done = {} /\ w.later = {}
    BY <1>5, ViewNext
  <2>5. QED
    BY <2>1, <2>2, <2>3, <2>4
<1> HIDE DEF v, w
<1>7. Ordered(w)
  BY <1>0, <1>6, RestartedOrder
<1>8. Covered(w, Due(p))
  <2>1. Replayed(w) /\ Asking(w)
    BY <1>6 DEF Replayed, Asking
  <2>2. QED
    BY <1>0, <1>6, <2>1, EarlyCovered DEF Early
<1>9. RestartAt(p)'
  BY <1>3 DEF RestartAt
<1>10. Checkpoints' = Checkpoints /\ Due(p)' = Due(p)
  BY <1>1 DEF Due, Checkpoints, checkpointed
<1>11. KindsAt(p)' /\ TailAt(p)'
  BY <1>0, <1>1, <1>4, <1>10 DEF KindsAt, TailAt
<1>12. SibInv(p)'
  BY <1>7, <1>8, <1>9, <1>10, <1>11 DEF SibInv, w
<1>13. \A q \in Sibs \ {p} : SameSib(q)
  BY <1>1, <1>2 DEF SameSib
<1>14. QED
  BY <1>0, <1>1, <1>2, <1>12, <1>13, OneSib DEF OInv


-----------------------------------------------------------------------------
(***************************************************************************)
(* Processing a message                                                    *)
(***************************************************************************)

\* The history with one more entry.
LEMMA AppendAt ==
  ASSUME NEW s, NEW e, NEW t, IsHistory(s), t = Append(s, e)
  PROVE  /\ Len(s) \in Nat /\ DOMAIN s = 1 .. Len(s) /\ DOMAIN t = 1 .. Len(s) + 1
         /\ (\A i \in 1 .. Len(s) : t[i] = s[i]) /\ t[Len(s) + 1] = e
<1> DEFINE S == {s[i] : i \in DOMAIN s} \cup {e}
<1>1. s \in Seq(S) /\ e \in S
  BY SeqSubset DEF IsHistory
<1> HIDE DEF S
<1>2. QED
  BY <1>1, SMTT(20)

\* The history after one more entry.
LEMMA AddedLast ==
  ASSUME NEW s, NEW e, NEW t, IsHistory(s), t = Append(s, e)
  PROVE  /\ \A i \in DOMAIN s : i \in DOMAIN t /\ t[i] = s[i]
         /\ Len(s) + 1 \in DOMAIN t /\ t[Len(s) + 1] = e /\ DOMAIN t = DOMAIN s \cup {Len(s) + 1}
<1>1. /\ Len(s) \in Nat /\ DOMAIN s = 1 .. Len(s) /\ DOMAIN t = 1 .. Len(s) + 1
      /\ (\A i \in 1 .. Len(s) : t[i] = s[i]) /\ t[Len(s) + 1] = e
  BY AppendAt, SMTT(20)
<1>2. 1 .. Len(s) + 1 = 1 .. Len(s) \cup {Len(s) + 1}
  BY <1>1, SMTT(20)
<1>3. QED
  BY <1>1, <1>2

\* What ospf6_receive does to what a sibling has processed and stored, for a message of
\* the kind that was sent.
Took(p, xid, source) ==
  /\ Xs(p)' = Xs(p) \cup {xid}
  /\ (source = "own" => Ys(p)' = Ys(p)) /\ (source # "own" => Ys(p)' = Ys(p) \cup {xid})
  /\ \A q \in Sibs \ {p} : bucket'[q] = bucket[q] /\ applied'[q] = applied[q] /\ dropped'[q] = dropped[q]
  /\ DOMAIN dropped' = Sibs /\ Due(p)' \subseteq Due(p)
  /\ conf[p].checkpoint_enabled \/ bucket'[p] = bucket[p]
  /\ DOMAIN bucket[p] \subseteq DOMAIN bucket'[p]
  /\ DOMAIN bucket'[p] \subseteq DOMAIN bucket[p] \cup {xid}
  /\ KindsAt(p)'

\* ospf6_receive is as said.
LEMMA Processed ==
  ASSUME IInv, OInv, NEW p \in Sibs, NEW xid \in DOMAIN script, NEW msg, NEW source,
         ospf6_receive(p, xid, msg, source), script' = script, msg.type = script[xid].type
  PROVE  Took(p, xid, source)
<1> DEFINE e == [xid |-> xid, msg |-> msg, taken |-> Takes(p, msg), source |-> source]
           s == applied[p]
           stored == [type |-> msg.type, router_id |-> Printed(msg.router_id), param |-> Printed(msg.param)]
<1>0. IsHistory(s) /\ KindsAt(p) /\ DOMAIN applied = Sibs /\ DOMAIN bucket = Sibs /\ DOMAIN dropped = Sibs
  BY Given DEF StoredAt, IInv, OInv, Shape
<1>1. applied'[p] = Append(s, e) /\ \A q \in Sibs \ {p} : bucket'[q] = bucket[q] /\ applied'[q] = applied[q]
  BY <1>0 DEF ospf6_receive
<1>2. \/ bucket'[p] = bucket[p]
      \/ /\ checkpointed(msg) /\ conf[p].checkpoint_enabled
         /\ bucket'[p] = riack_put(bucket[p], xid, stored)
  <2>1. Takes(p, msg) => checkpointed(msg)
    BY DEF Takes, checkpointed
  <2>2. checkpoints(p) => conf[p].checkpoint_enabled
    BY DEF checkpoints
  <2>3. QED
    BY <1>0, <2>1, <2>2 DEF ospf6_receive, ospf6_db_put_hello, ospf6_db_put_dbdesc, ospf6_db_json_header
<1>3. stored.type = msg.type
  OBVIOUS
<1>5. /\ DOMAIN dropped' = Sibs /\ \A q \in Sibs \ {p} : dropped'[q] = dropped[q]
      /\ dropped[p] \subseteq dropped'[p] /\ (checkpointed(msg) => Takes(p, msg) \/ xid \in dropped'[p])
  <2>1. CASE checkpointed(msg) /\ ~Takes(p, msg)
    <3>1. dropped' = [dropped EXCEPT ![p] = @ \cup {xid}]
      BY <2>1 DEF ospf6_receive
    <3>2. QED
      BY <1>0, <3>1
  <2>2. CASE ~(checkpointed(msg) /\ ~Takes(p, msg))
    <3>1. dropped' = dropped
      BY <2>2 DEF ospf6_receive
    <3>2. QED
      BY <1>0, <2>2, <3>1
  <2>3. QED
    BY <2>1, <2>2
<1>4. e.xid = xid /\ e.msg = msg /\ e.source = source /\ e.taken = Takes(p, msg)
  OBVIOUS
<1> HIDE DEF e, stored
<1> DEFINE n == Len(s) + 1
<1>7. /\ DOMAIN applied'[p] = DOMAIN s \cup {n} /\ applied'[p][n] = e
      /\ \A i \in DOMAIN s : applied'[p][i] = s[i]
  BY <1>0, <1>1, AddedLast, SMTT(20)
<1> HIDE DEF n, s
<1>8. Xs(p)' = Xs(p) \cup {xid}
  <2>1. Xs(p)' = {applied'[p][i].xid : i \in DOMAIN s} \cup {applied'[p][n].xid}
    BY <1>7 DEF Xs
  <2>2. {applied'[p][i].xid : i \in DOMAIN s} = Xs(p)
    BY <1>7 DEF Xs, s
  <2>3. QED
    BY <1>4, <1>7, <2>1, <2>2
<1>9. (source = "own" => Ys(p)' = Ys(p)) /\ (source # "own" => Ys(p)' = Ys(p) \cup {xid})
  <2>1. CASE source = "own"
    BY <1>4, <1>7, <2>1 DEF Ys, s
  <2>2. CASE source # "own"
    BY <1>4, <1>7, <2>2 DEF Ys, s
  <2>3. QED
    BY <2>1, <2>2
<1>10. /\ DOMAIN bucket[p] \subseteq DOMAIN bucket'[p] /\ DOMAIN bucket'[p] \subseteq DOMAIN bucket[p] \cup {xid}
       /\ \A x \in DOMAIN bucket'[p] : \/ x \in DOMAIN bucket[p] /\ bucket'[p][x] = bucket[p][x]
                                       \/ x = xid /\ checkpointed(msg) /\ bucket'[p][x] = stored
  <2>1. CASE bucket'[p] = bucket[p]
    BY <2>1
  <2>2. CASE checkpointed(msg) /\ bucket'[p] = riack_put(bucket[p], xid, stored)
    BY <2>2 DEF riack_put
  <2>3. QED
    BY <1>2, <2>1, <2>2
<1>11. Checkpoints' = Checkpoints
  BY DEF Checkpoints, checkpointed
<1>12. ASSUME NEW x \in DOMAIN bucket'[p]
       PROVE  x \in Checkpoints /\ bucket'[p][x].type = script[x].type
  <2>1. CASE x \in DOMAIN bucket[p] /\ bucket'[p][x] = bucket[p][x]
    BY <1>0, <2>1 DEF KindsAt
  <2>2. CASE x = xid /\ checkpointed(msg) /\ bucket'[p][x] = stored
    BY <1>3, <2>2 DEF Checkpoints, checkpointed
  <2>3. QED
    BY <1>10, <2>1, <2>2
<1>13. ASSUME NEW i \in DOMAIN applied'[p]
       PROVE  /\ applied'[p][i].msg.type = script[applied'[p][i].xid].type
              /\ checkpointed(applied'[p][i].msg)
                   => applied'[p][i].taken \/ applied'[p][i].xid \in dropped'[p]
  <2>1. CASE i \in DOMAIN s
    BY <1>0, <1>5, <1>7, <2>1 DEF KindsAt, s
  <2>2. CASE i = n
    BY <1>4, <1>5, <1>7, <2>2
  <2>3. QED
    BY <1>7, <2>1, <2>2
<1>14. KindsAt(p)'
  BY <1>11, <1>12, <1>13 DEF KindsAt, checkpointed
<1>15. Due(p)' \subseteq Due(p)
  BY <1>5, <1>11 DEF Due
<1>16. QED
  BY <1>1, <1>2, <1>5, <1>8, <1>9, <1>10, <1>14, <1>15 DEF Took

\* The order of the history.
LEMMA TailKept ==
  ASSUME NEW p, IsHistory(applied[p]), NEW e, TailAt(p), applied'[p] = Append(applied[p], e),
         e.source = "own" \/ Before(Ys(p), {e.xid})
  PROVE  TailAt(p)'
<1> DEFINE s == applied[p]
           t == applied'[p]
<1>1. /\ Len(s) \in Nat /\ DOMAIN s = 1 .. Len(s) /\ DOMAIN t = 1 .. Len(s) + 1
      /\ (\A i \in 1 .. Len(s) : t[i] = s[i]) /\ t[Len(s) + 1] = e
  BY AppendAt, SMTT(20)
<1>2. SUFFICES ASSUME NEW i \in DOMAIN t, NEW j \in DOMAIN t, i < j, t[i].source # "own", t[j].source # "own"
               PROVE  t[i].xid < t[j].xid
  BY DEF TailAt
<1>3. i \in DOMAIN s /\ t[i] = s[i] /\ (j = Len(s) + 1 \/ j \in DOMAIN s)
  BY <1>1, <1>2, SMTT(20)
<1>4. CASE j \in DOMAIN s
  <2>1. t[j] = s[j]
    BY <1>1, <1>4
  <2>2. QED
    BY <1>2, <1>3, <1>4, <2>1 DEF TailAt
<1>5. CASE j = Len(s) + 1
  <2>1. t[j] = e /\ s[i].xid \in Ys(p)
    BY <1>1, <1>2, <1>3, <1>5 DEF Ys
  <2>2. QED
    BY <1>2, <1>3, <2>1 DEF Before
<1>6. QED
  BY <1>3, <1>4, <1>5

\* A Hello or DbDesc that was processed and not refused is stored, where checkpoints
\* are configured.
LEMMA DoneStored ==
  ASSUME IInv, OInv, NEW p \in Sibs, conf[p].checkpoint_enabled
  PROVE  \A y \in Due(p) : y \in View(p).done => y \in View(p).stored
<1>1. SUFFICES ASSUME NEW y \in Due(p), y \in Xs(p) PROVE y \in DOMAIN bucket[p]
  BY ViewIs
<1>2. PICK i \in DOMAIN applied[p] : applied[p][i].xid = y
  BY <1>1 DEF Xs
<1>3. /\ applied[p][i].msg.type = script[y].type
      /\ checkpointed(applied[p][i].msg) => applied[p][i].taken \/ y \in dropped[p]
  BY <1>2, Given DEF KindsAt
<1>4. applied[p][i].taken
  BY <1>1, <1>3 DEF Due, Checkpoints, checkpointed
<1>5. QED
  BY <1>2, <1>4 DEF IInv, CheckpointCovers

\* What is due before a message is processed, and what of it is stored.
LEMMA DueBefore ==
  ASSUME IInv, OInv, NEW p \in Sibs, NEW x, NEW source, Took(p, x, source)
  PROVE  /\ Covered(View(p), Due(p)') /\ Due(p)' \subseteq Nat \ {0}
         /\ \/ \A y \in Due(p)' : y \in View(p).done => y \in View(p).stored
            \/ View(p)'.stored = View(p).stored
<1>1. Due(p)' \subseteq Due(p) /\ Due(p) \subseteq Nat \ {0} /\ Covered(View(p), Due(p))
  BY Ids, Given DEF Took
<1>2. Covered(View(p), Due(p)')
  BY <1>1, LessCovered
<1>3. CASE conf[p].checkpoint_enabled
  BY <1>1, <1>2, <1>3, DoneStored
<1>4. CASE ~conf[p].checkpoint_enabled
  <2>1. bucket'[p] = bucket[p]
    BY <1>4 DEF Took
  <2>2. View(p)'.stored = View(p).stored
    BY <2>1, SameView
  <2>3. QED
    BY <1>1, <1>2, <2>2
<1>5. QED
  BY <1>3, <1>4

\* The ids a sibling knows of are those of messages.
LEMMA KnownIds ==
  ASSUME OInv, NEW x \in 1 .. ingress_id PROVE x \in DOMAIN script
BY Ids, SMTT(20)

\* A step that processes a message for p.
LEMMA ProcessedStep ==
  ASSUME IInv, OInv, NEW p \in Sibs, SibInv(p)', \A q \in Sibs \ {p} : th'[q] = th[q],
         \A q \in Sibs \ {p} : bucket'[q] = bucket[q] /\ applied'[q] = applied[q] /\ dropped'[q] = dropped[q],
         DOMAIN dropped' = Sibs,
         DOMAIN bucket[p] \subseteq DOMAIN bucket'[p],
         DOMAIN toSib' = Sibs, \A q \in Sibs \ {p} : toSib'[q] = toSib[q],
         UNCHANGED <<script, ingress_id, ctl, life, miss>>
  PROVE  OInv'
<1>1. \A q \in Sibs \ {p} : SameSib(q)
  BY DEF SameSib
<1>2. \A r \in Sibs : DOMAIN bucket[r] \subseteq DOMAIN bucket'[r]
  OBVIOUS
<1>3. DOMAIN life' = Sibs /\ DOMAIN miss' = Sibs
  BY DEF OInv
<1>4. QED
  BY <1>1, <1>2, <1>3, OneSib

\* A message is processed when it comes, out of restart mode.
LEMMA ReceiveLive == ASSUME IInv, OInv, NEW p \in Sibs, Receive(p) PROVE OInv'
<1> DEFINE v == View(p)
           w == View(p)'
           x == Head(toSib[p])
           e == [xid |-> x, msg |-> script[x], taken |-> Takes(p, script[x]), source |-> "live"]
<1>0. /\ DOMAIN th = Sibs /\ DOMAIN th[p] = Fields /\ DOMAIN miss = Sibs /\ DOMAIN applied = Sibs
      /\ Ordered(v) /\ Covered(v, Due(p)) /\ RestartAt(p) /\ StoredAt(p)
      /\ TailAt(p)
  BY Given DEF IInv, Shape, OInv, SibInv
<1>1. /\ life[p] = "run" /\ th[p].main = "fetch" /\ ~th[p].restart_mode /\ toSib[p] # <<>>
      /\ ospf6_receive(p, x, script[x], "live")
      /\ th' = IF Takes(p, script[x]) THEN [th EXCEPT ![p].main = "ack", ![p].msg = x] ELSE th
      /\ toSib' = [toSib EXCEPT ![p] = Tail(@)]
      /\ UNCHANGED <<script, ingress_id, ctl, life, miss>>
  BY DEF Receive, Fetches, ctlVars, ospfVars
<1>2. applied'[p] = Append(applied[p], e)
  BY <1>0, <1>1 DEF ospf6_receive
<1>3. x \in 1 .. ingress_id
  <2>1. v.sent = toSib[p] /\ v.last = ingress_id
    BY ViewIs
  <2>2. QED
    BY <1>0, <1>1, <2>1, TakeFirst DEF Ordered
<1> HIDE DEF x
<1>4. x \in DOMAIN script
  BY <1>3, KnownIds
<1>5. /\ Xs(p)' = Xs(p) \cup {x} /\ Ys(p)' = Ys(p) \cup {x}
      /\ \A q \in Sibs \ {p} : bucket'[q] = bucket[q] /\ applied'[q] = applied[q] /\ dropped'[q] = dropped[q]
      /\ DOMAIN dropped' = Sibs
      /\ DOMAIN bucket[p] \subseteq DOMAIN bucket'[p] /\ DOMAIN bucket'[p] \subseteq DOMAIN bucket[p] \cup {x}
      /\ KindsAt(p)'
  <2>1. Took(p, x, "live")
    BY <1>1, <1>4, Processed
  <2>2. QED
    BY <2>1 DEF Took
<1>6. /\ \A q \in Sibs \ {p} : th'[q] = th[q]
      /\ th'[p].thread = th[p].thread /\ th'[p].keys = th[p].keys /\ th'[p].last_key = th[p].last_key
      /\ th'[p].num_msgs = th[p].num_msgs /\ th'[p].first_xid = th[p].first_xid
      /\ th'[p].restart_msg_queue = th[p].restart_msg_queue /\ th'[p].leader = th[p].leader
      /\ th'[p].leader_id = th[p].leader_id
      /\ th'[p].restart_mode = th[p].restart_mode /\ th'[p].restart_msg_q_mutex = th[p].restart_msg_q_mutex
      /\ th'[p].main # "push"
  BY <1>0, <1>1, SMTT(20) DEF Fields, NewThreads
<1>7. DOMAIN toSib' = Sibs /\ (\A q \in Sibs \ {p} : toSib'[q] = toSib[q]) /\ toSib'[p] = Tail(toSib[p])
  BY <1>1 DEF OInv
<1>8. Held(p) = {} /\ Held(p)' = {} /\ th[p].thread = "none"
  BY <1>0, <1>1, <1>6 DEF Held, RestartAt
<1>9. /\ v.thread = "none" /\ w.thread = "none" /\ v.held = {} /\ w.held = {}
      /\ v.life = "run" /\ SameProcess(v, w) /\ v.sent # <<>> /\ x = Head(v.sent) /\ w.sent = Tail(v.sent)
      /\ w.queue = v.queue /\ w.last = v.last /\ v.last = ingress_id
      /\ w.done = v.done \cup {x} /\ w.later = v.later \cup {x} /\ v.later = Ys(p)
      /\ v.stored \subseteq w.stored /\ w.stored \subseteq v.stored \cup {x}
      /\ w.miss = v.miss /\ w.num_msgs = v.num_msgs
  <2>1. SameProcess(v, w) /\ w.queue = v.queue /\ w.last = v.last /\ w.miss = v.miss
    BY <1>1, <1>5, <1>6, <1>7, <1>8, SameView DEF SameProcess, x
  <2>2. w.num_msgs = v.num_msgs
    BY <1>1, <1>5, <1>6, <1>7, <1>8, SameView DEF x
  <2>3. v.thread = "none" /\ v.held = {} /\ v.life = "run" /\ v.sent # <<>>
    BY <1>1, <1>5, <1>6, <1>7, <1>8, ViewIs DEF x
  <2>4. x = Head(v.sent) /\ v.last = ingress_id /\ v.later = Ys(p)
    BY <1>1, <1>5, <1>6, <1>7, <1>8, ViewIs DEF x
  <2>5. w.thread = "none" /\ w.held = {}
    BY <1>1, <1>5, <1>6, <1>7, <1>8, ViewNext DEF x
  <2>6. w.sent = Tail(v.sent)
    BY <1>7, ViewIs, ViewNext
  <2>7. /\ w.done = v.done \cup {x} /\ w.later = v.later \cup {x}
        /\ v.stored \subseteq w.stored /\ w.stored \subseteq v.stored \cup {x}
    BY <1>5, ViewIs, ViewNext
  <2>8. QED
    BY <2>1, <2>2, <2>3, <2>4, <2>5, <2>6, <2>7
<1>10. /\ Due(p)' \subseteq Nat \ {0} /\ Covered(v, Due(p)')
       /\ (\A y \in Due(p)' : y \in v.done => y \in v.stored) \/ w.stored = v.stored
  <2>1. Took(p, x, "live")
    BY <1>1, <1>4, Processed
  <2>2. QED
    BY <2>1, DueBefore
<1> HIDE DEF v, w
<1>11. Ordered(w) /\ NextOne(v, w, x) /\ Before(v.later, {x})
  BY <1>0, <1>9, LiveOrder
<1>12. Covered(w, Due(p)')
  BY <1>0, <1>3, <1>9, <1>10, <1>11, NextCovered DEF Early
<1>13. RestartAt(p)'
  BY <1>0, <1>6, <1>8 DEF RestartAt
<1>14. IsHistory(applied[p]) /\ e.source = "live" /\ e.xid = x
  BY <1>0 DEF StoredAt
<1> HIDE DEF e
<1>15. TailAt(p)'
  BY <1>0, <1>2, <1>9, <1>11, <1>14, TailKept
<1>16. SibInv(p)'
  BY <1>5, <1>11, <1>12, <1>13, <1>15 DEF SibInv, w
<1>17. QED
  BY <1>1, <1>5, <1>6, <1>7, <1>16, ProcessedStep

\* A message of the queue is processed.
LEMMA QueuedStep == ASSUME IInv, OInv, NEW p \in Sibs, Queued(p) PROVE OInv'
<1> DEFINE v == View(p)
           w == View(p)'
           x == Head(th[p].keys)
           e == [xid |-> x, msg |-> script[x], taken |-> Takes(p, script[x]), source |-> "queue"]
<1>0. /\ DOMAIN th = Sibs /\ DOMAIN th[p] = Fields /\ DOMAIN miss = Sibs /\ DOMAIN applied = Sibs
      /\ Ordered(v) /\ Covered(v, Due(p)) /\ RestartAt(p) /\ StoredAt(p)
      /\ TailAt(p)
  BY Given DEF IInv, Shape, OInv, SibInv
<1>1. /\ life[p] = "run" /\ th[p].thread = "drain" /\ th[p].keys # <<>>
      /\ ospf6_receive(p, x, script[x], "queue")
      /\ th' = [th EXCEPT ![p].keys = Tail(@)]
      /\ UNCHANGED <<script, ingress_id, ctl, life, miss, toSib>>
  BY DEF Queued, Thread, ctlVars, ospfVars
<1>2. applied'[p] = Append(applied[p], e)
  BY <1>0, <1>1 DEF ospf6_receive
<1>3. v.thread = "drain" /\ v.keys = th[p].keys /\ v.last = ingress_id /\ v.life = "run"
  BY <1>1, ViewIs
<1>4. x \in 1 .. ingress_id
  <2>1. x \in Range(v.keys)
    BY <1>0, <1>1, <1>3, TakeFirst DEF Ordered
  <2>2. QED
    BY <1>0, <1>3, <2>1 DEF Ordered, Coming
<1> HIDE DEF x
<1>5. x \in DOMAIN script
  BY <1>4, KnownIds
<1>6. /\ Xs(p)' = Xs(p) \cup {x} /\ Ys(p)' = Ys(p) \cup {x}
      /\ \A q \in Sibs \ {p} : bucket'[q] = bucket[q] /\ applied'[q] = applied[q] /\ dropped'[q] = dropped[q]
      /\ DOMAIN dropped' = Sibs
      /\ DOMAIN bucket[p] \subseteq DOMAIN bucket'[p] /\ DOMAIN bucket'[p] \subseteq DOMAIN bucket[p] \cup {x}
      /\ KindsAt(p)'
  <2>1. Took(p, x, "queue")
    BY <1>1, <1>5, Processed
  <2>2. QED
    BY <2>1 DEF Took
<1>7. /\ \A q \in Sibs \ {p} : th'[q] = th[q]
      /\ th'[p].thread = th[p].thread /\ th'[p].keys = Tail(th[p].keys)
      /\ th'[p].num_msgs = th[p].num_msgs
      /\ th'[p].restart_msg_queue = th[p].restart_msg_queue /\ th'[p].leader = th[p].leader
      /\ th'[p].main = th[p].main /\ th'[p].msg = th[p].msg
      /\ th'[p].restart_mode = th[p].restart_mode /\ th'[p].restart_msg_q_mutex = th[p].restart_msg_q_mutex
  BY <1>0, <1>1, SMTT(20) DEF Fields, NewThreads
<1>8. Held(p)' = Held(p)
  BY <1>7 DEF Held
<1>9. /\ w.thread = v.thread /\ SameProcess(v, w) /\ x = Head(v.keys) /\ w.keys = Tail(v.keys)
      /\ w.sent = v.sent /\ w.held = v.held /\ w.queue = v.queue /\ w.last = v.last
      /\ w.done = v.done \cup {x} /\ w.later = v.later \cup {x} /\ v.later = Ys(p)
      /\ v.stored \subseteq w.stored /\ w.stored \subseteq v.stored \cup {x}
      /\ w.miss = v.miss /\ w.num_msgs = v.num_msgs /\ v.keys # <<>>
  <2>1. w.thread = v.thread /\ SameProcess(v, w) /\ w.sent = v.sent /\ w.held = v.held
    BY <1>1, <1>6, <1>7, <1>8, SameView DEF SameProcess, x
  <2>2. w.queue = v.queue /\ w.last = v.last /\ w.miss = v.miss /\ w.num_msgs = v.num_msgs
    BY <1>1, <1>6, <1>7, <1>8, SameView DEF x
  <2>3. x = Head(v.keys) /\ v.later = Ys(p) /\ v.keys # <<>>
    BY <1>1, <1>6, <1>7, <1>8, ViewIs DEF x
  <2>4. w.keys = Tail(v.keys)
    BY <1>7, ViewIs, ViewNext
  <2>5. /\ w.done = v.done \cup {x} /\ w.later = v.later \cup {x}
        /\ v.stored \subseteq w.stored /\ w.stored \subseteq v.stored \cup {x}
    BY <1>6, ViewIs, ViewNext
  <2>6. QED
    BY <2>1, <2>2, <2>3, <2>4, <2>5
<1>10. /\ Due(p)' \subseteq Nat \ {0} /\ Covered(v, Due(p)')
       /\ (\A y \in Due(p)' : y \in v.done => y \in v.stored) \/ w.stored = v.stored
  <2>1. Took(p, x, "queue")
    BY <1>1, <1>5, Processed
  <2>2. QED
    BY <2>1, DueBefore
<1> HIDE DEF v, w
<1>11. Ordered(w) /\ NextOne(v, w, x) /\ Before(v.later, {x})
  BY <1>0, <1>3, <1>9, TakenOrder
<1>12. Covered(w, Due(p)')
  BY <1>0, <1>3, <1>4, <1>9, <1>10, <1>11, NextCovered DEF Early
<1>13. RestartAt(p)'
  BY <1>0, <1>1, <1>7 DEF RestartAt
<1>14. IsHistory(applied[p]) /\ e.source = "queue" /\ e.xid = x
  BY <1>0 DEF StoredAt
<1> HIDE DEF e
<1>15. TailAt(p)'
  BY <1>0, <1>2, <1>9, <1>11, <1>14, TailKept
<1>16. SibInv(p)'
  BY <1>6, <1>11, <1>12, <1>13, <1>15 DEF SibInv, w
<1>17. DOMAIN toSib' = Sibs /\ \A q \in Sibs \ {p} : toSib'[q] = toSib[q]
  BY <1>1 DEF OInv
<1>18. QED
  BY <1>1, <1>6, <1>7, <1>16, <1>17, ProcessedStep


\* A message read back from a bucket.
LEMMA ReadStep ==
  ASSUME IInv, OInv, NEW p \in Sibs, NEW bid \in Sibs, NEW x \in DOMAIN bucket[bid],
         NEW source \in {"own", "leader"}, process_restarted_msg(p, bid, x, source), script' = script
  PROVE  /\ Took(p, x, source)
         /\ source = "own" \/ Before(Ys(p), {x}) => TailAt(p)'
         /\ th'[p].last_key = IF source = "own" THEN x ELSE th[p].last_key
<1> DEFINE msg == ospf6_db_get(bucket[bid], x)
           e == [xid |-> x, msg |-> msg, taken |-> Takes(p, msg), source |-> source]
<1>0. /\ DOMAIN th = Sibs /\ DOMAIN th[p] = Fields /\ DOMAIN applied = Sibs
      /\ StoredAt(p) /\ KindsAt(bid) /\ TailAt(p)
  BY Given DEF IInv, Shape, OInv, SibInv
<1>1. x \in DOMAIN script /\ bucket[bid][x].type = script[x].type
  BY <1>0 DEF KindsAt, Checkpoints
<1>2. ospf6_receive(p, x, msg, source)
  BY DEF process_restarted_msg
<1>3. th' = [th EXCEPT ![p].keys = Tail(@), ![p].last_key = IF source = "own" THEN x ELSE @]
  BY DEF process_restarted_msg
<1>4. msg.type = script[x].type
  BY <1>1 DEF ospf6_db_get, json_parse_header
<1>5. e.xid = x /\ e.source = source
  OBVIOUS
<1>6. applied'[p] = Append(applied[p], e)
  BY <1>0, <1>2 DEF ospf6_receive
<1> HIDE DEF e, msg
<1>7. th'[p].last_key = IF source = "own" THEN x ELSE th[p].last_key
  BY <1>0, <1>3, SMTT(20) DEF Fields, NewThreads
<1>8. Took(p, x, source)
  BY <1>1, <1>2, <1>4, Processed
<1>9. IsHistory(applied[p])
  BY <1>0 DEF StoredAt
<1>10. ASSUME source = "own" \/ Before(Ys(p), {x}) PROVE TailAt(p)'
  BY <1>0, <1>5, <1>6, <1>9, <1>10, TailKept
<1>11. QED
  BY <1>7, <1>8, <1>10

\* The rest of the thread's record.
LEMMA ReadFrame ==
  ASSUME IInv, NEW p \in Sibs, NEW bid, NEW x, NEW source, process_restarted_msg(p, bid, x, source)
  PROVE  /\ \A q \in Sibs \ {p} : th'[q] = th[q]
         /\ th'[p].thread = th[p].thread /\ th'[p].keys = Tail(th[p].keys)
         /\ th'[p].main = th[p].main /\ th'[p].msg = th[p].msg
         /\ th'[p].num_msgs = th[p].num_msgs /\ th'[p].first_xid = th[p].first_xid
         /\ th'[p].restart_msg_queue = th[p].restart_msg_queue /\ th'[p].leader = th[p].leader
         /\ th'[p].leader_id = th[p].leader_id /\ th'[p].restart_mode = th[p].restart_mode
         /\ th'[p].restart_msg_q_mutex = th[p].restart_msg_q_mutex
<1>1. th' = [th EXCEPT ![p].keys = Tail(@), ![p].last_key = IF source = "own" THEN x ELSE @]
  BY DEF process_restarted_msg
<1>2. DOMAIN th = Sibs /\ DOMAIN th[p] = Fields
  BY DEF IInv, Shape, ThreadsAt
<1>3. QED
  BY <1>1, <1>2, SMTT(20) DEF Fields, NewThreads

\* A message of the own bucket is processed.
LEMMA OwnKeyStep == ASSUME IInv, OInv, NEW p \in Sibs, OwnKey(p) PROVE OInv'
<1> DEFINE v == View(p)
           w == View(p)'
           x == Head(th[p].keys)
<1>0. /\ Ordered(v) /\ Covered(v, Due(p)) /\ RestartAt(p) /\ ThreadsAt(p)
  BY Given
<1>1. /\ life[p] = "run" /\ th[p].thread = "own" /\ th[p].keys # <<>> /\ x # CURRENT_XID
      /\ process_restarted_msg(p, p, x, "own")
      /\ UNCHANGED <<script, ingress_id, ctl, life, miss, toSib>>
  BY DEF OwnKey, Thread, ctlVars, ospfVars
<1>2. th[p].keys \in Seq({CURRENT_XID} \cup DOMAIN bucket[p])
  BY <1>0, <1>1 DEF ThreadsAt
<1>3. x \in DOMAIN bucket[p] /\ Range(th[p].keys) = Range(Tail(th[p].keys)) \cup {x}
  BY <1>1, <1>2, SeqTail, OneLess
<1> HIDE DEF x
<1>4. /\ Xs(p)' = Xs(p) \cup {x} /\ Ys(p)' = Ys(p)
      /\ \A q \in Sibs \ {p} : bucket'[q] = bucket[q] /\ applied'[q] = applied[q] /\ dropped'[q] = dropped[q]
      /\ DOMAIN dropped' = Sibs
      /\ DOMAIN bucket'[p] = DOMAIN bucket[p]
      /\ KindsAt(p)' /\ TailAt(p)' /\ Covered(v, Due(p)')
      /\ th'[p].last_key = x
  <2>1. /\ Took(p, x, "own") /\ TailAt(p)'
        /\ th'[p].last_key = x
    BY <1>1, <1>3, ReadStep
  <2>2. QED
    BY <1>3, <2>1, DueBefore DEF Took
<1>5. /\ \A q \in Sibs \ {p} : th'[q] = th[q]
      /\ th'[p].thread = th[p].thread /\ th'[p].keys = Tail(th[p].keys)
      /\ th'[p].main = th[p].main /\ th'[p].msg = th[p].msg
      /\ th'[p].restart_msg_queue = th[p].restart_msg_queue /\ th'[p].leader = th[p].leader
      /\ th'[p].leader_id = th[p].leader_id /\ th'[p].restart_mode = th[p].restart_mode
      /\ th'[p].restart_msg_q_mutex = th[p].restart_msg_q_mutex
  BY <1>1, ReadFrame
<1>6. Held(p)' = Held(p)
  BY <1>5 DEF Held
<1>7. /\ w.sent = v.sent /\ w.held = v.held /\ w.queue = v.queue /\ w.later = v.later
      /\ w.stored = v.stored /\ w.last = v.last
  BY <1>1, <1>4, <1>5, <1>6, SameView
<1>8. /\ w.life = v.life /\ w.routing = v.routing /\ w.miss = v.miss
      /\ v.thread = "own" /\ w.thread = "own" /\ w.done = v.done \cup {x} /\ w.last_key = x
  <2>1. w.life = v.life /\ w.routing = v.routing /\ w.miss = v.miss /\ w.thread = v.thread
    BY <1>1, <1>5, SameView
  <2>2. v.thread = "own"
    BY <1>1, ViewIs
  <2>3. w.last_key = x
    BY <1>4, ViewNext
  <2>4. w.done = v.done \cup {x}
    BY <1>4, ViewIs, ViewNext
  <2>5. QED
    BY <2>1, <2>2, <2>3, <2>4
<1>9. x \in v.stored /\ Range(v.keys) = Range(w.keys) \cup {x}
  BY <1>3, <1>5, ViewIs, ViewNext
<1> HIDE DEF v, w
<1>10. SameIds(v, w) /\ SameProcess(v, w) /\ v.thread \in Early /\ w.thread \in Early
  BY <1>7, <1>8 DEF SameIds, SameProcess, Early
<1>11. Ordered(w)
  <2>1. v.done \subseteq w.done /\ w.done \subseteq v.done \cup v.stored
    BY <1>8, <1>9
  <2>2. QED
    BY <1>0, <1>10, <2>1, EarlyOrder
<1>12. Covered(w, Due(p)')
  <2>1. Replayed(v) => Replayed(w)
    BY <1>7, <1>8, <1>9 DEF Replayed
  <2>2. Asking(w)
    BY <1>8 DEF Asking
  <2>3. QED
    BY <1>4, <1>7, <1>8, <1>10, <2>1, <2>2, EarlyCovered
<1>13. RestartAt(p)'
  BY <1>0, <1>1, <1>5 DEF RestartAt
<1>14. SibInv(p)'
  BY <1>4, <1>11, <1>12, <1>13 DEF SibInv, w
<1>15. DOMAIN toSib' = Sibs /\ \A q \in Sibs \ {p} : toSib'[q] = toSib[q]
  BY <1>1 DEF OInv
<1>16. QED
  BY <1>1, <1>4, <1>5, <1>14, <1>15, ProcessedStep

\* A message of the leader's bucket is processed.
LEMMA LeaderKeyStep == ASSUME IInv, OInv, NEW p \in Sibs, LeaderKey(p) PROVE OInv'
<1> DEFINE v == View(p)
           w == View(p)'
           x == Head(th[p].keys)
           bid == th[p].leader_id
<1>0. /\ Ordered(v) /\ Covered(v, Due(p)) /\ RestartAt(p)
  BY Given
<1>1. /\ life[p] = "run" /\ th[p].thread = "range" /\ th[p].keys # <<>>
      /\ process_restarted_msg(p, bid, x, "leader")
      /\ UNCHANGED <<script, ingress_id, ctl, life, miss, toSib>>
  BY DEF LeaderKey, Thread, ctlVars, ospfVars
<1>2. v.thread = "range" /\ v.keys = th[p].keys /\ v.last = ingress_id /\ v.life = "run"
  BY <1>1, ViewIs
<1>3. /\ Increasing(th[p].keys) /\ x \in Range(th[p].keys)
      /\ Range(th[p].keys) = Range(Tail(th[p].keys)) \cup {x}
  <2>1. Increasing(th[p].keys)
    BY <1>0, <1>2 DEF Ordered
  <2>2. QED
    BY <1>1, <2>1, TakeFirst
<1>4. bid \in Sibs /\ Range(th[p].keys) \subseteq DOMAIN bucket[bid]
  BY <1>0, <1>1 DEF RestartAt
<1>5. x \in DOMAIN bucket[bid] /\ x \in 1 .. ingress_id
  <2>1. Coming(v) = Range(th[p].keys)
    BY <1>2 DEF Coming
  <2>2. QED
    BY <1>0, <1>2, <1>3, <1>4, <2>1 DEF Ordered
<1> HIDE DEF x, bid
<1>6. /\ Xs(p)' = Xs(p) \cup {x} /\ Ys(p)' = Ys(p) \cup {x}
      /\ \A q \in Sibs \ {p} : bucket'[q] = bucket[q] /\ applied'[q] = applied[q] /\ dropped'[q] = dropped[q]
      /\ DOMAIN dropped' = Sibs
      /\ DOMAIN bucket[p] \subseteq DOMAIN bucket'[p] /\ DOMAIN bucket'[p] \subseteq DOMAIN bucket[p] \cup {x}
      /\ KindsAt(p)' /\ (Before(Ys(p), {x}) => TailAt(p)')
  <2>1. /\ Took(p, x, "leader") /\ (Before(Ys(p), {x}) => TailAt(p)')
    BY <1>1, <1>4, <1>5, ReadStep
  <2>2. QED
    BY <2>1 DEF Took
<1>7. /\ \A q \in Sibs \ {p} : th'[q] = th[q]
      /\ th'[p].thread = th[p].thread /\ th'[p].keys = Tail(th[p].keys)
      /\ th'[p].main = th[p].main /\ th'[p].msg = th[p].msg /\ th'[p].num_msgs = th[p].num_msgs
      /\ th'[p].restart_msg_queue = th[p].restart_msg_queue /\ th'[p].leader = th[p].leader
      /\ th'[p].leader_id = th[p].leader_id /\ th'[p].restart_mode = th[p].restart_mode
      /\ th'[p].restart_msg_q_mutex = th[p].restart_msg_q_mutex
  BY <1>1, ReadFrame
<1>8. Held(p)' = Held(p)
  BY <1>7 DEF Held
<1>9. /\ w.thread = v.thread /\ SameProcess(v, w) /\ x = Head(v.keys) /\ w.keys = Tail(v.keys)
      /\ w.sent = v.sent /\ w.held = v.held /\ w.queue = v.queue /\ w.last = v.last /\ v.keys # <<>>
  <2>1. w.thread = v.thread /\ SameProcess(v, w) /\ w.sent = v.sent /\ w.held = v.held
    BY <1>1, <1>7, <1>8, SameView DEF SameProcess
  <2>2. w.queue = v.queue /\ w.last = v.last
    BY <1>1, <1>7, SameView
  <2>3. x = Head(v.keys) /\ v.keys # <<>> /\ w.keys = Tail(v.keys)
    BY <1>1, <1>7, ViewIs, ViewNext DEF x
  <2>4. QED
    BY <2>1, <2>2, <2>3
<1>10. /\ w.done = v.done \cup {x} /\ w.later = v.later \cup {x} /\ v.later = Ys(p)
       /\ v.stored \subseteq w.stored /\ w.stored \subseteq v.stored \cup {x}
       /\ w.miss = v.miss /\ w.num_msgs = v.num_msgs
  <2>1. w.miss = v.miss /\ w.num_msgs = v.num_msgs
    BY <1>1, <1>7, SameView
  <2>2. w.done = v.done \cup {x} /\ w.later = v.later \cup {x} /\ v.later = Ys(p)
    BY <1>6, ViewIs, ViewNext
  <2>3. v.stored \subseteq w.stored /\ w.stored \subseteq v.stored \cup {x}
    BY <1>6, ViewIs, ViewNext
  <2>4. QED
    BY <2>1, <2>2, <2>3
<1>11. /\ Due(p)' \subseteq Nat \ {0} /\ Covered(v, Due(p)')
       /\ (\A y \in Due(p)' : y \in v.done => y \in v.stored) \/ w.stored = v.stored
  <2>1. Took(p, x, "leader")
    BY <1>1, <1>4, <1>5, ReadStep
  <2>2. QED
    BY <2>1, DueBefore
<1> HIDE DEF v, w
<1>12. Ordered(w) /\ NextOne(v, w, x) /\ Before(v.later, {x})
  BY <1>0, <1>2, <1>9, <1>10, TakenOrder
<1>13. Covered(w, Due(p)')
  BY <1>0, <1>2, <1>5, <1>9, <1>10, <1>11, <1>12, NextCovered DEF Early
<1>14. RestartAt(p)'
  <2>1. DOMAIN bucket[bid] \subseteq DOMAIN bucket'[bid]
    BY <1>4, <1>6
  <2>2. Range(th'[p].keys) \subseteq DOMAIN bucket'[bid] /\ th'[p].leader_id = bid
    BY <1>3, <1>4, <1>7, <2>1 DEF bid
  <2>3. QED
    BY <1>0, <1>1, <1>4, <1>7, <2>2 DEF RestartAt
<1>16. SibInv(p)'
  BY <1>6, <1>10, <1>12, <1>13, <1>14 DEF SibInv, w
<1>17. DOMAIN toSib' = Sibs /\ \A q \in Sibs \ {p} : toSib'[q] = toSib[q]
  BY <1>1 DEF OInv
<1>18. QED
  BY <1>1, <1>6, <1>7, <1>16, <1>17, ProcessedStep

-----------------------------------------------------------------------------
\* The processes start with nothing to recover.
LEMMA InitOrder == Init => OInv
<1> SUFFICES ASSUME Init PROVE OInv
  OBVIOUS
<1> USE DEF Init
<1>1. script \in Scripts /\ ingress_id \in 0 .. Len(script)
  <2>1. Len(script) \in Nat
    BY RestartAssumption, SMTT(20)
  <2>2. QED
    BY <2>1, SMTT(20)
<1>2. DOMAIN toSib = Sibs /\ DOMAIN life = Sibs /\ DOMAIN miss = Sibs /\ DOMAIN dropped = Sibs
  OBVIOUS
<1>3. ASSUME NEW p \in Sibs PROVE SibInv(p)
  <2> DEFINE v == View(p)
  <2>1. applied[p] = <<>> /\ DOMAIN applied[p] = {} /\ DOMAIN bucket[p] = {}
    BY SMTT(20) DEF EmptyBucket
  <2>2. /\ th[p].thread = "none" /\ th[p].restart_mode = FALSE /\ th[p].main = "fetch"
        /\ th[p].restart_msg_q_mutex = FALSE /\ th[p].restart_msg_queue = <<>> /\ th[p].leader = NoId
    BY DEF NewThreads
  <2>3. Xs(p) = {} /\ Ys(p) = {} /\ Held(p) = {}
    BY <2>1, <2>2 DEF Xs, Ys, Held
  <2>4. /\ v.sent = <<>> /\ v.held = {} /\ v.queue = <<>> /\ v.thread = "none" /\ v.done = {} /\ v.later = {}
        /\ v.stored = {} /\ v.life = "run" /\ v.routing = TRUE /\ v.last = 0
    BY <2>1, <2>2, <2>3, ViewIs
  <2> HIDE DEF v
  <2>5. Increasing(v.sent) /\ Increasing(v.queue) /\ Range(v.sent) = {} /\ Range(v.queue) = {}
    BY <2>4, NoneLeft
  <2>6. Coming(v) = {} /\ Upcoming(v) = {} /\ v.thread \notin Early
    BY <2>4, <2>5 DEF Coming, Upcoming, Early
  <2>7. Flow(v)
    BY <2>6 DEF Flow, Before
  <2>8. Ordered(v)
    <3>1. v.last \in Nat
      BY <2>4, SMTT(20)
    <3>2. QED
      BY <2>4, <2>5, <2>6, <2>7, <3>1 DEF Ordered, Before
  <2>9. Covered(v, Due(p))
    <3>1. \A x \in Due(p) : ~(x <= 0)
      <4>1. script \in Seq(Messages)
        BY RestartAssumption
      <4>2. \A x \in Checkpoints : ~(x <= 0)
        BY <4>1, SMTT(20) DEF Checkpoints
      <4>3. QED
        BY <4>2 DEF Due
    <3>2. Complete(v, Due(p)) /\ Replayed(v) /\ Asking(v) /\ Remaining(v, Due(p))
      BY <2>4, <3>1 DEF Complete, Replayed, Asking, Remaining
    <3>3. QED
      BY <3>2 DEF Covered
  <2>10. RestartAt(p)
    BY <2>2 DEF RestartAt
  <2>11. KindsAt(p) /\ TailAt(p)
    BY <2>1 DEF KindsAt, TailAt
  <2>12. QED
    BY <2>8, <2>9, <2>10, <2>11 DEF SibInv, v
<1>4. QED
  BY <1>1, <1>2, <1>3 DEF OInv

\* Every step keeps OInv.
LEMMA NextOrder == IInv /\ OInv /\ [Next]_vars => OInv'
<1> SUFFICES ASSUME IInv, OInv, [Next]_vars PROVE OInv'
  OBVIOUS
<1>1. CASE UNCHANGED vars
  <2>1. UNCHANGED <<script, ingress_id, bucket, life, toSib, ctl, th, applied, dropped, miss>>
    BY <1>1 DEF vars
  <2>2. ASSUME NEW q \in Sibs PROVE SibInv(q)'
    <3>1. SibInv(q) /\ SameSib(q)
      BY <2>1 DEF OInv, SameSib
    <3>2. QED
      BY <2>1, <3>1, OtherSib
  <2>3. QED
    BY <2>1, <2>2 DEF OInv
<1>2. CASE Next
  <2>1. \/ Forward
        \/ \E p \in Sibs : \/ CtrlAck(p) \/ CtrlClose(p) \/ CtrlRouting(p) \/ Crash(p) \/ NoLeader(p)
        \/ \E p \in Sibs : Restart(p)
        \/ \E p \in Sibs : \/ SendAck(p) \/ ElectionComplete(p) \/ FirstHello(p)
                           \/ (\E q \in Sibs : LeaderId(p, q)) \/ \E id \in Numbers : Inactivity(p, id)
        \/ \E p \in Sibs : InRestartMode(p) \/ Push(p) \/ Receive(p)
        \/ \E p \in Sibs : ListKeys(p) \/ SkipCurrentXid(p) \/ OwnKey(p) \/ ReadyToCheckpoint(p) \/ FirstXid(p)
        \/ \E p \in Sibs : LeaderKeys(p) \/ LeaderKey(p) \/ LockQueue(p) \/ Queued(p)
        \/ \E p \in Sibs : UnlockQueue(p) \/ Flip(p)
    BY <1>2 DEF Next, Main, ospf6_restart_start
  <2>2. ASSUME Forward PROVE OInv'
    BY <2>2, ForwardStep
  <2>3. ASSUME NEW p \in Sibs, CtrlAck(p) \/ CtrlClose(p) \/ CtrlRouting(p) \/ Crash(p) \/ NoLeader(p)
        PROVE  OInv'
    BY <2>3, ConnectionStep
  <2>4. ASSUME NEW p \in Sibs, Restart(p) PROVE OInv'
    BY <2>4, RestartStep
  <2>5. ASSUME NEW p \in Sibs,
               \/ SendAck(p) \/ ElectionComplete(p) \/ FirstHello(p) \/ (\E q \in Sibs : LeaderId(p, q))
               \/ \E id \in Numbers : Inactivity(p, id)
        PROVE  OInv'
    BY <2>5, EventStep
  <2>6. ASSUME NEW p \in Sibs, InRestartMode(p) \/ Push(p) \/ Receive(p) PROVE OInv'
    BY <2>6, HoldStep, PushStep, ReceiveLive
  <2>7. ASSUME NEW p \in Sibs,
               ListKeys(p) \/ SkipCurrentXid(p) \/ OwnKey(p) \/ ReadyToCheckpoint(p) \/ FirstXid(p)
        PROVE  OInv'
    BY <2>7, ListKeysStep, SkipStep, OwnKeyStep, ReadyStep, FirstXidStep
  <2>8. ASSUME NEW p \in Sibs, LeaderKeys(p) \/ LeaderKey(p) \/ LockQueue(p) \/ Queued(p) PROVE OInv'
    BY <2>8, LeaderKeysStep, LeaderKeyStep, LockStep, QueuedStep
  <2>9. ASSUME NEW p \in Sibs, UnlockQueue(p) \/ Flip(p) PROVE OInv'
    BY <2>9, SettleStep
  <2>10. QED
    BY <2>1, <2>2, <2>3, <2>4, <2>5, <2>6, <2>7, <2>8, <2>9
<1>3. QED
  BY <1>1, <1>2

\* The order of the ids at every sibling holds throughout.
LEMMA OrderHolds == Spec => [](IInv /\ OInv)
<1>1. Init => IInv /\ OInv
  BY InitInv, InitOrder
<1>2. IInv /\ OInv /\ [Next]_vars => (IInv /\ OInv)'
  BY NextInv, NextOrder
<1>3. QED
  BY <1>1, <1>2, PTL DEF Spec

\* What a sibling processes after its own messages it processes in the order of their
\* ids and once: db_range_keys asks the leader for what is before the first message
\* queued, and the main thread of sibling_ctrl.c queues what comes until restart_mode
\* is cleared.
THEOREM TailAlwaysInOrder == Spec => []TailInOrder
<1>1. OInv => TailInOrder
  BY DEF OInv, SibInv, TailAt, TailInOrder
<1>2. QED
  BY <1>1, OrderHolds, PTL

\* A sibling that is out of restart mode and that no message has passed by has
\* processed every Hello and DbDesc up to the last one it processed, but those it has
\* refused in this or an earlier life of its process: its own bucket, what
\* ospf6_restart.c asks of the leader, and the queue leave no gap.
THEOREM AlwaysCaughtUp == Spec => []CaughtUp
<1>1. ASSUME IInv, OInv PROVE CaughtUp
  <2>1. SUFFICES ASSUME NEW p \in Sibs, life[p] = "run", ~th[p].restart_mode, miss[p] = {},
                        NEW i \in DOMAIN applied[p], NEW x \in 1 .. applied[p][i].xid, checkpointed(script[x]),
                        x \notin dropped[p]
                 PROVE  \E j \in DOMAIN applied[p] : applied[p][j].xid = x
    BY DEF CaughtUp
  <2> DEFINE v == View(p)
  <2>2. Ordered(v) /\ Covered(v, Due(p)) /\ RestartAt(p)
    BY <1>1, Given
  <2>3. th[p].thread = "none"
    BY <2>1, <2>2 DEF RestartAt
  <2>4. v.life = "run" /\ v.thread = "none" /\ v.miss = {} /\ v.done = Xs(p) /\ v.last = ingress_id
    BY <2>1, <2>3, ViewIs
  <2>5. applied[p][i].xid \in v.done
    BY <2>4 DEF Xs
  <2> HIDE DEF v
  <2> DEFINE y == applied[p][i].xid
  <2>6. Flow(v) /\ v.done \subseteq 1 .. v.last /\ v.last \in Nat /\ Remaining(v, Due(p))
    BY <2>2, <2>4 DEF Ordered, Covered
  <2>7. y \in 1 .. v.last
    BY <2>5, <2>6
  <2> HIDE DEF y
  <2>8. x \in 1 .. y
    BY <2>1 DEF y
  <2>9. x <= v.last /\ x \in 1 .. v.last /\ x <= y /\ y \in Int /\ x \in Int
    BY <2>6, <2>7, <2>8, SMTT(20)
  <2>10. x \in Due(p)
    <3>1. x \in DOMAIN script
      BY <1>1, <2>4, <2>9, KnownIds
    <3>2. QED
      BY <2>1, <3>1 DEF Checkpoints, Due
  <2>11. Coming(v) = {} /\ v.thread \notin Early
    BY <2>4 DEF Coming, Early
  <2>12. x \in v.done \cup Upcoming(v)
    BY <2>4, <2>6, <2>9, <2>10, <2>11 DEF Remaining
  <2>13. x \notin Upcoming(v)
    <3>1. y \in v.done
      BY <2>5 DEF y
    <3>2. x \in Upcoming(v) => y < x
      BY <2>6, <3>1 DEF Flow, Before
    <3>3. QED
      BY <2>9, <3>2, SMTT(20)
  <2>14. x \in Xs(p)
    BY <2>4, <2>12, <2>13
  <2>15. QED
    BY <2>14 DEF Xs
<1>2. QED
  BY <1>1, OrderHolds, PTL
=============================================================================
