-------------------------- MODULE RouterConnProofs --------------------------
(***************************************************************************)
(* Proofs about the RFP connection of the controller and a zebralite:      *)
(* a router's state says which replies have been processed, its read is    *)
(* always registered, and no end drops a connection without a cause, for   *)
(* every socket buffer, every number of messages and every way the kernel  *)
(* splits reads and writes.                                                *)
(***************************************************************************)
EXTENDS RouterConn, TLAPS, SequenceTheorems

USE ZenonT(20)

-----------------------------------------------------------------------------
(* The states of a connection.                                               *)

UnitSet == [m : Messages, i : 1 .. HDR + PAYLOAD]

RcStates == {"VOID", "CONNECTING", "ACTIVE", "DEAD"}

VcStates == {"NULL", "SEND_HELLO", "RECV_HELLO", "CONNECTED", "DISCONNECTED"}

EpSet == [rc : RcStates, vc : VcStates, rx : Seq(UnitSet), open : BOOLEAN]

Conns == [ep   : [Ends -> EpSet],
          wire : [Ends -> Seq(UnitSet)],
          last : [Ends -> Messages \cup {Nothing}],
          cut  : [Ends -> Int],
          full : [Ends -> BOOLEAN]]

\* What has been sent to e and not taken by it yet.
Pending(c, e) == c.ep[e].rx \o c.wire[e]

\* The units of whole messages, one after the other.
WellFramed(u) ==
  /\ \A j \in 1 .. Len(u) : u[j].i <= LEN(u[j].m)
  /\ Len(u) > 0 => u[1].i = 1 /\ u[Len(u)].i = LEN(u[Len(u)].m)
  /\ \A j \in 1 .. Len(u) - 1 :
       u[j + 1] = IF u[j].i < LEN(u[j].m) THEN [m |-> u[j].m, i |-> u[j].i + 1]
                  ELSE [m |-> u[j + 1].m, i |-> 1]

\* A receive buffer kept between two calls is not yet a message.
Partial(rx) == Len(rx) >= HDR => Len(rx) < LEN(rx[1].m)

\* Why an end may drop the connection.
Cause(c, e) == ~c.ep[Peer(e)].open \/ c.cut[e] # NoCut

FramedOK(c, e) == Cause(c, e) \/ (WellFramed(Pending(c, e)) /\ Partial(c.ep[e].rx))

-----------------------------------------------------------------------------
\* A connection has two ends.
LEMMA PeerPeer ==
  \A e \in Ends : Peer(e) \in Ends /\ Peer(e) # e /\ Peer(Peer(e)) = e
  /\ \A f \in Ends : f = e \/ f = Peer(e)
BY DEF Ends, Peer

\* A message is a header, with a payload or without.
LEMMA Lengths ==
  \A m \in Messages : /\ LEN(m) \in {2, 4} /\ Units(m) \in Seq(UnitSet) /\ Len(Units(m)) = LEN(m)
                      /\ \A j \in 1 .. LEN(m) : Units(m)[j] = [m |-> m, i |-> j]
<1> SUFFICES ASSUME NEW m \in Messages
             PROVE  /\ LEN(m) \in {2, 4} /\ Units(m) \in Seq(UnitSet) /\ Len(Units(m)) = LEN(m)
                    /\ \A j \in 1 .. LEN(m) : Units(m)[j] = [m |-> m, i |-> j]
  OBVIOUS
<1>1. LEN(m) \in {2, 4}
  BY SMTT(20) DEF LEN, HDR, PAYLOAD
<1>2. Units(m) \in [1 .. LEN(m) -> UnitSet]
  BY <1>1, SMTT(20) DEF Units, UnitSet, HDR, PAYLOAD
<1>3. Units(m) \in Seq(UnitSet)
  BY <1>1, <1>2, IsASeq, SMTT(20)
<1>4. Len(Units(m)) = LEN(m)
  BY <1>1, <1>2, <1>3, LenProperties, SMTT(20)
<1>5. QED
  BY <1>1, <1>3, <1>4 DEF Units

\* Moving the front of the wire to the buffer leaves the units in their order.
LEMMA Moved ==
  ASSUME NEW x \in Seq(UnitSet), NEW w \in Seq(UnitSet), NEW k \in 0 .. Len(w)
  PROVE  /\ SubSeq(w, 1, k) \in Seq(UnitSet) /\ Len(SubSeq(w, 1, k)) = k
         /\ x \o SubSeq(w, 1, k) \in Seq(UnitSet) /\ Len(x \o SubSeq(w, 1, k)) = Len(x) + k
         /\ SubSeq(w, k + 1, Len(w)) \in Seq(UnitSet) /\ Len(SubSeq(w, k + 1, Len(w))) = Len(w) - k
         /\ (x \o SubSeq(w, 1, k)) \o SubSeq(w, k + 1, Len(w)) = x \o w
<1> DEFINE a == SubSeq(w, 1, k)
           b == SubSeq(w, k + 1, Len(w))
<1>1. Len(w) \in Nat /\ Len(x) \in Nat /\ k \in Nat /\ k <= Len(w)
  BY SMTT(20)
<1>2. a \in Seq(UnitSet) /\ Len(a) = k
  BY <1>1, SubSeqProperties, SMTT(20)
<1>3. b \in Seq(UnitSet) /\ Len(b) = Len(w) - k
  BY <1>1, SubSeqProperties, SMTT(20)
<1>4. a \o b = w
  <2>1. 1 \in 1 .. Len(w) + 1 /\ k \in (1 - 1) .. Len(w) /\ Len(w) \in k .. Len(w)
    BY <1>1, SMTT(20)
  <2>2. a \o b = SubSeq(w, 1, Len(w))
    BY <2>1, ConcatAdjacentSubSeq, Zenon
  <2>3. QED
    BY <2>2, SubSeqFull, Zenon
<1> HIDE DEF a, b
<1>5. x \o a \in Seq(UnitSet) /\ Len(x \o a) = Len(x) + k
  BY <1>1, <1>2, ConcatProperties
<1>6. (x \o a) \o b = x \o w
  <2>1. ASSUME NEW y \in Seq(UnitSet), NEW z \in Seq(UnitSet)
        PROVE  (x \o y) \o z = x \o (y \o z)
    BY ConcatAssociative, SMTT(20)
  <2>2. (x \o a) \o b = x \o (a \o b)
    BY <1>2, <1>3, <2>1
  <2>3. QED
    BY <1>4, <2>2, Zenon
<1>7. QED
  BY <1>1, <1>2, <1>3, <1>5, <1>6 DEF a, b

\* Concatenation is associative.
LEMMA Assoc ==
  ASSUME NEW S, NEW x \in Seq(S), NEW y \in Seq(S), NEW z \in Seq(S)
  PROVE  (x \o y) \o z = x \o (y \o z)
BY ConcatAssociative, SMTT(20)

\* A whole message sent after whole messages.
LEMMA FrameAppend ==
  ASSUME NEW u \in Seq(UnitSet), WellFramed(u), NEW m \in Messages
  PROVE  /\ u \o Units(m) \in Seq(UnitSet) /\ Len(u \o Units(m)) = Len(u) + LEN(m)
         /\ WellFramed(u \o Units(m))
         /\ (u \o Units(m))[1] = IF u = <<>> THEN [m |-> m, i |-> 1] ELSE u[1]
<1> DEFINE v == u \o Units(m)
           n == LEN(m)
<1>1. /\ n \in {2, 4} /\ Units(m) \in Seq(UnitSet) /\ Len(Units(m)) = n
      /\ \A j \in 1 .. n : Units(m)[j] = [m |-> m, i |-> j]
  BY Lengths
<1>2. Len(u) \in Nat /\ \A j \in 1 .. Len(u) : u[j] \in UnitSet
  BY ElementOfSeq, SMTT(20)
<1>3. /\ v \in Seq(UnitSet) /\ Len(v) = Len(u) + n
      /\ \A j \in 1 .. Len(u) + n : v[j] = IF j <= Len(u) THEN u[j] ELSE Units(m)[j - Len(u)]
  BY <1>1, ConcatProperties, SMTT(20)
<1>4. \A j \in 1 .. Len(u) : v[j] = u[j]
  BY <1>1, <1>2, <1>3, SMTT(20)
<1>5. ASSUME NEW j \in 1 .. n PROVE v[Len(u) + j] = [m |-> m, i |-> j]
  BY <1>1, <1>2, <1>3, SMTT(20)
<1> HIDE DEF v
<1>6. ASSUME NEW j \in 1 .. Len(v)
      PROVE  \/ j \in 1 .. Len(u) /\ v[j] = u[j]
             \/ j - Len(u) \in 1 .. n /\ v[j] = [m |-> m, i |-> j - Len(u)]
  <2>1. CASE j <= Len(u)
    BY <1>2, <1>4, <2>1, SMTT(20)
  <2>2. CASE j > Len(u)
    <3>1. j - Len(u) \in 1 .. n /\ Len(u) + (j - Len(u)) = j
      BY <1>1, <1>2, <1>3, <2>2, SMTT(20)
    <3>2. QED
      BY <1>5, <3>1
  <2>3. QED
    BY <1>2, <2>1, <2>2, SMTT(20)
<1>7. v[1] = IF u = <<>> THEN [m |-> m, i |-> 1] ELSE u[1]
  <2>1. CASE u = <<>>
    BY <1>1, <1>5, <2>1, SMTT(20)
  <2>2. CASE u # <<>>
    <3>1. 1 \in 1 .. Len(u)
      BY <1>2, <2>2, EmptySeq, SMTT(20)
    <3>2. QED
      BY <1>4, <2>2, <3>1
  <2>3. QED
    BY <2>1, <2>2
<1>8. ASSUME NEW j \in 1 .. Len(v) PROVE v[j].i <= LEN(v[j].m)
  <2>1. CASE j \in 1 .. Len(u) /\ v[j] = u[j]
    BY <2>1 DEF WellFramed
  <2>2. CASE j - Len(u) \in 1 .. n /\ v[j] = [m |-> m, i |-> j - Len(u)]
    BY <1>1, <2>2, SMTT(20)
  <2>3. QED
    BY <1>6, <2>1, <2>2
<1>9. v[1].i = 1 /\ v[Len(v)].i = LEN(v[Len(v)].m)
  <2>1. v[Len(v)] = [m |-> m, i |-> n]
    BY <1>1, <1>3, <1>5, SMTT(20)
  <2>2. v[1].i = 1
    <3>1. CASE u = <<>>
      BY <1>7, <3>1, SMTT(20)
    <3>2. CASE u # <<>>
      BY <1>2, <1>7, <3>2, EmptySeq, SMTT(20) DEF WellFramed
    <3>3. QED
      BY <3>1, <3>2
  <2>3. QED
    BY <2>1, <2>2, SMTT(20)
<1>10. ASSUME NEW j \in 1 .. Len(v) - 1
       PROVE  v[j + 1] = IF v[j].i < LEN(v[j].m) THEN [m |-> v[j].m, i |-> v[j].i + 1]
                         ELSE [m |-> v[j + 1].m, i |-> 1]
  <2>1. CASE j < Len(u)
    <3>1. j \in 1 .. Len(u) - 1 /\ j \in 1 .. Len(u) /\ j + 1 \in 1 .. Len(u)
      BY <1>2, <2>1, SMTT(20)
    <3>2. QED
      BY <1>4, <3>1 DEF WellFramed
  <2>2. CASE j = Len(u)
    <3>1. Len(u) > 0 /\ j \in 1 .. Len(u) /\ 1 \in 1 .. n
      BY <1>1, <1>2, <2>2, SMTT(20)
    <3>2. v[j].i = LEN(v[j].m)
      BY <1>4, <2>2, <3>1 DEF WellFramed
    <3>3. v[j + 1] = [m |-> m, i |-> 1]
      BY <1>5, <2>2, <3>1
    <3>4. v[j] \in UnitSet
      BY <1>2, <1>4, <3>1
    <3>5. QED
      BY <3>2, <3>3, <3>4, SMTT(20) DEF UnitSet
  <2>3. CASE j > Len(u)
    <3>1. j - Len(u) \in 1 .. n - 1 /\ j - Len(u) \in 1 .. n /\ (j - Len(u)) + 1 \in 1 .. n
      BY <1>1, <1>2, <1>3, <2>3, SMTT(20)
    <3>2. Len(u) + (j - Len(u)) = j /\ Len(u) + ((j - Len(u)) + 1) = j + 1
      BY <1>1, <1>2, SMTT(20)
    <3>3. v[j] = [m |-> m, i |-> j - Len(u)] /\ v[j + 1] = [m |-> m, i |-> (j - Len(u)) + 1]
      BY <1>5, <3>1, <3>2
    <3>4. QED
      BY <1>1, <3>1, <3>3, SMTT(20)
  <2>4. QED
    BY <1>2, <2>1, <2>2, <2>3, SMTT(20)
<1>11. WellFramed(v)
  BY <1>8, <1>9, <1>10 DEF WellFramed
<1>12. QED
  BY <1>3, <1>7, <1>11 DEF v

\* The units of the first message are all there, at the front.
LEMMA FrameFront ==
  ASSUME NEW u \in Seq(UnitSet), WellFramed(u), Len(u) > 0
  PROVE  /\ u[1].m \in Messages /\ LEN(u[1].m) \in {2, 4} /\ LEN(u[1].m) <= Len(u)
         /\ \A j \in 1 .. LEN(u[1].m) : u[j] = [m |-> u[1].m, i |-> j]
         /\ Len(u) > LEN(u[1].m) => u[LEN(u[1].m) + 1].i = 1
<1> DEFINE m == u[1].m
           n == LEN(m)
<1>1. Len(u) \in Nat /\ \A j \in 1 .. Len(u) : u[j] \in UnitSet
  BY ElementOfSeq, SMTT(20)
<1>2. m \in Messages /\ n \in {2, 4} /\ u[1] = [m |-> m, i |-> 1]
  <2>1. u[1] \in UnitSet /\ u[1].i = 1
    BY <1>1, SMTT(20) DEF WellFramed
  <2>2. m \in Messages
    BY <2>1 DEF UnitSet
  <2>3. u[1] = [m |-> m, i |-> 1]
    BY <2>1 DEF UnitSet
  <2>4. QED
    BY <2>2, <2>3, Lengths
<1> HIDE DEF m
<1>3. ASSUME NEW j \in 1 .. 3, j < n, j <= Len(u), u[j] = [m |-> m, i |-> j]
      PROVE  j + 1 <= Len(u) /\ u[j + 1] = [m |-> m, i |-> j + 1]
  <2>1. u[j].i = j /\ LEN(u[j].m) = n
    BY <1>3, SMTT(20)
  <2>2. j # Len(u)
    BY <1>2, <1>3, <2>1, SMTT(20) DEF WellFramed
  <2>3. j \in 1 .. Len(u) - 1
    BY <1>1, <1>3, <2>2, SMTT(20)
  <2>4. u[j + 1] = [m |-> u[j].m, i |-> u[j].i + 1]
    BY <1>3, <2>1, <2>3 DEF WellFramed
  <2>5. QED
    BY <1>3, <2>3, <2>4, SMTT(20)
<1>4. 2 <= Len(u) /\ u[2] = [m |-> m, i |-> 2]
  BY <1>1, <1>2, <1>3, SMTT(20)
<1>5. n = 4 => 3 <= Len(u) /\ u[3] = [m |-> m, i |-> 3]
  BY <1>1, <1>3, <1>4, SMTT(20)
<1>6. n = 4 => 4 <= Len(u) /\ u[4] = [m |-> m, i |-> 4]
  BY <1>1, <1>3, <1>5, SMTT(20)
<1>7. n <= Len(u) /\ u[n] = [m |-> m, i |-> n] /\ \A j \in 1 .. n : u[j] = [m |-> m, i |-> j]
  BY <1>2, <1>4, <1>5, <1>6, SMTT(20)
<1>8. ASSUME Len(u) > n PROVE u[n + 1].i = 1
  <2>1. n \in 1 .. Len(u) - 1
    BY <1>1, <1>2, <1>8, SMTT(20)
  <2>2. ~(u[n].i < LEN(u[n].m))
    BY <1>2, <1>7, SMTT(20)
  <2>3. u[n + 1] = [m |-> u[n + 1].m, i |-> 1]
    BY <2>1, <2>2 DEF WellFramed
  <2>4. QED
    BY <2>3, SMTT(20)
<1>9. QED
  BY <1>2, <1>7, <1>8 DEF m

\* A buffer that holds the length of the first message holds the message, and what is
\* behind it are whole messages again.
LEMMA FrameDrop ==
  ASSUME NEW x \in Seq(UnitSet), NEW w \in Seq(UnitSet), WellFramed(x \o w),
         Len(x) > 0, Len(x) = LEN(x[1].m)
  PROVE  x = Units(x[1].m) /\ x[1].m \in Messages /\ WellFramed(w)
<1> DEFINE u == x \o w
           n == Len(x)
<1>1. n \in Nat /\ Len(w) \in Nat
  BY SMTT(20)
<1>2. /\ u \in Seq(UnitSet) /\ Len(u) = n + Len(w)
      /\ \A j \in 1 .. n + Len(w) : u[j] = IF j <= n THEN x[j] ELSE w[j - n]
  BY ConcatProperties
<1>3. WellFramed(u) /\ u[1] = x[1] /\ LEN(u[1].m) = n
  BY <1>1, <1>2, SMTT(20)
<1> HIDE DEF u
<1>4. /\ x[1].m \in Messages
      /\ \A j \in 1 .. n : u[j] = [m |-> x[1].m, i |-> j]
      /\ Len(u) > n => u[n + 1].i = 1
  <2>1. Len(u) > 0
    BY <1>1, <1>2, SMTT(20)
  <2>2. /\ u[1].m \in Messages
        /\ \A j \in 1 .. LEN(u[1].m) : u[j] = [m |-> u[1].m, i |-> j]
        /\ Len(u) > LEN(u[1].m) => u[LEN(u[1].m) + 1].i = 1
    BY <1>2, <1>3, <2>1, FrameFront, Zenon
  <2>3. QED
    BY <1>3, <2>2, Zenon
<1>5. x = Units(x[1].m)
  <2>1. Units(x[1].m) \in Seq(UnitSet) /\ Len(Units(x[1].m)) = n
    BY <1>4, Lengths
  <2>2. ASSUME NEW j \in 1 .. n PROVE x[j] = Units(x[1].m)[j]
    <3>1. x[j] = [m |-> x[1].m, i |-> j]
      BY <1>1, <1>2, <1>4, SMTT(20)
    <3>2. QED
      BY <1>4, <3>1, Lengths
  <2>3. QED
    BY <2>1, <2>2, SeqEqual
<1>6. ASSUME NEW j \in 1 .. Len(w) PROVE n + j \in 1 .. Len(u) /\ w[j] = u[n + j]
  BY <1>1, <1>2, SMTT(20)
<1>7. ASSUME NEW j \in 1 .. Len(w) PROVE w[j].i <= LEN(w[j].m)
  <2>1. u[n + j].i <= LEN(u[n + j].m)
    BY <1>3, <1>6 DEF WellFramed
  <2>2. QED
    BY <1>6, <2>1
<1>8. ASSUME Len(w) > 0 PROVE w[1].i = 1 /\ w[Len(w)].i = LEN(w[Len(w)].m)
  <2>1. w[1] = u[n + 1] /\ w[Len(w)] = u[Len(u)] /\ Len(u) > n /\ Len(u) > 0
    BY <1>1, <1>2, <1>6, <1>8, SMTT(20)
  <2>2. u[Len(u)].i = LEN(u[Len(u)].m)
    BY <1>3, <2>1 DEF WellFramed
  <2>3. QED
    BY <1>4, <2>1, <2>2
<1>9. ASSUME NEW j \in 1 .. Len(w) - 1
      PROVE  w[j + 1] = IF w[j].i < LEN(w[j].m) THEN [m |-> w[j].m, i |-> w[j].i + 1]
                        ELSE [m |-> w[j + 1].m, i |-> 1]
  <2>1. /\ n + j \in 1 .. Len(u) - 1 /\ w[j] = u[n + j]
        /\ w[j + 1] = u[(n + j) + 1]
    <3>1. n + j \in 1 .. Len(u) - 1 /\ j \in 1 .. Len(w) /\ j + 1 \in 1 .. Len(w)
      BY <1>1, <1>2, SMTT(20)
    <3>2. w[j] = u[n + j] /\ w[j + 1] = u[n + (j + 1)]
      BY <1>6, <3>1
    <3>3. n + (j + 1) = (n + j) + 1
      BY <1>1, SMTT(20)
    <3>4. QED
      BY <3>1, <3>2, <3>3
  <2>2. QED
    BY <1>3, <2>1 DEF WellFramed
<1>10. QED
  BY <1>5, <1>4, <1>7, <1>8, <1>9 DEF WellFramed

-----------------------------------------------------------------------------
(* What a connection keeps to, between two calls.                            *)

\* Nothing is sent before the hello, and the hello is the first thing that arrives.
Greeting(c, e) ==
  /\ c.ep[Peer(e)].open /\ c.ep[Peer(e)].vc \in {"NULL", "SEND_HELLO"} => Pending(c, e) = <<>>
  /\ ~Cause(c, e) /\ c.ep[e].open /\ c.ep[e].vc \in {"NULL", "SEND_HELLO", "RECV_HELLO"}
     => IF Pending(c, e) = <<>>
        THEN c.ep[Peer(e)].vc \in {"NULL", "SEND_HELLO", "DISCONNECTED"}
        ELSE Pending(c, e)[1].m.type = "HELLO"

\* A closed end keeps nothing; one that is open and has no vconn is in the listener's
\* queue.
Ending(c, e) ==
  /\ ~c.ep[e].open => /\ c.ep[e].vc = "NULL" /\ c.ep[e].rx = <<>> /\ c.wire[e] = <<>>
                      /\ c.ep[e].rc \in {"VOID", "DEAD"}
  /\ c.ep[e].open => c.ep[e].rc # "DEAD"
  /\ c.ep[e].open /\ c.ep[e].vc = "NULL" => c.ep[e].rc = "VOID" /\ c.ep[e].rx = <<>>
  /\ c.ep[e].vc = "DISCONNECTED" => Cause(c, e)

EndOK(c, e) == FramedOK(c, e) /\ Greeting(c, e) /\ Ending(c, e)

ConnOK(c) == c \in Conns /\ \A e \in Ends : EndOK(c, e)

\* The fields of a connection.
LEMMA ConnType ==
  ASSUME NEW c \in Conns, NEW e \in Ends
  PROVE  /\ c.ep[e] \in EpSet /\ c.ep[e].rc \in RcStates /\ c.ep[e].vc \in VcStates
         /\ c.ep[e].rx \in Seq(UnitSet) /\ c.ep[e].open \in BOOLEAN
         /\ c.wire[e] \in Seq(UnitSet) /\ c.cut[e] \in Int
         /\ c.last[e] \in Messages \cup {Nothing} /\ c.full[e] \in BOOLEAN
         /\ Len(c.ep[e].rx) \in Nat /\ Len(c.wire[e]) \in Nat
         /\ Pending(c, e) \in Seq(UnitSet) /\ Len(Pending(c, e)) = Len(c.ep[e].rx) + Len(c.wire[e])
<1>1. /\ c.ep[e] \in EpSet /\ c.wire[e] \in Seq(UnitSet) /\ c.cut[e] \in Int
      /\ c.last[e] \in Messages \cup {Nothing} /\ c.full[e] \in BOOLEAN
  BY DEF Conns
<1>2. /\ c.ep[e].rc \in RcStates /\ c.ep[e].vc \in VcStates /\ c.ep[e].rx \in Seq(UnitSet)
      /\ c.ep[e].open \in BOOLEAN
  BY <1>1 DEF EpSet
<1>3. /\ Pending(c, e) \in Seq(UnitSet) /\ Len(Pending(c, e)) = Len(c.ep[e].rx) + Len(c.wire[e])
  BY <1>1, <1>2, ConcatProperties DEF Pending
<1>4. QED
  BY <1>1, <1>2, <1>3, SMTT(20)

\* Buffers hold units.
LEMMA UnitSeqs ==
  ASSUME NEW c \in Conns, NEW e \in Ends
  PROVE  c.ep[e].rx \in Seq(UnitSet) /\ c.wire[e] \in Seq(UnitSet) /\ Pending(c, e) \in Seq(UnitSet)
BY ConnType

\* Nothing is pending when both buffers are empty.
LEMMA NothingPending ==
  ASSUME NEW c \in Conns, NEW e \in Ends
  PROVE  Pending(c, e) = <<>> <=> c.ep[e].rx = <<>> /\ c.wire[e] = <<>>
<1> DEFINE x == c.ep[e].rx
           w == c.wire[e]
           u == Pending(c, e)
<1>1. /\ x \in Seq(UnitSet) /\ w \in Seq(UnitSet) /\ u \in Seq(UnitSet)
      /\ Len(u) = Len(x) + Len(w) /\ Len(x) \in Nat /\ Len(w) \in Nat
  BY ConnType
<1> HIDE DEF x, w, u
<1>2. /\ Len(u) = 0 <=> u = <<>>
      /\ Len(x) = 0 <=> x = <<>>
      /\ Len(w) = 0 <=> w = <<>>
  BY <1>1, EmptySeq
<1>3. u = <<>> <=> x = <<>> /\ w = <<>>
  BY <1>1, <1>2, SMTT(20)
<1>4. QED
  BY <1>3 DEF x, w, u

\* One end of the connection is replaced.
LEMMA SetEnd ==
  ASSUME NEW c \in Conns, NEW e \in Ends, NEW x \in EpSet
  PROVE  LET d == [c EXCEPT !.ep[e] = x]
         IN /\ d \in Conns /\ d.ep[e] = x /\ d.ep[Peer(e)] = c.ep[Peer(e)]
            /\ d.wire = c.wire /\ d.cut = c.cut
<1>1. Peer(e) \in Ends /\ Peer(e) # e
  BY PeerPeer
<1>2. QED
  BY <1>1 DEF Conns

\* An end with these fields, and the updates of one.
EpAs(y, rc, vc, rx, open) ==
  y \in EpSet /\ y.rc = rc /\ y.vc = vc /\ y.rx = rx /\ y.open = open

WithRc(x, r) == [x EXCEPT !.rc = r]

WithOpen(x, b) == [x EXCEPT !.open = b]

WithVcOpen(x, s, b) == [x EXCEPT !.vc = s, !.open = b]

\* Updates of an end, field by field: the state of its rconn,
LEMMA RcUpdate ==
  ASSUME NEW x \in EpSet, NEW r \in RcStates
  PROVE  EpAs(WithRc(x, r), r, x.vc, x.rx, x.open)
BY DEF EpSet, EpAs, WithRc

\* its socket,
LEMMA OpenUpdate ==
  ASSUME NEW x \in EpSet, NEW b \in BOOLEAN
  PROVE  EpAs(WithOpen(x, b), x.rc, x.vc, x.rx, b)
BY DEF EpSet, EpAs, WithOpen

\* its vconn with its socket.
LEMMA VcOpenUpdate ==
  ASSUME NEW x \in EpSet, NEW s \in VcStates, NEW b \in BOOLEAN
  PROVE  EpAs(WithVcOpen(x, s, b), x.rc, s, x.rx, b)
BY DEF EpSet, EpAs, WithVcOpen

\* They are ends again.
LEMMA EndUpdates ==
  ASSUME NEW x \in EpSet
  PROVE  /\ [x EXCEPT !.open = FALSE] \in EpSet
         /\ \A r \in RcStates : [x EXCEPT !.rc = r] \in EpSet
BY DEF EpSet

\* An end that is gone keeps nothing.
GoneAs(g, r) == g \in EpSet /\ g.rc = r /\ g.vc = "NULL" /\ g.rx = <<>> /\ ~g.open

\* An end without a connection.
LEMMA NoConnIs == GoneAs(NoConn, "VOID")
<1>1. NoConn.rc = "VOID" /\ NoConn.vc = "NULL" /\ NoConn.rx = <<>> /\ ~NoConn.open
  BY DEF NoConn
<1>2. <<>> \in Seq(UnitSet) /\ "VOID" \in RcStates /\ "NULL" \in VcStates /\ FALSE \in BOOLEAN
  BY SMTT(20) DEF RcStates, VcStates
<1>3. NoConn \in EpSet
  BY <1>2 DEF EpSet, NoConn
<1>4. QED
  BY <1>1, <1>3 DEF GoneAs

\* vconn_stream_new.
LEMMA NewVconn ==
  ASSUME NEW x \in EpSet, NEW r \in RcStates
  PROVE  /\ EpAs(vconn_stream_new(x), "VOID", "SEND_HELLO", <<>>, x.open)
         /\ EpAs(WithRc(vconn_stream_new(x), r), r, "SEND_HELLO", <<>>, x.open)
<1> DEFINE v == vconn_stream_new(x)
<1>1. NoConn \in EpSet /\ NoConn.rx = <<>> /\ NoConn.rc = "VOID"
  BY NoConnIs DEF GoneAs
<1>2. x.open \in BOOLEAN /\ "SEND_HELLO" \in VcStates
  BY DEF EpSet, VcStates
<1>3. v = WithVcOpen(NoConn, "SEND_HELLO", x.open)
  BY DEF vconn_stream_new, WithVcOpen
<1>4. EpAs(WithVcOpen(NoConn, "SEND_HELLO", x.open), NoConn.rc, "SEND_HELLO", NoConn.rx, x.open)
  BY <1>1, <1>2, VcOpenUpdate, Zenon
<1>5. EpAs(v, "VOID", "SEND_HELLO", <<>>, x.open)
  BY <1>1, <1>3, <1>4, Zenon
<1> HIDE DEF v
<1>6. v \in EpSet /\ v.vc = "SEND_HELLO" /\ v.rx = <<>> /\ v.open = x.open
  BY <1>5, Zenon DEF EpAs
<1>7. EpAs(WithRc(v, r), r, v.vc, v.rx, v.open)
  BY <1>6, RcUpdate, Zenon
<1>8. EpAs(WithRc(v, r), r, "SEND_HELLO", <<>>, x.open)
  BY <1>6, <1>7, Zenon
<1>9. QED
  BY <1>5, <1>8 DEF v

\* An end that is disconnected or destroyed.
LEMMA GoneEnd ==
  ASSUME NEW r \in {"VOID", "DEAD"}
  PROVE  GoneAs([NoConn EXCEPT !.rc = r], r)
<1> DEFINE g == [NoConn EXCEPT !.rc = r]
<1>1. NoConn \in EpSet /\ r \in RcStates
  BY NoConnIs DEF GoneAs, RcStates
<1>2. g \in EpSet
  BY <1>1, EndUpdates
<1>3. g.rc = r /\ g.vc = NoConn.vc /\ g.rx = NoConn.rx /\ g.open = NoConn.open
  BY <1>1 DEF EpSet
<1>4. QED
  BY <1>2, <1>3, NoConnIs, Zenon DEF GoneAs

\* A connection with one end, one direction or one mark replaced.
WithEnd(c, e, g) == [c EXCEPT !.ep[e] = g]

WithWire(c, p, z, f) == [c EXCEPT !.wire[p] = z, !.full[p] = f]

WithCut(c, p, n) == [c EXCEPT !.cut[p] = n]

\* d is c with x for the end e.
Replaced(c, d, e, x) ==
  /\ d \in Conns /\ d.ep[e] = x /\ d.ep[Peer(e)] = c.ep[Peer(e)]
  /\ d.wire = c.wire /\ d.cut = c.cut

\* One end of a connection is replaced.
LEMMA WithEndIs ==
  ASSUME NEW c \in Conns, NEW e \in Ends, NEW x \in EpSet
  PROVE  Replaced(c, WithEnd(c, e, x), e, x)
BY SetEnd, Zenon DEF WithEnd, Replaced

\* Updates of a connection are connections.
LEMMA ConnUpdates ==
  ASSUME NEW c \in Conns, NEW e \in Ends
  PROVE  /\ \A z \in Seq(UnitSet), f \in BOOLEAN : WithWire(c, e, z, f) \in Conns
         /\ \A n \in Int : WithCut(c, e, n) \in Conns
<1>1. ASSUME NEW z \in Seq(UnitSet), NEW f \in BOOLEAN PROVE WithWire(c, e, z, f) \in Conns
  BY DEF Conns, WithWire
<1>2. ASSUME NEW n \in Int PROVE WithCut(c, e, n) \in Conns
  BY DEF Conns, WithCut
<1>3. QED
  BY <1>1, <1>2

\* e has closed its socket.
Closed(c, d, e) ==
  /\ d \in Conns /\ d.ep[Peer(e)] = c.ep[Peer(e)] /\ d.cut = c.cut
  /\ d.ep[e].rc \in {"VOID", "DEAD"} /\ d.ep[e].vc = "NULL"
  /\ d.ep[e].rx = <<>> /\ ~d.ep[e].open /\ d.wire[e] = <<>>
  /\ c.wire[Peer(e)] = <<>> => d.wire[Peer(e)] = <<>>

\* What closing a socket does.
LEMMA CloseSocketIs ==
  ASSUME NEW c \in Conns, NEW e \in Ends, NEW b \in CloseSocket(c, e),
         NEW r \in {"VOID", "DEAD"}, NEW g, GoneAs(g, r)
  PROVE  Closed(c, WithEnd(b, e, g), e) /\ WithEnd(b, e, g).ep[e].rc = r
<1> DEFINE p == Peer(e)
           d == WithEnd(b, e, g)
<1>1. p \in Ends /\ p # e
  BY PeerPeer
<1>2. c.wire[p] \in Seq(UnitSet) /\ Len(c.wire[p]) \in Nat
  BY <1>1, ConnType
<1>3. PICK k \in 0 .. Len(c.wire[p]) :
        b = [c EXCEPT !.ep[e].open = FALSE, !.wire[e] = <<>>, !.wire[p] = SubSeq(@, 1, k)]
  <2>1. \A k \in IF c.wire[e] = <<>> THEN {Len(c.wire[p])} ELSE 0 .. Len(c.wire[p]) :
          k \in 0 .. Len(c.wire[p])
    BY <1>2, SMTT(20)
  <2>2. QED
    BY <2>1, Zenon DEF CloseSocket
<1> DEFINE z == SubSeq(c.wire[p], 1, k)
<1>4. z \in Seq(UnitSet) /\ (c.wire[p] = <<>> => z = <<>>)
  <2>1. z \in Seq(UnitSet) /\ Len(z) = k
    BY <1>2, Moved
  <2>2. QED
    BY <1>2, <2>1, EmptySeq, SMTT(20)
<1>5. b.ep[p] = c.ep[p] /\ b.wire[e] = <<>> /\ b.wire[p] = z /\ b.cut = c.cut
  BY <1>1, <1>3 DEF Conns
<1>6. b \in Conns
  <2>1. c.ep \in [Ends -> EpSet] /\ c.wire \in [Ends -> Seq(UnitSet)]
    BY DEF Conns
  <2>2. [c.ep[e] EXCEPT !.open = FALSE] \in EpSet /\ <<>> \in Seq(UnitSet)
    BY <2>1, EndUpdates, SMTT(20)
  <2>3. [c.ep EXCEPT ![e] = [c.ep[e] EXCEPT !.open = FALSE]] \in [Ends -> EpSet]
    BY <2>1, <2>2
  <2>4. [[c.wire EXCEPT ![e] = <<>>] EXCEPT ![p] = z] \in [Ends -> Seq(UnitSet)]
    BY <1>4, <2>1, <2>2
  <2>5. b = [ep |-> [c.ep EXCEPT ![e] = [c.ep[e] EXCEPT !.open = FALSE]],
             wire |-> [[c.wire EXCEPT ![e] = <<>>] EXCEPT ![p] = z],
             last |-> c.last, cut |-> c.cut, full |-> c.full]
    BY <1>1, <1>3 DEF Conns
  <2>6. QED
    BY <2>3, <2>4, <2>5 DEF Conns
<1>7. g \in EpSet
  BY DEF GoneAs
<1>8. d \in Conns /\ d.ep[p] = b.ep[p] /\ d.wire = b.wire /\ d.cut = b.cut /\ d.ep[e] = g
  <2>1. LET x == [b EXCEPT !.ep[e] = g]
        IN /\ x \in Conns /\ x.ep[e] = g /\ x.ep[Peer(e)] = b.ep[Peer(e)]
           /\ x.wire = b.wire /\ x.cut = b.cut
    BY <1>6, <1>7, SetEnd
  <2>2. QED
    BY <2>1 DEF WithEnd
<1> HIDE DEF d, z
<1>9. Closed(c, d, e) /\ d.ep[e].rc = r
  BY <1>4, <1>5, <1>8, Zenon DEF Closed, GoneAs
<1>10. QED
  BY <1>9 DEF d

\* It keeps ConnOK.
LEMMA ClosedOK ==
  ASSUME NEW c, NEW d, NEW e \in Ends, ConnOK(c), Closed(c, d, e)
  PROVE  ConnOK(d)
<1> DEFINE p == Peer(e)
<1>1. p \in Ends /\ p # e /\ Peer(p) = e /\ \A f \in Ends : f = e \/ f = p
  BY PeerPeer
<1>2. d \in Conns /\ EndOK(c, e) /\ EndOK(c, p)
  BY <1>1 DEF Closed, ConnOK
<1>3. EndOK(d, e)
  <2>1. Pending(d, e) = <<>> /\ Len(Pending(d, e)) = 0 /\ Len(d.ep[e].rx) = 0
    BY <1>2, NothingPending, EmptySeq DEF Closed
  <2>2. FramedOK(d, e)
    BY <2>1, SMTT(20) DEF FramedOK, WellFramed, Partial, HDR
  <2>3. QED
    BY <2>1, <2>2 DEF EndOK, Greeting, Ending, Closed
<1>4. EndOK(d, p)
  <2>1. Cause(d, p) /\ ~d.ep[Peer(p)].open
    BY <1>1 DEF Cause, Closed
  <2>2. Ending(d, p)
    BY <1>2, <2>1 DEF Ending, EndOK, Closed
  <2>3. QED
    BY <2>1, <2>2 DEF EndOK, FramedOK, Greeting
<1>5. QED
  BY <1>1, <1>2, <1>3, <1>4 DEF ConnOK

-----------------------------------------------------------------------------
(* What one call of an end makes of the connection.                          *)

Gone == {"NULL", "DISCONNECTED"}

Op(c, d, e) ==
  /\ ConnOK(d) /\ d.ep[Peer(e)] = c.ep[Peer(e)]
  /\ Cause(c, e) => Cause(d, e)
  /\ Cause(c, Peer(e)) => Cause(d, Peer(e))
  /\ d.ep[e].rc = "VOID" => c.ep[e].rc = "VOID" \/ Cause(d, e)
  /\ d.ep[e].rc = "CONNECTING" => c.ep[e].rc = "CONNECTING"
  /\ d.ep[e].rc = "ACTIVE" => c.ep[e].rc \in {"ACTIVE", "CONNECTING"}
  /\ c.ep[e].vc \in Gone => d.ep[e].vc \in Gone

\* Op is reflexive
LEMMA OpRefl ==
  ASSUME NEW c, NEW e \in Ends, ConnOK(c)
  PROVE  Op(c, c, e)
BY DEF Op

\* and transitive.
LEMMA OpTrans ==
  ASSUME NEW c, NEW d, NEW f, NEW e \in Ends, Op(c, d, e), Op(d, f, e)
  PROVE  Op(c, f, e)
BY DEF Op

\* A process that ends, and rconn_disconnect with a cause.
LEMMA DieOp ==
  ASSUME NEW c, NEW e \in Ends, ConnOK(c), NEW d \in Die(c, e)
  PROVE  Op(c, d, e) /\ d.ep[e].rc = "DEAD" /\ Closed(c, d, e)
<1>1. c \in Conns /\ "DEAD" \in {"VOID", "DEAD"}
  BY DEF ConnOK
<1>2. PICK b \in CloseSocket(c, e) : d = WithEnd(b, e, [NoConn EXCEPT !.rc = "DEAD"])
  BY DEF Die, WithEnd
<1>3. Closed(c, d, e) /\ d.ep[e].rc = "DEAD"
  <2> DEFINE g == [NoConn EXCEPT !.rc = "DEAD"]
  <2>1. GoneAs(g, "DEAD")
    BY GoneEnd
  <2>2. d = WithEnd(b, e, g)
    BY <1>2
  <2> HIDE DEF g
  <2>3. Closed(c, WithEnd(b, e, g), e) /\ WithEnd(b, e, g).ep[e].rc = "DEAD"
    BY <1>1, <2>1, CloseSocketIs
  <2>4. QED
    BY <2>2, <2>3, SMTT(20)
<1>4. ConnOK(d)
  BY <1>3, ClosedOK
<1>5. QED
  BY <1>3, <1>4, PeerPeer DEF Op, Closed, Cause, Gone

\* rconn_disconnect, when there is a cause.
LEMMA DisconnectOp ==
  ASSUME NEW c, NEW e \in Ends, ConnOK(c), Cause(c, e), NEW d \in rconn_disconnect(c, e)
  PROVE  Op(c, d, e)
<1>1. c \in Conns /\ "VOID" \in {"VOID", "DEAD"}
  BY DEF ConnOK
<1>2. CASE c.ep[e].rc \in {"VOID", "DEAD"}
  BY <1>2, OpRefl DEF rconn_disconnect
<1>3. CASE c.ep[e].rc \notin {"VOID", "DEAD"}
  <2>1. PICK b \in CloseSocket(c, e) : d = WithEnd(b, e, NoConn)
    BY <1>3 DEF rconn_disconnect, WithEnd
  <2>2. GoneAs(NoConn, "VOID")
    BY NoConnIs
  <2>3. Closed(c, d, e) /\ d.ep[e].rc = "VOID"
    <3>1. Closed(c, WithEnd(b, e, NoConn), e) /\ WithEnd(b, e, NoConn).ep[e].rc = "VOID"
      BY <1>1, <2>2, CloseSocketIs
    <3>2. QED
      BY <2>1, <3>1, SMTT(20)
  <2>4. ConnOK(d)
    BY <2>3, ClosedOK
  <2>5. QED
    BY <2>3, <2>4, PeerPeer DEF Op, Closed, Cause, Gone
<1>4. QED
  BY <1>2, <1>3

-----------------------------------------------------------------------------
(* Sending.                                                                  *)

\* e has sent m, and its vconn is in state s: all of m is on the wire, or nothing of
\* it where the peer has closed or there is no room at all, or it is cut.
Sent(c, d, e, m, s) ==
  LET p == Peer(e)
  IN /\ d \in Conns /\ d.ep[p] = c.ep[p] /\ d.wire[e] = c.wire[e] /\ d.cut[e] = c.cut[e]
     /\ d.ep[e].rc = c.ep[e].rc /\ d.ep[e].rx = c.ep[e].rx /\ d.ep[e].open = c.ep[e].open
     /\ d.ep[e].vc = s
     /\ ~c.ep[p].open => d.wire[p] = c.wire[p] /\ d.cut[p] = c.cut[p]
     /\ \/ /\ d.wire[p] = c.wire[p] /\ d.cut[p] = c.cut[p]
           /\ ~c.ep[p].open \/ Len(c.wire[p]) >= SNDBUF
        \/ d.wire[p] = c.wire[p] \o Units(m) /\ d.cut[p] = c.cut[p]
        \/ d.cut[p] # NoCut

\* The part of a message that fits in the send buffer.
LEMMA Prefix ==
  ASSUME NEW m \in Messages, NEW k \in 0 .. LEN(m)
  PROVE  /\ SubSeq(Units(m), 1, k) \in Seq(UnitSet) /\ Len(SubSeq(Units(m), 1, k)) = k
         /\ k = LEN(m) => SubSeq(Units(m), 1, k) = Units(m)
         /\ k = 0 => SubSeq(Units(m), 1, k) = <<>>
<1> DEFINE u == Units(m)
           s == SubSeq(u, 1, k)
<1>1. u \in Seq(UnitSet) /\ Len(u) = LEN(m) /\ LEN(m) \in Nat
  BY Lengths, SMTT(20)
<1> HIDE DEF u
<1>2. s \in Seq(UnitSet) /\ Len(s) = k
  BY <1>1, Moved
<1>3. k = LEN(m) => s = u
  BY <1>1, SubSeqFull
<1>4. k = 0 => s = <<>>
  BY <1>2, EmptySeq
<1>5. QED
  BY <1>2, <1>3, <1>4 DEF u

\* What is written on an open connection, and how a short write is marked.
Written(c, e, m, k, f) ==
  [c EXCEPT !.wire[Peer(e)] = @ \o SubSeq(Units(m), 1, k), !.full[Peer(e)] = @ \/ f]

Marked(b, e, m, k) ==
  IF b.cut[Peer(e)] = NoCut /\ 0 < k /\ k < LEN(m)
  THEN [b EXCEPT !.cut[Peer(e)] = Len(b.ep[Peer(e)].rx) + Len(b.wire[Peer(e)])] ELSE b

\* A write, field by field.
LEMMA WrittenFields ==
  ASSUME NEW c \in Conns, NEW e \in Ends, NEW p \in Ends, p # e, NEW z, NEW f
  PROVE  LET b == WithWire(c, p, z, f)
         IN b.ep = c.ep /\ b.wire[p] = z /\ b.wire[e] = c.wire[e] /\ b.cut = c.cut
BY DEF Conns, WithWire

\* A cut, field by field.
LEMMA MarkedFields ==
  ASSUME NEW c \in Conns, NEW e \in Ends, NEW p \in Ends, p # e, NEW n
  PROVE  LET b == WithCut(c, p, n)
         IN b.ep = c.ep /\ b.wire = c.wire /\ b.cut[p] = n /\ b.cut[e] = c.cut[e]
BY DEF Conns, WithCut

\* What a write of the first k units of a message does.
LEMMA WriteIs ==
  ASSUME NEW c \in Conns, NEW e \in Ends, NEW m \in Messages, NEW k \in 0 .. LEN(m), NEW f \in BOOLEAN,
         c.ep[Peer(e)].open, k = 0 => Len(c.wire[Peer(e)]) >= SNDBUF
  PROVE  Sent(c, Marked(Written(c, e, m, k, f), e, m, k), e, m, c.ep[e].vc)
<1> DEFINE p == Peer(e)
           z == c.wire[p] \o SubSeq(Units(m), 1, k)
           g == c.full[p] \/ f
           b == Written(c, e, m, k, f)
           n == Len(b.ep[p].rx) + Len(b.wire[p])
           d == Marked(b, e, m, k)
<1>1. p \in Ends /\ p # e /\ LEN(m) \in Nat
  BY PeerPeer, Lengths, SMTT(20)
<1>2. c.wire[p] \in Seq(UnitSet)
  BY <1>1, ConnType
<1>3. /\ z \in Seq(UnitSet)
      /\ k = LEN(m) => z = c.wire[p] \o Units(m)
      /\ k = 0 => z = c.wire[p]
  <2>1. z \in Seq(UnitSet)
    BY <1>2, Prefix, ConcatProperties
  <2>2. k = LEN(m) => z = c.wire[p] \o Units(m)
    BY Prefix
  <2>3. k = 0 => z = c.wire[p]
    BY <1>2, Prefix, ConcatEmptySeq
  <2>4. QED
    BY <2>1, <2>2, <2>3
<1>4. b = WithWire(c, p, z, g)
  BY DEF Written, WithWire
<1>5. g \in BOOLEAN
  <2>1. c.full[p] \in BOOLEAN
    BY <1>1 DEF Conns
  <2>2. QED
    BY <2>1
<1> HIDE DEF b, z, g
<1>6. b \in Conns
  BY <1>1, <1>3, <1>4, <1>5, ConnUpdates, Zenon
<1>7. b.ep = c.ep /\ b.wire[p] = z /\ b.wire[e] = c.wire[e] /\ b.cut = c.cut
  BY <1>1, <1>4, WrittenFields, SMTT(20)
<1>8. n \in Int /\ n # NoCut
  <2>1. Len(b.ep[p].rx) \in Nat /\ Len(b.wire[p]) \in Nat
    BY <1>1, <1>6, ConnType, Zenon
  <2>2. ASSUME NEW i \in Nat, NEW j \in Nat PROVE i + j \in Int /\ i + j # -1
    BY SMTT(20)
  <2>3. QED
    BY <2>1, <2>2, Zenon DEF NoCut
<1> HIDE DEF n
<1>9. ASSUME NEW x \in Conns, x.ep = c.ep, x.wire[e] = c.wire[e], x.cut[e] = c.cut[e],
             \/ x.wire[p] = c.wire[p] /\ x.cut[p] = c.cut[p] /\ Len(c.wire[p]) >= SNDBUF
             \/ x.wire[p] = c.wire[p] \o Units(m) /\ x.cut[p] = c.cut[p]
             \/ x.cut[p] # NoCut
      PROVE  Sent(c, x, e, m, c.ep[e].vc)
  BY <1>9, Zenon DEF Sent
<1>10. CASE b.cut[p] = NoCut /\ 0 < k /\ k < LEN(m)
  <2>1. d = WithCut(b, p, n)
    BY <1>10, Zenon DEF Marked, n, WithCut
  <2>2. d \in Conns
    BY <1>1, <1>6, <1>8, <2>1, ConnUpdates, Zenon
  <2>3. d.ep = b.ep /\ d.wire = b.wire /\ d.cut[p] = n /\ d.cut[e] = b.cut[e]
    BY <1>1, <1>6, <2>1, MarkedFields, SMTT(20)
  <2> HIDE DEF d
  <2>4. Sent(c, d, e, m, c.ep[e].vc)
    BY <1>7, <1>8, <1>9, <2>2, <2>3, Zenon
  <2>5. QED
    BY <2>4 DEF d, b
<1>11. CASE ~(b.cut[p] = NoCut /\ 0 < k /\ k < LEN(m))
  <2>1. d = b
    BY <1>11, Zenon DEF Marked
  <2>2. k = 0 \/ k = LEN(m) \/ b.cut[p] # NoCut
    BY <1>1, <1>11, SMTT(20)
  <2>3. Sent(c, b, e, m, c.ep[e].vc)
    <3>1. CASE k = 0
      BY <1>3, <1>6, <1>7, <1>9, <3>1, Zenon
    <3>2. CASE k = LEN(m)
      BY <1>3, <1>6, <1>7, <1>9, <3>2, Zenon
    <3>3. CASE b.cut[p] # NoCut
      BY <1>6, <1>7, <1>9, <3>3, Zenon
    <3>4. QED
      BY <2>2, <3>1, <3>2, <3>3, Zenon
  <2>4. QED
    BY <2>1, <2>3 DEF b
<1>12. QED
  BY <1>10, <1>11

\* vconn_stream_send.
LEMMA SendIs ==
  ASSUME NEW c, NEW e \in Ends, ConnOK(c), NEW m \in Messages, NEW o \in vconn_stream_send(c, e, m)
  PROVE  /\ o.r \in {"0", "ERROR"}
         /\ o.r = "ERROR" => ~c.ep[Peer(e)].open
         /\ \/ Op(c, o.c, e) /\ o.c.ep[e].rc = "DEAD" /\ Closed(c, o.c, e) /\ o.r = "0"
            \/ Sent(c, o.c, e, m, c.ep[e].vc)
<1> DEFINE p == Peer(e)
           room == SNDBUF - Len(c.wire[p])
           k == IF e = "zl" \/ room >= LEN(m) THEN LEN(m) ELSE IF room > 0 THEN room ELSE 0
<1>1. p \in Ends /\ p # e /\ c \in Conns /\ LEN(m) \in Nat /\ LEN(m) > 0
  BY PeerPeer, Lengths, SMTT(20) DEF ConnOK
<1>2. PICK q \in stream_send(c, e, m) :
        o = [c |-> Marked(q.c, e, m, q.r), r |-> IF q.r >= 0 THEN "0" ELSE "ERROR"]
  BY Zenon DEF vconn_stream_send, Marked
<1>3. o.c = Marked(q.c, e, m, q.r) /\ o.r = IF q.r >= 0 THEN "0" ELSE "ERROR"
  BY <1>2
<1>4. CASE ~c.ep[p].open
  <2>1. \/ q = [c |-> c, r |-> LEN(m)] \/ q = [c |-> c, r |-> -1]
        \/ \E d \in Die(c, e) : q = [c |-> d, r |-> 0]
    BY <1>2, <1>4 DEF stream_send
  <2>2. o.c = q.c
    BY <1>1, <1>3, <2>1, SMTT(20) DEF Marked
  <2>3. o.r \in {"0", "ERROR"}
    BY <1>3
  <2>4. CASE q.c = c
    <3>1. Sent(c, c, e, m, c.ep[e].vc)
      BY <1>1, <1>4, Zenon DEF Sent
    <3>2. QED
      BY <1>4, <2>2, <2>3, <2>4, <3>1, Zenon
  <2>5. CASE \E d \in Die(c, e) : q = [c |-> d, r |-> 0]
    <3>1. PICK d \in Die(c, e) : q = [c |-> d, r |-> 0]
      BY <2>5
    <3>2. o.c = d /\ o.r = "0"
      BY <1>3, <2>2, <3>1, SMTT(20)
    <3>3. QED
      BY <3>2, DieOp, Zenon
  <2>6. QED
    BY <2>1, <2>4, <2>5, SMTT(20)
<1>5. CASE c.ep[p].open
  <2>1. q = [c |-> Written(c, e, m, k, k = 0), r |-> k]
    BY <1>2, <1>5, Zenon DEF stream_send, Written
  <2>2. room \in Int /\ SNDBUF \in Nat /\ Len(c.wire[p]) \in Nat
    <3>1. Len(c.wire[p]) \in Nat
      BY <1>1, ConnType
    <3>2. QED
      BY <3>1, ConnAssumption, SMTT(20)
  <2>3. k \in 0 .. LEN(m) /\ (k = 0 => Len(c.wire[p]) >= SNDBUF)
    BY <1>1, <2>2, SMTT(20)
  <2>4. (k = 0) \in BOOLEAN
    OBVIOUS
  <2> HIDE DEF k
  <2>5. q.c = Written(c, e, m, k, k = 0) /\ q.r = k
    BY <2>1
  <2>6. o.r = "0"
    BY <1>3, <2>3, <2>5, SMTT(20)
  <2>7. Sent(c, Marked(Written(c, e, m, k, k = 0), e, m, k), e, m, c.ep[e].vc)
    BY <1>1, <1>5, <2>3, <2>4, WriteIs, Zenon
  <2>8. QED
    BY <1>3, <2>5, <2>6, <2>7, Zenon
<1>6. QED
  BY <1>4, <1>5

\* A vconn sends its hello first, and other messages once it is connected.
LEMMA SentOp ==
  ASSUME NEW c, NEW d, NEW e \in Ends, ConnOK(c), c.ep[e].open, NEW m \in Messages, NEW s,
         Sent(c, d, e, m, s),
         \/ c.ep[e].vc = "CONNECTED" /\ s = "CONNECTED"
         \/ c.ep[e].vc = "SEND_HELLO" /\ m = Msg("HELLO") /\ s = "RECV_HELLO"
         \/ c.ep[e].vc = "SEND_HELLO" /\ s = "DISCONNECTED" /\ ~c.ep[Peer(e)].open
  PROVE  Op(c, d, e)
<1> DEFINE p == Peer(e)
<1>1. p \in Ends /\ p # e /\ Peer(p) = e /\ \A f \in Ends : f = e \/ f = p
  BY PeerPeer
<1>2. /\ c \in Conns /\ d \in Conns /\ EndOK(c, e) /\ EndOK(c, p)
      /\ d.ep[p] = c.ep[p] /\ d.wire[e] = c.wire[e] /\ d.cut[e] = c.cut[e]
      /\ d.ep[e].rc = c.ep[e].rc /\ d.ep[e].rx = c.ep[e].rx /\ d.ep[e].open = c.ep[e].open
      /\ d.ep[e].vc = s
  BY <1>1 DEF Sent, ConnOK
<1>3. Pending(d, e) = Pending(c, e) /\ (Cause(d, e) <=> Cause(c, e))
  BY <1>2 DEF Pending, Cause
<1>4. EndOK(d, e)
  <2>1. FramedOK(d, e)
    BY <1>2, <1>3 DEF EndOK, FramedOK
  <2>2. Greeting(d, e)
    BY <1>2, <1>3 DEF EndOK, Greeting
  <2>3. Ending(d, e)
    BY <1>2, <1>3 DEF EndOK, Ending, Cause
  <2>4. QED
    BY <2>1, <2>2, <2>3 DEF EndOK
<1>5. Ending(d, p) /\ (Cause(c, p) => Cause(d, p))
  <2>1. c.cut[p] # NoCut => d.cut[p] # NoCut
    BY DEF Sent
  <2>2. Cause(c, p) => Cause(d, p)
    BY <1>1, <1>2, <2>1 DEF Cause
  <2>3. ~c.ep[p].open => d.wire[p] = c.wire[p]
    BY DEF Sent
  <2>4. QED
    BY <1>2, <2>2, <2>3 DEF EndOK, Ending
<1>6. s \notin {"NULL", "SEND_HELLO"}
  OBVIOUS
<1>7. ASSUME Cause(d, p) PROVE EndOK(d, p)
  BY <1>1, <1>2, <1>5, <1>6, <1>7 DEF EndOK, FramedOK, Greeting
<1>8. ASSUME ~Cause(d, p) PROVE EndOK(d, p)
  <2>1. ~Cause(c, p) /\ d.cut[p] = NoCut
    BY <1>5, <1>8 DEF Cause
  <2>2. WellFramed(Pending(c, p)) /\ Partial(d.ep[p].rx)
    BY <1>2, <2>1 DEF EndOK, FramedOK
  <2>3. CASE d.wire[p] = c.wire[p]
    <3>1. Pending(d, p) = Pending(c, p)
      BY <1>2, <2>3 DEF Pending
    <3>2. FramedOK(d, p)
      BY <2>2, <3>1 DEF FramedOK
    <3>3. ASSUME c.ep[p].open, c.ep[e].vc = "SEND_HELLO" PROVE Len(c.wire[p]) < SNDBUF
      <4>1. Pending(c, p) = <<>>
        BY <1>1, <1>2, <3>3 DEF EndOK, Greeting
      <4>2. Len(c.wire[p]) = 0
        BY <1>1, <1>2, <4>1, NothingPending, SMTT(20)
      <4>3. QED
        BY <4>2, ConnAssumption, SMTT(20)
    <3>4. Greeting(d, p)
      <4>1. ASSUME d.ep[p].open, d.ep[p].vc \in {"NULL", "SEND_HELLO", "RECV_HELLO"}
            PROVE  Pending(d, p) # <<>> /\ Pending(d, p)[1].m.type = "HELLO"
        <5>1. CASE c.ep[e].vc = "CONNECTED"
          BY <1>1, <1>2, <2>1, <3>1, <4>1, <5>1 DEF EndOK, Greeting
        <5>2. CASE c.ep[e].vc = "SEND_HELLO"
          <6>1. Pending(c, p) = <<>> /\ Len(c.wire[p]) < SNDBUF /\ c.ep[p].open
            BY <1>1, <1>2, <3>3, <4>1, <5>2 DEF EndOK, Greeting
          <6>2. d.wire[p] = c.wire[p] \o Units(m) /\ m = Msg("HELLO")
            <7>1. Len(c.wire[p]) \in Nat /\ SNDBUF \in Nat /\ ~(Len(c.wire[p]) >= SNDBUF)
              BY <1>1, <1>2, <6>1, UnitSeqs, ConnAssumption, SMTT(20)
            <7>2. d.wire[p] = c.wire[p] \o Units(m)
              BY <2>1, <6>1, <7>1, Zenon DEF Sent
            <7>3. m = Msg("HELLO")
              BY <5>2, <6>1
            <7>4. QED
              BY <7>2, <7>3
          <6>3. FALSE
            <7>1. Len(c.wire[p] \o Units(m)) = Len(c.wire[p]) + Len(Units(m)) /\ Len(Units(m)) > 0
              BY <1>1, <1>2, ConnType, Lengths, ConcatProperties, SMTT(20)
            <7>2. QED
              BY <1>1, <1>2, <2>3, <6>2, <7>1, ConnType, SMTT(20)
          <6>4. QED
            BY <6>3
        <5>3. QED
          BY <5>1, <5>2
      <4>2. QED
        BY <1>1, <1>2, <1>6, <4>1 DEF Greeting
    <3>5. QED
      BY <1>5, <3>2, <3>4 DEF EndOK
  <2>4. CASE d.wire[p] = c.wire[p] \o Units(m)
    <3>1. Pending(d, p) = Pending(c, p) \o Units(m)
      <4>1. c.ep[p].rx \in Seq(UnitSet) /\ c.wire[p] \in Seq(UnitSet) /\ Units(m) \in Seq(UnitSet)
        BY <1>1, <1>2, UnitSeqs, Lengths, Zenon
      <4>2. (c.ep[p].rx \o c.wire[p]) \o Units(m) = c.ep[p].rx \o (c.wire[p] \o Units(m))
        <5>1. ASSUME NEW x \in Seq(UnitSet), NEW y \in Seq(UnitSet), NEW z \in Seq(UnitSet)
              PROVE  (x \o y) \o z = x \o (y \o z)
          BY Assoc, SMTT(20)
        <5>2. QED
          BY <4>1, <5>1, Zenon
      <4>3. QED
        BY <1>2, <2>4, <4>2, Zenon DEF Pending
    <3>2. /\ WellFramed(Pending(d, p))
          /\ Pending(d, p) # <<>>
          /\ Pending(d, p)[1] = IF Pending(c, p) = <<>> THEN [m |-> m, i |-> 1] ELSE Pending(c, p)[1]
      <4>1. Pending(c, p) \in Seq(UnitSet) /\ Len(Pending(c, p)) \in Nat
        BY <1>1, <1>2, UnitSeqs, SMTT(20)
      <4>2. /\ WellFramed(Pending(d, p)) /\ Len(Pending(d, p)) = Len(Pending(c, p)) + LEN(m)
            /\ Pending(d, p)[1] = IF Pending(c, p) = <<>> THEN [m |-> m, i |-> 1] ELSE Pending(c, p)[1]
        <5> DEFINE u == Pending(c, p)
                   v == Units(m)
        <5>1. u \in Seq(UnitSet) /\ WellFramed(u) /\ Pending(d, p) = u \o v
          BY <2>2, <3>1, <4>1
        <5>2. WellFramed(u \o v) /\ Len(u \o v) = Len(u) + LEN(m)
              /\ (u \o v)[1] = IF u = <<>> THEN [m |-> m, i |-> 1] ELSE u[1]
          BY <5>1, FrameAppend
        <5> HIDE DEF u, v
        <5>3. WellFramed(Pending(d, p)) /\ Len(Pending(d, p)) = Len(u) + LEN(m)
              /\ Pending(d, p)[1] = IF u = <<>> THEN [m |-> m, i |-> 1] ELSE u[1]
          BY <5>1, <5>2, SMTT(20)
        <5>4. QED
          BY <5>3 DEF u
      <4>3. LEN(m) > 0 /\ LEN(m) \in Nat
        BY Lengths, SMTT(20)
      <4>4. Pending(d, p) # <<>>
        BY <4>1, <4>2, <4>3, SMTT(20)
      <4>5. QED
        BY <4>2, <4>4
    <3>3. FramedOK(d, p)
      BY <2>2, <3>2 DEF FramedOK
    <3>4. ASSUME d.ep[p].open, d.ep[p].vc \in {"NULL", "SEND_HELLO", "RECV_HELLO"}
          PROVE  Pending(d, p)[1].m.type = "HELLO"
      <4>1. CASE c.ep[e].vc = "CONNECTED"
        BY <1>1, <1>2, <2>1, <3>2, <3>4, <4>1 DEF EndOK, Greeting
      <4>2. CASE c.ep[e].vc = "SEND_HELLO"
        <5>1. Pending(c, p) = <<>> /\ c.ep[p].open
          BY <1>1, <1>2, <3>4, <4>2 DEF EndOK, Greeting
        <5>2. m = Msg("HELLO")
          BY <4>2, <5>1
        <5>3. QED
          BY <3>2, <5>1, <5>2, SMTT(20) DEF Msg
      <4>3. QED
        BY <4>1, <4>2
    <3>5. Greeting(d, p)
      BY <1>1, <1>2, <1>6, <3>2, <3>4 DEF Greeting
    <3>6. QED
      BY <1>5, <3>3, <3>5 DEF EndOK
  <2>5. QED
    BY <2>1, <2>3, <2>4 DEF Sent
<1>9. ConnOK(d)
  BY <1>1, <1>2, <1>4, <1>7, <1>8 DEF ConnOK
<1>10. QED
  BY <1>2, <1>3, <1>5, <1>9 DEF Op, Gone

-----------------------------------------------------------------------------
(* Receiving.                                                                *)

\* Units have moved from the wire into e's receive buffer.
Read(c, d, e) ==
  LET p == Peer(e)
  IN /\ d \in Conns /\ d.ep[p] = c.ep[p] /\ d.wire[p] = c.wire[p] /\ d.cut = c.cut
     /\ d.ep[e].rc = c.ep[e].rc /\ d.ep[e].vc = c.ep[e].vc /\ d.ep[e].open = c.ep[e].open
     /\ Pending(d, e) = Pending(c, e)

\* A message has been taken out of the receive buffer.
Took(c, d, e, m) ==
  LET p == Peer(e)
  IN /\ d \in Conns /\ d.ep[p] = c.ep[p] /\ d.wire[p] = c.wire[p] /\ d.cut[p] = c.cut[p]
     /\ d.cut[e] = NoCut <=> c.cut[e] = NoCut
     /\ d.ep[e].rc = c.ep[e].rc /\ d.ep[e].vc = c.ep[e].vc /\ d.ep[e].open = c.ep[e].open
     /\ d.ep[e].rx = <<>> /\ m \in Messages /\ Pending(c, e) # <<>>
     /\ ~Cause(c, e) => WellFramed(d.wire[e]) /\ m = Pending(c, e)[1].m

\* Read is transitive.
LEMMA ReadTrans ==
  ASSUME NEW c, NEW d, NEW f, NEW e \in Ends, Read(c, d, e), Read(d, f, e)
  PROVE  Read(c, f, e)
BY DEF Read

\* Units move from the socket to rxbuf.
LEMMA ReadMove ==
  ASSUME NEW c \in Conns, NEW e \in Ends, NEW k \in 0 .. Len(c.wire[e])
  PROVE  LET d == [c EXCEPT !.ep[e].rx = @ \o SubSeq(c.wire[e], 1, k),
                            !.wire[e] = SubSeq(c.wire[e], k + 1, Len(c.wire[e]))]
         IN Read(c, d, e) /\ Len(d.ep[e].rx) = Len(c.ep[e].rx) + k
<1> DEFINE p == Peer(e)
           w == c.wire[e]
           x == c.ep[e].rx \o SubSeq(w, 1, k)
           y == SubSeq(w, k + 1, Len(w))
           z == [c.ep[e] EXCEPT !.rx = x]
           d == [c EXCEPT !.ep[e].rx = @ \o SubSeq(w, 1, k), !.wire[e] = y]
<1>1. p \in Ends /\ p # e
  BY PeerPeer
<1>2. w \in Seq(UnitSet) /\ c.ep[e].rx \in Seq(UnitSet) /\ c.ep[e] \in EpSet
  BY ConnType
<1>3. /\ x \in Seq(UnitSet) /\ Len(x) = Len(c.ep[e].rx) + k /\ y \in Seq(UnitSet)
      /\ x \o y = c.ep[e].rx \o w
  BY <1>2, Moved, Zenon
<1>4. d = [ep |-> [c.ep EXCEPT ![e] = z], wire |-> [c.wire EXCEPT ![e] = y],
           last |-> c.last, cut |-> c.cut, full |-> c.full]
  <2> HIDE DEF y
  <2>1. d = [c EXCEPT !.ep[e].rx = x, !.wire[e] = y]
    OBVIOUS
  <2> HIDE DEF x, d
  <2>2. QED
    BY <2>1 DEF Conns
<1> HIDE DEF x, y
<1>5. /\ z \in EpSet /\ z.rx = x /\ z.rc = c.ep[e].rc /\ z.vc = c.ep[e].vc /\ z.open = c.ep[e].open
  BY <1>2, <1>3 DEF EpSet
<1> HIDE DEF z, d
<1>6. d \in Conns
  <2>1. [c.ep EXCEPT ![e] = z] \in [Ends -> EpSet] /\ [c.wire EXCEPT ![e] = y] \in [Ends -> Seq(UnitSet)]
    BY <1>3, <1>5 DEF Conns
  <2>2. QED
    BY <1>4, <2>1 DEF Conns
<1>7. d.ep[e] = z /\ d.wire[e] = y /\ d.ep[p] = c.ep[p] /\ d.wire[p] = c.wire[p] /\ d.cut = c.cut
  BY <1>1, <1>4 DEF Conns
<1>8. Read(c, d, e) /\ Len(d.ep[e].rx) = Len(c.ep[e].rx) + k
  BY <1>3, <1>5, <1>6, <1>7 DEF Read, Pending
<1>9. QED
  BY <1>8 DEF d, y

\* read(2), with an end of file told apart by what is in the buffer.
LEMMA RecvIs ==
  ASSUME NEW c \in Conns, NEW e \in Ends, NEW n \in Nat, Len(c.ep[e].rx) < n,
         NEW o \in vconn_stream_recv__(c, e, n)
  PROVE  /\ Read(c, o.c, e) /\ o.r \in {"OK", "EAGAIN", "EOF", "EPROTO"}
         /\ o.r = "OK" => Len(o.c.ep[e].rx) = n
         /\ o.r = "EAGAIN" => Len(o.c.ep[e].rx) < n
         /\ o.r \in {"EOF", "EPROTO"} => ~c.ep[Peer(e)].open
<1> DEFINE w == c.wire[e]
           x == c.ep[e].rx
           j == n - Len(x)
           most == IF j < Len(w) THEN j ELSE Len(w)
           low == IF e = "zl" \/ w # <<>> THEN 1 ELSE 0
           after(k) == [c EXCEPT !.ep[e].rx = @ \o SubSeq(w, 1, k), !.wire[e] = SubSeq(w, k + 1, Len(w))]
<1>1. Len(x) \in Nat /\ Len(w) \in Nat /\ j \in Nat /\ j > 0
  BY ConnType, SMTT(20)
<1>2. PICK q \in stream_recv(c, e, j) :
        o = [q EXCEPT !.r = IF @ = "EOF" /\ x # <<>> THEN "EPROTO" ELSE @]
  BY DEF vconn_stream_recv__
<1>3. CASE w = <<>> /\ ~c.ep[Peer(e)].open
  <2>1. q = [c |-> c, r |-> "EOF"]
    BY <1>2, <1>3 DEF stream_recv
  <2>2. o.c = c /\ o.r \in {"EOF", "EPROTO"}
    BY <1>2, <2>1
  <2>3. QED
    BY <1>3, <2>2 DEF Read
<1>4. CASE ~(w = <<>> /\ ~c.ep[Peer(e)].open)
  <2>1. PICK k \in low .. most : q = [c |-> after(k), r |-> IF k = j THEN "OK" ELSE "EAGAIN"]
    BY <1>2, <1>4 DEF stream_recv
  <2>2. o.c = after(k) /\ o.r = IF k = j THEN "OK" ELSE "EAGAIN"
    BY <1>2, <2>1
  <2>3. k \in 0 .. Len(w) /\ k <= j
    BY <1>1, <2>1, SMTT(20)
  <2>4. Read(c, after(k), e) /\ Len(after(k).ep[e].rx) = Len(x) + k
    BY <2>3, ReadMove
  <2> HIDE DEF after
  <2>5. QED
    BY <1>1, <2>2, <2>3, <2>4, SMTT(20)
<1>5. QED
  BY <1>3, <1>4

\* A buffer of units whose first HDR are there.
LEMMA FirstUnit ==
  ASSUME NEW c \in Conns, NEW e \in Ends, Len(c.ep[e].rx) > 0
  PROVE  /\ c.ep[e].rx[1] \in UnitSet /\ c.ep[e].rx[1].m \in Messages
         /\ Pending(c, e) # <<>> /\ Pending(c, e)[1] = c.ep[e].rx[1]
<1> DEFINE x == c.ep[e].rx
           w == c.wire[e]
<1>1. x \in Seq(UnitSet) /\ w \in Seq(UnitSet) /\ Len(x) \in Nat /\ Len(w) \in Nat
  BY ConnType
<1> HIDE DEF x, w
<1>2. x[1] \in UnitSet
  BY <1>1, ElementOfSeq, SMTT(20) DEF x
<1>3. (x \o w)[1] = x[1] /\ Len(x \o w) > 0
  BY <1>1, ConcatProperties, SMTT(20) DEF x
<1>4. x \o w # <<>>
  BY <1>3, SMTT(20)
<1>5. QED
  BY <1>2, <1>3, <1>4 DEF x, w, Pending, UnitSet

\* Where no message was cut, a header is read as the one of the message it begins.
LEMMA HeaderIs ==
  ASSUME NEW c \in Conns, NEW e \in Ends, Len(c.ep[e].rx) >= HDR, NEW h \in Header(c.ep[e].rx)
  PROVE  /\ h.type \in Types /\ h.len \in HDR - 1 .. HDR + PAYLOAD
         /\ WellFramed(Pending(c, e)) => h = [type |-> c.ep[e].rx[1].m.type, len |-> LEN(c.ep[e].rx[1].m)]
<1> DEFINE x == c.ep[e].rx
           m == x[1].m
           w == c.wire[e]
           u == Pending(c, e)
<1>1. x \in Seq(UnitSet) /\ w \in Seq(UnitSet) /\ Len(x) \in Nat /\ Len(w) \in Nat /\ Len(x) >= 2
  BY ConnType DEF HDR
<1>2. m \in Messages /\ u # <<>> /\ u[1] = x[1]
  BY <1>1, FirstUnit, SMTT(20)
<1>3. LEN(m) \in {2, 4} /\ Units(m) \in Seq(UnitSet) /\ Len(Units(m)) = LEN(m)
      /\ \A j \in 1 .. LEN(m) : Units(m)[j] = [m |-> m, i |-> j]
  BY <1>2, Lengths
<1>4. m.type \in Types
  BY <1>2 DEF Messages
<1>5. h.type \in Types /\ h.len \in HDR - 1 .. HDR + PAYLOAD
  <2>1. h \in {[type |-> m.type, len |-> LEN(m)]}
        \/ h \in [type : Types, len : HDR - 1 .. HDR + PAYLOAD]
    BY DEF Header
  <2> HIDE DEF x, m, w, u
  <2>2. LEN(m) \in HDR - 1 .. HDR + PAYLOAD
    BY <1>3, SMTT(20) DEF HDR, PAYLOAD
  <2>3. CASE h \in {[type |-> m.type, len |-> LEN(m)]}
    <3>1. h.type = m.type /\ h.len = LEN(m)
      BY <2>3, SMTT(20)
    <3>2. QED
      BY <1>4, <2>2, <3>1
  <2>4. CASE h \in [type : Types, len : HDR - 1 .. HDR + PAYLOAD]
    BY <2>4, SMTT(20)
  <2>5. QED
    BY <2>1, <2>3, <2>4
<1>6. ASSUME WellFramed(u) PROVE SubSeq(x, 1, HDR) = SubSeq(Units(m), 1, HDR)
  <2>0. u = x \o w
    BY DEF Pending
  <2> HIDE DEF x, w, u
  <2>1. u \in Seq(UnitSet) /\ Len(u) = Len(x) + Len(w)
        /\ \A j \in 1 .. Len(x) : u[j] = x[j]
    BY <1>1, <2>0, ConcatProperties, SMTT(20)
  <2>2. \A j \in 1 .. LEN(m) : u[j] = [m |-> m, i |-> j]
    <3>1. Len(u) > 0
      BY <1>1, <2>1, SMTT(20)
    <3>2. \A j \in 1 .. LEN(u[1].m) : u[j] = [m |-> u[1].m, i |-> j]
      BY <1>6, <2>1, <3>1, FrameFront, Zenon
    <3>3. QED
      BY <1>2, <3>2, Zenon
  <2> HIDE DEF m
  <2>3. x[1] = Units(m)[1] /\ x[2] = Units(m)[2]
    <3>1. /\ 1 \in 1 .. LEN(m) /\ 2 \in 1 .. LEN(m)
          /\ 1 \in 1 .. Len(x) /\ 2 \in 1 .. Len(x)
      BY <1>1, <1>3, SMTT(20)
    <3>2. ASSUME NEW j \in 1 .. LEN(m), j \in 1 .. Len(x) PROVE x[j] = Units(m)[j]
      <4>1. u[j] = x[j]
        BY <2>1, <3>2, Zenon
      <4>2. u[j] = [m |-> m, i |-> j] /\ Units(m)[j] = [m |-> m, i |-> j]
        BY <1>3, <2>2, Zenon
      <4>3. QED
        BY <4>1, <4>2, Zenon
    <3>3. QED
      BY <3>1, <3>2, Zenon
  <2>4. /\ SubSeq(x, 1, 2) \in Seq(UnitSet) /\ Len(SubSeq(x, 1, 2)) = 2
        /\ \A j \in 1 .. 2 : SubSeq(x, 1, 2)[j] = x[j]
    BY <1>1, SubSeqProperties, SMTT(20)
  <2>5. /\ SubSeq(Units(m), 1, 2) \in Seq(UnitSet) /\ Len(SubSeq(Units(m), 1, 2)) = 2
        /\ \A j \in 1 .. 2 : SubSeq(Units(m), 1, 2)[j] = Units(m)[j]
    BY <1>3, SubSeqProperties, SMTT(20)
  <2>6. \A j \in 1 .. 2 : SubSeq(x, 1, 2)[j] = SubSeq(Units(m), 1, 2)[j]
    BY <2>3, <2>4, <2>5, SMTT(20)
  <2>7. SubSeq(x, 1, 2) = SubSeq(Units(m), 1, 2)
    BY <2>4, <2>5, <2>6, SeqEqual
  <2>8. QED
    BY <2>7 DEF HDR
<1>7. ASSUME WellFramed(u) PROVE h = [type |-> m.type, len |-> LEN(m)]
  BY <1>6, <1>7 DEF Header
<1>8. QED
  BY <1>5, <1>7

\* The buffer is a message, or what is left of one that was cut.
LEMMA TakeIs ==
  ASSUME NEW c \in Conns, NEW e \in Ends, Len(c.ep[e].rx) >= HDR, NEW h, h.type \in Types,
         ~Cause(c, e) => WellFramed(Pending(c, e)) /\ Len(c.ep[e].rx) = LEN(c.ep[e].rx[1].m)
  PROVE  LET t == TakeBuffer(c, e, h) IN t.r = "0" /\ Took(c, t.c, e, t.m)
<1> DEFINE p == Peer(e)
           x == c.ep[e].rx
           w == c.wire[e]
           m == Framed(x, h)
           left == c.cut[e] - Len(x)
           n == IF c.cut[e] = NoCut THEN NoCut ELSE IF left > 0 THEN left ELSE 0
           z == [c.ep[e] EXCEPT !.rx = <<>>]
           t == TakeBuffer(c, e, h)
           d == t.c
<1>1. p \in Ends /\ p # e
  BY PeerPeer
<1>2. /\ x \in Seq(UnitSet) /\ w \in Seq(UnitSet) /\ Len(x) \in Nat /\ Len(x) >= 2
      /\ c.ep[e] \in EpSet /\ c.cut[e] \in Int
  BY ConnType DEF HDR
<1>3. x[1].m \in Messages /\ Pending(c, e) # <<>> /\ Pending(c, e)[1] = x[1]
  BY <1>2, FirstUnit, SMTT(20)
<1>4. m \in Messages
  <2>1. -1 \in -1 .. MaxFwd
    BY ConnAssumption, SMTT(20)
  <2>2. QED
    BY <1>3, <2>1 DEF Framed, Messages
<1>5. n \in Int /\ (n = NoCut <=> c.cut[e] = NoCut)
  BY <1>2, SMTT(20) DEF NoCut
<1>6. <<>> \in Seq(UnitSet)
  BY SMTT(20)
<1>7. z \in EpSet /\ z.rx = <<>> /\ z.rc = c.ep[e].rc /\ z.vc = c.ep[e].vc /\ z.open = c.ep[e].open
  BY <1>2, <1>6 DEF EpSet
<1>8. t.r = "0" /\ t.m = m
  BY DEF TakeBuffer
<1>9. d = [ep |-> [c.ep EXCEPT ![e] = z], wire |-> c.wire, last |-> [c.last EXCEPT ![e] = m],
           cut |-> [c.cut EXCEPT ![e] = n], full |-> c.full]
  BY DEF TakeBuffer, Conns
<1> HIDE DEF m, n, z, t
<1>10. d \in Conns
  <2>1. /\ [c.ep EXCEPT ![e] = z] \in [Ends -> EpSet]
        /\ [c.last EXCEPT ![e] = m] \in [Ends -> Messages \cup {Nothing}]
        /\ [c.cut EXCEPT ![e] = n] \in [Ends -> Int]
    BY <1>4, <1>5, <1>7 DEF Conns
  <2>2. QED
    BY <1>9, <2>1, SMTT(20) DEF Conns
<1>11. /\ d.ep[e] = z /\ d.ep[p] = c.ep[p] /\ d.wire = c.wire /\ d.cut[e] = n /\ d.cut[p] = c.cut[p]
  BY <1>1, <1>9, SMTT(20) DEF Conns
<1>12. ASSUME ~Cause(c, e) PROVE WellFramed(w) /\ m = Pending(c, e)[1].m
  <2>1. x = Units(x[1].m) /\ WellFramed(w)
    BY <1>2, <1>12, FrameDrop, SMTT(20) DEF Pending
  <2>2. QED
    BY <1>3, <2>1 DEF m, Framed
<1>13. Took(c, d, e, m)
  BY <1>3, <1>4, <1>5, <1>7, <1>10, <1>11, <1>12 DEF Took
<1>14. QED
  BY <1>8, <1>13 DEF t

\* What vconn_stream_recv returns.
Received(c, o, e) ==
  \/ /\ o.r = "EAGAIN" /\ o.m = Nothing /\ Read(c, o.c, e)
     /\ Cause(c, e) \/ Partial(o.c.ep[e].rx)
  \/ o.r \in {"EOF", "EPROTO"} /\ o.m = Nothing /\ Read(c, o.c, e) /\ Cause(c, e)
  \/ o.r = "0" /\ Took(c, o.c, e, o.m)

\* A message taken after a read,
LEMMA ReadTook ==
  ASSUME NEW c, NEW d, NEW f, NEW m, NEW e \in Ends, Read(c, d, e), Took(d, f, e, m)
  PROVE  Took(c, f, e, m)
BY DEF Read, Took, Cause

\* which is no cause to disconnect.
LEMMA ReadCause ==
  ASSUME NEW c, NEW d, NEW e \in Ends, Read(c, d, e)
  PROVE  (Cause(d, e) <=> Cause(c, e)) /\ (Cause(d, Peer(e)) <=> Cause(c, Peer(e)))
BY PeerPeer DEF Read, Cause

\* vconn_stream_recv, when the header is there,
LEMMA PayloadIs ==
  ASSUME NEW c \in Conns, NEW e \in Ends, Len(c.ep[e].rx) >= HDR,
         ~Cause(c, e) => /\ WellFramed(Pending(c, e)) /\ Len(c.ep[e].rx) <= LEN(c.ep[e].rx[1].m),
         NEW o \in ReadPayload(c, e)
  PROVE  Received(c, o, e)
<1> DEFINE x == c.ep[e].rx
<1>1. Len(x) \in Nat
  BY ConnType
<1>2. PICK h \in Header(x) :
        o \in IF h.len < HDR THEN {[c |-> c, r |-> "EPROTO", m |-> Nothing]}
              ELSE {IF q.r = "OK" THEN TakeBuffer(q.c, e, h)
                                  ELSE [c |-> q.c, r |-> q.r, m |-> Nothing]
                     : q \in IF Len(x) < h.len THEN vconn_stream_recv__(c, e, h.len)
                             ELSE {[c |-> c, r |-> "OK"]}}
  BY DEF ReadPayload
<1>3. /\ h.type \in Types /\ h.len \in HDR - 1 .. HDR + PAYLOAD /\ h.len \in Nat
      /\ ~Cause(c, e) => h.len = LEN(x[1].m)
  BY HeaderIs, SMTT(20) DEF HDR, PAYLOAD
<1>4. ~Cause(c, e) => h.len \in {2, 4}
  <2>1. x[1].m \in Messages
    BY <1>1, FirstUnit, SMTT(20) DEF HDR
  <2>2. QED
    BY <1>3, <2>1, Lengths
<1>5. CASE h.len < HDR
  <2>1. o = [c |-> c, r |-> "EPROTO", m |-> Nothing]
    BY <1>2, <1>5
  <2>2. Cause(c, e)
    BY <1>4, <1>5, SMTT(20) DEF HDR
  <2>3. QED
    BY <2>1, <2>2 DEF Received, Read
<1>6. CASE ~(h.len < HDR) /\ Len(x) < h.len
  <2>1. PICK q \in vconn_stream_recv__(c, e, h.len) :
          o = IF q.r = "OK" THEN TakeBuffer(q.c, e, h) ELSE [c |-> q.c, r |-> q.r, m |-> Nothing]
    BY <1>2, <1>6
  <2>2. /\ Read(c, q.c, e) /\ q.r \in {"OK", "EAGAIN", "EOF", "EPROTO"}
        /\ q.r = "OK" => Len(q.c.ep[e].rx) = h.len
        /\ q.r = "EAGAIN" => Len(q.c.ep[e].rx) < h.len
        /\ q.r \in {"EOF", "EPROTO"} => ~c.ep[Peer(e)].open
    BY <1>3, <1>6, RecvIs
  <2>3. q.c \in Conns /\ Pending(q.c, e) = Pending(c, e) /\ Pending(c, e)[1] = x[1]
    BY <1>1, <2>2, FirstUnit, SMTT(20) DEF Read, HDR
  <2>4. ASSUME Len(q.c.ep[e].rx) > 0 PROVE q.c.ep[e].rx[1] = x[1]
    BY <2>3, <2>4, FirstUnit
  <2>5. CASE q.r = "OK"
    <3>1. Len(q.c.ep[e].rx) >= HDR /\ Len(q.c.ep[e].rx) > 0 /\ q.c.ep[e].rx[1] = x[1]
      BY <1>3, <1>6, <2>2, <2>4, <2>5, SMTT(20) DEF HDR
    <3>2. ~Cause(q.c, e) => WellFramed(Pending(q.c, e)) /\ Len(q.c.ep[e].rx) = LEN(q.c.ep[e].rx[1].m)
      BY <1>3, <2>2, <2>3, <2>5, <3>1, ReadCause
    <3>3. TakeBuffer(q.c, e, h).r = "0" /\ Took(q.c, TakeBuffer(q.c, e, h).c, e, TakeBuffer(q.c, e, h).m)
      BY <1>3, <2>3, <3>1, <3>2, TakeIs
    <3>4. Took(c, o.c, e, o.m) /\ o.r = "0"
      BY <2>1, <2>2, <2>5, <3>3, ReadTook
    <3>5. QED
      BY <3>4 DEF Received
  <2>6. CASE q.r = "EAGAIN"
    <3>1. o = [c |-> q.c, r |-> "EAGAIN", m |-> Nothing]
      BY <2>1, <2>6
    <3>2. Cause(c, e) \/ Partial(q.c.ep[e].rx)
      <4>1. SUFFICES ASSUME ~Cause(c, e), Len(q.c.ep[e].rx) >= HDR
                     PROVE  Len(q.c.ep[e].rx) < LEN(q.c.ep[e].rx[1].m)
        BY DEF Partial
      <4>2. Len(q.c.ep[e].rx) \in Nat
        BY <2>3, ConnType
      <4>3. q.c.ep[e].rx[1] = x[1]
        BY <2>4, <4>1, <4>2, SMTT(20) DEF HDR
      <4>4. QED
        BY <1>3, <2>2, <2>6, <4>1, <4>3
    <3>3. QED
      BY <2>2, <3>1, <3>2 DEF Received
  <2>7. CASE q.r \in {"EOF", "EPROTO"}
    <3>1. o.c = q.c /\ o.r = q.r /\ o.m = Nothing
      BY <2>1, <2>7
    <3>2. Cause(c, e)
      BY <2>2, <2>7 DEF Cause
    <3>3. QED
      BY <2>2, <2>7, <3>1, <3>2 DEF Received
  <2>8. QED
    BY <2>2, <2>5, <2>6, <2>7
<1>7. CASE ~(h.len < HDR) /\ ~(Len(x) < h.len)
  <2>1. o = TakeBuffer(c, e, h)
    BY <1>2, <1>7, SMTT(20)
  <2>2. ~Cause(c, e) => WellFramed(Pending(c, e)) /\ Len(x) = LEN(x[1].m)
    BY <1>1, <1>3, <1>7, SMTT(20)
  <2>3. o.r = "0" /\ Took(c, o.c, e, o.m)
    BY <1>3, <2>1, <2>2, TakeIs
  <2>4. QED
    BY <2>3 DEF Received
<1>8. QED
  BY <1>5, <1>6, <1>7

\* and from its start.
LEMMA ReceiveIs ==
  ASSUME NEW c, NEW e \in Ends, ConnOK(c), NEW o \in vconn_stream_recv(c, e)
  PROVE  Received(c, o, e)
<1> DEFINE x == c.ep[e].rx
<1>1. c \in Conns /\ Len(x) \in Nat /\ FramedOK(c, e) /\ HDR \in Nat
  BY ConnType DEF ConnOK, EndOK, HDR
<1>2. PICK q \in IF Len(x) < HDR THEN vconn_stream_recv__(c, e, HDR) ELSE {[c |-> c, r |-> "OK"]} :
        o \in IF q.r = "OK" THEN ReadPayload(q.c, e) ELSE {[c |-> q.c, r |-> q.r, m |-> Nothing]}
  BY DEF vconn_stream_recv
<1>3. CASE Len(x) < HDR
  <2>1. /\ Read(c, q.c, e) /\ q.r \in {"OK", "EAGAIN", "EOF", "EPROTO"}
        /\ q.r = "OK" => Len(q.c.ep[e].rx) = HDR
        /\ q.r = "EAGAIN" => Len(q.c.ep[e].rx) < HDR
        /\ q.r \in {"EOF", "EPROTO"} => ~c.ep[Peer(e)].open
    BY <1>1, <1>2, <1>3, RecvIs
  <2>2. q.c \in Conns /\ Pending(q.c, e) = Pending(c, e) /\ (Cause(q.c, e) <=> Cause(c, e))
    BY <2>1, ReadCause DEF Read
  <2>3. CASE q.r = "OK"
    <3>1. o \in ReadPayload(q.c, e) /\ Len(q.c.ep[e].rx) = 2
      BY <1>2, <2>1, <2>3 DEF HDR
    <3>2. q.c.ep[e].rx[1].m \in Messages
      BY <2>2, <3>1, FirstUnit, SMTT(20)
    <3>3. 2 <= LEN(q.c.ep[e].rx[1].m)
      BY <3>2, Lengths, SMTT(20)
    <3>4. Received(q.c, o, e)
      <4>1. Len(q.c.ep[e].rx) >= HDR
        BY <3>1, SMTT(20) DEF HDR
      <4>2. ~Cause(q.c, e) => WellFramed(Pending(q.c, e))
        BY <1>1, <2>2 DEF FramedOK
      <4>3. Len(q.c.ep[e].rx) <= LEN(q.c.ep[e].rx[1].m)
        BY <3>1, <3>3
      <4>4. QED
        BY <2>2, <3>1, <4>1, <4>2, <4>3, PayloadIs, Zenon
    <3>5. QED
      <4>1. CASE o.r = "EAGAIN" /\ Read(q.c, o.c, e)
        BY <2>1, <2>2, <3>4, <4>1, ReadTrans DEF Received
      <4>2. CASE o.r \in {"EOF", "EPROTO"} /\ Read(q.c, o.c, e)
        BY <2>1, <2>2, <3>4, <4>2, ReadTrans DEF Received
      <4>3. CASE o.r = "0" /\ Took(q.c, o.c, e, o.m)
        BY <2>1, <4>3, ReadTook DEF Received
      <4>4. QED
        BY <3>4, <4>1, <4>2, <4>3 DEF Received
  <2>4. CASE q.r = "EAGAIN"
    <3>1. o = [c |-> q.c, r |-> "EAGAIN", m |-> Nothing]
      BY <1>2, <2>4
    <3>2. Partial(q.c.ep[e].rx)
      <4>1. Len(q.c.ep[e].rx) \in Nat
        BY <2>2, ConnType
      <4>2. QED
        BY <2>1, <2>4, <4>1, SMTT(20) DEF Partial, HDR
    <3>3. QED
      BY <2>1, <3>1, <3>2 DEF Received
  <2>5. CASE q.r \in {"EOF", "EPROTO"}
    <3>1. o.c = q.c /\ o.r = q.r /\ o.m = Nothing
      BY <1>2, <2>5, SMTT(20)
    <3>2. Cause(c, e)
      BY <2>1, <2>5 DEF Cause
    <3>3. QED
      BY <2>1, <2>5, <3>1, <3>2 DEF Received
  <2>6. QED
    BY <2>1, <2>3, <2>4, <2>5
<1>4. CASE ~(Len(x) < HDR)
  <2>1. o \in ReadPayload(c, e)
    BY <1>2, <1>4, SMTT(20)
  <2>2. Len(x) >= HDR /\ Len(x) > 0
    BY <1>1, <1>4, SMTT(20) DEF HDR
  <2>3. x[1].m \in Messages
    BY <1>1, <2>2, FirstUnit
  <2>4. LEN(x[1].m) \in Nat
    BY <2>3, Lengths, SMTT(20)
  <2>5. ~Cause(c, e) => WellFramed(Pending(c, e)) /\ Len(x) <= LEN(x[1].m)
    BY <1>1, <2>2, <2>4, SMTT(20) DEF FramedOK, Partial
  <2>6. QED
    BY <1>1, <2>1, <2>2, <2>5, PayloadIs
<1>5. QED
  BY <1>3, <1>4

-----------------------------------------------------------------------------
(* The vconn.                                                                *)

\* The vconn of e is in state s, and nothing else has changed.
Revc(b, d, e, s) ==
  /\ d \in Conns /\ d.ep[Peer(e)] = b.ep[Peer(e)] /\ d.wire = b.wire /\ d.cut = b.cut
  /\ d.ep[e].rc = b.ep[e].rc /\ d.ep[e].rx = b.ep[e].rx /\ d.ep[e].open = b.ep[e].open
  /\ d.ep[e].vc = s

\* A new state of a vconn.
LEMMA SetVcIs ==
  ASSUME NEW b \in Conns, NEW e \in Ends, b.ep[e].rc # "DEAD", NEW s \in VcStates
  PROVE  Revc(b, SetVc(b, e, s), e, s)
<1> DEFINE x == [b.ep[e] EXCEPT !.vc = s]
           d == [b EXCEPT !.ep[e] = x]
<1>1. /\ x \in EpSet /\ x.rc = b.ep[e].rc /\ x.rx = b.ep[e].rx /\ x.open = b.ep[e].open
      /\ x.vc = s
  BY ConnType DEF EpSet
<1>2. SetVc(b, e, s) = d
  BY DEF SetVc, Conns
<1> HIDE DEF x
<1>3. /\ d \in Conns /\ d.ep[e] = x /\ d.ep[Peer(e)] = b.ep[Peer(e)]
      /\ d.wire = b.wire /\ d.cut = b.cut
  BY <1>1, SetEnd
<1>4. QED
  BY <1>1, <1>2, <1>3 DEF Revc

\* A read without a message is an Op,
LEMMA ReadOp ==
  ASSUME NEW c, NEW b, NEW d, NEW e \in Ends, ConnOK(c), c.ep[e].open, c.ep[e].vc # "NULL",
         Read(c, b, e), Cause(c, e) \/ Partial(b.ep[e].rx), NEW s, Revc(b, d, e, s),
         s = c.ep[e].vc \/ (c.ep[e].vc = "RECV_HELLO" /\ s = "DISCONNECTED" /\ Cause(c, e))
  PROVE  Op(c, d, e)
<1> DEFINE p == Peer(e)
<1>1. p \in Ends /\ p # e /\ Peer(p) = e /\ \A f \in Ends : f = e \/ f = p
  BY PeerPeer
<1>2. /\ c \in Conns /\ EndOK(c, e) /\ EndOK(c, p)
      /\ d \in Conns /\ d.ep[p] = c.ep[p] /\ d.wire[p] = c.wire[p] /\ d.cut = c.cut
      /\ d.ep[e].rc = c.ep[e].rc /\ d.ep[e].vc = s /\ d.ep[e].open = c.ep[e].open
      /\ d.ep[e].rx = b.ep[e].rx /\ Pending(d, e) = Pending(c, e)
  BY <1>1 DEF ConnOK, Read, Revc, Pending
<1>3. /\ Pending(d, p) = Pending(c, p)
      /\ Cause(d, e) <=> Cause(c, e)
      /\ Cause(d, p) <=> Cause(c, p)
  BY <1>1, <1>2 DEF Pending, Cause
<1>4. EndOK(d, e)
  <2>1. FramedOK(d, e)
    BY <1>2, <1>3 DEF EndOK, FramedOK
  <2>2. Greeting(d, e)
    BY <1>2, <1>3 DEF EndOK, Greeting
  <2>3. Ending(d, e)
    BY <1>2, <1>3 DEF EndOK, Ending
  <2>4. QED
    BY <2>1, <2>2, <2>3 DEF EndOK
<1>5. EndOK(d, p)
  <2>1. FramedOK(d, p)
    BY <1>2, <1>3 DEF EndOK, FramedOK
  <2>2. Greeting(d, p)
    BY <1>1, <1>2, <1>3 DEF EndOK, Greeting
  <2>3. Ending(d, p)
    BY <1>2, <1>3 DEF EndOK, Ending
  <2>4. QED
    BY <2>1, <2>2, <2>3 DEF EndOK
<1>6. QED
  BY <1>1, <1>2, <1>3, <1>4, <1>5 DEF Op, ConnOK, Gone

\* and so is one with a message.
LEMMA TookOp ==
  ASSUME NEW c, NEW b, NEW d, NEW e \in Ends, ConnOK(c), c.ep[e].open,
         c.ep[e].vc \in {"RECV_HELLO", "CONNECTED"}, NEW m, Took(c, b, e, m),
         NEW s, Revc(b, d, e, s), s = "CONNECTED" \/ (s = "DISCONNECTED" /\ Cause(c, e))
  PROVE  Op(c, d, e)
<1> DEFINE p == Peer(e)
<1>1. p \in Ends /\ p # e /\ Peer(p) = e /\ \A f \in Ends : f = e \/ f = p
  BY PeerPeer
<1>2. /\ c \in Conns /\ EndOK(c, e) /\ EndOK(c, p)
      /\ d \in Conns /\ d.ep[p] = c.ep[p] /\ d.wire[p] = c.wire[p] /\ d.cut[p] = c.cut[p]
      /\ d.cut[e] = NoCut <=> c.cut[e] = NoCut
      /\ d.ep[e].rc = c.ep[e].rc /\ d.ep[e].vc = s /\ d.ep[e].open = c.ep[e].open
      /\ d.ep[e].rx = <<>> /\ Pending(c, e) # <<>>
      /\ ~Cause(c, e) => WellFramed(d.wire[e])
  BY <1>1 DEF ConnOK, Took, Revc
<1>3. /\ Pending(d, p) = Pending(c, p)
      /\ Cause(d, e) <=> Cause(c, e)
      /\ Cause(d, p) <=> Cause(c, p)
  BY <1>1, <1>2 DEF Pending, Cause
<1>4. EndOK(d, e)
  <2>1. FramedOK(d, e)
    <3>1. d.wire[e] \in Seq(UnitSet)
      BY <1>2, ConnType
    <3>2. Pending(d, e) = d.wire[e] /\ Len(d.ep[e].rx) = 0
      BY <1>2, <3>1, ConcatEmptySeq DEF Pending
    <3>3. QED
      BY <1>2, <1>3, <3>2, SMTT(20) DEF FramedOK, Partial, HDR
  <2>2. Greeting(d, e)
    BY <1>2, <1>3 DEF EndOK, Greeting
  <2>3. Ending(d, e)
    BY <1>2, <1>3 DEF EndOK, Ending
  <2>4. QED
    BY <2>1, <2>2, <2>3 DEF EndOK
<1>5. EndOK(d, p)
  <2>1. FramedOK(d, p)
    BY <1>2, <1>3 DEF EndOK, FramedOK
  <2>2. Greeting(d, p)
    BY <1>1, <1>2, <1>3 DEF EndOK, Greeting
  <2>3. Ending(d, p)
    BY <1>2, <1>3 DEF EndOK, Ending
  <2>4. QED
    BY <2>1, <2>2, <2>3 DEF EndOK
<1>6. QED
  BY <1>1, <1>2, <1>3, <1>4, <1>5 DEF Op, ConnOK, Gone

\* A vconn that is there is over an open socket of a process that runs.
LEMMA VconnOpen ==
  ASSUME NEW c, NEW e \in Ends, ConnOK(c), c.ep[e].vc # "NULL"
  PROVE  c.ep[e].open /\ c.ep[e].rc # "DEAD"
BY DEF ConnOK, EndOK, Ending

\* vcs_send_hello.
LEMMA SendHelloOp ==
  ASSUME NEW c, NEW e \in Ends, ConnOK(c), c.ep[e].vc = "SEND_HELLO", NEW d \in vcs_send_hello(c, e)
  PROVE  Op(c, d, e) /\ d.ep[e].rc \in {c.ep[e].rc, "DEAD"}
<1> DEFINE hello == Msg("HELLO")
<1>1. hello \in Messages
  BY ConnAssumption, SMTT(20) DEF Msg, Messages, Types, HeaderOnly
<1>2. c.ep[e].open /\ c.ep[e].rc # "DEAD"
  BY VconnOpen
<1>3. PICK o \in vconn_stream_send(c, e, hello) :
        d = SetVc(o.c, e, IF o.r = "0" THEN "RECV_HELLO" ELSE "DISCONNECTED")
  BY DEF vcs_send_hello
<1> DEFINE s == IF o.r = "0" THEN "RECV_HELLO" ELSE "DISCONNECTED"
<1> HIDE DEF hello
<1>4. /\ o.r \in {"0", "ERROR"}
      /\ o.r = "ERROR" => ~c.ep[Peer(e)].open
      /\ \/ Op(c, o.c, e) /\ o.c.ep[e].rc = "DEAD"
         \/ Sent(c, o.c, e, hello, c.ep[e].vc)
  BY <1>1, SendIs
<1>5. CASE Op(c, o.c, e) /\ o.c.ep[e].rc = "DEAD"
  BY <1>3, <1>5 DEF SetVc
<1>6. CASE Sent(c, o.c, e, hello, c.ep[e].vc)
  <2>1. o.c \in Conns /\ o.c.ep[e].rc # "DEAD" /\ s \in VcStates
    BY <1>2, <1>6 DEF Sent, VcStates
  <2>2. Revc(o.c, d, e, s)
    BY <1>3, <2>1, SetVcIs
  <2>3. Sent(c, d, e, hello, s)
    BY <1>6, <2>2, PeerPeer DEF Sent, Revc
  <2>4. Op(c, d, e)
    BY <1>1, <1>2, <1>4, <2>3, SentOp DEF hello
  <2>5. QED
    BY <2>3, <2>4 DEF Sent
<1>7. QED
  BY <1>4, <1>5, <1>6

\* vcs_recv_hello.
LEMMA RecvHelloOp ==
  ASSUME NEW c, NEW e \in Ends, ConnOK(c), c.ep[e].vc = "RECV_HELLO", NEW d \in vcs_recv_hello(c, e)
  PROVE  Op(c, d, e)
<1>1. c.ep[e].open /\ c.ep[e].rc # "DEAD" /\ EndOK(c, e)
  BY VconnOpen DEF ConnOK
<1>2. PICK o \in vconn_stream_recv(c, e) :
        d = IF o.r = "0" /\ o.m.type = "HELLO" THEN SetVc(o.c, e, "CONNECTED")
            ELSE IF o.r = "EAGAIN" THEN o.c ELSE SetVc(o.c, e, "DISCONNECTED")
  BY DEF vcs_recv_hello
<1>3. Received(c, o, e)
  BY ReceiveIs
<1>4. CASE o.r = "EAGAIN" /\ Read(c, o.c, e) /\ (Cause(c, e) \/ Partial(o.c.ep[e].rx))
  <2>1. d = o.c
    BY <1>2, <1>4
  <2>2. Revc(o.c, d, e, c.ep[e].vc)
    BY <1>4, <2>1 DEF Revc, Read
  <2>3. QED
    BY <1>1, <1>4, <2>2, ReadOp
<1>5. CASE o.r \in {"EOF", "EPROTO"} /\ Read(c, o.c, e) /\ Cause(c, e)
  <2>1. d = SetVc(o.c, e, "DISCONNECTED")
    BY <1>2, <1>5
  <2>2. o.c \in Conns /\ o.c.ep[e].rc # "DEAD" /\ "DISCONNECTED" \in VcStates
    BY <1>1, <1>5 DEF Read, VcStates
  <2>3. Revc(o.c, d, e, "DISCONNECTED")
    BY <2>1, <2>2, SetVcIs
  <2>4. QED
    BY <1>1, <1>5, <2>3, ReadOp
<1>6. CASE o.r = "0" /\ Took(c, o.c, e, o.m)
  <2>1. /\ o.c \in Conns /\ o.c.ep[e].rc # "DEAD" /\ Pending(c, e) # <<>>
        /\ ~Cause(c, e) => o.m = Pending(c, e)[1].m
    BY <1>1, <1>6 DEF Took
  <2>2. ~Cause(c, e) => o.m.type = "HELLO"
    BY <1>1, <2>1 DEF EndOK, Greeting
  <2>3. CASE o.m.type = "HELLO"
    <3>1. d = SetVc(o.c, e, "CONNECTED") /\ "CONNECTED" \in VcStates
      BY <1>2, <1>6, <2>3 DEF VcStates
    <3>2. Revc(o.c, d, e, "CONNECTED")
      BY <2>1, <3>1, SetVcIs
    <3>3. QED
      BY <1>1, <1>6, <3>2, TookOp
  <2>4. CASE o.m.type # "HELLO"
    <3>1. d = SetVc(o.c, e, "DISCONNECTED") /\ "DISCONNECTED" \in VcStates
      BY <1>2, <1>6, <2>4 DEF VcStates
    <3>2. Revc(o.c, d, e, "DISCONNECTED")
      BY <2>1, <3>1, SetVcIs
    <3>3. QED
      BY <1>1, <1>6, <2>2, <2>4, <3>2, TookOp
  <2>5. QED
    BY <2>3, <2>4
<1>7. QED
  BY <1>3, <1>4, <1>5, <1>6 DEF Received

\* vconn_connect.
LEMMA ConnectOp ==
  ASSUME NEW c, NEW e \in Ends, ConnOK(c), NEW d \in vconn_connect(c, e)
  PROVE  Op(c, d, e)
<1> DEFINE greeted == IF c.ep[e].vc = "SEND_HELLO" THEN vcs_send_hello(c, e) ELSE {c}
<1>1. PICK b \in greeted : d \in IF b.ep[e].vc = "RECV_HELLO" THEN vcs_recv_hello(b, e) ELSE {b}
  BY DEF vconn_connect
<1>2. Op(c, b, e)
  BY <1>1, SendHelloOp, OpRefl
<1>3. ConnOK(b)
  BY <1>2 DEF Op
<1>4. Op(b, d, e)
  BY <1>1, <1>3, RecvHelloOp, OpRefl
<1>5. QED
  BY <1>2, <1>4, OpTrans

\* vconn_send.
LEMMA VconnSendOp ==
  ASSUME NEW c, NEW e \in Ends, ConnOK(c), NEW m \in Messages, NEW o \in vconn_send(c, e, m)
  PROVE  Op(c, o.c, e) /\ (o.r = "ERROR" => Cause(o.c, e))
<1>1. PICK d \in vconn_connect(c, e) :
        o \in CASE d.ep[e].vc = "CONNECTED"    -> vconn_stream_send(d, e, m)
                [] d.ep[e].vc = "DISCONNECTED" -> {[c |-> d, r |-> "ERROR"]}
                [] OTHER                       -> {[c |-> d, r |-> "EAGAIN"]}
  BY DEF vconn_send
<1>2. Op(c, d, e) /\ ConnOK(d)
  BY ConnectOp, SMTT(20) DEF Op
<1>3. CASE d.ep[e].vc = "CONNECTED"
  <2>1. o \in vconn_stream_send(d, e, m)
    BY <1>1, <1>3
  <2>2. /\ o.r = "ERROR" => ~d.ep[Peer(e)].open
        /\ \/ Op(d, o.c, e)
           \/ Sent(d, o.c, e, m, d.ep[e].vc)
    BY <1>2, <2>1, SendIs
  <2>3. d.ep[e].open
    BY <1>2, <1>3, VconnOpen
  <2>4. Op(d, o.c, e)
    BY <1>2, <1>3, <2>2, <2>3, SentOp
  <2>5. o.r = "ERROR" => Cause(o.c, e)
    BY <2>2, <2>4 DEF Op, Cause
  <2>6. QED
    BY <1>2, <2>4, <2>5, OpTrans
<1>4. CASE d.ep[e].vc = "DISCONNECTED"
  <2>1. o = [c |-> d, r |-> "ERROR"]
    BY <1>1, <1>4
  <2>2. Cause(d, e)
    BY <1>2, <1>4 DEF ConnOK, EndOK, Ending
  <2>3. QED
    BY <1>2, <2>1, <2>2
<1>5. CASE d.ep[e].vc \notin {"CONNECTED", "DISCONNECTED"}
  <2>1. o = [c |-> d, r |-> "EAGAIN"]
    BY <1>1, <1>5
  <2>2. QED
    BY <1>2, <2>1
<1>6. QED
  BY <1>3, <1>4, <1>5

\* vconn_recv.
LEMMA VconnRecvOp ==
  ASSUME NEW c, NEW e \in Ends, ConnOK(c), NEW o \in vconn_recv(c, e)
  PROVE  /\ Op(c, o.c, e)
         /\ o.r = "0" => o.m \in Messages
         /\ o.r \notin {"0", "EAGAIN"} => Cause(o.c, e)
<1>1. PICK d \in vconn_connect(c, e) :
        o \in CASE d.ep[e].vc = "CONNECTED"    -> vconn_stream_recv(d, e)
                [] d.ep[e].vc = "DISCONNECTED" -> {[c |-> d, r |-> "ERROR", m |-> Nothing]}
                [] OTHER                       -> {[c |-> d, r |-> "EAGAIN", m |-> Nothing]}
  BY DEF vconn_recv
<1>2. Op(c, d, e) /\ ConnOK(d)
  BY ConnectOp, SMTT(20) DEF Op
<1>3. CASE d.ep[e].vc = "CONNECTED"
  <2>1. o \in vconn_stream_recv(d, e)
    BY <1>1, <1>3
  <2>2. Received(d, o, e)
    BY <1>2, <2>1, ReceiveIs
  <2>3. d.ep[e].open
    BY <1>2, <1>3, VconnOpen
  <2>4. CASE o.r = "EAGAIN" /\ Read(d, o.c, e) /\ (Cause(d, e) \/ Partial(o.c.ep[e].rx))
    <3>1. Revc(o.c, o.c, e, d.ep[e].vc)
      BY <2>4 DEF Revc, Read
    <3>2. Op(d, o.c, e)
      BY <1>2, <1>3, <2>3, <2>4, <3>1, ReadOp
    <3>3. QED
      BY <1>2, <2>4, <3>2, OpTrans
  <2>5. CASE o.r \in {"EOF", "EPROTO"} /\ Read(d, o.c, e) /\ Cause(d, e)
    <3>1. Revc(o.c, o.c, e, d.ep[e].vc)
      BY <2>5 DEF Revc, Read
    <3>2. Op(d, o.c, e)
      BY <1>2, <1>3, <2>3, <2>5, <3>1, ReadOp
    <3>3. Cause(o.c, e)
      BY <2>5, <3>2 DEF Op
    <3>4. QED
      BY <1>2, <2>5, <3>2, <3>3, OpTrans
  <2>6. CASE o.r = "0" /\ Took(d, o.c, e, o.m)
    <3>1. Revc(o.c, o.c, e, "CONNECTED")
      BY <1>3, <2>6 DEF Revc, Took
    <3>2. Op(d, o.c, e)
      BY <1>2, <1>3, <2>3, <2>6, <3>1, TookOp
    <3>3. o.m \in Messages
      BY <2>6 DEF Took
    <3>4. QED
      BY <1>2, <2>6, <3>2, <3>3, OpTrans
  <2>7. QED
    BY <2>2, <2>4, <2>5, <2>6 DEF Received
<1>4. CASE d.ep[e].vc = "DISCONNECTED"
  <2>1. o = [c |-> d, r |-> "ERROR", m |-> Nothing]
    BY <1>1, <1>4
  <2>2. Cause(d, e)
    BY <1>2, <1>4 DEF ConnOK, EndOK, Ending
  <2>3. QED
    BY <1>2, <2>1, <2>2
<1>5. CASE d.ep[e].vc \notin {"CONNECTED", "DISCONNECTED"}
  <2>1. o = [c |-> d, r |-> "EAGAIN", m |-> Nothing]
    BY <1>1, <1>5
  <2>2. QED
    BY <1>2, <2>1
<1>6. QED
  BY <1>3, <1>4, <1>5

-----------------------------------------------------------------------------
(* The rconn.                                                                *)

\* rconn_run.
LEMMA RunOp ==
  ASSUME NEW c, NEW e \in Ends, ConnOK(c), NEW d \in rconn_run(c, e)
  PROVE  Op(c, d, e)
<1>1. PICK b \in vconn_run(c, e) :
        d \in IF b.ep[e].rc = "CONNECTING" THEN run_CONNECTING(b, e) ELSE {b}
  BY DEF rconn_run
<1>2. Op(c, b, e)
  BY <1>1, ConnectOp, OpRefl DEF vconn_run
<1>3. ConnOK(b)
  BY <1>2 DEF Op
<1>4. Op(b, d, e)
  <2>1. CASE b.ep[e].rc = "CONNECTING"
    <3>1. PICK a \in vconn_connect(b, e) :
            d \in CASE a.ep[e].vc = "CONNECTED"    -> {[a EXCEPT !.ep[e].rc = "ACTIVE"]}
                    [] a.ep[e].vc = "DISCONNECTED" -> rconn_disconnect(a, e)
                    [] OTHER                       -> {a}
      BY <1>1, <2>1 DEF run_CONNECTING
    <3>2. Op(b, a, e) /\ ConnOK(a)
      BY <1>3, ConnectOp, SMTT(20) DEF Op
    <3>3. CASE a.ep[e].vc = "CONNECTED"
      <4> DEFINE x == [a.ep[e] EXCEPT !.rc = "ACTIVE"]
                 p == Peer(e)
      <4>1. d = [a EXCEPT !.ep[e].rc = "ACTIVE"]
        BY <3>1, <3>3
      <4>2. a \in Conns /\ a.ep[e].open /\ p \in Ends /\ Peer(p) = e /\ \A f \in Ends : f = e \/ f = p
        BY <3>2, <3>3, VconnOpen, PeerPeer DEF ConnOK
      <4>3. /\ x \in EpSet /\ x.rc = "ACTIVE" /\ x.rx = a.ep[e].rx /\ x.open = a.ep[e].open
            /\ x.vc = "CONNECTED"
        <5>1. a.ep[e] \in EpSet /\ "ACTIVE" \in RcStates
          BY <4>2, ConnType DEF RcStates
        <5>2. QED
          <6>1. EpAs(WithRc(a.ep[e], "ACTIVE"), "ACTIVE", a.ep[e].vc, a.ep[e].rx, a.ep[e].open)
            BY <5>1, RcUpdate, Zenon
          <6>2. x = WithRc(a.ep[e], "ACTIVE")
            BY DEF WithRc
          <6>3. QED
            BY <3>3, <6>1, <6>2, Zenon DEF EpAs
      <4>4. d = [a EXCEPT !.ep[e] = x]
        BY <4>1, <4>2 DEF Conns
      <4> HIDE DEF x
      <4>5. /\ d \in Conns /\ d.ep[e] = x /\ d.ep[p] = a.ep[p] /\ d.wire = a.wire /\ d.cut = a.cut
        BY <4>2, <4>3, <4>4, SetEnd, SMTT(20)
      <4>6. /\ Pending(d, e) = Pending(a, e) /\ Pending(d, p) = Pending(a, p)
            /\ Cause(d, e) <=> Cause(a, e)
            /\ Cause(d, p) <=> Cause(a, p)
        BY <4>2, <4>3, <4>5 DEF Pending, Cause
      <4>7. EndOK(a, e) /\ EndOK(a, p)
        BY <3>2, <4>2 DEF ConnOK
      <4>8. EndOK(d, e)
        BY <3>3, <4>2, <4>3, <4>5, <4>6, <4>7 DEF EndOK, FramedOK, Greeting, Ending
      <4>9. EndOK(d, p)
        BY <3>3, <4>2, <4>3, <4>5, <4>6, <4>7 DEF EndOK, FramedOK, Greeting, Ending
      <4>10. ConnOK(d)
        BY <4>2, <4>5, <4>8, <4>9 DEF ConnOK
      <4>11. QED
        BY <2>1, <3>2, <3>3, <4>3, <4>5, <4>6, <4>10 DEF Op, Gone
    <3>4. CASE a.ep[e].vc = "DISCONNECTED"
      <4>1. d \in rconn_disconnect(a, e)
        BY <3>1, <3>4
      <4>2. Cause(a, e)
        BY <3>2, <3>4 DEF ConnOK, EndOK, Ending
      <4>3. QED
        BY <3>2, <4>1, <4>2, DisconnectOp, OpTrans
    <3>5. CASE a.ep[e].vc \notin {"CONNECTED", "DISCONNECTED"}
      <4>1. d = a
        BY <3>1, <3>5
      <4>2. QED
        BY <3>2, <4>1
    <3>6. QED
      BY <3>3, <3>4, <3>5
  <2>2. CASE b.ep[e].rc # "CONNECTING"
    <3>1. d = b
      BY <1>1, <2>2
    <3>2. QED
      BY <1>3, <3>1, OpRefl
  <2>3. QED
    BY <2>1, <2>2
<1>5. QED
  BY <1>2, <1>4, OpTrans

\* rconn_send.
LEMMA SendOp ==
  ASSUME NEW c, NEW e \in Ends, ConnOK(c), NEW m \in Messages, NEW d \in rconn_send(c, e, m)
  PROVE  Op(c, d, e)
<1>1. CASE c.ep[e].rc # "ACTIVE"
  BY <1>1, OpRefl DEF rconn_send
<1>2. CASE c.ep[e].rc = "ACTIVE"
  <2>1. PICK o \in vconn_send(c, e, m) : d \in IF o.r = "ERROR" THEN rconn_disconnect(o.c, e) ELSE {o.c}
    BY <1>2 DEF rconn_send
  <2>2. Op(c, o.c, e) /\ (o.r = "ERROR" => Cause(o.c, e)) /\ ConnOK(o.c)
    BY VconnSendOp, SMTT(20) DEF Op
  <2>3. CASE o.r = "ERROR"
    BY <2>1, <2>2, <2>3, DisconnectOp, OpTrans
  <2>4. CASE o.r # "ERROR"
    BY <2>1, <2>2, <2>4
  <2>5. QED
    BY <2>3, <2>4
<1>3. QED
  BY <1>1, <1>2

\* rconn_recv.
LEMMA RecvOp ==
  ASSUME NEW c, NEW e \in Ends, ConnOK(c), NEW o \in rconn_recv(c, e)
  PROVE  Op(c, o.c, e) /\ (o.m = Nothing \/ o.m \in Messages)
<1>1. CASE c.ep[e].rc # "ACTIVE"
  <2>1. o = [c |-> c, m |-> Nothing]
    BY <1>1 DEF rconn_recv
  <2>2. QED
    BY <2>1, OpRefl
<1>2. CASE c.ep[e].rc = "ACTIVE"
  <2>1. PICK q \in vconn_recv(c, e) :
          o \in CASE q.r = "0"      -> {[c |-> q.c, m |-> q.m]}
                  [] q.r = "EAGAIN" -> {[c |-> q.c, m |-> Nothing]}
                  [] OTHER -> {[c |-> d, m |-> Nothing] : d \in rconn_disconnect(q.c, e)}
    BY <1>2 DEF rconn_recv
  <2>2. /\ Op(c, q.c, e) /\ ConnOK(q.c)
        /\ q.r = "0" => q.m \in Messages
        /\ q.r \notin {"0", "EAGAIN"} => Cause(q.c, e)
    BY VconnRecvOp, SMTT(20) DEF Op
  <2>3. CASE q.r = "0"
    <3>1. o = [c |-> q.c, m |-> q.m]
      BY <2>1, <2>3
    <3>2. QED
      BY <2>2, <2>3, <3>1
  <2>4. CASE q.r = "EAGAIN"
    <3>1. o = [c |-> q.c, m |-> Nothing]
      BY <2>1, <2>4
    <3>2. QED
      BY <2>2, <3>1
  <2>5. CASE q.r \notin {"0", "EAGAIN"}
    <3>1. PICK d \in rconn_disconnect(q.c, e) : o = [c |-> d, m |-> Nothing]
      BY <2>1, <2>5
    <3>2. Op(c, d, e)
      BY <2>2, <2>5, DisconnectOp, OpTrans
    <3>3. QED
      BY <3>1, <3>2
  <2>6. QED
    BY <2>3, <2>4, <2>5
<1>3. QED
  BY <1>1, <1>2

-----------------------------------------------------------------------------
(* The controller's router and zebralite's end.                              *)

Scheds == {"none", "event", "read", "running"}

RtSet == [state : RouterStates, sched : Scheds,
          i : Int, ports : Int, addrs : Int, routes : Int]

ZlSet == [state : {"INIT", "HELLO", "UP"}, sched : {"none", "read"}]

\* The rconn of a router in state s: none before it is accepted, void once it is
\* destroyed, and otherwise active until it is dropped for a cause.
RtRc(c, s) ==
  c.ep["ctrl"].rc # "DEAD" =>
    /\ s = "NONE" => c.ep["ctrl"].rc = "VOID" /\ c.ep["ctrl"].vc = "NULL"
    /\ s # "NONE" => c.ep["ctrl"].rc = "ACTIVE" \/ (c.ep["ctrl"].rc = "VOID" /\ Cause(c, "ctrl"))
    /\ s = "FREED" => c.ep["ctrl"].rc = "VOID"

\* A router nothing is registered for has lost its vconn.
RtSched(c, r) ==
  /\ r.state = "NONE" => r.sched = "none"
  /\ r.state \notin {"NONE", "FREED"} /\ c.ep["ctrl"].rc # "DEAD" /\ r.sched = "none"
     => c.ep["ctrl"].vc \in Gone

\* Zebralite connects once; then it is connecting, and later void only for a cause.
ZlOK(c, r, z) ==
  /\ z.state = "INIT" => r.state = "NONE" /\ \A e \in Ends : ~c.ep[e].open /\ c.wire[e] = <<>>
  /\ z.state = "HELLO" /\ c.ep["zl"].rc # "DEAD" => c.ep["zl"].rc = "CONNECTING"
  /\ z.state = "UP" /\ c.ep["zl"].rc = "VOID" => Cause(c, "zl")
  /\ z.sched = "read" => z.state = "UP"

RInv ==
  /\ ConnOK(conn) /\ rt \in RtSet /\ zl \in ZlSet
  /\ RtRc(conn, rt.state) /\ RtSched(conn, rt) /\ ZlOK(conn, rt, zl)
  /\ StateIsRepliesSeen

\* A router with this state and this thread and the replies of r, and the updates of one.
RtAs(q, r, st, s) ==
  /\ q \in RtSet /\ q.state = st /\ q.sched = s
  /\ q.ports = r.ports /\ q.addrs = r.addrs /\ q.routes = r.routes

RtSchedule(r, s, n) == [r EXCEPT !.sched = s, !.i = n]

RtMove(r, st, n) == [r EXCEPT !.state = st, !.i = n]

RtPlace(r, st, s, n) == [r EXCEPT !.state = st, !.sched = s, !.i = n]

\* Updates of struct router, field by field,
LEMMA RtUpdates ==
  ASSUME NEW r \in RtSet, NEW st \in RouterStates, NEW s \in Scheds, NEW n \in Int
  PROVE  /\ RtAs(RtSchedule(r, s, n), r, r.state, s)
         /\ RtAs(RtMove(r, st, n), r, st, r.sched)
         /\ RtAs(RtPlace(r, st, s, n), r, st, s)
<1>1. RtAs(RtSchedule(r, s, n), r, r.state, s)
  BY DEF RtSet, RtAs, RtSchedule
<1>2. RtAs(RtMove(r, st, n), r, st, r.sched)
  BY DEF RtSet, RtAs, RtMove
<1>3. RtAs(RtPlace(r, st, s, n), r, st, s)
  BY DEF RtSet, RtAs, RtPlace
<1>4. QED
  BY <1>1, <1>2, <1>3

\* A router with the state and the thread of r and these replies.
RtCount(q, r, ports, addrs, routes) ==
  /\ q \in RtSet /\ q.state = r.state /\ q.sched = r.sched
  /\ q.ports = ports /\ q.addrs = addrs /\ q.routes = routes

\* and of what it has counted.
LEMMA RtCounts ==
  ASSUME NEW r \in RtSet
  PROVE  /\ RtCount([r EXCEPT !.ports = @ + 1], r, r.ports + 1, r.addrs, r.routes)
         /\ RtCount([r EXCEPT !.addrs = @ + 1], r, r.ports, r.addrs + 1, r.routes)
         /\ RtCount([r EXCEPT !.routes = @ + 1], r, r.ports, r.addrs, r.routes + 1)
<1>1. r.ports + 1 \in Int /\ r.addrs + 1 \in Int /\ r.routes + 1 \in Int
  BY SMTT(20) DEF RtSet
<1>2. RtCount([r EXCEPT !.ports = @ + 1], r, r.ports + 1, r.addrs, r.routes)
  BY <1>1 DEF RtSet, RtCount
<1>3. RtCount([r EXCEPT !.addrs = @ + 1], r, r.ports, r.addrs + 1, r.routes)
  BY <1>1 DEF RtSet, RtCount
<1>4. RtCount([r EXCEPT !.routes = @ + 1], r, r.ports, r.addrs, r.routes + 1)
  BY <1>1 DEF RtSet, RtCount
<1>5. QED
  BY <1>2, <1>3, <1>4

\* The two ends by name.
LEMMA TheEnds ==
  "ctrl" \in Ends /\ "zl" \in Ends /\ Peer("ctrl") = "zl" /\ Peer("zl") = "ctrl"
BY DEF Ends, Peer

\* A call of zebralite leaves the controller's end as it is, and the other way round.
LEMMA ZlKeepsRt ==
  ASSUME NEW c, NEW d, Op(c, d, "zl"), NEW r, RtRc(c, r.state), RtSched(c, r)
  PROVE  RtRc(d, r.state) /\ RtSched(d, r)
BY TheEnds DEF Op, RtRc, RtSched

\* What an operation of the controller on its rconn keeps: RtRc,
LEMMA CtrlKeepsRc ==
  ASSUME NEW c, NEW d, Op(c, d, "ctrl"), c.ep["ctrl"].rc # "DEAD", NEW s, s # "NONE", RtRc(c, s)
  PROVE  RtRc(d, s)
<1>1. d.ep["ctrl"].rc \in RcStates
  BY TheEnds, ConnType DEF Op, ConnOK
<1>2. QED
  BY <1>1, TheEnds DEF Op, RtRc, RcStates

\* RtSched
LEMMA CtrlKeepsSched ==
  ASSUME NEW c, NEW d, Op(c, d, "ctrl"), c.ep["ctrl"].rc # "DEAD", NEW r, RtSched(c, r)
  PROVE  RtSched(d, r)
BY DEF Op, RtSched

\* and ZlOK.
LEMMA CtrlKeepsZl ==
  ASSUME NEW c, NEW d, Op(c, d, "ctrl"), NEW r, NEW q, NEW z, r.state # "NONE", ZlOK(c, r, z)
  PROVE  ZlOK(d, q, z)
BY TheEnds DEF Op, ZlOK

\* An operation of zebralite keeps ZlOK.
LEMMA ZlKeepsZl ==
  ASSUME NEW c, NEW d, Op(c, d, "zl"), NEW r, NEW z, z.state = "UP", ZlOK(c, r, z)
  PROVE  ZlOK(d, r, z)
BY TheEnds DEF Op, ZlOK

\* Nothing a call of the controller does not register is forgotten.
LEMMA WaitSched ==
  ASSUME NEW c, NEW r \in RtSet, r.state # "NONE"
  PROVE  /\ router_wait(r, c) \in RtSet /\ router_wait(r, c).state = r.state
         /\ RtSched(c, router_wait(r, c))
         /\ router_wait(r, c).ports = r.ports /\ router_wait(r, c).addrs = r.addrs
         /\ router_wait(r, c).routes = r.routes
<1>1. /\ router_wait(r, c) \in RtSet
      /\ router_wait(r, c).state = r.state
      /\ router_wait(r, c).sched = IF vconn_wait(c, "ctrl") THEN "read" ELSE "none"
      /\ router_wait(r, c).ports = r.ports /\ router_wait(r, c).addrs = r.addrs
      /\ router_wait(r, c).routes = r.routes
  <2> DEFINE s == IF vconn_wait(c, "ctrl") THEN "read" ELSE "none"
  <2>1. s \in Scheds
    BY DEF Scheds
  <2>2. router_wait(r, c) = RtSchedule(r, s, 0)
    BY DEF router_wait, RtSchedule
  <2> HIDE DEF s
  <2>3. RtAs(RtSchedule(r, s, 0), r, r.state, s)
    <3>1. 0 \in Int /\ r.state \in RouterStates
      BY SMTT(20) DEF RtSet
    <3>2. QED
      BY <2>1, <3>1, RtUpdates
  <2>4. QED
    <3>1. /\ router_wait(r, c) \in RtSet
          /\ router_wait(r, c).state = r.state /\ router_wait(r, c).sched = s
          /\ router_wait(r, c).ports = r.ports /\ router_wait(r, c).addrs = r.addrs
          /\ router_wait(r, c).routes = r.routes
      BY <2>2, <2>3, Zenon DEF RtAs
    <3>2. QED
      BY <3>1 DEF s
<1>2. RtSched(c, router_wait(r, c))
  BY <1>1 DEF RtSched, vconn_wait, Gone
<1>3. QED
  BY <1>1, <1>2

\* RInv holds at the start.
LEMMA InitRInv == Init => RInv
<1> SUFFICES ASSUME Init PROVE RInv
  OBVIOUS
<1>1. NoConn \in EpSet
  <2>1. <<>> \in Seq(UnitSet)
    BY SMTT(20)
  <2>2. QED
    BY <2>1 DEF NoConn, EpSet, RcStates, VcStates
<1>2. Unconnected \in Conns
  <2>1. /\ [e \in Ends |-> NoConn] \in [Ends -> EpSet]
        /\ [e \in Ends |-> <<>>] \in [Ends -> Seq(UnitSet)]
        /\ [e \in Ends |-> Nothing] \in [Ends -> Messages \cup {Nothing}]
        /\ [e \in Ends |-> NoCut] \in [Ends -> Int]
        /\ [e \in Ends |-> FALSE] \in [Ends -> BOOLEAN]
    BY <1>1, SMTT(20) DEF NoCut
  <2>2. QED
    BY <2>1 DEF Unconnected, Conns
<1>3. ASSUME NEW e \in Ends
      PROVE  conn.ep[e] = NoConn /\ conn.wire[e] = <<>> /\ Peer(e) \in Ends /\ conn.cut[e] = NoCut
  BY PeerPeer DEF Init, Unconnected
<1>4. ASSUME NEW e \in Ends PROVE EndOK(conn, e)
  <2>1. Cause(conn, e)
    BY <1>3, SMTT(20) DEF Cause, NoConn
  <2>2. QED
    BY <1>3, <2>1, SMTT(20) DEF EndOK, FramedOK, Greeting, Ending, NoConn
<1>5. ConnOK(conn)
  BY <1>2, <1>4 DEF ConnOK, Init
<1>6. rt \in RtSet /\ zl \in ZlSet /\ rt.state = "NONE" /\ zl.state = "INIT" /\ rt.sched = "none"
      /\ zl.sched = "none"
  BY SMTT(20) DEF Init, RtSet, Scheds, ZlSet, RouterStates
<1>7. RtRc(conn, rt.state) /\ RtSched(conn, rt) /\ ZlOK(conn, rt, zl)
  BY <1>3, <1>6, TheEnds, SMTT(20) DEF RtRc, RtSched, ZlOK, NoConn
<1>8. StateIsRepliesSeen
  BY DEF Init, StateIsRepliesSeen
<1>9. QED
  BY <1>5, <1>6, <1>7, <1>8 DEF RInv

-----------------------------------------------------------------------------
(* One lemma per action.                                                     *)

\* The actions of the controller.
LEMMA AcceptRInv == RInv /\ Accept => RInv'
<1> SUFFICES ASSUME RInv, Accept PROVE RInv'
  OBVIOUS
<1> DEFINE p == "zl"
           e == "ctrl"
           x == [vconn_stream_new(conn.ep["ctrl"]) EXCEPT !.rc = "ACTIVE"]
<1>1. /\ ConnOK(conn) /\ conn \in Conns /\ conn.ep[e].open /\ conn.ep[e].rc = "VOID"
      /\ conn.ep[e].vc = "NULL" /\ conn.ep[e].rx = <<>> /\ rt.state = "NONE"
      /\ EndOK(conn, e) /\ EndOK(conn, p)
  BY TheEnds DEF RInv, Accept, RtRc, Runs, ConnOK, EndOK, Ending
<1>2. x \in EpSet /\ x.rc = "ACTIVE" /\ x.vc = "SEND_HELLO" /\ x.rx = <<>> /\ x.open
  <2>1. conn.ep["ctrl"] \in EpSet /\ "ACTIVE" \in RcStates
    BY <1>1, TheEnds, ConnType DEF RcStates
  <2>2. /\ x \in EpSet /\ x.rc = "ACTIVE" /\ x.vc = "SEND_HELLO" /\ x.rx = <<>>
        /\ x.open = conn.ep["ctrl"].open
    <3>1. EpAs(WithRc(vconn_stream_new(conn.ep["ctrl"]), "ACTIVE"), "ACTIVE", "SEND_HELLO", <<>>,
               conn.ep["ctrl"].open)
      BY <2>1, NewVconn, Zenon
    <3>2. x = WithRc(vconn_stream_new(conn.ep["ctrl"]), "ACTIVE")
      BY DEF WithRc
    <3>3. QED
      BY <3>1, <3>2, Zenon DEF EpAs
  <2>3. QED
    BY <1>1, <2>2
<1>3. x \in EpSet
  BY <1>2
<1>4. /\ conn' \in Conns /\ conn'.ep[e] = x /\ conn'.ep[p] = conn.ep[p] /\ conn'.wire = conn.wire
      /\ conn'.cut = conn.cut
  <2>1. conn' = [conn EXCEPT !.ep[e] = x]
    BY DEF Accept, rconn_connect_unreliably
  <2> HIDE DEF x
  <2>2. QED
    BY <1>1, <1>3, <2>1, SetEnd, TheEnds, SMTT(20)
<1> HIDE DEF x
<1>5. /\ Pending(conn', e) = Pending(conn, e) /\ Pending(conn', p) = Pending(conn, p)
      /\ Cause(conn', e) <=> Cause(conn, e)
      /\ Cause(conn', p) <=> Cause(conn, p)
  BY <1>1, <1>2, <1>4, TheEnds DEF Pending, Cause
<1>6. EndOK(conn', e)
  BY <1>1, <1>2, <1>4, <1>5, TheEnds DEF EndOK, FramedOK, Greeting, Ending
<1>7. EndOK(conn', p)
  BY <1>1, <1>2, <1>4, <1>5, TheEnds DEF EndOK, FramedOK, Greeting, Ending
<1>8. ConnOK(conn')
  BY <1>4, <1>6, <1>7 DEF ConnOK, Ends
<1>9. /\ rt' \in RtSet /\ rt'.state = "CONNECTING" /\ rt'.sched = "event" /\ rt'.ports = rt.ports
      /\ rt'.addrs = rt.addrs /\ rt'.routes = rt.routes /\ zl' = zl
  <2>1. rt \in RtSet /\ "CONNECTING" \in RouterStates /\ "event" \in Scheds /\ zl' = zl
        /\ rt' = [rt EXCEPT !.state = "CONNECTING", !.sched = "event"]
    BY DEF RInv, Accept, RouterStates, Scheds
  <2>2. QED
    BY <2>1 DEF RtSet
<1>10. RtRc(conn', rt'.state) /\ RtSched(conn', rt')
  BY <1>2, <1>4, <1>9 DEF RtRc, RtSched
<1>11. ZlOK(conn', rt', zl')
  BY <1>1, <1>4, <1>5, <1>9, TheEnds DEF RInv, ZlOK
<1>12. StateIsRepliesSeen'
  BY <1>1, <1>9 DEF RInv, StateIsRepliesSeen
<1>13. QED
  BY <1>8, <1>9, <1>10, <1>11, <1>12 DEF RInv

\* Msg of a request or of a reply.
LEMMA MsgType ==
  \A t \in Types : Msg(t) \in Messages
BY ConnAssumption, SMTT(20) DEF Msg, Messages

\* The messages of the handshake.
LEMMA RequestTypes ==
  /\ "FEATURES_REQUEST" \in Types /\ "STATS_ROUTES_REQUEST" \in Types /\ "ADDRESSES_REQUEST" \in Types
  /\ "FEATURES_REPLY" \in Types /\ "STATS_ROUTES_REPLY" \in Types /\ "ADDRESSES_REPLY" \in Types
BY DEF Types, HeaderOnly, Replies

\* router_handshake.
LEMMA HandshakeOp ==
  ASSUME NEW c, ConnOK(c), NEW d \in router_handshake(c)
  PROVE  Op(c, d, "ctrl")
<1>1. PICK b \in rconn_send(c, "ctrl", Msg("FEATURES_REQUEST")) :
        d \in rconn_send(b, "ctrl", Msg("STATS_ROUTES_REQUEST"))
  BY DEF router_handshake
<1>2. Msg("FEATURES_REQUEST") \in Messages /\ Msg("STATS_ROUTES_REQUEST") \in Messages
  BY MsgType, RequestTypes
<1>3. Op(c, b, "ctrl") /\ ConnOK(b)
  BY <1>1, <1>2, SendOp, TheEnds, SMTT(20) DEF Op
<1>4. Op(b, d, "ctrl")
  BY <1>1, <1>2, <1>3, SendOp, TheEnds
<1>5. QED
  BY <1>3, <1>4, OpTrans, TheEnds

\* The replies seen are the same when the state and the three counters are.
LEMMA SameReplies ==
  ASSUME StateIsRepliesSeen, rt' \in RtSet, rt'.ports = rt.ports, rt'.addrs = rt.addrs, rt'.routes = rt.routes,
         \/ rt'.state = rt.state \/ rt'.state = "FREED"
         \/ rt.state = "CONNECTING" /\ rt'.state = "CONNECTED"
  PROVE  StateIsRepliesSeen'
BY DEF StateIsRepliesSeen

\* router_run keeps RInv.
LEMMA RouterRunRInv == RInv /\ RouterRun => RInv'
<1> SUFFICES ASSUME RInv, RouterRun PROVE RInv'
  OBVIOUS
<1>1. PICK c \in rconn_run(conn, "ctrl") :
        IF rt.state = "CONNECTING" THEN RouterConnecting(c)
        ELSE conn' = c /\ rt' = [rt EXCEPT !.sched = "running", !.i = 0]
  BY DEF RouterRun
<1>2. /\ ConnOK(conn) /\ conn.ep["ctrl"].rc # "DEAD" /\ rt.state # "NONE" /\ zl' = zl /\ rt \in RtSet
      /\ RtRc(conn, rt.state) /\ RtSched(conn, rt) /\ ZlOK(conn, rt, zl) /\ StateIsRepliesSeen
      /\ zl \in ZlSet
  BY DEF RInv, RouterRun, RtSched, Runs
<1>3. Op(conn, c, "ctrl") /\ ConnOK(c)
  BY <1>2, RunOp, TheEnds, SMTT(20) DEF Op
<1>4. CASE rt.state # "CONNECTING"
  <2>1. conn' = c /\ rt' = [rt EXCEPT !.sched = "running", !.i = 0]
    BY <1>1, <1>4
  <2>2. /\ rt' \in RtSet /\ rt'.state = rt.state /\ rt'.sched = "running" /\ rt'.ports = rt.ports
        /\ rt'.addrs = rt.addrs /\ rt'.routes = rt.routes
    <3>1. "running" \in Scheds /\ 0 \in Int /\ rt.state \in RouterStates
      BY <1>2, SMTT(20) DEF Scheds, RtSet
    <3>2. RtAs(RtSchedule(rt, "running", 0), rt, rt.state, "running")
      BY <1>2, <3>1, RtUpdates, Zenon
    <3>3. rt' = RtSchedule(rt, "running", 0)
      BY <2>1 DEF RtSchedule
    <3>4. QED
      BY <3>2, <3>3, Zenon DEF RtAs
  <2>3. RtRc(conn', rt'.state) /\ RtSched(conn', rt') /\ ZlOK(conn', rt', zl')
    BY <1>2, <1>3, <2>1, <2>2, CtrlKeepsRc, CtrlKeepsZl, SMTT(20) DEF RtSched
  <2>4. QED
    BY <1>2, <1>3, <2>1, <2>2, <2>3, SameReplies DEF RInv
<1>5. CASE rt.state = "CONNECTING" /\ c.ep["ctrl"].vc = "NULL"
  <2>1. conn' \in Die(c, "ctrl") /\ rt' = rt
    BY <1>1, <1>5 DEF RouterConnecting
  <2>2. Op(c, conn', "ctrl") /\ conn'.ep["ctrl"].rc = "DEAD"
    BY <1>3, <2>1, DieOp, TheEnds
  <2>3. Op(conn, conn', "ctrl")
    BY <1>3, <2>2, OpTrans, TheEnds
  <2>4. RtRc(conn', rt'.state) /\ RtSched(conn', rt') /\ ZlOK(conn', rt', zl')
    BY <1>2, <2>1, <2>2, <2>3, CtrlKeepsZl DEF RtRc, RtSched
  <2>5. QED
    BY <1>2, <2>1, <2>2, <2>4, SameReplies DEF RInv, Op
<1>6. CASE rt.state = "CONNECTING" /\ c.ep["ctrl"].vc = "CONNECTED"
  <2> DEFINE r == [rt EXCEPT !.state = "CONNECTED"]
  <2>1. PICK d \in router_handshake(c) : conn' = d /\ rt' = router_wait(r, d)
    BY <1>1, <1>6 DEF RouterConnecting
  <2>2. Op(conn, d, "ctrl") /\ ConnOK(d)
    BY <1>3, HandshakeOp, OpTrans, TheEnds, SMTT(20) DEF Op
  <2>3. /\ r \in RtSet /\ r.state = "CONNECTED" /\ r.ports = rt.ports
        /\ r.addrs = rt.addrs /\ r.routes = rt.routes
    BY <1>2 DEF RtSet, RouterStates
  <2> HIDE DEF r
  <2>4. /\ rt' \in RtSet /\ rt'.state = "CONNECTED" /\ rt'.ports = rt.ports /\ RtSched(conn', rt')
        /\ rt'.addrs = rt.addrs /\ rt'.routes = rt.routes
    BY <2>1, <2>3, WaitSched
  <2>5. RtRc(conn', rt.state) /\ ZlOK(conn', rt', zl')
    BY <1>2, <2>1, <2>2, CtrlKeepsRc, CtrlKeepsZl
  <2>6. RtRc(conn', rt'.state)
    BY <1>6, <2>4, <2>5 DEF RtRc
  <2>7. QED
    BY <1>2, <1>6, <2>1, <2>2, <2>4, <2>5, <2>6, SameReplies DEF RInv
<1>7. CASE rt.state = "CONNECTING" /\ c.ep["ctrl"].vc \notin {"NULL", "CONNECTED"}
  <2>1. conn' = c /\ rt' = router_wait(rt, c)
    BY <1>1, <1>7 DEF RouterConnecting
  <2>2. /\ rt' \in RtSet /\ rt'.state = rt.state /\ rt'.ports = rt.ports /\ RtSched(conn', rt')
        /\ rt'.addrs = rt.addrs /\ rt'.routes = rt.routes
    BY <1>2, <2>1, WaitSched
  <2>3. RtRc(conn', rt'.state) /\ ZlOK(conn', rt', zl')
    BY <1>2, <1>3, <2>1, <2>2, CtrlKeepsRc, CtrlKeepsZl
  <2>4. QED
    BY <1>2, <1>3, <2>1, <2>2, <2>3, SameReplies DEF RInv
<1>8. QED
  BY <1>4, <1>5, <1>6, <1>7

\* The state a reply leads to says one more reply, and no other state is left.
LEMMA ReplyCounted ==
  ASSUME StateIsRepliesSeen, rt \in RtSet, NEW t \in Types, NEW r,
         r.state = AfterReply(rt.state, t), r.state # rt.state,
         r.ports = IF t = "FEATURES_REPLY" THEN rt.ports + 1 ELSE rt.ports,
         r.addrs = IF t = "ADDRESSES_REPLY" THEN rt.addrs + 1 ELSE rt.addrs,
         r.routes = IF t = "STATS_ROUTES_REPLY" THEN rt.routes + 1 ELSE rt.routes,
         rt' = r
  PROVE  /\ StateIsRepliesSeen' /\ t \in Replies
         /\ r.state \in RouterStates \ {"NONE", "FREED"} /\ rt.state \notin {"NONE", "FREED"}
<1>1. rt.ports \in Int /\ rt.addrs \in Int /\ rt.routes \in Int
  BY DEF RtSet
<1>2. \/ t = "FEATURES_REPLY" /\ rt.state = "CONNECTED" /\ r.state = "FEATURES_REPLY"
      \/ t = "FEATURES_REPLY" /\ rt.state = "STATS_ROUTES_REPLY" /\ r.state = "FEAT_STATS_REPLY"
      \/ t = "ADDRESSES_REPLY" /\ rt.state = "FEATURES_REPLY" /\ r.state = "FEAT_ADDR_REPLY"
      \/ t = "ADDRESSES_REPLY" /\ rt.state = "FEAT_STATS_REPLY" /\ r.state = "ROUTING"
      \/ t = "STATS_ROUTES_REPLY" /\ rt.state = "CONNECTED" /\ r.state = "STATS_ROUTES_REPLY"
      \/ t = "STATS_ROUTES_REPLY" /\ rt.state = "FEATURES_REPLY" /\ r.state = "FEAT_STATS_REPLY"
      \/ t = "STATS_ROUTES_REPLY" /\ rt.state = "FEAT_ADDR_REPLY" /\ r.state = "ROUTING"
  BY DEF AfterReply
<1>3. StateIsRepliesSeen'
  BY <1>1, <1>2, SMTT(20) DEF StateIsRepliesSeen
<1>4. QED
  BY <1>2, <1>3 DEF Replies, RouterStates

\* router_process_packet keeps RInv.
LEMMA PacketRInv ==
  ASSUME RInv, conn.ep["ctrl"].rc # "DEAD", rt.sched = "running", zl' = zl,
         NEW c, Op(conn, c, "ctrl"), NEW m \in Messages, router_process_packet(c, m)
  PROVE  RInv'
<1> DEFINE r == [rt EXCEPT !.state = AfterReply(@, m.type), !.i = @ + 1]
           taken == CASE m.type = "FEATURES_REPLY"     -> router_process_features(r, c)
                      [] m.type = "ADDRESSES_REPLY"    -> router_process_addresses(r, c)
                      [] m.type = "STATS_ROUTES_REPLY" -> router_process_stats_routes(r, c)
           after == IF r.state = rt.state THEN {<<r, c>>} ELSE taken
<1>1. /\ ConnOK(conn) /\ rt.state # "NONE" /\ rt \in RtSet /\ m.type \in Types
      /\ RtRc(conn, rt.state) /\ RtSched(conn, rt) /\ ZlOK(conn, rt, zl) /\ StateIsRepliesSeen
      /\ zl \in ZlSet /\ ConnOK(c)
  BY DEF RInv, RtSched, Op, Messages
<1>2. PICK a \in after : rt' = a[1] /\ conn' = a[2]
  BY DEF router_process_packet
<1>3. /\ r \in RtSet /\ r.state = AfterReply(rt.state, m.type) /\ r.sched = "running"
      /\ r.ports = rt.ports /\ r.addrs = rt.addrs /\ r.routes = rt.routes
  <2>1. rt.state \in RouterStates /\ rt.i + 1 \in Int /\ "none" \in Scheds
    BY <1>1, SMTT(20) DEF RtSet, Scheds
  <2>2. AfterReply(rt.state, m.type) \in RouterStates
    BY <2>1 DEF AfterReply, RouterStates
  <2>3. RtAs(RtMove(rt, AfterReply(rt.state, m.type), rt.i + 1), rt,
             AfterReply(rt.state, m.type), rt.sched)
    BY <1>1, <2>1, <2>2, RtUpdates, Zenon
  <2>4. r = RtMove(rt, AfterReply(rt.state, m.type), rt.i + 1)
    BY DEF RtMove
  <2>5. QED
    BY <2>3, <2>4, Zenon DEF RtAs
<1>4. CASE r.state = rt.state
  <2>1. rt' = r /\ conn' = c
    BY <1>2, <1>4, SMTT(20)
  <2>2. rt' \in RtSet
    BY <1>3, <2>1
  <2> HIDE DEF r
  <2>3. RtRc(conn', rt'.state) /\ RtSched(conn', rt') /\ ZlOK(conn', rt', zl')
    BY <1>1, <1>3, <1>4, <2>1, CtrlKeepsRc, CtrlKeepsZl DEF RtSched
  <2>4. QED
    BY <1>1, <1>3, <1>4, <2>1, <2>2, <2>3, SameReplies DEF RInv
<1>5. CASE r.state # rt.state
  <2>1. a \in taken
    BY <1>2, <1>5
  <2> DEFINE t == m.type
  <2>2. t \in Replies
    BY <1>3, <1>5 DEF AfterReply, Replies
  <2>3. /\ rt' \in RtSet /\ rt'.state = r.state /\ rt'.sched = "running"
        /\ rt'.ports = IF t = "FEATURES_REPLY" THEN rt.ports + 1 ELSE rt.ports
        /\ rt'.addrs = IF t = "ADDRESSES_REPLY" THEN rt.addrs + 1 ELSE rt.addrs
        /\ rt'.routes = IF t = "STATS_ROUTES_REPLY" THEN rt.routes + 1 ELSE rt.routes
        /\ conn' \in IF t = "FEATURES_REPLY" THEN rconn_send(c, "ctrl", Msg("ADDRESSES_REQUEST")) ELSE {c}
    <3> HIDE DEF r
    <3>1. CASE t = "FEATURES_REPLY"
      <4>1. PICK d \in rconn_send(c, "ctrl", Msg("ADDRESSES_REQUEST")) : a = <<[r EXCEPT !.ports = @ + 1], d>>
        BY <2>1, <3>1 DEF router_process_features
      <4>2. rt' = [r EXCEPT !.ports = @ + 1] /\ conn' = d
        BY <1>2, <4>1
      <4>3. QED
        BY <1>3, <3>1, <4>2, RtCounts DEF RtCount
    <3>2. CASE t = "ADDRESSES_REPLY"
      <4>1. a = <<[r EXCEPT !.addrs = @ + 1], c>>
        BY <2>1, <3>2 DEF router_process_addresses
      <4>2. rt' = [r EXCEPT !.addrs = @ + 1] /\ conn' = c
        BY <1>2, <4>1
      <4>3. QED
        BY <1>3, <3>2, <4>2, RtCounts DEF RtCount
    <3>3. CASE t = "STATS_ROUTES_REPLY"
      <4>1. a = <<[r EXCEPT !.routes = @ + 1], c>>
        BY <2>1, <3>3 DEF router_process_stats_routes
      <4>2. rt' = [r EXCEPT !.routes = @ + 1] /\ conn' = c
        BY <1>2, <4>1
      <4>3. QED
        BY <1>3, <3>3, <4>2, RtCounts DEF RtCount
    <3>4. QED
      BY <2>2, <3>1, <3>2, <3>3 DEF Replies
  <2> HIDE DEF r, taken, after
  <2>4. /\ StateIsRepliesSeen' /\ rt'.state \in RouterStates \ {"NONE", "FREED"}
        /\ rt.state \notin {"NONE", "FREED"}
    BY <1>1, <1>3, <1>5, <2>3, ReplyCounted
  <2>5. rt' \in RtSet
    BY <2>3
  <2>6. Op(conn, conn', "ctrl") /\ ConnOK(conn')
    <3>1. Msg("ADDRESSES_REQUEST") \in Messages
      BY MsgType, RequestTypes
    <3>2. CASE t = "FEATURES_REPLY"
      BY <1>1, <2>3, <3>1, <3>2, SendOp, OpTrans, TheEnds, SMTT(20) DEF Op
    <3>3. CASE t # "FEATURES_REPLY"
      BY <1>1, <2>3, <3>3
    <3>4. QED
      BY <3>2, <3>3
  <2>7. RtRc(conn', rt.state) /\ ZlOK(conn', rt', zl')
    BY <1>1, <2>6, CtrlKeepsRc, CtrlKeepsZl
  <2>8. RtRc(conn', rt'.state) /\ RtSched(conn', rt')
    BY <2>3, <2>4, <2>7 DEF RtRc, RtSched
  <2>9. QED
    BY <1>1, <2>4, <2>5, <2>6, <2>7, <2>8 DEF RInv
<1>6. QED
  BY <1>4, <1>5

\* The end of router_run keeps RInv.
LEMMA DoneRInv ==
  ASSUME RInv, conn.ep["ctrl"].rc # "DEAD", rt.sched = "running", zl' = zl,
         NEW c, Op(conn, c, "ctrl"), RouterDone(c)
  PROVE  RInv'
<1>1. /\ ConnOK(conn) /\ rt.state # "NONE" /\ rt \in RtSet
      /\ RtRc(conn, rt.state) /\ RtSched(conn, rt) /\ ZlOK(conn, rt, zl) /\ StateIsRepliesSeen
      /\ zl \in ZlSet /\ ConnOK(c)
  BY DEF RInv, RtSched, Op
<1>2. conn' = c /\ RtRc(c, rt.state) /\ ZlOK(conn', rt', zl')
  BY <1>1, CtrlKeepsRc, CtrlKeepsZl, SMTT(20) DEF RouterDone
<1>3. CASE c.ep["ctrl"].rc = "ACTIVE"
  <2>1. rt' = router_wait(rt, c)
    BY <1>3 DEF RouterDone
  <2>2. /\ rt' \in RtSet /\ rt'.state = rt.state /\ rt'.ports = rt.ports /\ RtSched(conn', rt')
        /\ rt'.addrs = rt.addrs /\ rt'.routes = rt.routes
    BY <1>1, <1>2, <2>1, WaitSched
  <2>3. QED
    BY <1>1, <1>2, <2>2, SameReplies DEF RInv
<1>4. CASE c.ep["ctrl"].rc # "ACTIVE"
  <2>1. rt' = [rt EXCEPT !.state = "FREED", !.sched = "none", !.i = 0]
    BY <1>4 DEF RouterDone
  <2>2. /\ rt' \in RtSet /\ rt'.state = "FREED" /\ rt'.ports = rt.ports
        /\ rt'.addrs = rt.addrs /\ rt'.routes = rt.routes
    <3>1. "FREED" \in RouterStates /\ "none" \in Scheds /\ 0 \in Int
      BY SMTT(20) DEF RouterStates, Scheds
    <3>2. RtAs(RtPlace(rt, "FREED", "none", 0), rt, "FREED", "none")
      BY <1>1, <3>1, RtUpdates, Zenon
    <3>3. rt' = RtPlace(rt, "FREED", "none", 0)
      BY <2>1 DEF RtPlace
    <3>4. QED
      BY <3>2, <3>3, Zenon DEF RtAs
  <2>3. RtRc(conn', rt'.state) /\ RtSched(conn', rt')
    BY <1>1, <1>2, <1>4, <2>2 DEF RtRc, RtSched
  <2>4. QED
    BY <1>1, <1>2, <2>2, <2>3, SameReplies DEF RInv
<1>5. QED
  BY <1>3, <1>4

\* A pass of the loop in router_run keeps RInv.
LEMMA RouterRecvRInv == RInv /\ RouterRecv => RInv'
<1> SUFFICES ASSUME RInv, RouterRecv PROVE RInv'
  OBVIOUS
<1>1. conn.ep["ctrl"].rc # "DEAD" /\ rt.sched = "running" /\ zl' = zl /\ ConnOK(conn)
  BY DEF RouterRecv, Runs, RInv
<1>2. CASE rt.i = RECVS
  BY <1>1, <1>2, DoneRInv, OpRefl, TheEnds DEF RouterRecv
<1>3. CASE rt.i # RECVS
  <2>1. PICK o \in rconn_recv(conn, "ctrl") :
          IF o.m = Nothing THEN RouterDone(o.c) ELSE router_process_packet(o.c, o.m)
    BY <1>3 DEF RouterRecv
  <2>2. Op(conn, o.c, "ctrl") /\ (o.m = Nothing \/ o.m \in Messages)
    BY <1>1, RecvOp, TheEnds
  <2>3. QED
    BY <1>1, <2>1, <2>2, DoneRInv, PacketRInv
<1>4. QED
  BY <1>2, <1>3

\* The messages forwarded are counted.
FwdSet == [sent : [Ends -> 0 .. MaxFwd], passed : [Ends -> Int]]

FwdOK == fwd \in FwdSet

\* FwdOK holds at the start and is kept.
LEMMA FwdInv == (Init => FwdOK) /\ (FwdOK /\ [Next]_vars => FwdOK')
<1>1. Init => FwdOK
  BY ConnAssumption, SMTT(20) DEF Init, FwdOK, FwdSet
<1>2. ASSUME NEW f \in FwdSet, NEW e \in Ends
      PROVE  /\ f.passed[e] \in Int /\ f.sent[e] \in 0 .. MaxFwd
             /\ \A n \in Int : [f EXCEPT !.passed[e] = n] \in FwdSet
             /\ \A n \in 0 .. MaxFwd : [f EXCEPT !.sent[e] = n] \in FwdSet
  <2>1. f.passed[e] \in Int /\ f.sent[e] \in 0 .. MaxFwd
    BY DEF FwdSet
  <2>2. ASSUME NEW n \in Int PROVE [f EXCEPT !.passed[e] = n] \in FwdSet
    BY DEF FwdSet
  <2>3. ASSUME NEW n \in 0 .. MaxFwd PROVE [f EXCEPT !.sent[e] = n] \in FwdSet
    BY DEF FwdSet
  <2>4. QED
    BY <2>1, <2>2, <2>3
<1>3. ASSUME FwdOK, NEW e \in Ends, fwd' = [fwd EXCEPT !.passed[e] = @ + 1] PROVE FwdOK'
  <2>1. fwd.passed[e] + 1 \in Int
    BY <1>2, <1>3, SMTT(20) DEF FwdOK
  <2>2. QED
    BY <1>2, <1>3, <2>1 DEF FwdOK
<1>4. ASSUME FwdOK, NEW e \in Ends, fwd.sent[e] < MaxFwd, fwd' = [fwd EXCEPT !.sent[e] = @ + 1]
      PROVE  FwdOK'
  <2>1. fwd.sent[e] + 1 \in 0 .. MaxFwd
    BY <1>2, <1>4, ConnAssumption, SMTT(20) DEF FwdOK
  <2>2. QED
    BY <1>2, <1>4, <2>1 DEF FwdOK
<1>5. ASSUME FwdOK, fwd' = fwd PROVE FwdOK'
  BY <1>5 DEF FwdOK
<1>6. ASSUME FwdOK, [Next]_vars PROVE FwdOK'
  <2>1. CASE Accept \/ RouterRun \/ ListenerRun \/ DpRun \/ (\E e \in Ends : Crash(e)) \/ UNCHANGED vars
    BY <1>5, <1>6, <2>1 DEF Accept, RouterRun, ListenerRun, DpRun, Crash, vars
  <2>2. CASE RouterRecv
    <3>1. fwd' = fwd \/ fwd' = [fwd EXCEPT !.passed["ctrl"] = @ + 1]
      BY <2>2 DEF RouterRecv, RouterDone, router_process_packet
    <3>2. QED
      BY <1>3, <1>5, <1>6, <3>1, TheEnds
  <2>3. CASE ConnRecv
    <3>1. fwd' = fwd \/ fwd' = [fwd EXCEPT !.passed["zl"] = @ + 1]
      BY <2>3 DEF ConnRecv
    <3>2. QED
      BY <1>3, <1>5, <1>6, <3>1, TheEnds
  <2>4. CASE SibForward
    BY <1>4, <1>6, <2>4, TheEnds DEF SibForward
  <2>5. CASE PuntForward
    BY <1>4, <1>6, <2>5, TheEnds DEF PuntForward
  <2>6. QED
    BY <1>6, <2>1, <2>2, <2>3, <2>4, <2>5 DEF Next, Controller, Zebralite
<1>7. QED
  BY <1>1, <1>6

\* A forwarded packet is a message.
LEMMA ForwardMsg ==
  ASSUME FwdOK, NEW e \in Ends, fwd.sent[e] < MaxFwd, fwd' = [fwd EXCEPT !.sent[e] = @ + 1]
  PROVE  [type |-> "FORWARD", n |-> fwd'.sent[e]] \in Messages
<1>1. fwd.sent[e] \in 0 .. MaxFwd /\ fwd'.sent[e] = fwd.sent[e] + 1
  BY DEF FwdOK, FwdSet
<1>2. fwd'.sent[e] \in -1 .. MaxFwd
  BY <1>1, ConnAssumption, SMTT(20)
<1>3. QED
  BY <1>2 DEF Messages, Types

\* A packet forwarded for a sibling keeps RInv.
LEMMA SibForwardRInv == RInv /\ FwdOK /\ SibForward => RInv'
<1> SUFFICES ASSUME RInv, FwdOK, SibForward PROVE RInv'
  OBVIOUS
<1> DEFINE m == [type |-> "FORWARD", n |-> fwd'.sent["ctrl"]]
<1>1. /\ ConnOK(conn) /\ rt.state # "NONE" /\ rt \in RtSet /\ conn.ep["ctrl"].rc # "DEAD"
      /\ RtRc(conn, rt.state) /\ RtSched(conn, rt) /\ ZlOK(conn, rt, zl) /\ StateIsRepliesSeen
      /\ zl \in ZlSet /\ zl' = zl /\ rt' = rt
  BY DEF RInv, SibForward, Runs
<1>2. m \in Messages
  BY ForwardMsg, TheEnds DEF SibForward
<1>3. conn' \in IF rt.state = "FREED" THEN {conn} \cup Die(conn, "ctrl") ELSE rconn_send(conn, "ctrl", m)
  BY DEF SibForward
<1> HIDE DEF m
<1>4. Op(conn, conn', "ctrl") /\ ConnOK(conn')
  BY <1>1, <1>2, <1>3, SendOp, DieOp, OpRefl, TheEnds, SMTT(20) DEF Op
<1>5. RtRc(conn', rt.state) /\ RtSched(conn', rt) /\ ZlOK(conn', rt', zl)
  BY <1>1, <1>4, CtrlKeepsRc, CtrlKeepsSched, CtrlKeepsZl
<1>6. StateIsRepliesSeen'
  BY <1>1, SameReplies
<1>7. QED
  BY <1>1, <1>4, <1>5, <1>6 DEF RInv

\* The actions of zebralite.
LEMMA OpenedOK ==
  ASSUME NEW c, ConnOK(c), \A e \in Ends : ~c.ep[e].open /\ c.wire[e] = <<>>,
         c.ep["zl"].rc = "VOID", NEW d \in rconn_connect(c)
  PROVE  \/ d = c
         \/ /\ ConnOK(d) /\ d.ep["zl"].rc = "CONNECTING" /\ d.ep["zl"].vc = "SEND_HELLO"
            /\ d.ep["ctrl"].rc = c.ep["ctrl"].rc /\ d.ep["ctrl"].vc = c.ep["ctrl"].vc
<1> DEFINE b == [c EXCEPT !.ep["zl"].open = TRUE, !.ep["ctrl"].open = TRUE]
           x == WithOpen(c.ep["ctrl"], TRUE)
           u == WithOpen(c.ep["zl"], TRUE)
           v == vconn_stream_new(u)
           z == WithRc(v, "CONNECTING")
<1>1. /\ c \in Conns /\ c.ep["ctrl"] \in EpSet /\ c.ep["zl"] \in EpSet
      /\ c.ep["ctrl"].vc = "NULL" /\ c.ep["ctrl"].rx = <<>> /\ c.ep["ctrl"].rc \in {"VOID", "DEAD"}
  BY ConnType, TheEnds DEF ConnOK, EndOK, Ending
<1>2. d \in reconnect(c)
  BY DEF rconn_connect, rconn_disconnect
<1>3. PICK a \in vconn_open(c) :
        d = IF a.ep["zl"].open THEN [a EXCEPT !.ep["zl"].rc = "CONNECTING"] ELSE a
  BY <1>2 DEF reconnect
<1>4. PICK f \in inet_open_active6(c) :
        a = IF f.ep["zl"].open THEN [f EXCEPT !.ep["zl"] = vconn_stream_new(f.ep["zl"])] ELSE f
  BY <1>3 DEF vconn_open
<1>5. CASE f = c
  BY <1>3, <1>4, <1>5, TheEnds
<1>6. CASE f = b /\ c.ep["ctrl"].rc # "DEAD"
  <2>1. /\ x \in EpSet /\ x.rc = "VOID" /\ x.vc = "NULL" /\ x.rx = <<>> /\ x.open
        /\ x.rc = c.ep["ctrl"].rc /\ u \in EpSet /\ u.open
    <3>1. /\ EpAs(x, c.ep["ctrl"].rc, c.ep["ctrl"].vc, c.ep["ctrl"].rx, TRUE)
          /\ EpAs(u, c.ep["zl"].rc, c.ep["zl"].vc, c.ep["zl"].rx, TRUE)
      BY <1>1, OpenUpdate, Zenon
    <3> HIDE DEF x, u
    <3>2. QED
      BY <1>1, <1>6, <3>1 DEF EpAs
  <2>2. f = WithEnd(WithEnd(c, "zl", u), "ctrl", x)
    BY <1>1, <1>6, TheEnds DEF Conns, WithEnd, WithOpen
  <2> HIDE DEF x, u, z, v
  <2>3. /\ v \in EpSet /\ v.open /\ z \in EpSet /\ z.rc = "CONNECTING"
        /\ z.vc = "SEND_HELLO" /\ z.rx = <<>> /\ z.open
    <3>1. "CONNECTING" \in RcStates
      BY DEF RcStates
    <3>2. /\ EpAs(v, "VOID", "SEND_HELLO", <<>>, u.open)
          /\ EpAs(z, "CONNECTING", "SEND_HELLO", <<>>, u.open)
      BY <2>1, <3>1, NewVconn, Zenon DEF v, z
    <3>3. QED
      BY <2>1, <3>2, Zenon DEF EpAs
  <2> DEFINE g == WithEnd(c, "zl", u)
  <2>4. "zl" \in Ends /\ "ctrl" \in Ends /\ Peer("zl") = "ctrl" /\ Peer("ctrl") = "zl"
    BY TheEnds
  <2>5. Replaced(c, g, "zl", u)
    BY <1>1, <2>1, <2>4, WithEndIs, Zenon
  <2> HIDE DEF g
  <2>6. Replaced(g, f, "ctrl", x)
    <3>1. g \in Conns /\ f = WithEnd(g, "ctrl", x)
      BY <2>2, <2>5, Zenon DEF Replaced, g
    <3>2. QED
      BY <2>1, <2>4, <3>1, WithEndIs, Zenon
  <2>7. Replaced(f, a, "zl", v)
    <3>1. f \in Conns /\ f.ep["zl"] = u
      BY <2>4, <2>5, <2>6, Zenon DEF Replaced
    <3>2. a = WithEnd(f, "zl", v)
      BY <1>4, <2>1, <3>1, Zenon DEF WithEnd, v
    <3>3. QED
      BY <2>3, <2>4, <3>1, <3>2, WithEndIs, Zenon
  <2>8. d \in Conns /\ d.ep["zl"] = z /\ d.ep["ctrl"] = x /\ d.wire = c.wire
    <3>1. a \in Conns /\ a.ep["zl"] = v
      BY <2>7, Zenon DEF Replaced
    <3>2. d = [a EXCEPT !.ep["zl"].rc = "CONNECTING"]
      BY <1>3, <2>3, <3>1, Zenon
    <3>3. d = WithEnd(a, "zl", WithRc(a.ep["zl"], "CONNECTING"))
      BY <3>2 DEF WithEnd, WithRc
    <3>4. Replaced(a, d, "zl", z)
      <4>1. d = WithEnd(a, "zl", z)
        BY <3>1, <3>3, Zenon DEF z
      <4>2. QED
        BY <2>3, <2>4, <3>1, <4>1, WithEndIs, Zenon
    <3>5. QED
      BY <2>4, <2>5, <2>6, <2>7, <3>4, Zenon DEF Replaced
  <2>9. ASSUME NEW e \in Ends PROVE EndOK(d, e)
    <3>1. /\ d.ep[e].rx = <<>> /\ d.wire[e] = <<>> /\ d.ep[e].vc \in {"NULL", "SEND_HELLO"}
          /\ d.ep[e].open /\ d.ep[e].rc # "DEAD" /\ (d.ep[e].vc = "NULL" => d.ep[e].rc = "VOID")
          /\ d.ep[Peer(e)].vc \in {"NULL", "SEND_HELLO"}
      BY <2>1, <2>3, <2>8, TheEnds DEF Ends
    <3>2. Pending(d, e) = <<>> /\ Len(Pending(d, e)) = 0 /\ Len(d.ep[e].rx) = 0
      BY <2>8, <3>1, NothingPending, EmptySeq
    <3>3. FramedOK(d, e)
      BY <3>2, SMTT(20) DEF FramedOK, WellFramed, Partial, HDR
    <3>4. QED
      BY <3>1, <3>2, <3>3 DEF EndOK, Greeting, Ending
  <2>10. QED
    BY <1>1, <2>1, <2>3, <2>8, <2>9 DEF ConnOK
<1>7. QED
  BY <1>4, <1>5, <1>6 DEF inet_open_active6

\* listener_run of zebralite, which connects, keeps RInv.
LEMMA ListenerRunRInv == RInv /\ ListenerRun => RInv'
<1> SUFFICES ASSUME RInv, ListenerRun PROVE RInv'
  OBVIOUS
<1>1. /\ ConnOK(conn) /\ rt.state = "NONE" /\ rt \in RtSet /\ conn.ep["zl"].rc # "DEAD"
      /\ RtRc(conn, rt.state) /\ RtSched(conn, rt) /\ StateIsRepliesSeen
      /\ \A e \in Ends : ~conn.ep[e].open /\ conn.wire[e] = <<>>
      /\ zl \in ZlSet /\ rt' = rt
  BY DEF RInv, ListenerRun, Runs, ZlOK
<1>2. conn.ep["zl"].rc = "VOID"
  BY <1>1, TheEnds DEF ConnOK, EndOK, Ending
<1>3. PICK c \in rconn_connect(conn) :
        IF c.ep["zl"].rc = "CONNECTING"
        THEN conn' \in vcs_send_hello(c, "zl") /\ zl' = [zl EXCEPT !.state = "HELLO"]
        ELSE conn' = c /\ zl' = [zl EXCEPT !.state = "UP"]
  BY DEF ListenerRun
<1>4. \/ c = conn
      \/ /\ ConnOK(c) /\ c.ep["zl"].rc = "CONNECTING" /\ c.ep["zl"].vc = "SEND_HELLO"
         /\ c.ep["ctrl"].rc = conn.ep["ctrl"].rc /\ c.ep["ctrl"].vc = conn.ep["ctrl"].vc
  BY <1>1, <1>2, OpenedOK
<1>5. StateIsRepliesSeen'
  BY <1>1, SameReplies
<1>6. CASE c = conn
  <2>1. conn' = conn /\ zl' = [zl EXCEPT !.state = "UP"]
    BY <1>2, <1>3, <1>6
  <2>2. zl' \in ZlSet /\ zl'.state = "UP"
    BY <1>1, <2>1 DEF ZlSet
  <2>3. ZlOK(conn', rt', zl')
    BY <1>1, <2>1, <2>2, TheEnds DEF ZlOK, Cause
  <2>4. QED
    BY <1>1, <1>5, <2>1, <2>2, <2>3 DEF RInv
<1>7. CASE c # conn
  <2>1. conn' \in vcs_send_hello(c, "zl") /\ zl' = [zl EXCEPT !.state = "HELLO"]
    BY <1>3, <1>4, <1>7
  <2>2. zl' \in ZlSet /\ zl'.state = "HELLO"
    BY <1>1, <2>1 DEF ZlSet
  <2>3. Op(c, conn', "zl") /\ ConnOK(conn') /\ conn'.ep["zl"].rc \in {"CONNECTING", "DEAD"}
    BY <1>4, <1>7, <2>1, SendHelloOp, TheEnds, SMTT(20) DEF Op
  <2>4. zl'.sched = zl.sched /\ zl.sched = "none"
    BY <1>1, <2>1 DEF ZlSet, RInv, ZlOK, ListenerRun
  <2>5. RtRc(c, rt.state) /\ RtSched(c, rt)
    BY <1>1, <1>4, <1>7 DEF RtRc, RtSched
  <2>6. RtRc(conn', rt'.state) /\ RtSched(conn', rt')
    BY <1>1, <2>3, <2>5, ZlKeepsRt
  <2>7. ZlOK(conn', rt', zl')
    BY <2>2, <2>3, <2>4 DEF ZlOK
  <2>8. QED
    BY <1>1, <1>5, <2>2, <2>3, <2>6, <2>7 DEF RInv
<1>8. QED
  BY <1>6, <1>7

\* dp_run keeps RInv.
LEMMA DpRunRInv == RInv /\ DpRun => RInv'
<1> SUFFICES ASSUME RInv, DpRun PROVE RInv'
  OBVIOUS
<1>1. /\ ConnOK(conn) /\ rt \in RtSet /\ conn.ep["zl"].rc = "CONNECTING"
      /\ RtRc(conn, rt.state) /\ RtSched(conn, rt) /\ StateIsRepliesSeen /\ rt' = rt
  BY DEF RInv, DpRun, Runs, ZlOK
<1>2. conn' \in rconn_run(conn, "zl") /\ zl' \in ZlSet /\ zl'.state = "UP"
  BY SMTT(20) DEF DpRun, ZlSet
<1>3. Op(conn, conn', "zl") /\ ConnOK(conn')
  BY <1>1, <1>2, RunOp, TheEnds, SMTT(20) DEF Op
<1>4. RtRc(conn', rt'.state) /\ RtSched(conn', rt')
  BY <1>1, <1>3, ZlKeepsRt
<1>5. ZlOK(conn', rt', zl')
  BY <1>1, <1>2, <1>3 DEF ZlOK, Op
<1>6. StateIsRepliesSeen'
  BY <1>1, SameReplies
<1>7. QED
  BY <1>1, <1>2, <1>3, <1>4, <1>5, <1>6 DEF RInv

\* fwd_control_input.
LEMMA ControlOp ==
  ASSUME NEW c, ConnOK(c), NEW m, NEW d \in fwd_control_input(c, m)
  PROVE  Op(c, d, "zl")
<1>1. /\ Msg("FEATURES_REPLY") \in Messages /\ Msg("ADDRESSES_REPLY") \in Messages
      /\ Msg("STATS_ROUTES_REPLY") \in Messages
  BY MsgType, RequestTypes
<1>2. \/ d \in rconn_send(c, "zl", Msg("FEATURES_REPLY")) \/ d \in rconn_send(c, "zl", Msg("ADDRESSES_REPLY"))
      \/ d \in rconn_send(c, "zl", Msg("STATS_ROUTES_REPLY")) \/ d = c
  BY DEF fwd_control_input, send_features_reply, send_addresses_reply, send_stats_routes_reply
<1>3. QED
  BY <1>1, <1>2, SendOp, OpRefl, TheEnds

\* A message read by zebralite keeps RInv.
LEMMA ConnRecvRInv == RInv /\ ConnRecv => RInv'
<1> SUFFICES ASSUME RInv, ConnRecv PROVE RInv'
  OBVIOUS
<1>1. /\ ConnOK(conn) /\ rt \in RtSet /\ zl \in ZlSet /\ zl.state = "UP" /\ rt' = rt /\ zl' = zl
      /\ RtRc(conn, rt.state) /\ RtSched(conn, rt) /\ ZlOK(conn, rt, zl) /\ StateIsRepliesSeen
  BY DEF RInv, ConnRecv, ZlOK
<1>2. PICK o \in rconn_recv(conn, "zl") :
        conn' \in IF o.m = Nothing THEN Die(o.c, "zl") ELSE fwd_control_input(o.c, o.m)
  BY DEF ConnRecv
<1>3. Op(conn, o.c, "zl") /\ ConnOK(o.c)
  BY <1>1, RecvOp, TheEnds, SMTT(20) DEF Op
<1>4. Op(o.c, conn', "zl")
  BY <1>2, <1>3, DieOp, ControlOp, TheEnds
<1>5. Op(conn, conn', "zl") /\ ConnOK(conn')
  BY <1>3, <1>4, OpTrans, TheEnds DEF Op
<1>6. RtRc(conn', rt'.state) /\ RtSched(conn', rt') /\ ZlOK(conn', rt', zl')
  BY <1>1, <1>5, ZlKeepsRt, ZlKeepsZl
<1>7. StateIsRepliesSeen'
  BY <1>1, SameReplies
<1>8. QED
  BY <1>1, <1>5, <1>6, <1>7 DEF RInv

\* A packet punted by zebralite keeps RInv.
LEMMA PuntForwardRInv == RInv /\ FwdOK /\ PuntForward => RInv'
<1> SUFFICES ASSUME RInv, FwdOK, PuntForward PROVE RInv'
  OBVIOUS
<1> DEFINE m == [type |-> "FORWARD", n |-> fwd'.sent["zl"]]
<1>1. /\ ConnOK(conn) /\ rt \in RtSet /\ zl \in ZlSet /\ zl.state = "UP" /\ rt' = rt /\ zl' = zl
      /\ RtRc(conn, rt.state) /\ RtSched(conn, rt) /\ ZlOK(conn, rt, zl) /\ StateIsRepliesSeen
  BY DEF RInv, PuntForward
<1>2. m \in Messages /\ conn' \in rconn_send(conn, "zl", m)
  BY ForwardMsg, TheEnds DEF PuntForward
<1> HIDE DEF m
<1>3. Op(conn, conn', "zl") /\ ConnOK(conn')
  BY <1>1, <1>2, SendOp, TheEnds, SMTT(20) DEF Op
<1>4. RtRc(conn', rt'.state) /\ RtSched(conn', rt') /\ ZlOK(conn', rt', zl')
  BY <1>1, <1>3, ZlKeepsRt, ZlKeepsZl
<1>5. StateIsRepliesSeen'
  BY <1>1, SameReplies
<1>6. QED
  BY <1>1, <1>3, <1>4, <1>5 DEF RInv

\* A process that is killed; with zebralite not started yet everything stays closed.
LEMMA CrashRInv ==
  ASSUME RInv, NEW e \in Ends, Crash(e)
  PROVE  RInv'
<1>1. /\ ConnOK(conn) /\ rt \in RtSet /\ zl \in ZlSet /\ rt' = rt /\ zl' = zl
      /\ RtRc(conn, rt.state) /\ RtSched(conn, rt) /\ ZlOK(conn, rt, zl) /\ StateIsRepliesSeen
  BY DEF RInv, Crash
<1>2. /\ Op(conn, conn', e) /\ conn'.ep[e].rc = "DEAD" /\ Closed(conn, conn', e) /\ ConnOK(conn')
      /\ conn'.ep[Peer(e)] = conn.ep[Peer(e)]
  BY <1>1, DieOp DEF Crash, Op
<1>3. RtRc(conn', rt'.state) /\ RtSched(conn', rt')
  <2>1. CASE e = "zl"
    BY <1>1, <1>2, <2>1, ZlKeepsRt
  <2>2. CASE e = "ctrl"
    BY <1>1, <1>2, <2>2 DEF RtRc, RtSched
  <2>3. QED
    BY <2>1, <2>2 DEF Ends
<1>4. ZlOK(conn', rt', zl')
  <2>1. ASSUME zl.state = "INIT" PROVE \A f \in Ends : ~conn'.ep[f].open /\ conn'.wire[f] = <<>>
    BY <1>1, <1>2, <2>1, PeerPeer DEF ZlOK, Closed
  <2>2. CASE e = "zl"
    BY <1>1, <1>2, <2>1, <2>2 DEF ZlOK
  <2>3. CASE e = "ctrl"
    BY <1>1, <1>2, <2>1, <2>3, TheEnds DEF ZlOK, Op
  <2>4. QED
    BY <2>2, <2>3 DEF Ends
<1>5. StateIsRepliesSeen'
  BY <1>1, SameReplies
<1>6. QED
  BY <1>1, <1>2, <1>3, <1>4, <1>5 DEF RInv

\* Every step keeps RInv.
LEMMA StepRInv == RInv /\ FwdOK /\ [Next]_vars => RInv'
<1> SUFFICES ASSUME RInv, FwdOK, [Next]_vars PROVE RInv'
  OBVIOUS
<1>1. CASE Controller
  BY <1>1, AcceptRInv, RouterRunRInv, RouterRecvRInv DEF Controller
<1>2. CASE Zebralite
  BY <1>2, ListenerRunRInv, DpRunRInv, ConnRecvRInv DEF Zebralite
<1>3. CASE SibForward \/ PuntForward
  BY <1>3, SibForwardRInv, PuntForwardRInv
<1>4. CASE \E e \in Ends : Crash(e)
  BY <1>4, CrashRInv
<1>5. CASE UNCHANGED vars
  <2>1. rt' = rt /\ conn' = conn /\ zl' = zl
    BY <1>5 DEF vars
  <2>2. StateIsRepliesSeen'
    BY <2>1, SameReplies DEF RInv
  <2>3. QED
    BY <2>1, <2>2 DEF RInv
<1>6. QED
  BY <1>1, <1>2, <1>3, <1>4, <1>5 DEF Next

-----------------------------------------------------------------------------
(* The theorems.                                                             *)

\* The inductive invariant of the connection and of its two users.
THEOREM ConnInvariant == Spec => [](RInv /\ FwdOK)
<1>1. Init => RInv /\ FwdOK
  BY InitRInv, FwdInv
<1>2. RInv /\ FwdOK /\ [Next]_vars => RInv' /\ FwdOK'
  BY StepRInv, FwdInv
<1>3. QED
  BY <1>1, <1>2, PTL DEF Spec

\* The state of a router says exactly which replies router_process_packet has taken,
\* each once, in every order of requests, repetitions, sends and crashes.
THEOREM RouterCountsReplies == Spec => []StateIsRepliesSeen
<1>1. RInv => StateIsRepliesSeen
  BY DEF RInv
<1>2. QED
  BY <1>1, ConnInvariant, PTL

\* router_wait never leaves a router with a good vconn unregistered, and no send of
\* router_forward brings a vconn back that nothing waits for.
THEOREM RouterAlwaysAwaited == Spec => []RouterIsAwaited
<1>1. RInv => RouterIsAwaited
  BY DEF RInv, RtSched, RouterIsAwaited, vconn_wait, Runs, Gone
<1>2. QED
  BY <1>1, ConnInvariant, PTL

\* With hellos first and whole messages on the wire, no end answers a peer that is
\* well with EPROTO: a vconn is disconnected, a router destroyed or zebralite's rconn
\* void only when the other end closed the connection or a message to it was cut.
THEOREM AlwaysDroppedForCause == Spec => []DroppedForCause
<1>1. RInv => DroppedForCause
  <2> SUFFICES ASSUME RInv, NEW e \in Ends,
                      \/ conn.ep[e].vc = "DISCONNECTED"
                      \/ e = "ctrl" /\ rt.state = "FREED" /\ Runs(e)
                      \/ e = "zl" /\ zl.state = "UP" /\ conn.ep[e].rc = "VOID"
               PROVE  Cause(conn, e)
    BY DEF DroppedForCause, Cause
  <2>1. CASE conn.ep[e].vc = "DISCONNECTED"
    BY <2>1 DEF RInv, ConnOK, EndOK, Ending
  <2>2. CASE e = "ctrl" /\ rt.state = "FREED" /\ Runs(e)
    BY <2>2 DEF RInv, RtRc, Runs
  <2>3. CASE e = "zl" /\ zl.state = "UP" /\ conn.ep[e].rc = "VOID"
    BY <2>3 DEF RInv, ZlOK
  <2>4. QED
    BY <2>1, <2>2, <2>3
<1>2. QED
  BY <1>1, ConnInvariant, PTL
=============================================================================
