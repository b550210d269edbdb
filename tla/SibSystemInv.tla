---------------------------- MODULE SibSystemInv ----------------------------
(***************************************************************************)
(* The inductive invariant of the vote (SibSystemProofs): what a slot and  *)
(* the connection behind it may hold.                                      *)
(***************************************************************************)
EXTENDS SibSystem

\* With voter all, fewer than half of the siblings are faulty, and those do not
\* crash: a restarted sibling may get a second slot, and the vote counts slots.
FaultyStay == Faulty \cap Crashers = {}

FaultyMinority ==
  /\ VoterAll
  /\ 2 * Cardinality(Faulty) < NumSibs
  /\ FaultyStay

GoodMsg == {m \in Msgs : m.val = Correct(m.xid)}

\* What process p may send, and what may be on its way to the controller.
EgressOf(p) == IF p \in Faulty THEN Msgs ELSE GoodMsg

WrittenBy(p) ==
  [type : {"FEATURES_REQUEST", "REDISTRIBUTE_REQUEST", "IF_ADDRESS_REQ"}, xid : Nat]
    \cup [type : {"EGRESS"}, msg : EgressOf(p)]
    \cup [type : {"REDISTRIBUTE_LEADER_ELECT"}, leads : BOOLEAN]

\* A slot holds what its process sent, and a slot never used holds nothing.
SlotAt(s) ==
  /\ queue[s] \in Seq(EgressOf(peer[s]))
  /\ toCtrl[s] \in Seq(WrittenBy(peer[s]))
  /\ s > n_ospf6_siblings => state[s] = "NULL" /\ queue[s] = <<>>

Numbers ==
  /\ n_ospf6_siblings \in 0 .. MaxSlots
  /\ leader_sibling \in Slots \cup {NoSlot}
  /\ DOMAIN state = Slots
  /\ current_egress_xid \in [Slots -> Nat]
  /\ egress_db \in Nat
  /\ xid \in [Sibs -> Nat]

Shape ==
  /\ DOMAIN queue = Slots /\ DOMAIN toCtrl = Slots
  /\ peer \in [Slots -> Sibs \cup {NoSib}]

\* A sibling has one connection at a time.
OneSlot == \A s, t \in Slots : peer[s] = peer[t] /\ peer[s] \in Sibs => s = t

TInv == Numbers /\ Shape /\ OneSlot /\ \A s \in Slots : SlotAt(s)

SInv == TInv /\ wire \in Seq(GoodMsg)

=============================================================================
