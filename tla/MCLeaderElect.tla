--------------------------- MODULE MCLeaderElect ---------------------------
(***************************************************************************)
(* Instances of LeaderElect.                                               *)
(***************************************************************************)
EXTENDS LeaderElect

\* A reachable state: the siblings started in the order of their ids, the first election
\* is over and the first sibling leads.
Elected1 ==
  /\ inc = [p \in Sibs |-> 0]
  /\ life = [p \in Sibs |-> "routing"]
  /\ table = Sibs \X {0}
  /\ stamp = [a \in Addrs |-> IF a[2] = 0 THEN a[1] ELSE 0]
  /\ clock = NumSibs
  /\ gone = [p \in Sibs |-> {}]
  /\ proc = [p \in Sibs |-> ElectionComplete(LeadElect(UpProc(FALSE), "controller"))]
  /\ list = [p \in Sibs |-> [i \in 1..(NumSibs - 1) |-> IF i < p THEN <<i, 0>> ELSE <<i + 1, 0>>]]
  /\ rec = [p \in Sibs |->
              [a \in Addrs |-> IF a[2] = 0 /\ a[1] # p
                               THEN [valid |-> TRUE, id_valid |-> TRUE, leader |-> a[1] = 1, id |-> a[1]]
                               ELSE NewRecord]]
  /\ leader = [p \in Sibs |-> p = 1]
  /\ elect = [p \in Sibs |-> 0]
  /\ ids = {}
  /\ round = [p \in Sibs |-> 1]
  /\ told = [p \in Sibs |-> <<>>]
  /\ boss = 1

\* Reachable from Booted too: the siblings started in the order of their ids, all at once
\* or one after the other, and the controller has just asked for the first election.
\* Behaviors that start here are the shorter ones.
Asked ==
  /\ inc = [p \in Sibs |-> 0]
  /\ life = [p \in Sibs |-> "routing"]
  /\ table = Sibs \X {0}
  /\ \E together \in BOOLEAN :
       /\ stamp = [a \in Addrs |-> IF a[2] # 0 THEN 0 ELSE IF together THEN 1 ELSE a[1]]
       /\ clock = IF together THEN 1 ELSE NumSibs
       /\ together => Ties
  /\ gone = [p \in Sibs |-> {}]
  /\ proc = [p \in Sibs |-> UpProc(FALSE)]
  /\ list = [p \in Sibs |-> [i \in 1..(p - 1) |-> <<i, 0>>]]
  /\ rec = [p \in Sibs |-> [a \in Addrs |-> NewRecord]]
  /\ leader = [p \in Sibs |-> FALSE]
  /\ elect = [p \in Sibs |-> 1]
  /\ ids = {}
  /\ round = [p \in Sibs |-> 0]
  /\ told = [p \in Sibs |-> <<>>]
  /\ boss = NoSib

\* Two families of behaviors: the first election with lost ids and no crash, and one that
\* is over with crashes and no loss.  Each starts with the other's budget spent.
ElectInit ==
  \/ (Booted \/ Asked) /\ crashes = MaxCrashes /\ lost = 0
  \/ Elected1 /\ crashes = 0 /\ lost = MaxLost

ElectSpec == ElectInit /\ [][Next]_vars
=============================================================================
