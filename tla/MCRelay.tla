------------------------------ MODULE MCRelay ------------------------------
(***************************************************************************)
(* Two families of behaviours of Relay: crashes and traffic both ways with *)
(* no BGP peer, and two BGP peers with packets from the network only, the  *)
(* first peer sending a message with a body and two without one.           *)
(***************************************************************************)
EXTENDS Relay

MCPeers == {1, 2}
MCBgpMessages == <<<<TRUE, FALSE, FALSE>>, <<>>>>

NoPeers == [p \in Peers |-> [NewPeer(p) EXCEPT !.state = "closed", !.todo = <<>>]]

MCInit ==
  \/ InitWith(NoPeers, NoCounts)
  \/ InitWith([p \in Peers |-> NewPeer(p)],
              [NoCounts EXCEPT !.crashes = MaxCrashes, !.down = MaxDown])

MCSpec == MCInit /\ [][Next]_vars /\ Fairness
=============================================================================
