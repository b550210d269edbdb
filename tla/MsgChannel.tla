------------------------------ MODULE MsgChannel ------------------------------
(***************************************************************************)
(* What an RFP connection promises to the two programs that use it:        *)
(* per direction, a first-in first-out queue of whole messages.  A message *)
(* may be lost before it is queued (a send that finds the socket buffer    *)
(* full or the handshake unfinished is dropped and reports success), a     *)
(* closed connection loses what is queued, and once a send has been cut    *)
(* short nothing is promised of what follows it.                           *)
(***************************************************************************)
EXTENDS Sequences, SequencesExt

CONSTANTS Ends, Messages, Nothing

VARIABLE chan      \* per receiving end: q, last (message returned), cut, up

ChannelInit ==
  chan = [e \in Ends |-> [q |-> <<>>, last |-> Nothing, cut |-> FALSE, up |-> FALSE]]

\* While the connection is up, whole messages are queued, and one may be cut short.
Queued(c, d) == /\ d.last = c.last /\ IsPrefix(c.q, d.q) /\ d.up
                /\ c.cut => d.cut /\ d.q = c.q

\* The next message is returned to the receiver, whole and in order.
Delivered(c, d) == c.q # <<>> /\ d = [c EXCEPT !.q = Tail(c.q), !.last = Head(c.q)]

\* After a cut, and once the whole messages before it are gone, anything arrives.
Garbage(c, d) == c.cut /\ c.q = <<>> /\ d.cut /\ d.q = <<>> /\ (d.up => c.up)

\* The connection is closed, for good: the end of the queue, or all of it, is lost,
\* in the call that delivered a message or in one that did not.
Lost(c, d) ==
  /\ ~d.up /\ d.cut = c.cut
  /\ \/ d.last = c.last /\ IsPrefix(d.q, c.q)
     \/ c.q # <<>> /\ d.last = Head(c.q) /\ IsPrefix(d.q, Tail(c.q))

ChannelStep(c, d) == Queued(c, d) \/ Delivered(c, d) \/ Garbage(c, d) \/ Lost(c, d)

ChannelNext == /\ DOMAIN chan' = Ends
               /\ \A e \in Ends : chan'[e] = chan[e] \/ ChannelStep(chan[e], chan'[e])

ChannelSpec == ChannelInit /\ [][ChannelNext]_chan
===============================================================================
