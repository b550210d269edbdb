----------------------------- MODULE RouterChannel -----------------------------
(***************************************************************************)
(* The connection of RouterConn as its users see it: the refinement of     *)
(* MsgChannel.                                                             *)
(***************************************************************************)
EXTENDS RouterConn

\* What the connection promises to its users: MsgChannel, with the whole messages
\* that are ahead of a cut as the queue.
Waiting(e) ==
  LET u == conn.ep[e].rx \o conn.wire[e]
      ahead == IF conn.cut[e] = NoCut \/ Len(u) < conn.cut[e] THEN u
               ELSE SubSeq(u, 1, conn.cut[e])
      lasts == SelectSeq(ahead, LAMBDA x : x.i = LEN(x.m))
  IN IF conn.ep[e].open THEN [j \in 1 .. Len(lasts) |-> lasts[j].m] ELSE <<>>

Channel == INSTANCE MsgChannel WITH
  chan <- [e \in Ends |-> [q |-> Waiting(e), last |-> conn.last[e],
                           cut |-> conn.cut[e] # NoCut,
                           up |-> \A f \in Ends : conn.ep[f].open]]

\* rconn_send and rconn_recv implement the message channel: whole messages, in order,
\* none twice, over every split of reads and writes, until one is cut short.
IsChannel == Channel!ChannelSpec
================================================================================
