---------------------------- MODULE ThreadMaster ----------------------------
(***************************************************************************)
(* The scheduler of every daemon, lib/thread.c.  A thread is the file it   *)
(* reads or the name of its handler; a thread master m holds               *)
(*   m.event  the events, in the order they were added                     *)
(*   m.read   the threads that wait for a file, in the order they were     *)
(*            added: m->readfd is the files of this list                   *)
(*   m.ready  the threads a select(2) has found ready and that still wait  *)
(* Timers are left out; the daemons modelled over it add none.             *)
(***************************************************************************)
EXTENDS Sequences, SequencesExt

thread_master_create == [event |-> <<>>, read |-> <<>>, ready |-> <<>>]

thread_list_add(list, t) == Append(list, t)
thread_trim_head(list) == Tail(list)

thread_add_event(m, t) == [m EXCEPT !.event = thread_list_add(@, t)]

\* A file that is already waited for is refused.
thread_add_read(m, t) ==
  IF t \in ToSet(m.read) THEN m ELSE [m EXCEPT !.read = thread_list_add(@, t)]

\* thread_process_fd: the threads whose file select reports become ready.
Selected(m, readable) == SelectSeq(m.read, LAMBDA t : t \in readable)

\* Whether thread_fetch returns; otherwise it waits in select.
thread_runs(m, readable) ==
  m.event # <<>> \/ m.ready # <<>> \/ Selected(m, readable) # <<>>

\* Events come before the threads that are ready, and select is called only when
\* there are none of either.
thread_fetch(m, readable) ==
  IF m.event # <<>> THEN [m |-> [m EXCEPT !.event = thread_trim_head(@)], run |-> Head(m.event)]
  ELSE LET found == IF m.ready # <<>> THEN m.ready ELSE Selected(m, readable)
       IN [m   |-> [m EXCEPT !.ready = thread_trim_head(found),
                             !.read = IF m.ready # <<>> THEN @
                                      ELSE SelectSeq(@, LAMBDA t : t \notin readable)],
           run |-> Head(found)]
=============================================================================
