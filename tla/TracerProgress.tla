--------------------------- MODULE TracerProgress ---------------------------
(***************************************************************************)
(* What is left to do for the tracer thread of Tracer, as four numbers     *)
(* that are compared one after the other.  Every step of the thread makes  *)
(* them smaller, so that it comes to rest in poll unless the application,  *)
(* a client or the clock gives it more to do.                              *)
(***************************************************************************)
EXTENDS Tracer, FiniteSets

Bit(b) == IF b THEN 1 ELSE 0

\* The thread is in a handler, or in a function the handler has called.
In(handler) == pc = handler \/ (pc \in {"send", "close"} /\ ret = handler)

\* The next poll will find the channel, or the timer, ready.
ChannelPending ==
    /\ Alive /\ channel # <<>> /\ "CHAN" \notin batch
    /\ ~In("channel") /\ ~In("exit")
TimerPending ==
    /\ Alive /\ "elapsed" \in {queue_timeout, udp_timeout}
    /\ "TIMER" \notin batch /\ ~In("timer")

\* Events the thread has to be told of, and those it knows.  Accepting a client
\* may bring about another event.
Pending ==
    4 * Bit("CON_NEW" \in edges) + 2 * Bit("CON_DATA" \in edges)
    + 2 * Bit(ChannelPending) + 2 * Bit(TimerPending)
Known ==
    3 * Bit("CON_NEW" \in batch) + Bit("CON_DATA" \in batch)
    + Bit("CHAN" \in batch) + Bit("TIMER" \in batch)
Events == Pending + Known

\* What the handlers use up: the connection, messages and timeouts.
Supply ==
    Bit(connection # None) + Len(channel)
    + Bit(queue_timeout = "elapsed") + Bit(udp_timeout = "elapsed")

\* What the loops inside the handlers use up.
Unread == IF reader = None THEN 0 ELSE Len(inbox[reader])
Inside == 2 * Len(buffer) + Len(que) + Unread + Cardinality(toClear)

\* The way back to poll.
WayBack == CASE pc = "start" -> 5
             [] pc = "close" -> 4
             [] pc \in {"send", "receive"} -> 3
             [] pc \in {"channel", "timer", "drain"} -> 2
             [] pc = "events" -> 1
             [] OTHER -> 0

LessToDo ==
    \/ Events' < Events
    \/ /\ Events' = Events
       /\ \/ Supply' < Supply
          \/ /\ Supply' = Supply
             /\ Inside' < Inside \/ (Inside' = Inside /\ WayBack' < WayBack)

\* Every step of the thread leaves it less to do: no handler (channel_handler,
\* timer_handler, receive, send_trace_data, close_and_clean_connection) loops
\* without using something up, none of them puts off its work by raising the
\* event again, and the timers they start do not fire before the loop goes on.
ThreadAdvances == [][TracerNext => LessToDo]_vars
=============================================================================
