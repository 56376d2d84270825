---------------------------- MODULE TracerClaims ----------------------------
(***************************************************************************)
(* What comments and the README say of the tracer.  BufferBounded the code *)
(* keeps; each of the others is checked by a run of its own, which ends in *)
(* a violation.  So does IdleAnnounces of Tracer when accept() may fail.   *)
(***************************************************************************)
EXTENDS Tracer, SequencesExt

\* "Checking is probably not necessary, as on the disconnection of TCP the
\* stream and all the timers get turned off, resulting in no more send-events"
\* (lib.rs): send_trace_data never meets a missing connection.
SendHasConnection == pc # "panic_send"

\* Closing is the handler for connections that failed or were terminated: it
\* runs once for a session, and the thread lives on to announce itself again.
CloseHasConnection == pc # "panic_close"

\* "If a client disconnects, all tracepoints are set to disabled" (README): a
\* tracepoint is enabled only while a client is connected, or until the close
\* in progress has reached its flag.
EnabledOnlyInSession ==
    \A t \in Tracepoints :
        enabled[t] => connection # None \/ (pc = "close" /\ t \in toClear)

\* The data is sent when "the buffer occupancy reaches a certain limit"
\* (README): what waits when the loop is at rest is within the limit, through
\* blocked and failed writes and from one session to the next.  The test in
\* channel_data_handler errs on the other side only: buffer_occupancy never
\* goes down, so that after QUEUE_TOTAL_SIZE bytes nothing waits any more.
BufferBounded ==
    pc = "poll" =>
        FoldLeft(LAMBDA n, e : n + BufferElementLen(e), 0, buffer)
            <= QUEUE_TOTAL_SIZE

\* submit "sends the data to a client, if one is connected and activated the
\* tracepoint": what a client gets was submitted while it was that client.
OnlyDataOfSession ==
    \A i \in DOMAIN sent : sent[i].elem.sess = sent[i].to

\* "The TCP communication between tracer and client is encoded using TLV
\* format": a frame begins where the frame before it ended.
FramesAligned == \A i \in DOMAIN sent : sent[i].aligned
=============================================================================
