---------------------------- MODULE TraceStream -----------------------------
(***************************************************************************)
(* What the way from tracy_submit to the socket promises: payloads are     *)
(* numbered as they are accepted; they leave the tracer in that order,     *)
(* each once, either written to a client or given up with a failed write.  *)
(***************************************************************************)
EXTENDS Naturals, Sequences

VARIABLES accepted,   \* payloads accepted so far, numbered 1..accepted
          gone,       \* payloads 1..gone have left the tracer
          delivered   \* the numbers of those written to a client, in order

Init == accepted = 0 /\ gone = 0 /\ delivered = <<>>

Accept == accepted' = accepted + 1 /\ UNCHANGED <<gone, delivered>>

\* The next payloads up to number k are written in one frame.
Deliver(k) ==
    /\ gone' = k
    /\ delivered' = delivered \o [i \in 1..(k - gone) |-> gone + i]
    /\ UNCHANGED accepted

\* The next payloads up to number k are given up.
Lose(k) == gone' = k /\ UNCHANGED <<accepted, delivered>>

Next ==
    \/ Accept
    \/ \E k \in (gone + 1)..accepted : Deliver(k) \/ Lose(k)

Spec == Init /\ [][Next]_<<accepted, gone, delivered>>
=============================================================================
