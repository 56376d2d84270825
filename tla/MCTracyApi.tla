----------------------------- MODULE MCTracyApi -----------------------------
(***************************************************************************)
(* Names and parameters for TLC.                                           *)
(***************************************************************************)
EXTENDS TracyApi

\* Two tracepoints, the first of them in every spelling.
MCNames ==
    [stem : {"a"}, ascii : {TRUE}, long : BOOLEAN, upper : BOOLEAN]
    \cup [stem : {"b"}, ascii : BOOLEAN, long : {FALSE}, upper : {FALSE}]

\* One parameter wrong at a time.
Good == [hostname |-> TRUE, process_name |-> TRUE, flush |-> 1,
         interval |-> 500, iface |-> "ok", addr |-> "ok"]
MCParams ==
    {Good, [Good EXCEPT !.hostname = FALSE], [Good EXCEPT !.flush = 0],
     [Good EXCEPT !.interval = 0]}
    \cup {[Good EXCEPT !.iface = x] : x \in {"null", "bad"}}
    \cup {[Good EXCEPT !.addr = x] : x \in {"null", "bad"}}
=============================================================================
