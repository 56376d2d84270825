------------------------------ MODULE MCTracer ------------------------------
(* Small instances of Tracer.                                              *)
EXTENDS TracerClaims, TracerProgress

\* Lengths at the limit, and one below it.
MCNameLen == [t \in Tracepoints |-> IF t = "t1" THEN 32 ELSE 31]
=============================================================================
