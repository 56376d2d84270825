----------------------------- MODULE MCReceive ------------------------------
(***************************************************************************)
(* Requests for TLC: what the protocol has, and what receive has to cope   *)
(* with.  The limit of a name is scaled down to two bytes, so that names   *)
(* below it, at it and above it are cut at each of their bytes.            *)
(***************************************************************************)
EXTENDS Receive

MCNameLen == [t \in Names |-> CASE t = "a" -> 1 [] t = "b" -> 2 [] OTHER -> 3]

ProtocolRequests ==
    { [cmd |-> 1, flags |-> 0, len |-> 0, names |-> <<>>],
      [cmd |-> 3, flags |-> 0, len |-> 3, names |-> <<"a">>],
      [cmd |-> 4, flags |-> 0, len |-> 7, names |-> <<"b", "a">>] }

\* Flags, a command that is not a client's, a length that counts the names
\* without their length fields, one that is too large, a name that is too long.
OtherRequests ==
    { [cmd |-> 1, flags |-> 1, len |-> 0, names |-> <<>>],
      [cmd |-> 5, flags |-> 0, len |-> 3, names |-> <<"a">>],
      [cmd |-> 3, flags |-> 0, len |-> 3, names |-> <<"a", "b">>],
      [cmd |-> 3, flags |-> 0, len |-> 6, names |-> <<"a">>],
      [cmd |-> 3, flags |-> 0, len |-> 1, names |-> <<"long">>] }

AllRequests == ProtocolRequests \cup OtherRequests
=============================================================================
