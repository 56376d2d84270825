----------------------------- MODULE Activation -----------------------------
(***************************************************************************)
(* What a client's requests may do to the flags of the tracepoints in one  *)
(* session: names are executed in the order in which they were asked for,  *)
(* none twice, but any may be lost; flags change in no other way than by   *)
(* executing a name and by the end of the session, which clears them all.  *)
(* Requests are only executed by a reader that was started in the session. *)
(***************************************************************************)
EXTENDS Naturals, Sequences

CONSTANTS Registered,        \* the tracepoints there are
          Enable, Disable    \* the commands that set flags

VARIABLES asked,       \* the names the client has asked for, with commands
          done,        \* the number of the last name that was executed
          enabled,     \* the flags
          connected,   \* the session lasts
          reading      \* requests are being read

Cleared == [t \in Registered |-> FALSE]

Init ==
    /\ asked = <<>> /\ done = 0 /\ enabled = Cleared
    /\ connected = TRUE /\ reading = FALSE

\* One more name, with whatever command.
Ask == /\ Len(asked') = Len(asked) + 1
       /\ \A k \in DOMAIN asked : asked'[k] = asked[k]
       /\ UNCHANGED <<done, enabled, connected, reading>>

\* Only a client with a session is listened to.
Begin == /\ connected /\ ~reading /\ reading' = TRUE
         /\ UNCHANGED <<asked, done, enabled, connected>>

Return == /\ reading /\ reading' = FALSE
          /\ UNCHANGED <<asked, done, enabled, connected>>

\* Names that are not registered change nothing.
Execute(k) ==
    /\ reading /\ asked[k].cmd \in {Enable, Disable}
    /\ done' = k
    /\ enabled' = [t \in Registered |-> IF t = asked[k].tp
                                        THEN asked[k].cmd = Enable
                                        ELSE enabled[t]]
    /\ UNCHANGED <<asked, connected, reading>>

\* The reader may go on with what it has in its hands.
Close == /\ reading /\ connected /\ connected' = FALSE
         /\ enabled' = Cleared
         /\ reading' \in BOOLEAN
         /\ UNCHANGED <<asked, done>>

Next ==
    \/ Ask \/ Begin \/ Return \/ Close
    \/ \E k \in (done + 1)..Len(asked) : Execute(k)

Spec == Init /\ [][Next]_<<asked, done, enabled, connected, reading>>
=============================================================================
