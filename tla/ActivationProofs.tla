-------------------------- MODULE ActivationProofs --------------------------
(***************************************************************************)
(* Receive implements Activation, for every set of names and requests.     *)
(***************************************************************************)
EXTENDS ReceiveProofs

\* mio reports the socket only as long as it is registered.
ReportedInSession == edge => connected

\* A step of Activation, or one that it does not see.
FlagsStep ==
    [Flags!Next]_<<asked, LastExecuted, enabled, connected, pc # "poll">>

LEMMA ReportedStep ==
    ASSUME ReportedInSession, [Next]_vars
    PROVE  ReportedInSession'
<1>1. ASSUME NEW next, close_and_clean_connection(next)
      PROVE  ReportedInSession'
  BY <1>1 DEF close_and_clean_connection, ReportedInSession, session
<1>2. ASSUME UNCHANGED <<edge, connected>> PROVE ReportedInSession'
  BY <1>2 DEF ReportedInSession
<1>3. CASE UNCHANGED vars
  BY <1>2, <1>3 DEF vars, session
<1>4. CASE write_name \/ \E r \in Requests : write_header(r)
  BY <1>2, <1>4 DEF write_name, write_header, session
<1>5. CASE \/ \E how \in Hangups : hang_up(how)
           \/ \E n \in 1..written : segment(n)
  BY <1>5 DEF hang_up, segment, ReportedInSession
<1>6. CASE TracerNext
  <2>1. CASE event_con_data
    BY <2>1 DEF event_con_data, ReportedInSession
  <2>2. CASE \/ receive_would_block \/ execute_other_command \/ set_tracepoints
             \/ set_tracepoints_done \/ read_name_len \/ read_name
    BY <1>2, <2>2 DEF receive_would_block, execute_other_command,
       set_tracepoints, set_tracepoints_done, read_name_len, read_name, session
  <2>3. CASE receive_eof \/ receive_invalid_header \/ set_tracepoints_fails
    BY <1>1, <2>3 DEF receive_eof, receive_invalid_header,
                      set_tracepoints_fails
  <2>4. CASE read_empty \/ send_tracepoint_list
    BY <1>1, <1>2, <2>4 DEF read_empty, send_tracepoint_list, session
  <2>5. QED
    BY Zenon, <1>6, <2>1, <2>2, <2>3, <2>4 DEF TracerNext
<1>7. QED
  BY Zenon, <1>3, <1>4, <1>5, <1>6 DEF Next

\* What a sequence of something consists of.
LEMMA Members ==
    ASSUME NEW S, NEW s \in Seq(S), NEW k \in DOMAIN s PROVE s[k] \in S
  OBVIOUS

\* What Activation does not see.
LEMMA Unseen ==
    ASSUME UNCHANGED <<asked, applied, enabled, connected>>,
           pc' = "poll" <=> pc = "poll"
    PROVE  FlagsStep
<1>1. LastExecuted' = LastExecuted
  BY DEF LastExecuted
<1>2. (pc # "poll")' = (pc # "poll")
  OBVIOUS
<1>3. QED
  BY Zenon, <1>1, <1>2 DEF FlagsStep

\* Reading on, or returning.
LEMMA ReadsOn ==
    ASSUME UNCHANGED <<asked, applied, enabled, connected>>, pc # "poll"
    PROVE  FlagsStep
<1>1. CASE pc' # "poll"
  BY <1>1, Unseen
<1>2. CASE pc' = "poll"
  <2>1. LastExecuted' = LastExecuted
    BY DEF LastExecuted
  <2>2. (pc' # "poll") = FALSE
    BY <1>2
  <2>3. Flags!Return
    BY Zenon, <2>1, <2>2 DEF Flags!Return
  <2>4. QED
    BY Zenon, <2>3 DEF FlagsStep, Flags!Next
<1>3. QED
  BY <1>1, <1>2

\* Closing the session, or failing to because it has been closed.
LEMMA CloseIsClose ==
    ASSUME NEW next, close_and_clean_connection(next), pc # "poll",
           UNCHANGED <<asked, applied>>
    PROVE  FlagsStep
<1>1. LastExecuted' = LastExecuted
  BY DEF LastExecuted
<1>2. CASE connected
  <2>1. connected' = FALSE /\ enabled' = Flags!Cleared
    BY <1>2 DEF close_and_clean_connection, cleared_flags, Flags!Cleared
  <2>2. (pc' # "poll") \in BOOLEAN
    OBVIOUS
  <2>3. Flags!Close
    BY Zenon, <1>1, <1>2, <2>1, <2>2 DEF Flags!Close
  <2>4. QED
    BY Zenon, <2>3 DEF FlagsStep, Flags!Next
<1>3. CASE ~connected
  <2>1. pc' = "panic_close" /\ UNCHANGED <<enabled, connected>>
    BY <1>3 DEF close_and_clean_connection, session
  <2>2. QED
    BY <2>1, Unseen
<1>4. QED
  BY <1>2, <1>3

\* A name that set_tracepoints executes is one of those not executed yet.
LEMMA ReadNameExecutes ==
    ASSUME RInv, RInv', read_name
    PROVE  FlagsStep
<1> DEFINE f == wire[pos - 2]
           a == [id |-> f.id, tp |-> f.tp, state |-> state]
           n == Len(applied)
<1>1. /\ pc = "name" /\ pc' = "names" /\ asked' = asked /\ connected' = connected
      /\ enabled' = store_flag(f.tp) /\ applied' = Append(applied, a)
  BY DEF read_name, client
<1>2. a \in [id : Nat, tp : Names, state : BOOLEAN] /\ a.id \in Nat
  <2>1. IsName(pos - 2)
    BY <1>1 DEF RInv, ReaderInStep
  <2>2. f.id \in Nat /\ f.tp \in Names /\ state \in BOOLEAN
    BY <2>1, Fields DEF RInv, IsName, TypeOK
  <2>3. QED
    BY <2>2
<1>3. applied \in Seq([id : Nat, tp : Names, state : BOOLEAN])
  BY DEF RInv, TypeOK
<1>4. a.id = f.id /\ a.tp = f.tp /\ a.state = state
  OBVIOUS
<1> HIDE DEF a
<1>5. /\ n \in Nat /\ DOMAIN applied = 1..n /\ DOMAIN applied' = 1..(n + 1)
      /\ applied'[n + 1] = a /\ Len(applied') = n + 1
      /\ \A j \in 1..n : applied'[j] = applied[j]
  BY <1>1, <1>2, <1>3
<1> DEFINE k == a.id
<1>6. LastExecuted' = k
  <2>1. applied' # <<>>
    BY <1>5
  <2>2. QED
    BY <1>5, <2>1 DEF LastExecuted
<1>7. /\ k \in DOMAIN asked /\ asked[k].tp = f.tp
      /\ asked[k].cmd = IF state THEN EnableRequest ELSE DisableRequest
  <2>1. n + 1 \in DOMAIN applied'
    BY <1>5
  <2>2. NothingFabricated'
    BY DEF RInv
  <2>3. QED
    BY <1>1, <1>4, <1>5, <2>1, <2>2 DEF NothingFabricated, EnableRequest,
       DisableRequest
<1>8. k \in 1..Len(asked) /\ Len(asked) \in Nat
  <2>1. DOMAIN asked = 1..Len(asked) /\ Len(asked) \in Nat
    BY DEF RInv, TypeOK
  <2>2. QED
    BY <1>7, <2>1
<1>9. LastExecuted \in Nat /\ LastExecuted < k
  <2>1. CASE applied = <<>>
    BY <1>8, <2>1 DEF LastExecuted
  <2>2. CASE applied # <<>>
    <3>1. n \in 1..n /\ n \in DOMAIN applied' /\ n + 1 \in DOMAIN applied'
          /\ n < n + 1
      BY <1>3, <1>5, <2>2
    <3>2. applied'[n].id < applied'[n + 1].id
      <4>1. \A j, m \in DOMAIN applied' : j < m => applied'[j].id < applied'[m].id
        BY DEF RInv, NothingFabricated
      <4>2. QED
        BY Zenon, <3>1, <4>1
    <3>3. applied[n].id \in Nat
      <4>1. n \in DOMAIN applied
        BY <1>5, <3>1
      <4>2. applied[n] \in [id : Nat, tp : Names, state : BOOLEAN]
        BY Zenon, <1>3, <4>1, Members
      <4>3. QED
        BY <4>2
    <3>4. QED
      BY <1>5, <2>2, <3>1, <3>2, <3>3 DEF LastExecuted
  <2>3. QED
    BY <2>1, <2>2
<1>10. k \in (LastExecuted + 1)..Len(asked)
  BY <1>8, <1>9
<1>11. /\ asked[k].cmd \in {EnableRequest, DisableRequest}
       /\ (asked[k].cmd = EnableRequest) = state
  <2>1. state \in BOOLEAN
    BY DEF RInv, TypeOK
  <2>2. QED
    BY <1>7, <2>1 DEF EnableRequest, DisableRequest
<1>12. enabled' = [t \in Registered |-> IF t = asked[k].tp
                                        THEN asked[k].cmd = EnableRequest
                                        ELSE enabled[t]]
  <2>1. enabled \in [Registered -> BOOLEAN]
    BY DEF RInv, TypeOK
  <2>2. enabled' = [t \in Registered |-> IF t = f.tp THEN state ELSE enabled[t]]
    BY <1>1, <2>1 DEF store_flag
  <2>3. QED
    BY Zenon, <1>7, <1>11, <2>2
<1>13. pc # "poll" /\ (pc' # "poll") = (pc # "poll")
  BY <1>1
<1>14. Flags!Execute(k)
  BY Zenon, <1>1, <1>6, <1>11, <1>12, <1>13 DEF Flags!Execute
<1>15. QED
  BY Zenon, <1>10, <1>14 DEF FlagsStep, Flags!Next

\* Every step of Receive is one that Activation allows, or does not see.
LEMMA StepFlags ==
    ASSUME RInv, RInv', ReportedInSession, [Next]_vars
    PROVE  FlagsStep
<1>1. CASE UNCHANGED vars
  <2>1. UNCHANGED <<asked, applied, enabled, connected, pc>>
    BY <1>1 DEF vars, session, client
  <2>2. QED
    BY <2>1, Unseen
<1>2. CASE \/ \E r \in Requests : write_header(r)
           \/ \E how \in Hangups : hang_up(how)
           \/ \E n \in 1..written : segment(n)
  <2>1. UNCHANGED <<asked, applied, enabled, connected, pc>>
    BY <1>2 DEF write_header, hang_up, segment, session, client
  <2>2. QED
    BY <2>1, Unseen
<1>3. CASE write_name
  <2>1. UNCHANGED <<applied, enabled, connected, pc>>
    BY <1>3 DEF write_name, session
  <2>2. LastExecuted' = LastExecuted /\ (pc' # "poll") = (pc # "poll")
    BY <2>1 DEF LastExecuted
  <2>3. /\ Len(asked') = Len(asked) + 1
        /\ \A k \in DOMAIN asked : asked'[k] = asked[k]
    <3>1. asked' = Append(asked, [tp |-> Head(todo), cmd |-> cmd])
      BY <1>3 DEF write_name
    <3>2. /\ asked \in Seq([tp : Names, cmd : Nat]) /\ cmd \in Nat
          /\ Head(todo) \in Names
      BY <1>3 DEF RInv, TypeOK, write_name
    <3>3. QED
      BY <3>1, <3>2
  <2>4. Flags!Ask
    BY Zenon, <2>1, <2>2, <2>3 DEF Flags!Ask
  <2>5. QED
    BY Zenon, <2>4 DEF FlagsStep, Flags!Next
<1>4. CASE TracerNext
  <2>1. CASE event_con_data
    <3>1. /\ UNCHANGED <<asked, applied, enabled, connected>> /\ connected
          /\ pc = "poll" /\ pc' = "receive"
      BY <2>1 DEF event_con_data, client, ReportedInSession
    <3>2. LastExecuted' = LastExecuted
      BY <3>1 DEF LastExecuted
    <3>3. (pc' # "poll") = TRUE
      BY <3>1
    <3>4. Flags!Begin
      BY Zenon, <3>1, <3>2, <3>3 DEF Flags!Begin
    <3>5. QED
      BY Zenon, <3>4 DEF FlagsStep, Flags!Next
  <2>2. CASE \/ receive_would_block \/ execute_other_command \/ set_tracepoints
             \/ set_tracepoints_done \/ read_name_len
    <3>1. UNCHANGED <<asked, applied, enabled, connected>> /\ pc # "poll"
      BY <2>2 DEF receive_would_block, execute_other_command, read_header,
         set_tracepoints, set_tracepoints_done, read_name_len, session, client
    <3>2. QED
      BY <3>1, ReadsOn
  <2>3. CASE receive_eof \/ receive_invalid_header \/ set_tracepoints_fails
    <3>1. UNCHANGED <<asked, applied>> /\ pc # "poll"
      BY <2>3 DEF receive_eof, receive_invalid_header, set_tracepoints_fails,
                  client
    <3>2. \E next : close_and_clean_connection(next)
      BY <2>3 DEF receive_eof, receive_invalid_header, set_tracepoints_fails
    <3>3. QED
      BY Zenon, <3>1, <3>2, CloseIsClose
  <2>4. CASE read_empty \/ send_tracepoint_list
    <3>1. UNCHANGED <<asked, applied>> /\ pc # "poll"
      BY <2>4 DEF read_empty, send_tracepoint_list, read_header, client
    <3>2. \/ \E next : close_and_clean_connection(next)
          \/ UNCHANGED <<enabled, connected>>
      BY <2>4 DEF read_empty, send_tracepoint_list, session
    <3>3. QED
      BY Zenon, <3>1, <3>2, CloseIsClose, ReadsOn
  <2>5. CASE read_name
    BY <2>5, ReadNameExecutes
  <2>6. QED
    BY Zenon, <1>4, <2>1, <2>2, <2>3, <2>4, <2>5 DEF TracerNext
<1>5. QED
  BY Zenon, <1>1, <1>2, <1>3, <1>4 DEF Next
-----------------------------------------------------------------------------
\* Receive does to the flags what Activation allows: for every set of names and
\* requests, however the stream is cut, whatever set_tracepoints gives up and
\* wherever the session ends.
THEOREM ActivationRefinement == Spec => ActivationSpec
<1>1. Init => ReportedInSession /\ Flags!Init
  <2> SUFFICES ASSUME Init PROVE ReportedInSession /\ Flags!Init
    OBVIOUS
  <2>1. /\ asked = <<>> /\ LastExecuted = 0 /\ enabled = Flags!Cleared
        /\ connected = TRUE /\ (pc # "poll") = FALSE
    BY DEF Init, LastExecuted, Flags!Cleared
  <2>2. QED
    BY Zenon, <2>1 DEF Flags!Init, ReportedInSession
<1>2. ReportedInSession /\ [Next]_vars => ReportedInSession'
  BY ReportedStep
<1>3. RInv /\ RInv' /\ ReportedInSession /\ [Next]_vars
        => [Flags!Next]_<<asked, LastExecuted, enabled, connected, pc # "poll">>
  BY StepFlags DEF FlagsStep
<1>4. QED
  BY ReceiveInvariance, <1>1, <1>2, <1>3, PTL
  DEF Spec, ActivationSpec, Flags!Spec
=============================================================================
