---------------------------- MODULE ReceiveProofs ---------------------------
(***************************************************************************)
(* The invariants of Receive, for every set of names and requests, from    *)
(* the inductive invariant RInv.                                           *)
(***************************************************************************)
EXTENDS Receive, TLAPS

\* Where the field at offset o ends, and the command of the request it is in.
End(o) == o + (IF wire[o].kind = "header" THEN HEADER_LEN ELSE 2 + wire[o].n)
CmdAt(o) == IF wire[o].kind = "header" THEN wire[o].cmd
                                       ELSE asked[wire[o].id].cmd
IsName(o) == o \in DOMAIN wire /\ wire[o].kind = "name"

\* Fields follow each other without gaps up to the end of the stream.
Gapless ==
    /\ \A o \in DOMAIN wire : End(o) \in DOMAIN wire \cup {written}
    /\ \A o \in DOMAIN wire : End(o) <= written
    /\ \A o, p \in DOMAIN wire : o < p => End(o) <= p

\* Names are numbered in the order of the stream.
Numbered ==
    /\ \A o \in DOMAIN wire : IsName(o) =>
          wire[o].id \in DOMAIN asked /\ asked[wire[o].id].tp = wire[o].tp
    /\ \A o, p \in DOMAIN wire :
          (IsName(o) /\ IsName(p) /\ o < p) => wire[o].id < wire[p].id

\* A name belongs to the same request as the field before it.
SameRequest ==
    /\ \A o \in DOMAIN wire : IsName(End(o)) => CmdAt(End(o)) = CmdAt(o)
    /\ \A o \in DOMAIN wire : (End(o) = written /\ todo # <<>>) => CmdAt(o) = cmd

\* set_tracepoints works its way from field to field of one request.
StateCmd == IF state THEN EnableRequest ELSE DisableRequest
ReaderInStep ==
    /\ pos <= arrived /\ arrived <= written
    /\ pc = "names" => \E o \in DOMAIN wire : End(o) = pos /\ CmdAt(o) = StateCmd
    /\ pc = "name" => /\ IsName(pos - 2) /\ wire[pos - 2].n = name_len
                      /\ CmdAt(pos - 2) = StateCmd

\* What has been executed lies before what is still to be read.
Frontier == IF pc = "name" THEN pos - 2 ELSE pos
ExecutedBehind ==
    \A k \in DOMAIN applied : \A o \in DOMAIN wire :
        (IsName(o) /\ o >= Frontier) => applied[k].id < wire[o].id

\* Between the length and the name the counter is at most one past the length.
CounterInStep == CounterBounded /\ (pc = "name" => i < len + 2)

RInv ==
    /\ TypeOK /\ Gapless /\ Numbered /\ SameRequest /\ ReaderInStep
    /\ ExecutedBehind /\ NothingFabricated /\ CounterInStep /\ EdgeForUnread
-----------------------------------------------------------------------------
(* Types, and the properties that need no more.                            *)

\* What the type of a field says, and that fields are not empty.
LEMMA Fields ==
    ASSUME TypeOK, NEW o \in DOMAIN wire
    PROVE  /\ o \in Nat /\ End(o) \in Nat /\ o < End(o)
           /\ wire[o].kind \in {"header", "name"}
           /\ wire[o].kind = "name"
                => wire[o].n \in Nat /\ wire[o].tp \in Names /\ wire[o].id \in Nat
           /\ wire[o].kind = "header" => wire[o].cmd \in Nat /\ wire[o].len \in Nat
<1>1. o \in Nat /\ wire[o] \in Header \cup NameField
  BY DEF TypeOK
<1>2. CASE wire[o] \in Header
  BY <1>1, <1>2 DEF Header, End, HEADER_LEN
<1>3. CASE wire[o] \in NameField
  BY SMTT(30), <1>1, <1>3 DEF NameField, End, HEADER_LEN
<1>4. QED
  BY <1>1, <1>2, <1>3

\* The thread, a client that leaves and the network do not write to the stream.
LEMMA StreamUnchanged ==
    ASSUME \/ TracerNext \/ UNCHANGED vars
           \/ \E how \in Hangups : hang_up(how)
           \/ \E n \in 1..written : segment(n)
    PROVE  UNCHANGED <<wire, written, todo, cmd, due, nreq, asked, ends, correct>>
  BY DEF TracerNext, event_con_data, receive_would_block, receive_eof,
         receive_invalid_header, read_empty, send_tracepoint_list,
         execute_other_command, set_tracepoints, set_tracepoints_done,
         read_name_len, read_name, set_tracepoints_fails, hang_up, segment,
         client, vars

\* Closing keeps the types.
LEMMA CloseTypes ==
    ASSUME TypeOK, NEW next \in {"poll", "receive", "drain"},
           close_and_clean_connection(next)
    PROVE  /\ pc' \in {"poll", "receive", "drain"} \cup Panics
           /\ connected' \in BOOLEAN /\ edge' \in BOOLEAN
           /\ enabled' \in [Registered -> BOOLEAN]
  BY Zenon DEF TypeOK, close_and_clean_connection, cleared_flags, session, Panics

\* Every step of the client keeps the types.
LEMMA WriteTypes ==
    ASSUME TypeOK, (\E r \in Requests : write_header(r)) \/ write_name
    PROVE  TypeOK'
<1>1. UNCHANGED <<pc, connected, enabled, edge, pos, i, len, state, name_len,
                  peer, arrived, split, applied>>
  BY Zenon DEF write_header, write_name, session, locals, network
<1>2. CASE \E r \in Requests : write_header(r)
  <2>1. PICK r \in Requests : write_header(r)
    BY <1>2
  <2>2. r.cmd \in Nat /\ r.flags \in Nat /\ r.len \in Nat /\ r.names \in Seq(Names)
    BY RequestsAssumption DEF Request
  <2> DEFINE field == [kind |-> "header", cmd |-> r.cmd, flags |-> r.flags,
                       len |-> r.len]
             S == Header \cup NameField
  <2>3. field \in S /\ wire \in [DOMAIN wire -> S]
    BY <2>2 DEF Header, TypeOK
  <2>4. /\ wire' = put(written, field) /\ written' = written + HEADER_LEN
        /\ todo' = r.names /\ cmd' = r.cmd /\ nreq' = nreq + 1
        /\ due' = written' + r.len
        /\ ends' \subseteq ends \cup {written'} /\ asked' = asked
    BY <2>1 DEF write_header
  <2>5. correct' \in BOOLEAN
    BY Zenon, <2>1 DEF write_header, WellFormed
  <2> HIDE DEF field, S
  <2>6. wire' \in [DOMAIN wire' -> S] /\ DOMAIN wire' = DOMAIN wire \cup {written}
    BY <2>3, <2>4 DEF put
  <2>7. written' \in Nat /\ DOMAIN wire' \subseteq Nat /\ ends' \subseteq Nat
        /\ due' \in Nat
    <3>1. written \in Nat /\ DOMAIN wire \subseteq Nat /\ ends \subseteq Nat
      BY DEF TypeOK
    <3>2. written' \in Nat
      BY <2>4, <3>1 DEF HEADER_LEN
    <3>3. due' \in Nat
      BY <2>2, <2>4, <3>2
    <3>4. DOMAIN wire' \subseteq Nat /\ ends' \subseteq Nat
      BY <2>4, <2>6, <3>1, <3>2
    <3>5. QED
      BY <3>2, <3>3, <3>4
  <2>8. wire' \in [DOMAIN wire' -> Header \cup NameField]
    BY <2>6 DEF S
  <2>9. todo' \in Seq(Names) /\ cmd' \in Nat /\ nreq' \in Nat /\ asked' = asked
    BY SMTT(30), <2>2, <2>4 DEF TypeOK
  <2>10. QED
    BY Zenon, <1>1, <2>5, <2>7, <2>8, <2>9 DEF TypeOK
<1>3. CASE write_name
  <2>1. todo # <<>> /\ todo \in Seq(Names) /\ Head(todo) \in Names
        /\ Tail(todo) \in Seq(Names)
    <3>1. todo # <<>> /\ todo \in Seq(Names)
      BY Zenon, <1>3 DEF write_name, TypeOK
    <3>2. QED
      BY <3>1
  <2> DEFINE t == Head(todo)
             field == [kind |-> "name", n |-> NameLen[t], tp |-> t,
                       id |-> Len(asked) + 1]
             S == Header \cup NameField
             Asked == [tp : Names, cmd : Nat]
             ask == [tp |-> t, cmd |-> cmd]
  <2>2. NameLen[t] \in Nat
    BY <2>1, NamesAssumption
  <2>3. field \in S /\ wire \in [DOMAIN wire -> S]
    BY SMTT(30), <2>1, <2>2 DEF NameField, TypeOK
  <2>4. /\ wire' = put(written, field) /\ written' = written + 2 + NameLen[t]
        /\ todo' = Tail(todo) /\ asked' = Append(asked, ask)
        /\ ends' \subseteq ends \cup {written'}
        /\ UNCHANGED <<cmd, due, nreq>> /\ correct' \in BOOLEAN
    BY <1>3 DEF write_name
  <2>5. asked \in Seq(Asked) /\ ask \in Asked /\ written \in Nat
    BY <2>1 DEF TypeOK
  <2> HIDE DEF field, S, Asked, ask, t
  <2>6. wire' \in [DOMAIN wire' -> S] /\ DOMAIN wire' = DOMAIN wire \cup {written}
    BY <2>3, <2>4 DEF put
  <2>7. asked' \in Seq(Asked)
    BY <2>4, <2>5
  <2>8. written \in Nat /\ written' \in Nat
    BY <2>2, <2>4, <2>5
  <2>9. DOMAIN wire' \subseteq Nat /\ ends' \subseteq Nat
    BY Zenon, <2>4, <2>6, <2>8 DEF TypeOK
  <2>10. wire' \in [DOMAIN wire' -> Header \cup NameField]
    BY <2>6 DEF S
  <2>11. asked' \in Seq([tp : Names, cmd : Nat])
    BY <2>7 DEF Asked
  <2>12. todo' \in Seq(Names) /\ UNCHANGED <<cmd, due, nreq>>
         /\ correct' \in BOOLEAN
    BY <2>1, <2>4
  <2>13. QED
    BY Zenon, <1>1, <2>8, <2>9, <2>10, <2>11, <2>12 DEF TypeOK
<1>4. QED
  BY <1>2, <1>3

\* Every step of the thread and of the network keeps the types.
LEMMA ReadTypes ==
    ASSUME TypeOK, ReaderInStep,
           \/ TracerNext \/ UNCHANGED vars
           \/ \E how \in Hangups : hang_up(how)
           \/ \E n \in 1..written : segment(n)
    PROVE  TypeOK'
<1>1. UNCHANGED <<wire, written, todo, cmd, due, nreq, asked, ends, correct>>
  BY StreamUnchanged
<1>2. /\ wire' \in [DOMAIN wire' -> Header \cup NameField]
      /\ DOMAIN wire' \subseteq Nat
      /\ written' \in Nat /\ todo' \in Seq(Names) /\ cmd' \in Nat
      /\ due' \in Nat /\ nreq' \in Nat
      /\ asked' \in Seq([tp : Names, cmd : Nat])
      /\ ends' \subseteq Nat /\ correct' \in BOOLEAN
  BY Zenon, <1>1 DEF TypeOK
<1> DEFINE Session == /\ pc \in {"poll", "receive", "drain", "names", "name"} \cup Panics
                      /\ connected \in BOOLEAN /\ edge \in BOOLEAN
                      /\ enabled \in [Registered -> BOOLEAN]
           Locals == /\ pos \in Nat /\ i \in Nat /\ len \in Nat /\ state \in BOOLEAN
                     /\ name_len \in Nat
           Network == /\ arrived \in Nat /\ peer \in {"open", "fin", "rst"}
                      /\ split \in BOOLEAN
           Applied == applied \in Seq([id : Nat, tp : Names, state : BOOLEAN])
<1>3. Session /\ Locals /\ Network /\ Applied
  BY DEF TypeOK
<1>4. SUFFICES Session' /\ Locals' /\ Network' /\ Applied'
  BY Zenon, <1>2 DEF TypeOK
<1>5. CASE UNCHANGED vars
  BY <1>3, <1>5 DEF vars, session, locals, client, network
<1>6. CASE \E how \in Hangups : hang_up(how)
  <2>1. /\ UNCHANGED <<pc, connected, enabled, pos, i, len, state, name_len,
                       arrived, split, applied>>
        /\ edge' = connected /\ peer' \in {"fin", "rst"}
    BY <1>6, HangupsAssumption DEF hang_up, locals, network
  <2>2. QED
    BY <1>3, <2>1
<1>7. CASE \E n \in 1..written : segment(n)
  <2>1. PICK n \in 1..written : segment(n)
    BY <1>7
  <2>2. /\ UNCHANGED <<pc, connected, enabled, pos, i, len, state, name_len,
                       peer, applied>>
        /\ edge' = connected /\ arrived' = n /\ n \in Nat /\ split' \in BOOLEAN
    BY <2>1 DEF segment, locals, client, TypeOK
  <2>3. QED
    BY <1>3, <2>2
<1>8. CASE read_name
  <2> DEFINE f == wire[pos - 2]
             App == [id : Nat, tp : Names, state : BOOLEAN]
             a == [id |-> f.id, tp |-> f.tp, state |-> state]
  <2>1. /\ pc' = "names" /\ pos' = pos + name_len /\ i' = i + name_len
        /\ UNCHANGED <<connected, edge, len, state, name_len, arrived, peer, split>>
        /\ applied' = Append(applied, a) /\ enabled' = store_flag(f.tp)
        /\ IsName(pos - 2)
    BY <1>8 DEF read_name, network, client, ReaderInStep
  <2>2. f.id \in Nat /\ f.tp \in Names
    BY <2>1, Fields DEF IsName
  <2>3. a \in App /\ applied \in Seq(App)
    BY <1>3, <2>2
  <2>4. enabled' \in [Registered -> BOOLEAN]
    BY <1>3, <2>1 DEF store_flag
  <2> HIDE DEF a, App
  <2>5. applied' \in Seq(App)
    BY <2>1, <2>3
  <2>6. Session' /\ Network'
    BY <1>3, <2>1, <2>4
  <2>7. Locals'
    BY <1>3, <2>1
  <2>8. QED
    BY <2>5, <2>6, <2>7 DEF App
<1>9. CASE set_tracepoints \/ read_name_len
  <2>1. /\ UNCHANGED <<connected, enabled, edge, arrived, peer, split, applied>>
        /\ pc' \in {"names", "name"}
    BY <1>9 DEF set_tracepoints, read_name_len, session, client, network
  <2>2. Session' /\ Network' /\ Applied'
    BY <1>3, <2>1
  <2>3. CASE set_tracepoints
    <3>1. /\ pos' = pos + HEADER_LEN /\ i' = 0 /\ len' = wire[pos].len
          /\ state' = (wire[pos].cmd = EnableRequest) /\ name_len' = name_len
          /\ pos \in DOMAIN wire /\ wire[pos].kind = "header"
      BY <2>3 DEF set_tracepoints, read_header, after_header,
                  check_parse_header, check_magic_number,
                  requested_state
    <3>2. wire[pos].len \in Nat
      BY <3>1, Fields
    <3>3. QED
      BY <1>3, <2>2, <3>1, <3>2 DEF HEADER_LEN
  <2>4. CASE read_name_len
    <3>1. /\ pos' = pos + 2 /\ i' = i + 2 /\ name_len' = NextLen
          /\ UNCHANGED <<len, state>> /\ NextLen <= MAX_TRACEPOINT_NAME_LEN
      BY <2>4 DEF read_name_len, short_enough
    <3>2. NextLen \in Nat
      BY Fields DEF NextLen, MAGIC_AS_LEN
    <3>3. QED
      BY <1>3, <2>2, <3>1, <3>2, LimitAssumption
  <2>5. QED
    BY <1>9, <2>3, <2>4
<1>10. CASE \/ event_con_data \/ receive_would_block \/ receive_eof
            \/ receive_invalid_header \/ read_empty \/ send_tracepoint_list
            \/ execute_other_command \/ set_tracepoints_done
            \/ set_tracepoints_fails
  <2>1. /\ UNCHANGED <<arrived, peer, split, applied, len, state, name_len>>
        /\ pos' \in {pos, arrived, pos + 2, pos + HEADER_LEN} /\ i' \in {i, i + 2}
    BY <1>10 DEF event_con_data, receive_would_block, receive_eof,
          receive_invalid_header, read_empty, send_tracepoint_list,
          execute_other_command, set_tracepoints_done, set_tracepoints_fails,
          read_header, after_header, locals, client, network
  <2>2. Locals' /\ Network' /\ Applied'
    BY <1>3, <2>1 DEF HEADER_LEN
  <2>3. CASE \E next \in {"poll", "receive", "drain"} : close_and_clean_connection(next)
    BY <2>2, <2>3, CloseTypes
  <2>4. CASE /\ UNCHANGED <<connected, enabled>> /\ edge' \in {edge, FALSE}
             /\ pc' \in {"poll", "receive", "panic_list"}
    BY Zenon, <1>3, <2>2, <2>4 DEF Panics
  <2>5. QED
    BY Zenon, <1>10, <2>3, <2>4
    DEF event_con_data, receive_would_block, receive_eof,
        receive_invalid_header, read_empty, send_tracepoint_list,
        execute_other_command, set_tracepoints_done, set_tracepoints_fails,
        read_header, after_header, session, after_command
<1>11. QED
  BY <1>5, <1>6, <1>7, <1>8, <1>9, <1>10 DEF TracerNext

\* receive goes back to the loop with everything read.
LEMMA EdgeStep ==
    ASSUME TypeOK, EdgeForUnread, [Next]_vars
    PROVE  EdgeForUnread'
<1>1. ASSUME NEW next \in {"poll", "receive", "drain"},
             close_and_clean_connection(next), next = "poll" => pos' = arrived,
             arrived' = arrived
      PROVE  EdgeForUnread'
  BY <1>1 DEF close_and_clean_connection, EdgeForUnread, TypeOK
<1>2. CASE TracerNext
  <2>1. arrived' = arrived /\ arrived \in Nat
    BY <1>2 DEF TracerNext, event_con_data, receive_would_block, receive_eof,
         receive_invalid_header, read_empty, send_tracepoint_list,
         execute_other_command, set_tracepoints, set_tracepoints_done,
         read_name_len, read_name, set_tracepoints_fails, network, TypeOK
  <2>2. CASE receive_eof \/ receive_invalid_header \/ set_tracepoints_fails
    BY <1>1, <2>1, <2>2
    DEF receive_eof, receive_invalid_header, set_tracepoints_fails
  <2>3. CASE read_empty
    BY <1>1, <2>1, <2>3 DEF read_empty, EdgeForUnread
  <2>4. CASE send_tracepoint_list
    BY <1>1, <2>1, <2>4 DEF send_tracepoint_list, read_header, after_header, EdgeForUnread
  <2>5. QED
    BY <1>2, <2>1, <2>2, <2>3, <2>4
    DEF TracerNext, event_con_data, receive_would_block, EdgeForUnread,
        execute_other_command, set_tracepoints, set_tracepoints_done,
        read_name_len, read_name, after_command, read_header, after_header
<1>3. CASE write_name \/ \E r \in Requests : write_header(r)
  BY Zenon, <1>3 DEF write_name, write_header, session, network, EdgeForUnread
<1>4. CASE \E how \in Hangups : hang_up(how)
  BY <1>4 DEF hang_up, network, EdgeForUnread
<1>5. CASE \E n \in 1..written : segment(n)
  BY <1>5 DEF segment, EdgeForUnread
<1>6. CASE UNCHANGED vars
  BY <1>6 DEF vars, session, network, EdgeForUnread
<1>7. QED
  BY <1>2, <1>3, <1>4, <1>5, <1>6 DEF Next

\* A name adds to a counter that was below the length.
LEMMA CounterStep ==
    ASSUME TypeOK, CounterInStep, [Next]_vars
    PROVE  CounterInStep'
<1> USE LimitAssumption DEF CounterInStep, CounterBounded
<1>1. i \in Nat /\ len \in Nat /\ name_len \in Nat
  BY DEF TypeOK
<1>2. ASSUME UNCHANGED name_len, pc' \notin {"names", "name"}
      PROVE  CounterInStep'
  BY <1>2
<1>3. CASE set_tracepoints
  <2>1. i' = 0 /\ len' = wire[pos].len /\ pc' = "names" /\ name_len' = name_len
        /\ wire[pos].len \in Nat
    BY <1>3, Fields DEF set_tracepoints, read_header, check_parse_header,
                        check_magic_number
  <2>2. QED
    BY <2>1
<1>4. CASE read_name_len
  <2>1. /\ i < len /\ i' = i + 2 /\ len' = len /\ pc' = "name"
        /\ name_len' = NextLen /\ NextLen <= MAX_TRACEPOINT_NAME_LEN
    BY <1>4 DEF read_name_len, more_names, short_enough
  <2>2. QED
    BY <1>1, <2>1
<1>5. CASE read_name
  <2>1. /\ pc = "name" /\ pc' = "names" /\ i' = i + name_len
        /\ UNCHANGED <<len, name_len>>
    BY <1>5 DEF read_name
  <2>2. QED
    BY <1>1, <2>1
<1>6. CASE receive_eof \/ receive_invalid_header \/ set_tracepoints_fails
           \/ read_empty \/ send_tracepoint_list
  <2>1. UNCHANGED name_len
    BY <1>6 DEF receive_eof, receive_invalid_header, set_tracepoints_fails,
                read_empty, send_tracepoint_list, locals
  <2>2. ASSUME NEW next \in {"poll", "receive", "drain"},
               close_and_clean_connection(next)
        PROVE  pc' \notin {"names", "name"}
    BY <2>2 DEF close_and_clean_connection
  <2>3. pc' \notin {"names", "name"}
    BY <1>6, <2>2
    DEF receive_eof, receive_invalid_header, set_tracepoints_fails, read_empty,
        send_tracepoint_list, read_header
  <2>4. QED
    BY <1>2, <2>1, <2>3
<1>7. CASE event_con_data \/ receive_would_block \/ execute_other_command
           \/ set_tracepoints_done
  BY <1>2, <1>7 DEF event_con_data, receive_would_block, locals,
                    execute_other_command, set_tracepoints_done, after_command
<1>8. CASE ~TracerNext
  <2>1. UNCHANGED <<pc, i, len, name_len>>
    BY Zenon, <1>8 DEF Next, write_name, write_header, hang_up, segment, locals, vars
  <2>2. QED
    BY <2>1
<1>9. QED
  BY <1>3, <1>4, <1>5, <1>6, <1>7, <1>8 DEF TracerNext
-----------------------------------------------------------------------------
(* The stream and its reader.                                              *)

\* Writing adds the field f at the end w of the stream, and a name to asked.
NewField(w, f) ==
    /\ w = written /\ w \notin DOMAIN wire
    /\ DOMAIN wire' = DOMAIN wire \cup {w} /\ wire'[w] = f
    /\ \A o \in DOMAIN wire : wire'[o] = wire[o]
    /\ DOMAIN asked \subseteq DOMAIN asked'
    /\ \A k \in DOMAIN asked : asked'[k] = asked[k]
    /\ UNCHANGED <<pc, pos, state, name_len, arrived, applied>>
    /\ \/ /\ f.kind = "header" /\ todo = <<>> /\ asked' = asked
          /\ written' = w + HEADER_LEN /\ cmd' = f.cmd
       \/ /\ f.kind = "name" /\ f.n \in Nat /\ todo # <<>> /\ cmd' = cmd
          /\ written' = w + (2 + f.n)
          /\ f.id \in DOMAIN asked' /\ \A k \in DOMAIN asked : k < f.id
          /\ asked'[f.id].tp = f.tp /\ asked'[f.id].cmd = cmd

LEMMA Writes ==
    ASSUME TypeOK, Gapless, write_name \/ \E r \in Requests : write_header(r)
    PROVE  \E w \in Nat : \E f : NewField(w, f)
<1>1. written \in Nat /\ written \notin DOMAIN wire
  <2>1. written \in Nat
    BY DEF TypeOK
  <2>2. \A o \in DOMAIN wire : o < End(o) /\ End(o) <= written /\ o \in Nat
                               /\ End(o) \in Nat
    BY Fields DEF Gapless
  <2>3. QED
    BY <2>1, <2>2
<1>2. UNCHANGED <<pc, pos, state, name_len, arrived, applied>>
  BY Zenon DEF write_header, write_name, session, locals, network
<1>3. ASSUME NEW f, wire' = put(written, f)
      PROVE  /\ DOMAIN wire' = DOMAIN wire \cup {written} /\ wire'[written] = f
             /\ \A o \in DOMAIN wire : wire'[o] = wire[o]
  BY <1>1, <1>3 DEF put
<1>4. CASE \E r \in Requests : write_header(r)
  <2>1. PICK r \in Requests : write_header(r)
    BY <1>4
  <2> DEFINE f == [kind |-> "header", cmd |-> r.cmd, flags |-> r.flags,
                   len |-> r.len]
  <2>2. f.kind = "header" /\ f.cmd = r.cmd
    OBVIOUS
  <2>3. /\ wire' = put(written, f) /\ written' = written + HEADER_LEN
        /\ cmd' = r.cmd /\ asked' = asked /\ todo = <<>>
    BY Zenon, <2>1 DEF write_header
  <2> HIDE DEF f
  <2>4. NewField(written, f)
    BY Zenon, <1>1, <1>2, <1>3, <2>2, <2>3 DEF NewField
  <2>5. QED
    BY <1>1, <2>4
<1>5. CASE write_name
  <2> DEFINE t == Head(todo)
             f == [kind |-> "name", n |-> NameLen[t], tp |-> t,
                   id |-> Len(asked) + 1]
             a == [tp |-> t, cmd |-> cmd]
             Asked == [tp : Names, cmd : Nat]
  <2>1. /\ f.kind = "name" /\ f.n = NameLen[t] /\ f.id = Len(asked) + 1
        /\ f.tp = t /\ a.tp = t /\ a.cmd = cmd
    OBVIOUS
  <2>2. t \in Names /\ NameLen[t] \in Nat
    <3>1. todo \in Seq(Names) /\ todo # <<>>
      BY <1>5 DEF write_name, TypeOK
    <3>2. Head(todo) \in Names
      BY <3>1
    <3>3. QED
      BY <3>2, NamesAssumption
  <2>3. /\ wire' = put(written, f) /\ written' = written + 2 + NameLen[t]
        /\ cmd' = cmd /\ asked' = Append(asked, a) /\ todo # <<>>
    BY <1>5 DEF write_name
  <2>4. asked \in Seq(Asked) /\ a \in Asked
    BY <2>2 DEF TypeOK
  <2> HIDE DEF f, a, Asked, t
  <2>5. /\ DOMAIN asked = 1..Len(asked) /\ Len(asked) \in Nat
        /\ DOMAIN asked' = 1..(Len(asked) + 1)
        /\ \A k \in 1..Len(asked) : asked'[k] = asked[k]
        /\ asked'[Len(asked) + 1] = a
    BY <2>3, <2>4
  <2>6. /\ DOMAIN asked \subseteq DOMAIN asked' /\ f.id \in DOMAIN asked'
        /\ \A k \in DOMAIN asked : asked'[k] = asked[k] /\ k < f.id
        /\ asked'[f.id] = a
    BY <2>1, <2>5
  <2>7. written' = written + (2 + f.n)
    <3>1. written \in Nat /\ f.n \in Nat /\ written' = written + 2 + f.n
      BY <1>1, <2>1, <2>2, <2>3
    <3>2. QED
      BY <3>1
  <2>8. NewField(written, f)
    BY Zenon, <1>1, <1>2, <1>3, <2>1, <2>2, <2>3, <2>6, <2>7 DEF NewField
  <2>9. QED
    BY <1>1, <2>8
<1>6. QED
  BY <1>4, <1>5

\* Every step of the client keeps the stream in order and the reader in step.
LEMMA WriteStep ==
    ASSUME RInv, write_name \/ \E r \in Requests : write_header(r)
    PROVE  /\ Gapless' /\ Numbered' /\ SameRequest' /\ ReaderInStep'
           /\ ExecutedBehind' /\ NothingFabricated'
<1>0. PICK w \in Nat : \E f : NewField(w, f)
  BY Writes DEF RInv
<1>1. PICK f : NewField(w, f)
  BY <1>0
<1> DEFINE Old == DOMAIN wire
<1>2. /\ DOMAIN wire' = Old \cup {w} /\ wire'[w] = f /\ w \notin Old /\ w = written
      /\ \A o \in Old : wire'[o] = wire[o]
  BY <1>1 DEF NewField
<1>3. \A o \in Old : /\ o \in Nat /\ End(o) \in Nat /\ o < End(o) /\ End(o) <= w
                     /\ End(o) \in Old \cup {w}
                     /\ wire[o].kind \in {"header", "name"}
  BY <1>2, Fields DEF RInv, Gapless
<1>4. \A o \in Old : End(o)' = End(o) /\ IsName(o)' = IsName(o)
  BY <1>2 DEF End, IsName
<1>5. \A o \in Old : IsName(o) => wire[o].id \in DOMAIN asked
                                  /\ asked[wire[o].id].tp = wire[o].tp
  BY DEF RInv, Numbered
<1>6. \A o \in Old : CmdAt(o)' = CmdAt(o)
  <2> SUFFICES ASSUME NEW o \in Old PROVE CmdAt(o)' = CmdAt(o)
    OBVIOUS
  <2>1. wire'[o] = wire[o]
    BY <1>2
  <2>2. wire[o].kind # "header" => asked'[wire[o].id] = asked[wire[o].id]
    BY <1>1, <1>3, <1>5 DEF NewField, IsName
  <2>3. QED
    BY <2>1, <2>2 DEF CmdAt
<1>7. /\ End(w)' = written' /\ written' \in Nat /\ w < written'
      /\ IsName(w)' = (f.kind = "name")
  BY <1>1, <1>2 DEF NewField, End, IsName, HEADER_LEN
<1>8. f.kind = "name" =>
         /\ f.id \in DOMAIN asked' /\ asked'[f.id].tp = f.tp
         /\ \A k \in DOMAIN asked : k < f.id
         /\ CmdAt(w)' = cmd /\ cmd' = cmd /\ todo # <<>>
  BY <1>1, <1>2 DEF NewField, CmdAt
<1>9. f.kind # "name" => CmdAt(w)' = cmd'
  BY <1>1, <1>2 DEF NewField, CmdAt
<1>10. /\ DOMAIN asked \subseteq DOMAIN asked'
       /\ \A k \in DOMAIN asked : asked'[k] = asked[k]
       /\ UNCHANGED <<pc, pos, state, name_len, arrived, applied>>
  BY <1>1 DEF NewField
<1>11. Gapless'
  <2>1. \A o \in DOMAIN wire' : End(o)' \in DOMAIN wire' \cup {written'}
                                /\ End(o)' <= written'
    BY <1>2, <1>3, <1>4, <1>7
  <2>2. ASSUME NEW o \in DOMAIN wire', NEW p \in DOMAIN wire', o < p
        PROVE  End(o)' <= p
    <3>1. o \in Old
      BY <1>2, <1>3, <2>2
    <3>2. CASE p \in Old
      BY <1>4, <2>2, <3>1, <3>2 DEF RInv, Gapless
    <3>3. CASE p = w
      BY <1>3, <1>4, <3>1, <3>3
    <3>4. QED
      BY <1>2, <3>2, <3>3
  <2>3. QED
    BY <2>1, <2>2 DEF Gapless
<1>12. Numbered'
  <2>1. ASSUME NEW o \in DOMAIN wire', IsName(o)'
        PROVE  wire'[o].id \in DOMAIN asked' /\ asked'[wire'[o].id].tp = wire'[o].tp
    <3>1. CASE o \in Old
      <4>1. IsName(o) /\ wire'[o] = wire[o] /\ wire[o].id \in DOMAIN asked
        BY <1>2, <1>4, <1>5, <2>1, <3>1
      <4>2. asked'[wire[o].id] = asked[wire[o].id]
        BY <1>10, <4>1
      <4>3. QED
        BY <1>5, <1>10, <3>1, <4>1, <4>2
    <3>2. CASE o = w
      BY Zenon, <1>2, <1>7, <1>8, <2>1, <3>2
    <3>3. QED
      BY <1>2, <3>1, <3>2
  <2>2. ASSUME NEW o \in DOMAIN wire', NEW p \in DOMAIN wire', o < p,
               IsName(o)', IsName(p)'
        PROVE  wire'[o].id < wire'[p].id
    <3>1. o \in Old
      BY <1>2, <1>3, <2>2
    <3>2. CASE p \in Old
      BY <1>2, <1>4, <2>2, <3>1, <3>2 DEF RInv, Numbered
    <3>3. CASE p = w
      BY Zenon, <1>2, <1>4, <1>5, <1>7, <1>8, <2>2, <3>1, <3>3
    <3>4. QED
      BY <1>2, <3>2, <3>3
  <2>3. QED
    BY <2>1, <2>2 DEF Numbered
<1>13. SameRequest'
  <2>1. ASSUME NEW o \in DOMAIN wire', NEW p, p = End(o)', IsName(p)'
        PROVE  CmdAt(p)' = CmdAt(o)'
    <3>1. p \in DOMAIN wire'
      BY <2>1 DEF IsName
    <3>2. o \in Old /\ p = End(o)
      BY <1>2, <1>3, <1>4, <1>7, <2>1, <3>1
    <3>3. CASE p \in Old
      BY <1>4, <1>6, <2>1, <3>2, <3>3 DEF RInv, SameRequest
    <3>4. CASE p = w
      BY Zenon, <1>2, <1>6, <1>7, <1>8, <2>1, <3>2, <3>4 DEF RInv, SameRequest
    <3>5. QED
      BY <1>2, <3>1, <3>3, <3>4
  <2>2. ASSUME NEW o \in DOMAIN wire', End(o)' = written'
        PROVE  CmdAt(o)' = cmd'
    <3>1. o = w
      BY <1>2, <1>3, <1>4, <1>7, <2>2
    <3>2. QED
      BY <1>8, <1>9, <3>1
  <2>3. \A o \in DOMAIN wire' : IsName(End(o))' => CmdAt(End(o))' = CmdAt(o)'
    BY <2>1
  <2>4. QED
    BY <2>2, <2>3 DEF SameRequest
<1>14. ReaderInStep'
  <2>1. /\ pos <= arrived /\ arrived <= w /\ pos \in Nat /\ arrived \in Nat
    BY <1>2 DEF RInv, ReaderInStep, TypeOK
  <2>2. ASSUME pc = "names"
        PROVE  \E o \in DOMAIN wire' : End(o)' = pos /\ CmdAt(o)' = StateCmd
    BY <1>2, <1>4, <1>6, <2>2 DEF RInv, ReaderInStep
  <2>3. ASSUME pc = "name"
        PROVE  /\ IsName(pos - 2)' /\ wire'[pos - 2].n = name_len
               /\ CmdAt(pos - 2)' = StateCmd
    <3>1. PICK q : q = pos - 2
      OBVIOUS
    <3>2. q \in Old /\ IsName(q) /\ wire[q].n = name_len /\ CmdAt(q) = StateCmd
      BY <2>3, <3>1 DEF RInv, ReaderInStep, IsName
    <3>3. IsName(q)' /\ wire'[q].n = name_len /\ CmdAt(q)' = StateCmd
      BY <1>2, <1>4, <1>6, <3>2
    <3>4. q = (pos - 2)'
      BY <1>10, <3>1
    <3>5. QED
      BY <1>10, <3>1, <3>3, <3>4
  <2>4. QED
    BY <1>7, <1>10, <2>1, <2>2, <2>3 DEF ReaderInStep, StateCmd
<1>15. \A k \in DOMAIN applied : applied[k].id \in DOMAIN asked
  BY DEF RInv, NothingFabricated
<1>16. ExecutedBehind'
  <2>1. Frontier' = Frontier
    BY <1>10 DEF Frontier
  <2>2. ASSUME NEW k \in DOMAIN applied, NEW o \in DOMAIN wire', IsName(o)',
               o >= Frontier
        PROVE  applied[k].id < wire'[o].id
    <3>1. CASE o \in Old
      BY <1>2, <1>4, <2>2, <3>1 DEF RInv, ExecutedBehind
    <3>2. CASE o = w
      BY Zenon, <1>2, <1>7, <1>8, <1>15, <2>2, <3>2
    <3>3. QED
      BY <1>2, <3>1, <3>2
  <2>3. QED
    BY <1>10, <2>1, <2>2 DEF ExecutedBehind
<1>17. NothingFabricated'
  BY <1>10, <1>15 DEF RInv, NothingFabricated
<1>18. QED
  BY <1>11, <1>12, <1>13, <1>14, <1>16, <1>17

\* Every step of the thread and of the network keeps the reader in step.
LEMMA ReadStep ==
    ASSUME RInv,
           \/ TracerNext \/ UNCHANGED vars
           \/ \E how \in Hangups : hang_up(how)
           \/ \E n \in 1..written : segment(n)
    PROVE  /\ Gapless' /\ Numbered' /\ SameRequest' /\ ReaderInStep'
           /\ ExecutedBehind' /\ NothingFabricated'
<1>1. UNCHANGED <<wire, written, todo, cmd, asked>>
  BY StreamUnchanged
<1>2. /\ pos \in Nat /\ arrived \in Nat /\ written \in Nat /\ name_len \in Nat
      /\ pos <= arrived /\ arrived <= written
  <2>1. /\ pos \in Nat /\ arrived \in Nat /\ written \in Nat
        /\ name_len \in Nat
    BY DEF RInv, TypeOK
  <2>2. pos <= arrived /\ arrived <= written
    BY DEF RInv, ReaderInStep
  <2>3. QED
    BY <2>1, <2>2
<1>3. Gapless' /\ Numbered' /\ SameRequest'
  <2>1. Gapless'
    BY <1>1 DEF RInv, Gapless, End
  <2>2. Numbered'
    BY SMTT(30), <1>1 DEF RInv, Numbered, IsName
  <2>3. SameRequest'
    BY Zenon, <1>1 DEF RInv, SameRequest, End, CmdAt, IsName
  <2>4. QED
    BY SMTT(30), <2>1, <2>2, <2>3
<1>4. \A o : End(o)' = End(o) /\ CmdAt(o)' = CmdAt(o) /\ IsName(o)' = IsName(o)
  BY <1>1 DEF End, CmdAt, IsName
<1>5. Frontier <= pos /\ Frontier \in Int
  BY <1>2 DEF Frontier
<1>6. \A o \in DOMAIN wire : o \in Nat
  BY DEF RInv, TypeOK
<1> DEFINE Behind(n) == \A k \in DOMAIN applied : \A o \in DOMAIN wire :
                           (IsName(o) /\ o >= n) => applied[k].id < wire[o].id
<1>7. ASSUME NEW n \in Int, Frontier <= n PROVE Behind(n)
  <2>1. Behind(Frontier)
    BY DEF RInv, ExecutedBehind
  <2>2. \A o \in DOMAIN wire : o >= n => o >= Frontier
    BY <1>5, <1>6, <1>7
  <2>3. QED
    BY Zenon, <2>1, <2>2
<1>8. ASSUME applied' = applied, pc' \notin {"names", "name"},
             pos' \in Nat, pos <= pos', pos' <= arrived, arrived' = arrived
      PROVE  ReaderInStep' /\ ExecutedBehind' /\ NothingFabricated'
  <2>1. ReaderInStep'
    BY <1>1, <1>2, <1>8 DEF ReaderInStep
  <2>2. Behind(pos') /\ Frontier' = pos'
    <3>1. Frontier <= pos' /\ pos' \in Int
      BY <1>2, <1>5, <1>8
    <3>2. Frontier' = pos'
      BY Zenon, <1>8 DEF Frontier
    <3>3. QED
      BY <1>7, <3>1, <3>2
  <2>3. ExecutedBehind'
    BY Zenon, <1>1, <1>4, <1>8, <2>2 DEF ExecutedBehind
  <2>4. NothingFabricated'
    BY Zenon, <1>1, <1>8 DEF RInv, NothingFabricated
  <2>5. QED
    BY <2>1, <2>3, <2>4
<1>9. CASE \/ UNCHANGED vars
           \/ \E how \in Hangups : hang_up(how)
           \/ \E n \in 1..written : segment(n)
  <2>1. /\ UNCHANGED <<pc, pos, state, name_len, applied>>
        /\ arrived' \in arrived..written
    BY <1>2, <1>9 DEF vars, hang_up, segment, locals, network
  <2>2. ReaderInStep'
    BY SMTT(30), <1>1, <1>2, <2>1 DEF RInv, ReaderInStep, StateCmd, End, CmdAt, IsName
  <2>3. ExecutedBehind' /\ NothingFabricated'
    BY <1>1, <2>1 DEF RInv, ExecutedBehind, NothingFabricated, Frontier, IsName
  <2>4. QED
    BY <1>3, <2>2, <2>3
<1>10. CASE set_tracepoints
  <2>1. /\ pc' = "names" /\ pos' = pos + HEADER_LEN /\ pos + HEADER_LEN <= arrived
        /\ state' = (wire[pos].cmd = EnableRequest)
        /\ wire[pos].cmd \in {EnableRequest, DisableRequest}
        /\ pos \in DOMAIN wire /\ wire[pos].kind = "header"
        /\ UNCHANGED <<arrived, applied>>
    BY <1>10 DEF set_tracepoints, read_header, after_header, check_parse_header,
                 check_magic_number, Available,
                 requested_state, network
  <2>2. End(pos) = pos' /\ CmdAt(pos) = StateCmd'
    BY Zenon, <2>1 DEF End, CmdAt, StateCmd, EnableRequest, DisableRequest
  <2>3. ReaderInStep'
    BY <1>1, <1>2, <1>4, <2>1, <2>2 DEF ReaderInStep, HEADER_LEN
  <2>4. Behind(pos') /\ Frontier' = pos'
    BY <1>2, <1>5, <1>7, <2>1 DEF Frontier, HEADER_LEN
  <2>5. ExecutedBehind'
    BY <1>1, <1>4, <2>1, <2>4 DEF ExecutedBehind
  <2>6. NothingFabricated'
    BY <1>1, <2>1 DEF RInv, NothingFabricated
  <2>7. QED
    BY <1>3, <2>3, <2>5, <2>6
<1>11. CASE read_name_len
  <2>1. /\ pc = "names" /\ pc' = "name" /\ pos' = pos + 2 /\ pos + 2 <= arrived
        /\ name_len' = NextLen /\ NextLen <= MAX_TRACEPOINT_NAME_LEN
        /\ UNCHANGED <<state, arrived, applied>>
    BY <1>11 DEF read_name_len, Available, short_enough, network
  <2>2. IsName(pos) /\ NextLen = wire[pos].n
    BY <2>1, LimitAssumption DEF NextLen, IsName, MAGIC_AS_LEN
  <2>3. CmdAt(pos) = StateCmd
    <3>1. PICK o \in DOMAIN wire : End(o) = pos /\ CmdAt(o) = StateCmd
      BY <2>1 DEF RInv, ReaderInStep
    <3>2. QED
      BY <2>2, <3>1 DEF RInv, SameRequest
  <2>4. pos' - 2 = pos /\ pos' <= arrived
    BY <1>2, <2>1
  <2>5. ReaderInStep'
    <3>1. PICK q : q = pos
      OBVIOUS
    <3>2. IsName(q)' /\ wire'[q].n = name_len' /\ CmdAt(q)' = StateCmd'
      BY <1>1, <1>4, <2>1, <2>2, <2>3, <3>1 DEF StateCmd
    <3>3. q = (pos - 2)'
      BY <2>4, <3>1
    <3>4. /\ IsName(pos - 2)' /\ wire'[pos' - 2].n = name_len'
          /\ CmdAt(pos - 2)' = StateCmd'
      BY <3>2, <3>3
    <3>5. QED
      BY <1>1, <1>2, <2>1, <2>4, <3>4 DEF ReaderInStep
  <2>6. Behind(pos) /\ Frontier' = pos
    BY <1>2, <1>5, <1>7, <2>1, <2>4 DEF Frontier
  <2>7. ExecutedBehind'
    BY <1>1, <1>4, <2>1, <2>6 DEF ExecutedBehind
  <2>8. NothingFabricated'
    BY <1>1, <2>1 DEF RInv, NothingFabricated
  <2>9. QED
    BY <1>3, <2>5, <2>7, <2>8
<1>12. CASE read_name
  <2> DEFINE q == pos - 2
             a == [id |-> wire[q].id, tp |-> wire[q].tp, state |-> state]
             Apps == [id : Nat, tp : Names, state : BOOLEAN]
  <2>1. /\ pc = "name" /\ pc' = "names" /\ pos' = pos + name_len
        /\ pos + name_len <= arrived /\ UNCHANGED <<state, arrived>>
        /\ applied' = Append(applied, a)
    BY <1>12 DEF read_name, Available, network
  <2>2. /\ IsName(q) /\ q \in DOMAIN wire /\ wire[q].n = name_len
        /\ CmdAt(q) = StateCmd
    BY SMTT(30), <2>1 DEF RInv, ReaderInStep, IsName
  <2>3. /\ wire[q].kind = "name" /\ wire[q].id \in Nat /\ wire[q].tp \in Names
        /\ wire[q].id \in DOMAIN asked /\ asked[wire[q].id].tp = wire[q].tp
        /\ asked[wire[q].id].cmd = StateCmd
    BY SMTT(30), <2>2, Fields DEF RInv, Numbered, IsName, CmdAt
  <2>4. End(q) = pos' /\ q < pos'
    <3>1. q + (2 + name_len) = pos + name_len /\ q < pos + name_len
      BY <1>2
    <3>2. QED
      BY <2>1, <2>2, <2>3, <3>1 DEF End
  <2>5. /\ a \in Apps /\ applied \in Seq(Apps) /\ a.id = wire[q].id
        /\ a.tp = wire[q].tp /\ a.state = state
    BY Zenon, <2>3 DEF RInv, TypeOK
  <2> HIDE DEF q, a, Apps
  <2>6. /\ Len(applied) \in Nat /\ DOMAIN applied = 1..Len(applied)
        /\ DOMAIN applied' = 1..(Len(applied) + 1)
        /\ \A k \in 1..Len(applied) : applied'[k] = applied[k]
        /\ applied'[Len(applied) + 1] = a
    BY <2>1, <2>5
  <2>7. PICK last : /\ last \notin DOMAIN applied /\ last \in Nat
                    /\ DOMAIN applied' = DOMAIN applied \cup {last}
                    /\ \A k \in DOMAIN applied : applied'[k] = applied[k] /\ k < last
                    /\ applied'[last] = a
    BY <2>6
  <2>8. \A k \in DOMAIN applied : applied[k].id < a.id
    BY <1>5, <1>6, <2>1, <2>2, <2>5 DEF RInv, ExecutedBehind, Frontier, q
  <2>9. ReaderInStep'
    <3>1. PICK r : r = q
      OBVIOUS
    <3>2. End(r)' = pos' /\ CmdAt(r)' = StateCmd' /\ r \in DOMAIN wire'
      BY <1>1, <1>4, <2>1, <2>2, <2>4, <3>1 DEF StateCmd
    <3>3. QED
      BY <1>1, <1>2, <2>1, <3>2 DEF ReaderInStep
  <2>10. ExecutedBehind'
    <3>1. Frontier' = pos' /\ pos' \in Nat /\ pos <= pos'
      BY <1>2, <2>1 DEF Frontier
    <3>2. Behind(pos')
      BY SMTT(30), <1>2, <1>5, <1>7, <3>1
    <3>3. \A o \in DOMAIN wire : (IsName(o) /\ o >= pos') => a.id < wire[o].id
      BY <1>6, <2>2, <2>4, <2>5, <3>1 DEF RInv, Numbered
    <3>4. QED
      BY <1>1, <1>4, <2>7, <3>1, <3>2, <3>3 DEF ExecutedBehind
  <2>11. NothingFabricated'
    <3>1. ASSUME NEW k \in DOMAIN applied'
          PROVE  /\ applied'[k].id \in DOMAIN asked'
                 /\ asked'[applied'[k].id].tp = applied'[k].tp
                 /\ asked'[applied'[k].id].cmd
                      = IF applied'[k].state THEN EnableRequest
                                             ELSE DisableRequest
      <4>1. CASE k \in DOMAIN applied
        BY SMTT(30), <1>1, <2>7, <4>1 DEF RInv, NothingFabricated
      <4>2. CASE k = last
        BY <1>1, <2>3, <2>5, <2>7, <4>2 DEF StateCmd
      <4>3. QED
        BY <2>7, <4>1, <4>2
    <3>2. ASSUME NEW j \in DOMAIN applied', NEW k \in DOMAIN applied', j < k
          PROVE  applied'[j].id < applied'[k].id
      <4>1. \A m \in DOMAIN applied : m \in Nat
        BY <2>6
      <4>2. j \in DOMAIN applied
        BY SMTT(30), <2>7, <3>2, <4>1
      <4>3. CASE k \in DOMAIN applied
        BY <2>7, <3>2, <4>2, <4>3 DEF RInv, NothingFabricated
      <4>4. CASE k = last
        BY <2>7, <2>8, <4>2, <4>4
      <4>5. QED
        BY <2>7, <4>3, <4>4
    <3>3. QED
      BY <3>1, <3>2 DEF NothingFabricated
  <2>12. QED
    BY <1>3, <2>9, <2>10, <2>11
<1>13. CASE \/ event_con_data \/ receive_would_block \/ receive_eof
            \/ receive_invalid_header \/ read_empty \/ send_tracepoint_list
            \/ execute_other_command \/ set_tracepoints_done
            \/ set_tracepoints_fails
  <2>1. UNCHANGED <<arrived, applied>>
    BY Zenon, <1>13 DEF event_con_data, receive_would_block, receive_eof,
          receive_invalid_header, read_empty, send_tracepoint_list,
          execute_other_command, set_tracepoints_done, set_tracepoints_fails,
          network
  <2>2. \/ pos' \in {pos, arrived}
        \/ pos' \in {pos + 2, pos + HEADER_LEN} /\ pos' <= arrived
    BY <1>13 DEF event_con_data, receive_would_block, receive_eof,
          receive_invalid_header, read_empty, send_tracepoint_list,
          execute_other_command, set_tracepoints_done, set_tracepoints_fails,
          read_header, after_header, Available
  <2>3. pos' \in Nat /\ pos <= pos' /\ pos' <= arrived
    BY <1>2, <2>2 DEF HEADER_LEN
  <2>4. \A next \in {"poll", "receive", "drain"} :
           close_and_clean_connection(next) => pc' \notin {"names", "name"}
    BY Zenon DEF close_and_clean_connection
  <2>5. pc' \notin {"names", "name"}
    BY <1>13, <2>4
    DEF event_con_data, receive_would_block, receive_eof,
        receive_invalid_header, read_empty, send_tracepoint_list,
        execute_other_command, set_tracepoints_done, set_tracepoints_fails,
        read_header, after_header, after_command
  <2>6. QED
    BY Zenon, <1>3, <1>8, <2>1, <2>3, <2>5
<1>14. QED
  BY <1>9, <1>10, <1>11, <1>12, <1>13 DEF TracerNext
-----------------------------------------------------------------------------
(* The theorems.                                                           *)

\* The inductive invariant holds.
THEOREM ReceiveInvariance == Spec => []RInv
<1>1. Init => RInv
  <2> SUFFICES ASSUME Init PROVE RInv
    OBVIOUS
  <2>1. DOMAIN wire = {} /\ wire \in [DOMAIN wire -> Header \cup NameField]
    BY DEF Init
  <2>2. TypeOK
    <3>1. enabled \in [Registered -> BOOLEAN]
      BY DEF Init
    <3>2. /\ todo \in Seq(Names) /\ asked \in Seq([tp : Names, cmd : Nat])
          /\ applied \in Seq([id : Nat, tp : Names, state : BOOLEAN])
      BY DEF Init
    <3>3. /\ pc = "poll" /\ connected = TRUE /\ edge = FALSE /\ pos = 0 /\ i = 0
          /\ len = 0 /\ state = FALSE /\ name_len = 0 /\ written = 0 /\ cmd = 0
          /\ due = 0 /\ nreq = 0 /\ arrived = 0 /\ peer = "open" /\ split = FALSE
          /\ correct = TRUE
      BY DEF Init
    <3>4. ends \subseteq Nat
      BY DEF Init
    <3>5. QED
      BY Zenon, <2>1, <3>1, <3>2, <3>3, <3>4 DEF TypeOK
  <2>3. Gapless /\ Numbered /\ SameRequest
    BY SMTT(30), <2>1 DEF Gapless, Numbered, SameRequest
  <2>4. ReaderInStep /\ ExecutedBehind /\ NothingFabricated /\ CounterInStep
        /\ EdgeForUnread
    <3>1. ReaderInStep
      BY DEF Init, ReaderInStep
    <3>2. DOMAIN applied = {}
      BY DEF Init
    <3>3. ExecutedBehind /\ NothingFabricated
      BY Zenon, <3>2 DEF ExecutedBehind, NothingFabricated
    <3>4. CounterInStep
      BY LimitAssumption DEF Init, CounterInStep, CounterBounded
    <3>5. EdgeForUnread
      BY DEF Init, EdgeForUnread
    <3>6. QED
      BY Zenon, <3>1, <3>3, <3>4, <3>5
  <2>5. QED
    BY <2>2, <2>3, <2>4 DEF RInv
<1>2. RInv /\ [Next]_vars => RInv'
  <2> SUFFICES ASSUME RInv, [Next]_vars PROVE RInv'
    OBVIOUS
  <2>1. CounterInStep' /\ EdgeForUnread'
    BY CounterStep, EdgeStep DEF RInv
  <2>2. CASE write_name \/ \E r \in Requests : write_header(r)
    BY <2>1, <2>2, WriteTypes, WriteStep DEF RInv
  <2>3. CASE \/ TracerNext \/ UNCHANGED vars
             \/ \E how \in Hangups : hang_up(how)
             \/ \E n \in 1..written : segment(n)
    <3>1. TypeOK'
      BY <2>3, ReadTypes DEF RInv
    <3>2. QED
      BY <2>1, <2>3, <3>1, ReadStep DEF RInv
  <2>4. QED
    BY <2>2, <2>3 DEF Next
<1>3. QED
  BY <1>1, <1>2, PTL DEF Spec

\* Every variable keeps its type, name_len within its array.
THEOREM ReceiveTypes == Spec => []TypeOK
  BY ReceiveInvariance, PTL DEF RInv

\* Whatever segments the stream arrives in and whatever is lost of it, only
\* what was asked for is executed, at most once and in order.
THEOREM Faithful == Spec => []NothingFabricated
  BY ReceiveInvariance, PTL DEF RInv

\* No bytes wait on a socket that will not be reported again.
THEOREM NoLostEdge == Spec => []EdgeForUnread
  BY ReceiveInvariance, PTL DEF RInv

\* The counter of set_tracepoints passes the length by less than one name.
THEOREM CounterBound == Spec => []CounterBounded
  BY ReceiveInvariance, PTL DEF RInv, CounterInStep
-----------------------------------------------------------------------------
(* The thread is never kept in receive.                                    *)

\* Reading pays for the way.
LEMMA SumDecreases ==
    ASSUME NEW a \in Int, NEW p \in Int, NEW q \in Int, NEW e \in Int,
           NEW f \in Int, NEW v \in Int, NEW w \in Int,
           f <= e, w < v + (q - p)
    PROVE  (a - q) + f + w < (a - p) + e + v
  OBVIOUS

\* A step that reads something, or is on its way back to the loop.
LEMMA LessRemains ==
    ASSUME RInv, arrived' = arrived, pos' \in Nat, pos <= pos', pos' <= arrived,
           edge' => edge, WayBack' < WayBack + (pos' - pos)
    PROVE  Remaining' < Remaining
<1>1. pos \in Nat /\ arrived \in Nat /\ edge \in BOOLEAN
  BY DEF RInv, TypeOK
<1>2. WayBack \in 0..3 /\ WayBack' \in 0..3
  BY DEF WayBack
<1> DEFINE event == IF edge THEN 2 ELSE 0
<1>3. event \in Nat /\ event' \in Nat /\ event' <= event
  OBVIOUS
<1>4. /\ Remaining = (arrived - pos) + event + WayBack
      /\ Remaining' = (arrived - pos') + event' + WayBack'
  BY DEF Remaining
<1> HIDE DEF event
<1>5. /\ pos \in Int /\ pos' \in Int /\ arrived \in Int /\ event \in Int
      /\ event' \in Int /\ WayBack \in Int /\ WayBack' \in Int
  BY <1>1, <1>2, <1>3
<1>6. (arrived - pos') + event' + WayBack' < (arrived - pos) + event + WayBack
  BY <1>3, <1>5, SumDecreases
<1>7. QED
  BY <1>4, <1>6

\* Closing leads where it was told, or to a panic.
LEMMA CloseLeads ==
    ASSUME NEW next \in {"poll", "receive", "drain"},
           close_and_clean_connection(next)
    PROVE  /\ edge' => edge
           /\ WayBack' <= IF next = "poll" THEN 0 ELSE 1
           /\ WayBack' \in 0..1
<1>1. (edge' => edge) /\ pc' \in {next, "panic_close"}
  BY DEF close_and_clean_connection, session
<1>2. QED
  BY <1>1 DEF WayBack

\* Every step of the thread is such a step, or takes an event.
LEMMA StepAdvances ==
    ASSUME RInv, TracerNext
    PROVE  Remaining' < Remaining
<1>1. /\ pos \in Nat /\ arrived \in Nat /\ name_len \in Nat /\ edge \in BOOLEAN
      /\ pos <= arrived
  BY DEF RInv, TypeOK, ReaderInStep
<1>2. arrived' = arrived
  BY DEF TracerNext, event_con_data, receive_would_block, receive_eof,
     receive_invalid_header, read_empty, send_tracepoint_list,
     execute_other_command, set_tracepoints, set_tracepoints_done,
     read_name_len, read_name, set_tracepoints_fails, network
<1>3. CASE event_con_data
  <2>1. /\ edge /\ edge' = FALSE /\ pos' = pos /\ pc = "poll" /\ pc' = "receive"
    BY <1>3 DEF event_con_data
  <2>2. WayBack = 0 /\ WayBack' = 1
    BY <2>1 DEF WayBack
  <2>3. QED
    BY <1>1, <1>2, <2>1, <2>2 DEF Remaining
<1>4. CASE receive_would_block
  <2>1. /\ edge' = edge /\ pos' = arrived /\ pc = "receive" /\ pc' = "poll"
    BY <1>4 DEF receive_would_block, session
  <2>2. WayBack = 1 /\ WayBack' = 0
    BY <2>1 DEF WayBack
  <2>3. QED
    BY <1>1, <1>2, <2>1, <2>2, LessRemains
<1>5. CASE receive_eof
  <2>1. /\ close_and_clean_connection("poll") /\ pos' = arrived
        /\ pc = "receive"
    BY <1>5 DEF receive_eof
  <2>2. WayBack = 1 /\ WayBack' = 0 /\ (edge' => edge)
    BY <2>1, CloseLeads DEF WayBack
  <2>3. QED
    BY <1>1, <1>2, <2>1, <2>2, LessRemains
<1>6. CASE receive_invalid_header
  <2>1. /\ close_and_clean_connection("drain") /\ pos' = pos + HEADER_LEN
        /\ pc = "receive" /\ Available(HEADER_LEN)
    BY <1>6 DEF receive_invalid_header
  <2>2. WayBack = 1 /\ WayBack' \in 0..1 /\ (edge' => edge)
    BY <2>1, CloseLeads DEF WayBack
  <2>3. QED
    BY <1>1, <1>2, <2>1, <2>2, LessRemains DEF Available, HEADER_LEN
<1>7. CASE read_empty
  <2>1. /\ \/ close_and_clean_connection("poll")
           \/ pc' = "poll" /\ UNCHANGED session
        /\ pos' = arrived /\ pc = "drain"
    BY <1>7 DEF read_empty
  <2>2. WayBack = 1
    BY <2>1 DEF WayBack
  <2>3. WayBack' = 0 /\ (edge' => edge)
    <3>1. CASE close_and_clean_connection("poll")
      BY <3>1, CloseLeads
    <3>2. CASE pc' = "poll" /\ UNCHANGED session
      BY <3>2 DEF WayBack, session
    <3>3. QED
      BY <2>1, <3>1, <3>2
  <2>4. QED
    BY <1>1, <1>2, <2>1, <2>2, <2>3, LessRemains
<1>8. CASE send_tracepoint_list
  <2>1. /\ pc = "receive" /\ Available(HEADER_LEN) /\ pos' = pos + HEADER_LEN
        /\ \/ UNCHANGED <<pc, session>>
           \/ close_and_clean_connection("receive")
           \/ pc' = "panic_list" /\ UNCHANGED session
    BY <1>8 DEF send_tracepoint_list, read_header, after_header
  <2>2. WayBack = 1
    BY <2>1 DEF WayBack
  <2>3. WayBack' \in 0..1 /\ (edge' => edge)
    <3>1. CASE close_and_clean_connection("receive")
      BY <3>1, CloseLeads
    <3>2. CASE UNCHANGED <<pc, session>>
      BY <2>1, <3>2 DEF WayBack, session
    <3>3. CASE pc' = "panic_list" /\ UNCHANGED session
      BY <3>3 DEF WayBack, session
    <3>4. QED
      BY <2>1, <3>1, <3>2, <3>3
  <2>4. QED
    BY <1>1, <1>2, <2>1, <2>2, <2>3, LessRemains DEF Available, HEADER_LEN
<1>9. CASE execute_other_command \/ set_tracepoints
  <2>1. /\ pc = "receive" /\ Available(HEADER_LEN) /\ pos' = pos + HEADER_LEN
        /\ pc' \in {"receive", "names"} /\ edge' = edge
    BY <1>9 DEF execute_other_command, set_tracepoints, read_header,
                after_header, after_command, session
  <2>2. WayBack = 1 /\ WayBack' \in 1..2
    BY <2>1 DEF WayBack
  <2>3. QED
    BY <1>1, <1>2, <2>1, <2>2, LessRemains DEF Available, HEADER_LEN
<1>10. CASE set_tracepoints_done
  <2>1. pc = "names" /\ pc' = "receive" /\ pos' = pos /\ edge' = edge
    BY <1>10 DEF set_tracepoints_done, after_command, session
  <2>2. WayBack = 2 /\ WayBack' = 1
    BY <2>1 DEF WayBack
  <2>3. QED
    BY <1>1, <1>2, <2>1, <2>2, LessRemains
<1>11. CASE read_name_len
  <2>1. /\ pc = "names" /\ pc' = "name" /\ pos' = pos + 2 /\ edge' = edge
        /\ Available(2)
    BY <1>11 DEF read_name_len, session
  <2>2. WayBack = 2 /\ WayBack' = 3
    BY <2>1 DEF WayBack
  <2>3. QED
    BY <1>1, <1>2, <2>1, <2>2, LessRemains DEF Available
<1>12. CASE read_name
  <2>1. /\ pc = "name" /\ pc' = "names" /\ pos' = pos + name_len
        /\ edge' = edge /\ Available(name_len)
    BY <1>12 DEF read_name
  <2>2. WayBack = 3 /\ WayBack' = 2
    BY <2>1 DEF WayBack
  <2>3. QED
    BY <1>1, <1>2, <2>1, <2>2, LessRemains DEF Available
<1>13. CASE set_tracepoints_fails
  <2>1. /\ close_and_clean_connection("receive") /\ pc \in {"names", "name"}
        /\ pos' = arrived \/ (pos' = pos + 2 /\ Available(2))
    BY <1>13 DEF set_tracepoints_fails
  <2>2. WayBack \in 2..3 /\ WayBack' \in 0..1 /\ (edge' => edge)
    BY <2>1, CloseLeads DEF WayBack
  <2>3. QED
    BY <1>1, <1>2, <2>1, <2>2, LessRemains DEF Available
<1>14. QED
  BY Zenon, <1>3, <1>4, <1>5, <1>6, <1>7, <1>8, <1>9, <1>10, <1>11, <1>12, <1>13
     DEF TracerNext

\* Every step of the thread leaves it less to do, whatever clients send: with
\* what has arrived, receive comes to an end.
THEOREM ReceiveEnds == Spec => [](Remaining \in Nat) /\ ReceiveAdvances
<1>1. RInv => Remaining \in Nat
  <2> SUFFICES ASSUME RInv PROVE Remaining \in Nat
    OBVIOUS
  <2>1. pos \in Nat /\ arrived \in Nat /\ pos <= arrived
    BY DEF RInv, TypeOK, ReaderInStep
  <2>2. WayBack \in Nat
    BY DEF WayBack
  <2>3. QED
    BY <2>1, <2>2 DEF Remaining
<1>2. RInv /\ [Next]_vars => [TracerNext => Remaining' < Remaining]_vars
  BY StepAdvances
<1>3. QED
  BY ReceiveInvariance, <1>1, <1>2, PTL DEF Spec, ReceiveAdvances
=============================================================================
