------------------------------ MODULE Receive -------------------------------
(***************************************************************************)
(* tcp_handler::receive at the level of bytes: one client writes requests, *)
(* TCP delivers them in segments of any size, and the tracer thread reads  *)
(* them with read_exact through a BufReader of its own.                    *)
(*                                                                         *)
(* The stream is not spelled out.  Positions in it are byte offsets, and   *)
(* wire says which field (a header, or a name with its length) begins      *)
(* where.  A read that starts inside a field finds neither the magic       *)
(* number nor anything else: it is assumed that the bytes of names and of  *)
(* length fields do not happen to form the magic number.                   *)
(* Tracer has the rest of the thread; here only the session is closed.     *)
(***************************************************************************)
EXTENDS Integers, Sequences

CONSTANTS
    Names,        \* the names clients put into requests
    NameLen,      \* the length of each
    Registered,   \* those the thread has in its map
    Requests,     \* the requests clients may write
    Hangups,      \* "fin", "rst": how a client may leave
    MAX_TRACEPOINT_NAME_LEN,  \* 32 in the code
    MaxRequests   \* bound: requests the client writes

HEADER_LEN == 12
MAGIC_AS_LEN == 21109  \* 0x5275, the first two bytes of the magic number

\* A client chooses len, the length in the header, as it likes.
Request == [cmd : Nat, flags : Nat, len : Nat, names : Seq(Names)]

ASSUME NamesAssumption == NameLen \in [Names -> Nat] /\ Registered \subseteq Names
ASSUME RequestsAssumption == Requests \subseteq Request
ASSUME HangupsAssumption == Hangups \subseteq {"fin", "rst"}
ASSUME LimitAssumption ==
    MAX_TRACEPOINT_NAME_LEN \in Nat /\ MAX_TRACEPOINT_NAME_LEN < MAGIC_AS_LEN
ASSUME MaxAssumption == MaxRequests \in Nat

VARIABLES
    pc,          \* where the tracer thread is
    connected,   \* ctx.connection is Some
    enabled,     \* the flags
    edge,        \* mio will report CON_DATA
    pos,         \* bytes read
    i, len, state, name_len,   \* locals of set_tracepoints
    wire, written,             \* the stream, and its length
    todo, cmd,                 \* names the client still has to write
    due,         \* where the request ends, by the length in its header
    nreq,
    arrived,     \* bytes the kernel has delivered
    peer,        \* "open", or how the client left
    asked, applied,            \* history: names written, names executed
    ends, split, correct       \* history: see the properties

session == <<connected, enabled, edge>>
locals == <<i, len, state, name_len>>
client == <<wire, written, todo, cmd, due, nreq, peer, asked, ends, correct>>
network == <<arrived, split>>
vars == <<pc, session, pos, locals, client, network, applied>>

Panics == {"panic_close", "panic_list"}

Init ==
    /\ pc = "poll"
    /\ connected = TRUE /\ edge = FALSE
    /\ enabled = [t \in Registered |-> FALSE]
    /\ pos = 0
    /\ i = 0 /\ len = 0 /\ state = FALSE /\ name_len = 0
    /\ wire = [o \in {} |-> {}] /\ written = 0 /\ todo = <<>> /\ cmd = 0
    /\ due = 0 /\ nreq = 0 /\ arrived = 0 /\ peer = "open"
    /\ asked = <<>> /\ applied = <<>>
    /\ ends = {0} /\ split = FALSE /\ correct = TRUE
-----------------------------------------------------------------------------
(* The client and the network.                                             *)

\* A request as doc/tlv_documentation.txt has it, but for the magic number: the
\* document has 0x0000beef, the code wants its MAGIC_NUMB 'RuSt', and so do the
\* clients here.  The length in the header is compared with the names when the
\* last one is written.
WellFormed(r) ==
    /\ r.flags = 0
    /\ \/ r.cmd = 1 /\ r.names = <<>> /\ r.len = 0
       \/ r.cmd \in {3, 4} /\ r.names # <<>>
    /\ \A k \in DOMAIN r.names : NameLen[r.names[k]] <= MAX_TRACEPOINT_NAME_LEN

put(at, field) == [o \in DOMAIN wire \cup {at} |->
                      IF o = at THEN field ELSE wire[o]]

write_header(r) ==
    /\ peer = "open" /\ todo = <<>> /\ nreq < MaxRequests
    /\ wire' = put(written, [kind |-> "header", cmd |-> r.cmd,
                             flags |-> r.flags, len |-> r.len])
    /\ written' = written + HEADER_LEN
    /\ todo' = r.names /\ cmd' = r.cmd /\ due' = written' + r.len
    /\ nreq' = nreq + 1
    /\ ends' = IF r.names = <<>> THEN ends \cup {written'} ELSE ends
    /\ correct' = (correct /\ WellFormed(r))
    /\ UNCHANGED <<pc, session, pos, locals, peer, asked, network, applied>>

write_name ==
    /\ peer = "open" /\ todo # <<>>
    /\ LET t == Head(todo)
       IN  /\ wire' = put(written, [kind |-> "name", n |-> NameLen[t], tp |-> t,
                                    id |-> Len(asked) + 1])
           /\ written' = written + 2 + NameLen[t]
           /\ asked' = Append(asked, [tp |-> t, cmd |-> cmd])
    /\ todo' = Tail(todo)
    /\ ends' = IF Len(todo) = 1 THEN ends \cup {written'} ELSE ends
    /\ correct' = (correct /\ (Len(todo) = 1 => written' = due))
    /\ UNCHANGED <<pc, session, pos, locals, cmd, due, nreq, peer, network,
                   applied>>

\* The client breaks off at any byte: what has not arrived never will.
hang_up(how) ==
    /\ peer = "open"
    /\ peer' = how
    /\ edge' = connected
    /\ UNCHANGED <<pc, connected, enabled, pos, locals, wire, written, todo,
                   cmd, due, nreq, asked, ends, correct, network, applied>>

segment(n) ==
    /\ peer = "open" /\ n \in (arrived + 1)..written
    /\ arrived' = n
    /\ split' = (split \/ n \notin ends)
    /\ edge' = connected
    /\ UNCHANGED <<pc, connected, enabled, pos, locals, client, applied>>
-----------------------------------------------------------------------------
(* The tracer thread.                                                      *)

\* read_exact finds n more bytes; otherwise it takes what there is, which is
\* lost with the buffer it was read into, and fails with WouldBlock or EOF.
Available(n) == pos + n <= arrived

cleared_flags_mutant == enabled  \* left as the client set them
cleared_flags == [t \in Registered |-> FALSE]

\* Closing disables every tracepoint, and poll no longer reports the socket.
close_and_clean_connection(next) ==
    IF connected
    THEN /\ connected' = FALSE
         /\ enabled' = cleared_flags
         /\ edge' = FALSE
         /\ pc' = next
    ELSE /\ pc' = "panic_close"
         /\ UNCHANGED session

event_con_data ==
    /\ pc = "poll" /\ edge
    /\ edge' = FALSE
    /\ pc' = "receive"
    /\ UNCHANGED <<connected, enabled, pos, locals, client, network, applied>>

\* The first part of a header is thrown away.
receive_would_block_mutant ==  \* tries again until there is a whole header
    /\ pc = "receive" /\ ~Available(HEADER_LEN) /\ peer = "open"
    /\ UNCHANGED vars
receive_would_block ==
    /\ pc = "receive" /\ ~Available(HEADER_LEN) /\ peer = "open"
    /\ pos' = arrived
    /\ pc' = "poll"
    /\ UNCHANGED <<session, locals, client, network, applied>>

receive_eof ==
    /\ pc = "receive" /\ ~Available(HEADER_LEN) /\ peer # "open"
    /\ pos' = arrived
    /\ close_and_clean_connection("poll")
    /\ UNCHANGED <<locals, client, network, applied>>

\* The magic number is found where a header begins.
check_magic_number == pos \in DOMAIN wire /\ wire[pos].kind = "header"
check_flags == wire[pos].flags = 0

\* check_cmd_validity only prints.
check_parse_header == check_magic_number /\ check_flags

receive_invalid_header ==
    /\ pc = "receive" /\ Available(HEADER_LEN) /\ ~check_parse_header
    /\ pos' = pos + HEADER_LEN
    /\ close_and_clean_connection("drain")
    /\ UNCHANGED <<locals, client, network, applied>>

\* Everything there is is thrown away, and reading on fails if the client left
\* without a word.
read_empty ==
    /\ pc = "drain"
    /\ pos' = arrived
    /\ IF peer = "rst" THEN close_and_clean_connection("poll")
                       ELSE pc' = "poll" /\ UNCHANGED session
    /\ UNCHANGED <<locals, client, network, applied>>

\* A valid header with one of the given commands.
after_header_mutant == pos  \* looked at, but left in the buffer
after_header == pos + HEADER_LEN
read_header(cmds) ==
    /\ pc = "receive" /\ Available(HEADER_LEN) /\ check_parse_header
    /\ wire[pos].cmd \in cmds
    /\ pos' = after_header

ListRequest == 1
EnableRequest == 3
DisableRequest == 4

\* The reply is written, or cannot be because the client has left.
send_tracepoint_list ==
    /\ read_header({ListRequest})
    /\ \/ connected /\ peer # "rst" /\ UNCHANGED <<pc, session>>
       \/ connected /\ peer # "open" /\ close_and_clean_connection("receive")
       \/ ~connected /\ pc' = "panic_list" /\ UNCHANGED session
    /\ UNCHANGED <<locals, client, network, applied>>

\* Any other command comes to nothing, and its payload is taken for a header.
after_command_mutant == "poll"  \* one request for each event
after_command == "receive"
execute_other_command ==
    /\ read_header(Nat \ {ListRequest, EnableRequest, DisableRequest})
    /\ pc' = after_command
    /\ UNCHANGED <<session, locals, client, network, applied>>

requested_state_mutant == wire[pos].cmd # ListRequest
requested_state == wire[pos].cmd = EnableRequest

set_tracepoints ==
    /\ read_header({EnableRequest, DisableRequest})
    /\ pc' = "names"
    /\ i' = 0 /\ len' = wire[pos].len
    /\ state' = requested_state
    /\ UNCHANGED <<session, name_len, client, network, applied>>

more_names_mutant == i <= len
more_names == i < len

set_tracepoints_done ==
    /\ pc = "names" /\ ~more_names
    /\ pc' = after_command
    /\ UNCHANGED <<session, pos, locals, client, network, applied>>

\* A length that does not begin at a length field is never small enough: the
\* reader is then at the next header.
NextLen == IF pos \in DOMAIN wire /\ wire[pos].kind = "name"
           THEN wire[pos].n ELSE MAGIC_AS_LEN

short_enough_mutant(n) == n <= MAX_TRACEPOINT_NAME_LEN + 1
short_enough(n) == n <= MAX_TRACEPOINT_NAME_LEN

read_name_len ==
    /\ pc = "names" /\ more_names /\ Available(2) /\ short_enough(NextLen)
    /\ pos' = pos + 2 /\ i' = i + 2 /\ name_len' = NextLen
    /\ pc' = "name"
    /\ UNCHANGED <<session, len, state, client, network, applied>>

\* Names that are not in the map are ignored.
store_flag_mutant(t) ==  \* the map's insert for its get_mut
    [s \in Registered \cup {t} |-> IF s = t THEN state ELSE enabled[s]]
store_flag(t) == IF t \in Registered THEN [enabled EXCEPT ![t] = state]
                                     ELSE enabled

read_name ==
    /\ pc = "name" /\ Available(name_len)
    /\ pos' = pos + name_len /\ i' = i + name_len
    /\ LET f == wire[pos - 2]  \* the field whose length was read
       IN  /\ enabled' = store_flag(f.tp)
           /\ applied' = Append(applied, [id |-> f.id, tp |-> f.tp,
                                          state |-> state])
    /\ pc' = "names"
    /\ UNCHANGED <<connected, edge, len, state, name_len, client, network>>

\* The three error returns, of which receive does not learn.
set_tracepoints_fails ==
    /\ \/ /\ pc = "names" /\ more_names /\ ~Available(2)
          /\ pos' = arrived /\ i' = i
       \/ /\ pc = "names" /\ more_names /\ Available(2)
          /\ ~short_enough(NextLen)
          /\ pos' = pos + 2 /\ i' = i + 2
       \/ /\ pc = "name" /\ ~Available(name_len)
          /\ pos' = arrived /\ i' = i
    /\ close_and_clean_connection("receive")
    /\ UNCHANGED <<len, state, name_len, client, network, applied>>

TracerNext ==
    \/ event_con_data \/ receive_would_block \/ receive_eof
    \/ receive_invalid_header \/ read_empty \/ send_tracepoint_list
    \/ execute_other_command \/ set_tracepoints \/ set_tracepoints_done
    \/ read_name_len \/ read_name \/ set_tracepoints_fails

Next ==
    \/ \E r \in Requests : write_header(r)
    \/ write_name
    \/ \E how \in Hangups : hang_up(how)
    \/ \E n \in 1..written : segment(n)
    \/ TracerNext

Spec == Init /\ [][Next]_vars

\* The operating system runs the thread when it can run.
FairSpec == Spec /\ WF_vars(TracerNext)
-----------------------------------------------------------------------------
(* Properties.                                                             *)

Header == [kind : {"header"}, cmd : Nat, flags : Nat, len : Nat]
NameField == [kind : {"name"}, n : Nat, tp : Names, id : Nat]

\* Every variable keeps its type, and the thread its map of tracepoints.
TypeOK ==
    /\ pc \in {"poll", "receive", "drain", "names", "name"} \cup Panics
    /\ connected \in BOOLEAN /\ edge \in BOOLEAN
    /\ enabled \in [Registered -> BOOLEAN]
    /\ pos \in Nat /\ i \in Nat /\ len \in Nat /\ state \in BOOLEAN
    /\ name_len \in Nat
    /\ wire \in [DOMAIN wire -> Header \cup NameField] /\ DOMAIN wire \subseteq Nat
    /\ written \in Nat /\ todo \in Seq(Names) /\ cmd \in Nat
    /\ due \in Nat /\ nreq \in Nat
    /\ arrived \in Nat /\ peer \in {"open", "fin", "rst"}
    /\ asked \in Seq([tp : Names, cmd : Nat])
    /\ applied \in Seq([id : Nat, tp : Names, state : BOOLEAN])
    /\ ends \subseteq Nat /\ split \in BOOLEAN /\ correct \in BOOLEAN

\* However the stream is cut, and whatever is lost of it, the flags that
\* set_tracepoints stores are ones the client asked for: each name is executed
\* at most once, in the order of the requests, with the state of its request.
NothingFabricated ==
    /\ \A k \in DOMAIN applied :
         /\ applied[k].id \in DOMAIN asked
         /\ LET a == asked[applied[k].id]
            IN  a.tp = applied[k].tp
                /\ a.cmd = IF applied[k].state THEN EnableRequest
                                               ELSE DisableRequest
    /\ \A j, k \in DOMAIN applied : j < k => applied[j].id < applied[k].id

\* receive only returns to the loop when it has read all there is, so bytes
\* never wait on an edge-triggered socket that will not report them again.
EdgeForUnread == (pc = "poll" /\ connected /\ pos < arrived) => edge

\* name_len never passes the array tp_name_arr that set_tracepoints slices with
\* it, and the counter passes the length in the header by less than one name, so
\* u32 is enough for any length but the last few.
CounterBounded ==
    /\ name_len <= MAX_TRACEPOINT_NAME_LEN
    /\ pc \in {"names", "name"} => i < len + 2 + MAX_TRACEPOINT_NAME_LEN

\* The client kept to the protocol and the tracer has nothing left to do.
Settled == correct /\ peer = "open" /\ todo = <<>> /\ arrived = written
           /\ pc = "poll" /\ ~edge
AllApplied == connected /\ Len(applied) = Len(asked)

\* Requests that keep to the protocol and never arrive in part are all executed
\* and do not cost the client its session.
WholeRequestsExecuted == (Settled /\ ~split) => AllApplied

\* Requests do to the flags what Activation allows and nothing else: names are
\* executed in order and at most once, closing clears all flags, and once the
\* session is over and receive has returned, no flag changes any more.
LastExecuted == IF applied = <<>> THEN 0 ELSE applied[Len(applied)].id
Flags == INSTANCE Activation WITH
    Enable <- EnableRequest, Disable <- DisableRequest,
    done <- LastExecuted, reading <- (pc # "poll")
ActivationSpec == Flags!Spec

\* What is left to do for the thread: bytes, an event, and the way back to the
\* loop from where it is.
WayBack == CASE pc = "name" -> 3 [] pc = "names" -> 2
             [] pc \in {"receive", "drain"} -> 1 [] OTHER -> 0
Remaining == (arrived - pos) + (IF edge THEN 2 ELSE 0) + WayBack

\* Every step of the thread leaves it less to do, so that no client, whatever it
\* sends, keeps the thread in receive or set_tracepoints without sending more:
\* a name or a request without any bytes, a length that is never reached, a
\* closed session, a read that fails.
ReceiveAdvances == [][TracerNext => Remaining' < Remaining]_vars

\* Whatever has arrived is read, or the session is over.
ArrivedIsRead == (pos < arrived) ~> (pos = arrived \/ ~connected)

\* "Clients can activate tracepoints, but only if a tracepoint has been
\* registered previously" (README.md): what a client that keeps to the protocol
\* asks of registered tracepoints is done, in however many segments it arrives.
ActivationsExecuted ==
    Settled => \A k \in DOMAIN asked : asked[k].tp \in Registered =>
                  \E j \in DOMAIN applied : applied[j].id = k
=============================================================================
