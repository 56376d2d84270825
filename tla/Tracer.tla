------------------------------- MODULE Tracer -------------------------------
(***************************************************************************)
(* The tracer of libtracy at run time: the application thread that calls   *)
(* the C API, the tracer thread with its event loop, and what surrounds    *)
(* them (clients on TCP, the timer wheel, the channel between the threads).*)
(*                                                                         *)
(* The two threads share client_connected, one flag per tracepoint and the *)
(* channel.  A step of either thread contains at most one access to these, *)
(* so the interleavings of the model are those of the program.  Inside the *)
(* tracer thread pc names the function that runs, ret the one it returns   *)
(* to; an unwrap() of None ends the thread in one of the Panics.           *)
(***************************************************************************)
EXTENDS Integers, Sequences

CONSTANTS
    Tracepoints,  \* names the application may register, already repaired
    NameLen,      \* the length of each name
    DataLens,     \* the data_len values the application passes to submit
    Commands,     \* the kinds of requests the clients send
    Announcing,   \* the values of announce that tracy_init may compute
    Faults,       \* "bind", "udp", "accept", "block": calls that may fail
    MaxClients,   \* bound: clients that ever connect
    MaxRequests,  \* bound: requests all clients send together
    MaxSubmits    \* bound: payloads that ever enter the channel

MAX_TRACEPOINT_NAME_LEN == 32
MAX_SUBMIT_LEN == 2048
QUEUE_TOTAL_SIZE == 4096
TIMESTAMP_LEN == 8
HEADER_LEN == 12

ASSUME NamesAssumption ==
    Tracepoints # {} /\ NameLen \in [Tracepoints -> 0..MAX_TRACEPOINT_NAME_LEN]
ASSUME LensAssumption == DataLens \subseteq Nat
ASSUME AnnouncingAssumption == Announcing \subseteq BOOLEAN
ASSUME BoundsAssumption ==
    MaxClients \in Nat /\ MaxRequests \in Nat /\ MaxSubmits \in Nat

VARIABLES
    appPc, appArg, appTps, nsubmit,            \* the application thread
    client_connected, enabled, channel,        \* shared by the two threads
    pc, ret, batch, reader, toClear,           \* control of the tracer thread
    connection, queue_timeout, udp_timeout, tracepoints,    \* TracerContext
    buffer, buffer_occupancy, que, queLen,     \* the data on its way out
    announce, udp_sock,                        \* the UDP beacon
    backlog, peer, inbox, edges, nreq,         \* the clients and the kernel
    sent, left, cut                            \* history: what became of data

app == <<appPc, appArg, appTps, nsubmit>>
shared == <<client_connected, enabled, channel>>
control == <<pc, ret, batch, reader, toClear>>
timers == <<queue_timeout, udp_timeout>>
buffers == <<buffer, buffer_occupancy, que, queLen>>
beacon == <<announce, udp_sock>>
network == <<backlog, peer, inbox, edges, nreq>>
history == <<sent, left, cut>>
vars == <<app, shared, control, connection, timers, tracepoints, buffers,
          beacon, network, history>>

None == 0
Clients == 1..MaxClients
TimerStates == {"none", "armed", "elapsed"}

\* The unwrap() and expect() calls of the tracer thread that can see None/Err.
Panics == {"panic_bind", "panic_receive", "panic_close", "panic_list",
           "panic_send"}
Running == {"start", "poll", "events", "channel", "timer", "send", "receive",
            "drain", "close"}
Alive == pc \in Running
Returns == {"poll", "events", "channel", "timer", "receive", "drain", "exit"}

\* BufferElement, with the number of the submit (id) and the client that was
\* connected when its flag was read (sess); both are history.
Args == [tp : Tracepoints, data : Nat, sess : 0..MaxClients]
NoArg == [tp |-> CHOOSE t \in Tracepoints : TRUE, data |-> 0, sess |-> None]
Element == [id : 1..MaxSubmits, tp : Tracepoints, data : 1..MAX_SUBMIT_LEN,
            sess : 0..MaxClients]

BufferElementLen(e) == NameLen[e.tp] + TIMESTAMP_LEN + e.data
EncodedLen(e) == 2 + NameLen[e.tp] + TIMESTAMP_LEN + 2 + e.data

\* ChannelMessage
Message == [kind : {"payload"}, elem : Element]
           \cup [kind : {"tracepoint"}, tp : Tracepoints]
           \cup [kind : {"terminate"}]

\* What the reader finds next in the stream of a client: a request that parses,
\* a header with a command number that is not a client's ("other"), a header
\* check_parse_header refuses ("bad"), or an enable or disable request whose
\* names cannot be read to the end ("broken": too long or not yet arrived).
Request == [cmd : {"enable", "disable"}, tp : Tracepoints]
           \cup [cmd : {"list", "other", "bad", "broken"}]

Init ==
    /\ appPc = "idle" /\ appArg = NoArg /\ appTps = {} /\ nsubmit = 0
    /\ client_connected = FALSE
    /\ enabled = [t \in Tracepoints |-> FALSE]
    /\ channel = <<>>
    /\ pc = "start" /\ ret = "poll" /\ batch = {} /\ reader = None
    /\ toClear = {}
    /\ connection = None /\ queue_timeout = "none" /\ udp_timeout = "none"
    /\ tracepoints = {}
    /\ buffer = <<>> /\ buffer_occupancy = 0 /\ que = <<>> /\ queLen = 0
    /\ announce \in Announcing /\ udp_sock = FALSE
    /\ backlog = <<>> /\ peer = [c \in Clients |-> "away"]
    /\ inbox = [c \in Clients |-> <<>>] /\ edges = {} /\ nreq = 0
    /\ sent = <<>> /\ left = 0 /\ cut = {}
-----------------------------------------------------------------------------
(* The application thread.                                                 *)

\* A send on the channel fails, with a message only, once the thread is gone.
send_to_tracer(msg) ==
    channel' = IF Alive THEN Append(channel, msg) ELSE channel

tracy_register(t) ==
    /\ appPc = "idle"
    /\ t \notin appTps
    /\ appTps' = appTps \cup {t}
    /\ send_to_tracer([kind |-> "tracepoint", tp |-> t])
    /\ UNCHANGED <<appPc, appArg, nsubmit, client_connected, enabled, control,
                   connection, timers, tracepoints, buffers, beacon, network,
                   history>>

valid_data_len_mutant(n) == n # 0  \* forgets the upper limit
valid_data_len(n) == n # 0 /\ n <= MAX_SUBMIT_LEN

\* tracy_submit up to the load of client_connected.
tracy_submit(t, n) ==
    /\ appPc = "idle"
    /\ valid_data_len(n)
    /\ nsubmit < MaxSubmits
    /\ client_connected
    /\ appPc' = "loaded"
    /\ appArg' = [tp |-> t, data |-> n, sess |-> None]
    /\ UNCHANGED <<appTps, nsubmit, shared, control, connection, timers,
                   tracepoints, buffers, beacon, network, history>>

\* tracy_submit looks the tracepoint up and loads its flag.
tracepoint_enabled ==
    /\ appPc = "loaded"
    /\ IF appArg.tp \in appTps /\ enabled[appArg.tp]
       THEN /\ appPc' = "checked"
            /\ appArg' = [appArg EXCEPT !.sess = connection]
       ELSE appPc' = "idle" /\ appArg' = NoArg
    /\ UNCHANGED <<appTps, nsubmit, shared, control, connection, timers,
                   tracepoints, buffers, beacon, network, history>>

\* tracy_submit hands the element to the tracer thread.
tracy_submit_send ==
    /\ appPc = "checked"
    /\ nsubmit' = IF Alive THEN nsubmit + 1 ELSE nsubmit
    /\ send_to_tracer([kind |-> "payload",
           elem |-> [id |-> nsubmit + 1, tp |-> appArg.tp,
                     data |-> appArg.data, sess |-> appArg.sess]])
    /\ appPc' = "idle" /\ appArg' = NoArg
    /\ UNCHANGED <<appTps, client_connected, enabled, control, connection,
                   timers, tracepoints, buffers, beacon, network, history>>

tracy_finit ==
    /\ appPc = "idle"
    /\ appPc' = "done"
    /\ send_to_tracer([kind |-> "terminate"])
    /\ UNCHANGED <<appArg, appTps, nsubmit, client_connected, enabled, control,
                   connection, timers, tracepoints, buffers, beacon, network,
                   history>>

AppNext ==
    \/ \E t \in Tracepoints : tracy_register(t)
    \/ \E t \in Tracepoints, n \in DataLens : tracy_submit(t, n)
    \/ tracepoint_enabled
    \/ tracy_submit_send
    \/ tracy_finit
-----------------------------------------------------------------------------
(* The tracer thread.                                                      *)

check_start_mutant(timeout) == timeout  \* never starts it
check_start(timeout) == IF timeout = "none" THEN "armed" ELSE timeout

\* Cancelling takes a timeout out of the wheel even if it has elapsed.
check_stop_mutant(timeout) == timeout  \* never stops it
check_stop(timeout) == "none"

flags_to_clear_mutant == {}  \* forgets the flags
flags_to_clear == tracepoints

\* The unwrap() of the connection is reached with client_connected already
\* false.  Up to the stores to the flags this touches nothing else shared.
close_and_clean_connection(caller) ==
    /\ client_connected' = FALSE
    /\ IF connection = None
       THEN /\ pc' = "panic_close"
            /\ UNCHANGED <<ret, toClear, connection, queue_timeout, edges>>
       ELSE /\ pc' = "close"
            /\ ret' = caller
            /\ toClear' = flags_to_clear
            /\ connection' = None
            /\ queue_timeout' = check_stop(queue_timeout)
            /\ edges' = edges \ {"CON_DATA"}

\* One store(false) of the loop over the tracepoints, in the map's order.
close_clear_flag(t) ==
    /\ pc = "close"
    /\ t \in toClear
    /\ enabled' = [enabled EXCEPT ![t] = FALSE]
    /\ toClear' = toClear \ {t}
    /\ UNCHANGED <<app, client_connected, channel, pc, ret, batch, reader,
                   connection, timers, tracepoints, buffers, beacon, network,
                   history>>

close_start_udp_timer ==
    /\ pc = "close"
    /\ toClear = {}
    /\ udp_timeout' = check_start(udp_timeout)
    /\ pc' = ret
    /\ UNCHANGED <<app, shared, ret, batch, reader, toClear, connection,
                   queue_timeout, tracepoints, buffers, beacon, network,
                   history>>

\* tcp_handler::init tries one port after the other and may run out of them.
no_port_found == "bind" \in Faults

\* Up to the loop: the listener must bind, the UDP socket may fail to.
tracer_thread_main ==
    /\ pc = "start"
    /\ \/ /\ pc' = "poll"
          /\ udp_sock' \in IF ~announce THEN {FALSE}
                           ELSE IF "udp" \in Faults THEN BOOLEAN ELSE {TRUE}
          /\ udp_timeout' = IF announce THEN check_start(udp_timeout)
                                        ELSE udp_timeout
       \/ /\ no_port_found
          /\ pc' = "panic_bind"
          /\ UNCHANGED <<udp_sock, udp_timeout>>
    /\ UNCHANGED <<app, shared, ret, batch, reader, toClear, connection,
                   queue_timeout, tracepoints, buffers, announce, network,
                   history>>

\* What mio's edge-triggered poll finds on the sources registered with it.
TimerReady == IF "elapsed" \in {queue_timeout, udp_timeout}
              THEN {"TIMER"} ELSE {}
ChannelReady == IF channel # <<>> THEN {"CHAN"} ELSE {}
ReadyTokens_mutant1 == edges \cup TimerReady  \* channel not registered
ReadyTokens_mutant2 == (edges \ {"CON_NEW"}) \cup ChannelReady \cup TimerReady
ReadyTokens_mutant3 == edges \cup ChannelReady  \* timer not registered
ReadyTokens == edges \cup ChannelReady \cup TimerReady

poll_events ==
    /\ pc = "poll"
    /\ ReadyTokens # {}
    /\ batch' = ReadyTokens
    /\ edges' = {}
    /\ pc' = "events"
    /\ UNCHANGED <<app, shared, ret, reader, toClear, connection, timers,
                   tracepoints, buffers, beacon, backlog, peer, inbox, nreq,
                   history>>

\* mio lists the sockets of a poll before its user-space sources.
NextTokens_mutant == batch
NextTokens ==
    LET sockets == batch \cap {"CON_NEW", "CON_DATA"}
    IN  IF sockets # {} THEN sockets ELSE batch

take_event_mutant(token) ==  \* leaves the event in the list
    /\ pc = "events"
    /\ token \in NextTokens
    /\ batch' = batch
take_event(token) ==
    /\ pc = "events"
    /\ token \in NextTokens
    /\ batch' = batch \ {token}

event_chan ==
    /\ take_event("CHAN")
    /\ pc' = "channel"
    /\ UNCHANGED <<app, shared, ret, reader, toClear, connection, timers,
                   tracepoints, buffers, beacon, network, history>>

event_timer ==
    /\ take_event("TIMER")
    /\ pc' = "timer"
    /\ UNCHANGED <<app, shared, ret, reader, toClear, connection, timers,
                   tracepoints, buffers, beacon, network, history>>

may_accept == connection = None

\* A connection request while a client is served is left in the backlog, and
\* its edge is spent.
event_con_new_ignored ==
    /\ take_event("CON_NEW")
    /\ ~may_accept
    /\ UNCHANGED <<app, shared, pc, ret, reader, toClear, connection, timers,
                   tracepoints, buffers, beacon, network, history>>

\* accept() takes one client; the others stay in the backlog.
remaining_backlog_mutant == <<>>  \* accepts until nobody is left
remaining_backlog == Tail(backlog)

\* The first client of the backlog becomes the connection.  Registering its
\* socket reports what has already arrived on it.
establish_connection ==
    /\ take_event("CON_NEW")
    /\ may_accept
    /\ backlog # <<>>
    /\ connection' = Head(backlog)
    /\ backlog' = remaining_backlog
    /\ client_connected' = TRUE
    /\ edges' = IF inbox[Head(backlog)] # <<>> \/ peer[Head(backlog)] # "open"
                THEN edges \cup {"CON_DATA"} ELSE edges
    /\ udp_timeout' = check_stop(udp_timeout)
    /\ UNCHANGED <<app, enabled, channel, pc, ret, reader, toClear,
                   queue_timeout, tracepoints, buffers, beacon, peer, inbox,
                   nreq, history>>

\* accept() fails: nothing is connected, the UDP timer is stopped all the same.
establish_connection_fails ==
    /\ "accept" \in Faults \/ backlog = <<>>
    /\ take_event("CON_NEW")
    /\ may_accept
    /\ udp_timeout' = check_stop(udp_timeout)
    /\ UNCHANGED <<app, shared, pc, ret, reader, toClear, connection,
                   queue_timeout, tracepoints, buffers, beacon, network,
                   history>>

event_con_data ==
    /\ take_event("CON_DATA")
    /\ reader' = connection
    /\ pc' = IF connection = None THEN "panic_receive" ELSE "receive"
    /\ UNCHANGED <<app, shared, ret, toClear, connection, timers, tracepoints,
                   buffers, beacon, network, history>>

events_done ==
    /\ pc = "events"
    /\ batch = {}
    /\ pc' = "poll"
    /\ UNCHANGED <<app, shared, ret, batch, reader, toClear, connection, timers,
                   tracepoints, buffers, beacon, network, history>>

\* channel_handler takes one message of the given kind.
try_recv(kind) ==
    /\ pc = "channel"
    /\ channel # <<>>
    /\ Head(channel).kind = kind
    /\ channel' = Tail(channel)

append_mutant(e) == <<e>> \o buffer  \* push_front
append(e) == Append(buffer, e)

occupancy_with_mutant(e) == buffer_occupancy + e.data  \* counts the data only
occupancy_with(e) == buffer_occupancy + BufferElementLen(e)

channel_payload ==
    /\ try_recv("payload")
    /\ LET e == Head(channel).elem
       IN  /\ buffer' = append(e)
           /\ buffer_occupancy' = occupancy_with(e)
    /\ IF buffer_occupancy' > QUEUE_TOTAL_SIZE
       THEN /\ queue_timeout' = check_stop(queue_timeout)
            /\ pc' = "send" /\ ret' = "channel"
       ELSE /\ queue_timeout' = check_start(queue_timeout)
            /\ UNCHANGED <<pc, ret>>
    /\ UNCHANGED <<app, client_connected, enabled, batch, reader, toClear,
                   connection, udp_timeout, tracepoints, que, queLen, beacon,
                   network, history>>

channel_new_tracepoint ==
    /\ try_recv("tracepoint")
    /\ tracepoints' = tracepoints \cup {Head(channel).tp}
    /\ UNCHANGED <<app, client_connected, enabled, control, connection, timers,
                   buffers, beacon, network, history>>

sends_before_exit_mutant == FALSE
sends_before_exit == connection # None

channel_terminate ==
    /\ try_recv("terminate")
    /\ IF sends_before_exit
       THEN pc' = "send" /\ ret' = "exit"
       ELSE pc' = "exit" /\ UNCHANGED ret
    /\ UNCHANGED <<app, client_connected, enabled, batch, reader, toClear,
                   connection, timers, tracepoints, buffers, beacon, network,
                   history>>

channel_empty ==
    /\ pc = "channel"
    /\ channel = <<>>
    /\ pc' = "events"
    /\ UNCHANGED <<app, shared, ret, batch, reader, toClear, connection, timers,
                   tracepoints, buffers, beacon, network, history>>

timer_queue ==
    /\ pc = "timer"
    /\ queue_timeout = "elapsed"
    /\ queue_timeout' = "none"
    /\ pc' = "send"
    /\ ret' = "timer"
    /\ UNCHANGED <<app, shared, batch, reader, toClear, connection, udp_timeout,
                   tracepoints, buffers, beacon, network, history>>

restart_udp_timer_mutant == "none"  \* announces once
restart_udp_timer == check_start("none")

\* announce_tracer changes nothing but sequence_no, the number the next
\* announcement carries, on which nothing here depends.
timer_udp ==
    /\ pc = "timer"
    /\ udp_timeout = "elapsed"
    /\ udp_timeout' = restart_udp_timer
    /\ UNCHANGED <<app, shared, control, connection, queue_timeout, tracepoints,
                   buffers, beacon, network, history>>

timer_empty ==
    /\ pc = "timer"
    /\ "elapsed" \notin {queue_timeout, udp_timeout}
    /\ pc' = "events"
    /\ UNCHANGED <<app, shared, ret, batch, reader, toClear, connection, timers,
                   tracepoints, buffers, beacon, network, history>>
-----------------------------------------------------------------------------
(* Sending.                                                                *)

Fits_mutant(e) == BufferElementLen(e) + queLen + HEADER_LEN <= QUEUE_TOTAL_SIZE
Fits(e) == BufferElementLen(e) + queLen + HEADER_LEN < QUEUE_TOTAL_SIZE

send_pack ==
    /\ pc = "send"
    /\ buffer # <<>>
    /\ Fits(Head(buffer))
    /\ que' = Append(que, Head(buffer))
    /\ queLen' = queLen + EncodedLen(Head(buffer))
    /\ buffer' = Tail(buffer)
    /\ UNCHANGED <<app, shared, control, connection, timers, tracepoints,
                   buffer_occupancy, beacon, network, history>>

\* The outcome of write_all is the kernel's: a client that does not read blocks
\* it in the middle of a frame, one that left fails it.
WriteOutcomes(c) ==
    CASE peer[c] = "open" -> {"ok", "block"}
      [] peer[c] = "fin" -> {"ok", "block", "fail"}
      [] OTHER -> {"fail"}

write_all(outcome) ==
    /\ connection # None
    /\ outcome \in WriteOutcomes(connection)
    /\ outcome = "block" => "block" \in Faults

\* A frame is due: the next element does not fit, or there is none left.
FrameDue ==
    /\ pc = "send"
    /\ buffer # <<>> \/ que # <<>>
    /\ buffer # <<>> => ~Fits(Head(buffer))

send_slices_ok ==
    /\ FrameDue
    /\ write_all("ok")
    /\ sent' = sent \o [i \in DOMAIN que |->
                          [elem |-> que[i], to |-> connection,
                           aligned |-> connection \notin cut]]
    /\ left' = left + Len(que)
    /\ que' = <<>> /\ queLen' = 0
    /\ UNCHANGED <<app, shared, control, connection, timers, tracepoints,
                   buffer, buffer_occupancy, beacon, network, cut>>

\* WouldBlock is taken for success: the rest of the frame is never written.
send_slices_blocked ==
    /\ FrameDue
    /\ write_all("block")
    /\ left' = left + Len(que)
    /\ cut' = cut \cup {connection}
    /\ que' = <<>> /\ queLen' = 0
    /\ UNCHANGED <<app, shared, control, connection, timers, tracepoints,
                   buffer, buffer_occupancy, beacon, network, sent>>

send_slices_fails ==
    /\ FrameDue
    /\ write_all("fail")
    /\ left' = left + Len(que)
    /\ que' = <<>> /\ queLen' = 0
    /\ close_and_clean_connection(ret)
    /\ UNCHANGED <<app, enabled, channel, batch, reader, udp_timeout,
                   tracepoints, buffer, buffer_occupancy, beacon, backlog, peer,
                   inbox, nreq, sent, cut>>

send_slices_panics ==
    /\ FrameDue
    /\ connection = None
    /\ pc' = "panic_send"
    /\ UNCHANGED <<app, shared, ret, batch, reader, toClear, connection, timers,
                   tracepoints, buffers, beacon, network, history>>

send_done ==
    /\ pc = "send"
    /\ buffer = <<>>
    /\ que = <<>>
    /\ pc' = ret
    /\ UNCHANGED <<app, shared, ret, batch, reader, toClear, connection, timers,
                   tracepoints, buffers, beacon, network, history>>
-----------------------------------------------------------------------------
(* Receiving.                                                              *)

\* receive reads a header, and a request its payload, from the stream.
read_request(cmds) ==
    /\ pc = "receive"
    /\ inbox[reader] # <<>>
    /\ Head(inbox[reader]).cmd \in cmds
    /\ inbox' = [inbox EXCEPT ![reader] = Tail(@)]

receive_would_block ==
    /\ pc = "receive"
    /\ inbox[reader] = <<>>
    /\ peer[reader] = "open"
    /\ pc' = "events" /\ reader' = None
    /\ UNCHANGED <<app, shared, ret, batch, toClear, connection, timers,
                   tracepoints, buffers, beacon, network, history>>

receive_eof ==
    /\ pc = "receive"
    /\ inbox[reader] = <<>>
    /\ peer[reader] # "open"
    /\ close_and_clean_connection("events")
    /\ reader' = None
    /\ UNCHANGED <<app, enabled, channel, batch, udp_timeout, tracepoints,
                   buffers, beacon, backlog, peer, inbox, nreq, history>>

receive_invalid_header ==
    /\ read_request({"bad"})
    /\ close_and_clean_connection("drain")
    /\ UNCHANGED <<app, enabled, channel, batch, reader, udp_timeout,
                   tracepoints, buffers, beacon, backlog, peer, nreq, history>>

\* Nothing was left to read, everything was thrown away, or reading failed.
read_empty ==
    /\ pc = "drain"
    /\ inbox' = [inbox EXCEPT ![reader] = <<>>]
    /\ reader' = None
    /\ IF peer[reader] = "rst"
       THEN close_and_clean_connection("events")
       ELSE /\ pc' = "events"
            /\ UNCHANGED <<client_connected, ret, toClear, connection,
                           queue_timeout, edges>>
    /\ UNCHANGED <<app, enabled, channel, batch, udp_timeout, tracepoints,
                   buffers, beacon, backlog, peer, nreq, history>>

\* check_cmd_validity only prints, so other commands come to nothing here.
execute_other_command ==
    /\ read_request({"other"})
    /\ UNCHANGED <<app, shared, control, connection, timers, tracepoints,
                   buffers, beacon, backlog, peer, edges, nreq, history>>

send_tracepoint_list ==
    /\ read_request({"list"})
    /\ \/ /\ connection = None
          /\ pc' = "panic_list"
          /\ UNCHANGED <<client_connected, ret, toClear, connection,
                         queue_timeout, edges, cut>>
       \/ /\ write_all("ok")
          /\ UNCHANGED <<client_connected, pc, ret, toClear, connection,
                         queue_timeout, edges, cut>>
       \/ /\ write_all("block")
          /\ cut' = cut \cup {connection}
          /\ UNCHANGED <<client_connected, pc, ret, toClear, connection,
                         queue_timeout, edges>>
       \/ /\ write_all("fail")
          /\ close_and_clean_connection("receive")
          /\ UNCHANGED cut
    /\ UNCHANGED <<app, enabled, channel, batch, reader, udp_timeout,
                   tracepoints, buffers, beacon, backlog, peer, nreq, sent,
                   left>>

store_flag_mutant(t, state) == [enabled EXCEPT ![t] = state]
store_flag(t, state) ==
    IF t \in tracepoints THEN [enabled EXCEPT ![t] = state] ELSE enabled

set_tracepoints ==
    /\ read_request({"enable", "disable"})
    /\ LET r == Head(inbox[reader])
       IN  enabled' = store_flag(r.tp, r.cmd = "enable")
    /\ UNCHANGED <<app, client_connected, channel, control, connection, timers,
                   tracepoints, buffers, beacon, backlog, peer, edges, nreq,
                   history>>

\* The error returns of set_tracepoints; receive does not learn of them.
set_tracepoints_fails ==
    /\ read_request({"broken"})
    /\ close_and_clean_connection("receive")
    /\ UNCHANGED <<app, enabled, channel, batch, reader, udp_timeout,
                   tracepoints, buffers, beacon, backlog, peer, nreq, history>>

LoopNext ==
    \/ tracer_thread_main \/ poll_events \/ event_chan \/ event_timer
    \/ event_con_new_ignored \/ establish_connection
    \/ establish_connection_fails \/ event_con_data \/ events_done
    \/ channel_payload \/ channel_new_tracepoint \/ channel_terminate
    \/ channel_empty \/ timer_queue \/ timer_udp \/ timer_empty

SendNext ==
    \/ send_pack \/ send_slices_ok \/ send_slices_blocked
    \/ send_slices_fails \/ send_slices_panics \/ send_done

ReceiveNext ==
    \/ receive_would_block \/ receive_eof \/ receive_invalid_header
    \/ read_empty \/ execute_other_command \/ send_tracepoint_list
    \/ set_tracepoints \/ set_tracepoints_fails
    \/ \E t \in Tracepoints : close_clear_flag(t)
    \/ close_start_udp_timer

TracerNext == LoopNext \/ SendNext \/ ReceiveNext
-----------------------------------------------------------------------------
(* The environment.                                                        *)

\* The clients whose socket the tracer's process holds.
Attached == {connection, reader} \cup {backlog[i] : i \in DOMAIN backlog}

DataEdge(c) == IF c = connection THEN edges \cup {"CON_DATA"} ELSE edges

connect(c) ==
    /\ peer[c] = "away"
    /\ \A d \in 1..(c - 1) : peer[d] # "away"
    /\ pc \in Running \ {"start"}
    /\ peer' = [peer EXCEPT ![c] = "open"]
    /\ backlog' = Append(backlog, c)
    /\ edges' = edges \cup {"CON_NEW"}
    /\ UNCHANGED <<app, shared, control, connection, timers, tracepoints,
                   buffers, beacon, inbox, nreq, history>>

request(c, r) ==
    /\ c \in Attached /\ peer[c] = "open" /\ Alive
    /\ r.cmd \in Commands
    /\ nreq < MaxRequests
    /\ nreq' = nreq + 1
    /\ inbox' = [inbox EXCEPT ![c] = Append(@, r)]
    /\ edges' = DataEdge(c)
    /\ UNCHANGED <<app, shared, control, connection, timers, tracepoints,
                   buffers, beacon, backlog, peer, history>>

\* A client shuts its connection down ("fin"), or it breaks ("rst").
leave(c, how) ==
    /\ c \in Attached /\ Alive
    /\ peer[c] \in (IF how = "fin" THEN {"open"} ELSE {"open", "fin"})
    /\ peer' = [peer EXCEPT ![c] = how]
    /\ edges' = DataEdge(c)
    /\ UNCHANGED <<app, shared, control, connection, timers, tracepoints,
                   buffers, beacon, backlog, inbox, nreq, history>>

\* A timeout set while timer_handler runs lies at least one tick ahead.
queue_elapses ==
    /\ queue_timeout = "armed" /\ pc # "timer" /\ Alive
    /\ queue_timeout' = "elapsed"
    /\ UNCHANGED <<app, shared, control, connection, udp_timeout, tracepoints,
                   buffers, beacon, network, history>>

udp_elapses ==
    /\ udp_timeout = "armed" /\ pc # "timer" /\ Alive
    /\ udp_timeout' = "elapsed"
    /\ UNCHANGED <<app, shared, control, connection, queue_timeout, tracepoints,
                   buffers, beacon, network, history>>

EnvNext ==
    \/ \E c \in Clients : connect(c)
    \/ \E c \in Clients, r \in Request : request(c, r)
    \/ \E c \in Clients, how \in {"fin", "rst"} : leave(c, how)
    \/ queue_elapses
    \/ udp_elapses

Next == AppNext \/ TracerNext \/ EnvNext

Spec == Init /\ [][Next]_vars

\* The operating system runs the tracer thread whenever it has something to do,
\* and time passes.  Nothing is assumed of the application or the clients.
FairSpec ==
    /\ Spec
    /\ WF_vars(TracerNext)
    /\ WF_vars(queue_elapses)
    /\ WF_vars(udp_elapses)
-----------------------------------------------------------------------------
(* Properties.                                                             *)

\* Every variable keeps the type its field has in the program.
TypeOK ==
    /\ appPc \in {"idle", "loaded", "checked", "done"}
    /\ appArg \in Args
    /\ appTps \subseteq Tracepoints
    /\ nsubmit \in Nat
    /\ client_connected \in BOOLEAN
    /\ enabled \in [Tracepoints -> BOOLEAN]
    /\ channel \in Seq(Message)
    /\ pc \in Running \cup Panics \cup {"exit"}
    /\ ret \in Returns
    /\ batch \subseteq {"CHAN", "TIMER", "CON_NEW", "CON_DATA"}
    /\ reader \in 0..MaxClients
    /\ toClear \subseteq tracepoints
    /\ connection \in 0..MaxClients
    /\ queue_timeout \in TimerStates /\ udp_timeout \in TimerStates
    /\ tracepoints \subseteq Tracepoints
    /\ buffer \in Seq(Element) /\ que \in Seq(Element)
    /\ buffer_occupancy \in Nat /\ queLen \in Nat
    /\ announce \in BOOLEAN /\ udp_sock \in BOOLEAN
    /\ backlog \in Seq(Clients)
    /\ peer \in [Clients -> {"away", "open", "fin", "rst"}]
    /\ inbox \in [Clients -> Seq(Request)]
    /\ edges \subseteq {"CON_NEW", "CON_DATA"}
    /\ nreq \in Nat
    /\ sent \in Seq([elem : Element, to : Clients, aligned : BOOLEAN])
    /\ left \in Nat
    /\ cut \subseteq Clients

\* While a client is connected no announcement is scheduled, whatever order
\* accepting, closing and the UDP timer come in (check_stop_udp_timer).
QuietWhileConnected == connection # None => udp_timeout = "none"

\* "Once a client has connected, Tracy will stop announcing via UDP" and after
\* it has left "start to announce its presence via UDP again" (README): unless
\* a client is connected or being closed, the next announcement is scheduled.
\* It holds as long as accept() succeeds; see establish_connection_fails.
IdleAnnounces ==
    (announce /\ connection = None /\ pc \in Running \ {"start", "close"})
        => udp_timeout # "none"

\* A connection request that the loop is about to answer has its client in the
\* backlog, although edges coalesce, some are spent during sessions and each
\* accept takes one client: accept() never fails for want of a client, which
\* would stop the announcements (lib.rs:551).
AcceptFindsClient ==
    (pc = "events" /\ "CON_NEW" \in batch /\ connection = None)
        => backlog # <<>>

\* Handing tracepoints over: while the thread runs, what the application has
\* registered is in the thread's map or on its way there, never both; and a
\* flag is only ever set for a tracepoint close_and_clean_connection clears.
InChannel ==
    {t \in Tracepoints : \E i \in DOMAIN channel :
        channel[i].kind = "tracepoint" /\ channel[i].tp = t}
TracepointsHandedOver ==
    /\ Alive => appTps = tracepoints \cup InChannel
    /\ tracepoints \cap InChannel = {}
    /\ \A t \in Tracepoints : enabled[t] => t \in tracepoints

\* receive is never entered without a connection, although CON_DATA may have
\* been collected before the handlers that close the connection ran.
ReceiveHasConnection == pc # "panic_receive"

\* Data of the current session never waits in the buffer without a timeout
\* that will flush it.
FlushArmed ==
    (connection # None /\ pc # "send"
     /\ \E i \in DOMAIN buffer : buffer[i].sess = connection)
        => queue_timeout # "none"

\* A thread that ends on Terminate with its client still connected has tried
\* to send everything: nothing is left anywhere between submit and the socket.
ExitFlushed ==
    (pc = "exit" /\ connection # None)
        => channel = <<>> /\ buffer = <<>> /\ que = <<>> /\ left = nsubmit

\* A frame exceeds QUEUE_TOTAL_SIZE by at most the three bytes that the test in
\* send_trace_data, which ignores the two length fields, lets through.
FrameFits == queLen + HEADER_LEN <= QUEUE_TOTAL_SIZE + 3

\* send_trace_data never sends a frame without data: an element that does not
\* fit into an empty queue would make its loop send empty frames forever.
FramesCarryData == FrameDue => que # <<>>

\* close_and_clean_connection returns with every flag false, those included of
\* tracepoints the application registered while it ran: no flag is true that
\* the loop over the thread's own map would miss.
CloseDisablesAll ==
    [][(pc = "close" /\ pc' # "close") => \A t \in Tracepoints : ~enabled'[t]]_vars

\* tracy_finit always ends the thread: Terminate is reached behind whatever is
\* queued before it, and the last send does not keep the thread.
FinitStopsThread == (appPc = "done") ~> ~Alive

\* A payload submitted in a session is flushed in that session, unless the
\* session ends first: the channel is drained and the queue timer started.
Waiting(k) ==
    \/ \E i \in DOMAIN channel : /\ channel[i].kind = "payload"
                                 /\ channel[i].elem.id = k
                                 /\ channel[i].elem.sess = connection
    \/ \E i \in DOMAIN buffer : buffer[i].id = k /\ buffer[i].sess = connection
PayloadFlushed ==
    \A k \in 1..MaxSubmits, c \in Clients :
        (connection = c /\ Waiting(k)) ~> (connection # c \/ left >= k)

\* Without a client an announcing tracer keeps announcing: after any session,
\* however it ended, the UDP timer fires again unless another client came.
AnnouncesWhenIdle ==
    (announce /\ Alive /\ connection = None)
        ~> (~Alive \/ connection # None
            \/ (pc = "timer" /\ udp_timeout = "elapsed"))

\* When a connection request is noticed and nobody is connected, the client
\* that has waited longest becomes the connection.  Of the clients behind it
\* this says nothing: a request noticed during a session, or together with
\* another one, has spent its edge, and its client waits for a later edge.
RequestAccepted ==
    \A c \in Clients :
        (/\ Alive /\ connection = None /\ "CON_NEW" \in edges \cup batch
         /\ backlog # <<>> /\ Head(backlog) = c)
            ~> (~Alive \/ connection = c)

\* The stream of payloads as TraceStream promises it.
Stream == INSTANCE TraceStream WITH
    accepted <- nsubmit, gone <- left,
    delivered <- [i \in DOMAIN sent |-> sent[i].elem.id]
StreamSpec == Stream!Spec
-----------------------------------------------------------------------------
(* What the safety properties rest on: the parts of an inductive invariant. *)

\* A submit between its checks and its send has passed the test of data_len.
SubmitInFlight ==
    appPc \in {"loaded", "checked"}
        => appArg.data \in 1..MAX_SUBMIT_LEN /\ nsubmit < MaxSubmits

\* receive, and a close it called, hold a clone of a client's socket; sending
\* trace data never returns there.
ReaderHeld ==
    /\ pc = "send" => ret \in {"channel", "timer", "exit"}
    /\ (pc \in {"receive", "drain"}
          \/ (pc = "close" /\ ret \in {"receive", "drain"}))
        => reader \in Clients

\* No connection before the loop runs, nor while one is being closed.
NoSessionYet == pc \in {"start", "close"} => connection = None

\* CON_DATA is pending only for a connection, and was handled before any
\* handler that can close the connection.
DataEventHasConnection ==
    /\ "CON_DATA" \in edges => connection # None
    /\ (pc = "events" /\ "CON_DATA" \in batch) => connection # None
    /\ pc \in {"channel", "timer", "send", "receive", "drain", "close"}
           => "CON_DATA" \notin batch

\* No tracepoint is announced to the thread twice.
RegisteredOnce ==
    \A i, j \in DOMAIN channel :
        (/\ channel[i].kind = "tracepoint" /\ channel[j].kind = "tracepoint"
         /\ channel[i].tp = channel[j].tp) => i = j

\* While the connection is being closed only flags still to clear are true.
ClearedFlags ==
    pc = "close" => \A t \in Tracepoints : enabled[t] => t \in toClear

EmptyQueIsEmpty == que = <<>> => queLen = 0

\* A connection request, noticed or not, stands for a client of its own.
RequestsIn(tokens) == IF "CON_NEW" \in tokens THEN 1 ELSE 0
RequestHasClient == RequestsIn(edges) + RequestsIn(batch) <= Len(backlog)

IInv ==
    /\ TypeOK
    /\ SubmitInFlight
    /\ ReaderHeld
    /\ NoSessionYet
    /\ QuietWhileConnected
    /\ DataEventHasConnection
    /\ ReceiveHasConnection
    /\ TracepointsHandedOver
    /\ RegisteredOnce
    /\ ClearedFlags
    /\ FrameFits
    /\ EmptyQueIsEmpty
    /\ RequestHasClient
-----------------------------------------------------------------------------
(* What the order of payloads, the flush and the exit rest on.             *)

\* Payloads up to this number have been taken out of the channel.
Handled == left + Len(que) + Len(buffer)

\* The frame and the buffer hold the payloads after those that have left.
QueuesInOrder ==
    /\ \A i \in DOMAIN que : que[i].id = left + i
    /\ \A i \in DOMAIN buffer : buffer[i].id = left + Len(que) + i

\* The channel holds the rest, each once and in order.
IsPayload(i) == i \in DOMAIN channel /\ channel[i].kind = "payload"
ChannelInOrder ==
    /\ Handled <= nsubmit
    /\ \A i \in DOMAIN channel :
          IsPayload(i) => channel[i].elem.id \in (Handled + 1)..nsubmit
    /\ \A i, j \in DOMAIN channel :
          (IsPayload(i) /\ IsPayload(j) /\ i < j)
             => channel[i].elem.id < channel[j].elem.id
    /\ \A k \in (Handled + 1)..nsubmit :
          \E i \in DOMAIN channel : IsPayload(i) /\ channel[i].elem.id = k

\* The order to terminate is the last message there ever is.
TerminateLast ==
    /\ \A i \in DOMAIN channel : channel[i].kind = "terminate"
          => i = Len(channel) /\ appPc = "done"
    /\ (pc = "send" /\ ret = "exit") => channel = <<>> /\ appPc = "done"

\* A client that has been accepted, or none: no client to be accepted later.
Accepted(c) ==
    c # None => peer[c] # "away" /\ \A i \in DOMAIN backlog : backlog[i] # c

\* Payloads belong to clients that were accepted before they were submitted.
SessionsFresh ==
    /\ \A i \in DOMAIN backlog : peer[backlog[i]] # "away"
    /\ \A i, j \in DOMAIN backlog : backlog[i] = backlog[j] => i = j
    /\ Accepted(connection)
    /\ Accepted(appArg.sess)
    /\ \A i \in DOMAIN channel : IsPayload(i) => Accepted(channel[i].elem.sess)
    /\ \A i \in DOMAIN buffer : Accepted(buffer[i].sess)

SInv ==
    /\ QueuesInOrder
    /\ ChannelInOrder
    /\ TerminateLast
    /\ SessionsFresh
    /\ FlushArmed
    /\ ExitFlushed
=============================================================================
