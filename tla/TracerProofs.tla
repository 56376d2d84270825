---------------------------- MODULE TracerProofs ----------------------------
(***************************************************************************)
(* The safety of the tracer for every set of tracepoints, every number of  *)
(* clients, requests and payloads, and every combination of faults.  IInv  *)
(* of Tracer is inductive; its parts are shown to be preserved one by one, *)
(* by the steps of the application, the event loop, sending, receiving and *)
(* the environment.                                                        *)
(***************************************************************************)
EXTENDS Tracer, TLAPS

(* Type correctness.                                                       *)

\* The sizes of an element: far below QUEUE_TOTAL_SIZE, and four bytes more
\* once encoded (the two length fields).
LEMMA ElementSizes ==
    ASSUME NEW e \in Element
    PROVE  /\ BufferElementLen(e) \in Nat /\ EncodedLen(e) \in Nat
           /\ BufferElementLen(e) <= 2088
           /\ EncodedLen(e) = BufferElementLen(e) + 4
<1> DEFINE n == NameLen[e.tp]
           d == e.data
<1>1. e.tp \in Tracepoints /\ d \in 1..2048
  BY SMTT(30) DEF Element, MAX_SUBMIT_LEN
<1>2. n \in 0..32
  BY <1>1, NamesAssumption DEF MAX_TRACEPOINT_NAME_LEN
<1>3. BufferElementLen(e) = n + 8 + d /\ EncodedLen(e) = 2 + n + 8 + 2 + d
  BY DEF BufferElementLen, EncodedLen, TIMESTAMP_LEN
<1> HIDE DEF n, d
<1>4. QED
  BY <1>1, <1>2, <1>3

\* The client that has waited longest is a client.
LEMMA FirstWaiting ==
    ASSUME backlog \in Seq(Clients), backlog # <<>>
    PROVE  Head(backlog) \in Clients /\ Head(backlog) # None
<1>1. Head(backlog) \in Clients
  OBVIOUS
<1>2. \A c \in Clients : c # None
  BY BoundsAssumption DEF Clients, None
<1>3. QED
  BY Zenon, <1>1, <1>2

\* The arguments of a submit in flight make an element of the buffer.
LEMMA SubmittedIsElement ==
    ASSUME TypeOK, SubmitInFlight, appPc = "checked"
    PROVE  [kind |-> "payload",
            elem |-> [id |-> nsubmit + 1, tp |-> appArg.tp,
                      data |-> appArg.data, sess |-> appArg.sess]] \in Message
<1>1. nsubmit + 1 \in 1..MaxSubmits
  BY BoundsAssumption DEF TypeOK, SubmitInFlight
<1>2. [id |-> nsubmit + 1, tp |-> appArg.tp, data |-> appArg.data,
       sess |-> appArg.sess] \in Element
  BY <1>1 DEF TypeOK, SubmitInFlight, Args, Element
<1>3. QED
  BY <1>2 DEF Message

\* Closing the connection keeps the types of what it assigns.
LEMMA CloseTypes ==
    ASSUME TypeOK, NEW r \in Returns, close_and_clean_connection(r)
    PROVE  /\ client_connected' \in BOOLEAN
           /\ pc' \in Running \cup Panics \cup {"exit"}
           /\ ret' \in Returns
           /\ toClear' \subseteq tracepoints
           /\ connection' \in 0..MaxClients
           /\ queue_timeout' \in TimerStates
           /\ edges' \subseteq {"CON_NEW", "CON_DATA"}
<1> USE DEF close_and_clean_connection
<1>1. pc' \in Running \cup Panics \cup {"exit"}
  BY DEF Running, Panics
<1>2. toClear' \subseteq tracepoints /\ ret' \in Returns
  BY DEF TypeOK, flags_to_clear
<1>3. connection' \in 0..MaxClients
  BY BoundsAssumption DEF TypeOK, None
<1>4. queue_timeout' \in TimerStates
  BY DEF TypeOK, check_stop, TimerStates
<1>5. QED
  BY Zenon, <1>1, <1>2, <1>3, <1>4 DEF TypeOK

\* The application thread keeps the types.
LEMMA TypeApp ==
    ASSUME TypeOK, SubmitInFlight, AppNext
    PROVE  TypeOK'
<1> USE DEF TypeOK, app, shared, control, timers, buffers, beacon, network,
            history
<1>1. ASSUME NEW t \in Tracepoints, tracy_register(t)
      PROVE  TypeOK'
  <2>1. [kind |-> "tracepoint", tp |-> t] \in Message
    BY DEF Message
  <2>2. channel' \in Seq(Message)
    BY <1>1, <2>1 DEF tracy_register, send_to_tracer
  <2>3. QED
    BY <1>1, <2>2 DEF tracy_register
<1>2. ASSUME NEW t \in Tracepoints, NEW n \in DataLens, tracy_submit(t, n)
      PROVE  TypeOK'
  <2>1. appArg' \in Args
    BY <1>2, LensAssumption, BoundsAssumption DEF tracy_submit, Args, None
  <2>2. QED
    BY <1>2, <2>1 DEF tracy_submit
<1>3. NoArg \in Args
  BY NamesAssumption, BoundsAssumption DEF NoArg, Args, None
<1>4. CASE tracepoint_enabled
  <2>1. appArg \in Args /\ connection \in 0..MaxClients
    OBVIOUS
  <2>2. [appArg EXCEPT !.sess = connection] \in Args
    <3> HIDE DEF TypeOK
    <3>1. QED
      BY <2>1 DEF Args
  <2>3. appArg' \in Args
    BY Zenon, <1>3, <1>4, <2>2 DEF tracepoint_enabled
  <2>4. QED
    BY SMTT(30), <1>4, <2>3 DEF tracepoint_enabled
<1>5. CASE tracy_submit_send
  <2>1. channel' \in Seq(Message)
    BY <1>5, SubmittedIsElement DEF tracy_submit_send, send_to_tracer
  <2>2. nsubmit' \in Nat
    BY <1>5 DEF tracy_submit_send
  <2>3. QED
    BY <1>3, <1>5, <2>1, <2>2 DEF tracy_submit_send
<1>6. CASE tracy_finit
  <2>1. [kind |-> "terminate"] \in Message
    BY DEF Message
  <2>2. channel' \in Seq(Message)
    BY <1>6, <2>1 DEF tracy_finit, send_to_tracer
  <2>3. QED
    BY <1>6, <2>2 DEF tracy_finit
<1>7. QED
  BY Zenon, <1>1, <1>2, <1>4, <1>5, <1>6 DEF AppNext

\* The event loop keeps the types.
LEMMA TypeLoop ==
    ASSUME TypeOK, LoopNext
    PROVE  TypeOK'
<1> USE DEF TypeOK, app, shared, control, timers, buffers, beacon, network,
            history
<1>1. CASE tracer_thread_main
  <2>1. pc' \in Running \cup Panics \cup {"exit"}
    BY Zenon, <1>1 DEF tracer_thread_main, Running, Panics
  <2>2. udp_timeout' \in TimerStates
    BY Zenon, <1>1 DEF tracer_thread_main, check_start, TimerStates
  <2>3. udp_sock' \in BOOLEAN
    BY Zenon, <1>1 DEF tracer_thread_main
  <2>4. QED
    BY <1>1, <2>1, <2>2, <2>3 DEF tracer_thread_main
<1>2. CASE poll_events
  <2>1. ReadyTokens \subseteq {"CHAN", "TIMER", "CON_NEW", "CON_DATA"}
    BY DEF ReadyTokens, ChannelReady, TimerReady
  <2>2. QED
    BY <1>2, <2>1 DEF poll_events, Running
<1>3. CASE event_chan
  BY <1>3 DEF event_chan, take_event, Running
<1>4. CASE event_timer
  BY <1>4 DEF event_timer, take_event, Running
<1>5. CASE event_con_new_ignored
  BY <1>5 DEF event_con_new_ignored, take_event
<1>6. CASE establish_connection
  <2>1. Head(backlog) \in Clients /\ Tail(backlog) \in Seq(Clients)
    BY <1>6 DEF establish_connection
  <2>2. connection' \in 0..MaxClients
    BY <1>6, <2>1 DEF establish_connection, Clients
  <2>3. QED
    BY Zenon, <1>6, <2>1, <2>2
    DEF establish_connection, remaining_backlog, take_event, check_stop,
        TimerStates
<1>7. CASE establish_connection_fails
  BY <1>7 DEF establish_connection_fails, take_event, check_stop, TimerStates
<1>8. CASE event_con_data
  BY <1>8 DEF event_con_data, take_event, Running, Panics
<1>9. CASE events_done
  BY <1>9 DEF events_done, Running
<1>10. CASE channel_payload
  <2>1. Head(channel) \in Message /\ Tail(channel) \in Seq(Message)
    BY <1>10 DEF channel_payload, try_recv
  <2>2. Head(channel).elem \in Element
    BY SMTT(30), <1>10, <2>1 DEF channel_payload, try_recv, Message
  <2>3. BufferElementLen(Head(channel).elem) \in Nat
    <3> HIDE DEF TypeOK
    <3>1. QED
      BY <2>2, ElementSizes
  <2>4. buffer' \in Seq(Element) /\ buffer_occupancy' \in Nat
    BY SMTT(30), <1>10, <2>2, <2>3 DEF channel_payload, append, occupancy_with
  <2>5. queue_timeout' \in TimerStates
    BY <1>10 DEF channel_payload, check_start, check_stop, TimerStates
  <2>6. QED
    BY SMTT(30), <1>10, <2>1, <2>4, <2>5 DEF channel_payload, try_recv, Running, Returns
<1>11. CASE channel_new_tracepoint
  <2>1. Head(channel) \in Message /\ Tail(channel) \in Seq(Message)
    BY <1>11 DEF channel_new_tracepoint, try_recv
  <2>2. Head(channel).tp \in Tracepoints
    BY <1>11, <2>1 DEF channel_new_tracepoint, try_recv, Message
  <2>3. QED
    BY <1>11, <2>1, <2>2 DEF channel_new_tracepoint, try_recv
<1>12. CASE channel_terminate
  <2>1. Tail(channel) \in Seq(Message)
    BY <1>12 DEF channel_terminate, try_recv
  <2>2. QED
    BY <1>12, <2>1 DEF channel_terminate, try_recv, Running, Returns
<1>13. CASE channel_empty
  BY <1>13 DEF channel_empty, Running
<1>14. CASE timer_queue
  BY <1>14 DEF timer_queue, Running, Returns, TimerStates
<1>15. CASE timer_udp
  BY <1>15 DEF timer_udp, restart_udp_timer, check_start, TimerStates
<1>16. CASE timer_empty
  BY <1>16 DEF timer_empty, Running
<1>17. QED
  BY Zenon, <1>1, <1>2, <1>3, <1>4, <1>5, <1>6, <1>7, <1>8, <1>9, <1>10, <1>11,
     <1>12, <1>13, <1>14, <1>15, <1>16, LoopNext DEF LoopNext

\* Sending keeps the types.
LEMMA TypeSend ==
    ASSUME TypeOK, SendNext
    PROVE  TypeOK'
<1> USE DEF TypeOK, app, shared, control, timers, buffers, beacon, network,
            history
<1>1. CASE send_pack
  <2>1. Head(buffer) \in Element /\ Tail(buffer) \in Seq(Element)
    BY <1>1 DEF send_pack
  <2>2. EncodedLen(Head(buffer)) \in Nat
    <3> HIDE DEF TypeOK
    <3>1. QED
      BY <2>1, ElementSizes
  <2>3. que' \in Seq(Element) /\ buffer' \in Seq(Element)
    BY <1>1, <2>1 DEF send_pack
  <2>4. queLen' \in Nat
    <3>1. queLen' = queLen + EncodedLen(Head(buffer)) /\ queLen \in Nat
      BY Zenon, <1>1 DEF send_pack
    <3> HIDE DEF TypeOK
    <3>2. QED
      BY <2>2, <3>1
  <2>5. UNCHANGED <<app, shared, control, connection, timers, tracepoints,
                    buffer_occupancy, beacon, network, history>>
    BY <1>1 DEF send_pack
  <2>6. QED
    BY <2>3, <2>4, <2>5
<1>2. CASE send_slices_ok
  <2>1. connection \in Clients
    BY <1>2 DEF send_slices_ok, write_all, Clients, None
  <2> DEFINE Written == [elem : Element, to : Clients, aligned : BOOLEAN]
             frame == [i \in DOMAIN que |->
                         [elem |-> que[i], to |-> connection,
                          aligned |-> connection \notin cut]]
  <2>2. frame \in Seq(Written)
    <3>1. \A i \in 1..Len(que) : que[i] \in Element
      OBVIOUS
    <3>2. frame \in [1..Len(que) -> Written]
      BY <2>1, <3>1
    <3>3. QED
      BY <3>2
  <2>3. sent' \in Seq(Written)
    BY <1>2, <2>2 DEF send_slices_ok
  <2>4. QED
    BY <1>2, <2>3 DEF send_slices_ok
<1>3. CASE send_slices_blocked
  BY <1>3 DEF send_slices_blocked, write_all, Clients, None
<1>4. CASE send_slices_fails
  <2>1. close_and_clean_connection(ret) /\ ret \in Returns
    BY <1>4 DEF send_slices_fails
  <2>2. QED
    BY <1>4, <2>1, CloseTypes DEF send_slices_fails
<1>5. CASE send_slices_panics
  BY <1>5 DEF send_slices_panics, Panics
<1>6. CASE send_done
  BY <1>6 DEF send_done, Running, Returns
<1>7. QED
  BY Zenon, <1>1, <1>2, <1>3, <1>4, <1>5, <1>6 DEF SendNext

\* Receiving and closing keep the types.
LEMMA TypeReceive ==
    ASSUME TypeOK, ReaderHeld, ReceiveNext
    PROVE  TypeOK'
<1> USE DEF TypeOK, app, shared, control, timers, buffers, beacon, network,
            history
<1>1. /\ 0 \in 0..MaxClients
      /\ {"events", "drain", "receive"} \subseteq Returns
  BY BoundsAssumption DEF Returns
<1>2. ASSUME NEW cmds, read_request(cmds)
      PROVE  inbox' \in [Clients -> Seq(Request)]
  <2>1. reader \in Clients
    BY <1>2 DEF read_request, ReaderHeld
  <2>2. Tail(inbox[reader]) \in Seq(Request)
    BY <1>2, <2>1 DEF read_request
  <2>3. QED
    BY <1>2, <2>1, <2>2 DEF read_request
<1>3. CASE receive_would_block
  BY SMTT(30), <1>1, <1>3 DEF receive_would_block, Running, None
<1>4. CASE receive_eof
  <2>1. close_and_clean_connection("events")
    BY SMTT(30), <1>4 DEF receive_eof
  <2>2. QED
    BY <1>1, <1>4, <2>1, CloseTypes DEF receive_eof, None
<1>5. CASE receive_invalid_header
  <2>1. read_request({"bad"}) /\ close_and_clean_connection("drain")
    BY SMTT(30), <1>5 DEF receive_invalid_header
  <2>2. QED
    BY <1>1, <1>2, <1>5, <2>1, CloseTypes DEF receive_invalid_header
<1>6. CASE read_empty
  <2>1. reader \in Clients /\ <<>> \in Seq(Request)
    BY <1>6 DEF read_empty, ReaderHeld
  <2>2. inbox' \in [Clients -> Seq(Request)]
    BY <1>6, <2>1 DEF read_empty
  <2>3. CASE close_and_clean_connection("events")
    BY <1>1, <1>6, <2>2, <2>3, CloseTypes DEF read_empty, None
  <2>4. CASE /\ pc' = "events"
             /\ UNCHANGED <<client_connected, ret, toClear, connection,
                            queue_timeout, edges>>
    BY <1>1, <1>6, <2>2, <2>4 DEF read_empty, None, Running
  <2>5. QED
    BY <1>6, <2>3, <2>4 DEF read_empty
<1>7. CASE execute_other_command
  BY Zenon, <1>2, <1>7 DEF execute_other_command
<1>8. CASE send_tracepoint_list
  <2>1. inbox' \in [Clients -> Seq(Request)]
    BY <1>2, <1>8 DEF send_tracepoint_list
  <2>2. CASE connection = None /\ pc' = "panic_list"
             /\ UNCHANGED <<client_connected, ret, toClear, connection,
                            queue_timeout, edges, cut>>
    BY <1>8, <2>1, <2>2 DEF send_tracepoint_list, Panics
  <2>3. CASE UNCHANGED <<client_connected, pc, ret, toClear, connection,
                         queue_timeout, edges, cut>>
    BY <1>8, <2>1, <2>3 DEF send_tracepoint_list
  <2>4. CASE /\ write_all("block")
             /\ cut' = cut \cup {connection}
             /\ UNCHANGED <<client_connected, pc, ret, toClear, connection,
                            queue_timeout, edges>>
    <3>1. connection \in Clients
      BY <2>4 DEF write_all, Clients, None
    <3>2. QED
      BY Zenon, <1>8, <2>1, <2>4, <3>1 DEF send_tracepoint_list
  <2>5. CASE close_and_clean_connection("receive") /\ UNCHANGED cut
    BY <1>1, <1>8, <2>1, <2>5, CloseTypes DEF send_tracepoint_list
  <2>6. QED
    BY <1>8, <2>2, <2>3, <2>4, <2>5 DEF send_tracepoint_list
<1>9. CASE set_tracepoints
  <2>1. enabled' \in [Tracepoints -> BOOLEAN]
    BY <1>9 DEF set_tracepoints, store_flag
  <2>2. QED
    BY SMTT(30), <1>2, <1>9, <2>1 DEF set_tracepoints
<1>10. CASE set_tracepoints_fails
  <2>1. read_request({"broken"}) /\ close_and_clean_connection("receive")
    BY <1>10 DEF set_tracepoints_fails
  <2>2. QED
    BY <1>1, <1>2, <1>10, <2>1, CloseTypes DEF set_tracepoints_fails
<1>11. ASSUME NEW t \in Tracepoints, close_clear_flag(t)
       PROVE  TypeOK'
  BY <1>11 DEF close_clear_flag
<1>12. CASE close_start_udp_timer
  <2>1. pc' \in Running \cup Panics \cup {"exit"}
    BY <1>12 DEF close_start_udp_timer, Returns, Running
  <2>2. udp_timeout' \in TimerStates
    BY <1>12 DEF close_start_udp_timer, check_start, TimerStates
  <2>3. QED
    BY <1>12, <2>1, <2>2 DEF close_start_udp_timer
<1>13. QED
  BY Zenon, <1>3, <1>4, <1>5, <1>6, <1>7, <1>8, <1>9, <1>10, <1>11, <1>12
  DEF ReceiveNext

\* Clients and timers keep the types.
LEMMA TypeEnv ==
    ASSUME TypeOK, EnvNext
    PROVE  TypeOK'
<1> USE DEF TypeOK, app, shared, control, timers, buffers, beacon, network,
            history
<1>1. ASSUME NEW c \in Clients, connect(c)
      PROVE  TypeOK'
  BY <1>1 DEF connect
<1>2. ASSUME NEW c \in Clients, NEW r \in Request, request(c, r)
      PROVE  TypeOK'
  <2>1. inbox' \in [Clients -> Seq(Request)]
    BY SMTT(30), <1>2 DEF request
  <2>2. QED
    BY <1>2, <2>1 DEF request, DataEdge
<1>3. ASSUME NEW c \in Clients, NEW how \in {"fin", "rst"}, leave(c, how)
      PROVE  TypeOK'
  BY <1>3 DEF leave, DataEdge
<1>4. CASE queue_elapses
  BY <1>4 DEF queue_elapses, TimerStates
<1>5. CASE udp_elapses
  BY <1>5 DEF udp_elapses, TimerStates
<1>6. QED
  BY Zenon, <1>1, <1>2, <1>3, <1>4, <1>5 DEF EnvNext

\* Every step keeps the types.
LEMMA TypeStep ==
    ASSUME TypeOK, SubmitInFlight, ReaderHeld, [Next]_vars
    PROVE  TypeOK'
<1>1. CASE UNCHANGED vars
  BY <1>1 DEF vars, TypeOK, app, shared, control, timers, buffers, beacon,
              network, history
<1>2. QED
  BY <1>1, TypeApp, TypeLoop, TypeSend, TypeReceive, TypeEnv
  DEF Next, TracerNext
-----------------------------------------------------------------------------
(* The parts of the invariant that types rest on.                          *)

\* Only the application thread touches a submit in flight.
LEMMA SubmitStep ==
    ASSUME TypeOK, SubmitInFlight, [Next]_vars
    PROVE  SubmitInFlight'
<1> USE DEF SubmitInFlight
<1>1. CASE AppNext
  <2>1. ASSUME NEW t \in Tracepoints, NEW n \in DataLens, tracy_submit(t, n)
        PROVE  SubmitInFlight'
    <3>1. n \in 1..MAX_SUBMIT_LEN
      BY <2>1, LensAssumption
      DEF tracy_submit, valid_data_len, MAX_SUBMIT_LEN
    <3>2. QED
      BY SMTT(30), <2>1, <3>1 DEF tracy_submit
  <2>2. CASE tracepoint_enabled
    <3>1. appArg \in Args
      BY DEF TypeOK
    <3>2. [appArg EXCEPT !.sess = connection].data = appArg.data
      BY <3>1 DEF Args
    <3>3. appPc' = "checked" => appArg'.data = appArg.data
      BY Zenon, <2>2, <3>2 DEF tracepoint_enabled
    <3>4. QED
      BY <2>2, <3>3 DEF tracepoint_enabled
  <2>3. QED
    BY Zenon, <1>1, <2>1, <2>2
    DEF AppNext, tracy_register, tracy_submit_send, tracy_finit
<1>2. ASSUME UNCHANGED app
      PROVE  SubmitInFlight'
  BY <1>2 DEF app
<1>3. CASE LoopNext
  BY Zenon, <1>2, <1>3
  DEF LoopNext, tracer_thread_main, poll_events, event_chan, event_timer,
      event_con_new_ignored, establish_connection, establish_connection_fails,
      event_con_data, events_done, channel_payload, channel_new_tracepoint,
      channel_terminate, channel_empty, timer_queue, timer_udp, timer_empty
<1>4. CASE SendNext
  BY <1>2, <1>4
  DEF SendNext, send_pack, send_slices_ok, send_slices_blocked,
      send_slices_fails, send_slices_panics, send_done
<1>5. CASE ReceiveNext
  BY Zenon, <1>2, <1>5
  DEF ReceiveNext, receive_would_block, receive_eof, receive_invalid_header,
      read_empty, execute_other_command, send_tracepoint_list, set_tracepoints,
      set_tracepoints_fails, close_clear_flag, close_start_udp_timer
<1>6. CASE EnvNext
  BY <1>2, <1>6
  DEF EnvNext, connect, request, leave, queue_elapses, udp_elapses
<1>7. QED
  BY <1>1, <1>2, <1>3, <1>4, <1>5, <1>6 DEF Next, TracerNext, vars

\* The application and the environment leave the thread's control alone.
LEMMA ControlUnchanged ==
    ASSUME AppNext \/ EnvNext
    PROVE  UNCHANGED <<control, connection, tracepoints, buffers>>
<1>1. CASE AppNext
  BY Zenon, <1>1 DEF AppNext, tracy_register, tracy_submit, tracepoint_enabled,
              tracy_submit_send, tracy_finit
<1>2. CASE EnvNext
  BY <1>2 DEF EnvNext, connect, request, leave, queue_elapses, udp_elapses
<1>3. QED
  BY <1>1, <1>2

\* A function that reads from a client's socket holds one.
LEMMA ReaderStep ==
    ASSUME TypeOK, ReaderHeld, ReceiveHasConnection, [Next]_vars
    PROVE  ReaderHeld'
<1> USE DEF ReaderHeld, control
<1>1. CASE AppNext \/ EnvNext \/ UNCHANGED vars
  BY <1>1, ControlUnchanged DEF vars
<1>2. CASE LoopNext
  <2>1. CASE event_con_data
    <3>1. connection # None => connection \in Clients
      BY DEF TypeOK, Clients, None
    <3>2. QED
      BY <2>1, <3>1 DEF event_con_data
  <2>2. CASE channel_payload \/ channel_terminate \/ timer_queue
    BY Zenon, <2>2 DEF channel_payload, channel_terminate, timer_queue, try_recv
  <2>3. QED
    BY Zenon, <1>2, <2>1, <2>2
    DEF LoopNext, tracer_thread_main, poll_events, event_chan, event_timer,
        event_con_new_ignored, establish_connection, events_done, take_event,
        establish_connection_fails, channel_new_tracepoint, channel_empty,
        timer_udp, timer_empty, try_recv
<1>3. CASE SendNext
  BY SMTT(30), <1>3
  DEF SendNext, send_pack, send_slices_ok, send_slices_blocked,
      send_slices_fails, send_slices_panics, send_done,
      close_and_clean_connection, FrameDue
<1>4. CASE ReceiveNext
  <2>1. CASE close_start_udp_timer
    BY <2>1 DEF close_start_udp_timer, TypeOK, Returns
  <2>2. CASE receive_would_block \/ receive_eof
    BY <2>2 DEF receive_would_block, receive_eof, close_and_clean_connection
  <2>3. CASE read_empty
    BY <2>3 DEF read_empty, close_and_clean_connection
  <2>4. CASE receive_invalid_header \/ set_tracepoints_fails
    BY <2>4 DEF receive_invalid_header, set_tracepoints_fails, read_request,
                close_and_clean_connection
  <2>5. CASE send_tracepoint_list
    BY <2>5 DEF send_tracepoint_list, read_request, close_and_clean_connection
  <2>6. QED
    BY <1>4, <2>1, <2>2, <2>3, <2>4, <2>5
    DEF ReceiveNext, execute_other_command, set_tracepoints, close_clear_flag
<1>5. QED
  BY <1>1, <1>2, <1>3, <1>4 DEF Next, TracerNext
-----------------------------------------------------------------------------
(* Sessions: announcing stops with a connection, and data events have one. *)

\* Every step keeps the four parts of IInv about sessions.
LEMMA SessionStep ==
    ASSUME TypeOK, NoSessionYet, QuietWhileConnected, DataEventHasConnection,
           ReceiveHasConnection, [Next]_vars
    PROVE  /\ NoSessionYet' /\ QuietWhileConnected'
           /\ DataEventHasConnection' /\ ReceiveHasConnection'
<1> USE DEF NoSessionYet, QuietWhileConnected, DataEventHasConnection,
            ReceiveHasConnection, control, timers, network
<1>1. CASE UNCHANGED vars
  BY <1>1 DEF vars
<1>2. CASE AppNext
  BY Zenon, <1>2 DEF AppNext, tracy_register, tracy_submit, tracepoint_enabled,
              tracy_submit_send, tracy_finit
<1>3. CASE EnvNext
  BY SMTT(30), <1>3 DEF EnvNext, connect, request, leave, queue_elapses, udp_elapses,
              DataEdge, Clients, None
<1>4. CASE LoopNext
  <2>1. CASE tracer_thread_main
    BY Zenon, <2>1 DEF tracer_thread_main
  <2>2. CASE poll_events
    BY <2>2 DEF poll_events, ReadyTokens, ChannelReady, TimerReady
  <2>3. CASE event_chan \/ event_timer
    BY <2>3 DEF event_chan, event_timer, take_event, NextTokens
  <2>4. CASE establish_connection
    <3>1. backlog # <<>> /\ connection' = Head(backlog)
      BY Zenon, <2>4 DEF establish_connection
    <3>2. connection' # None
      BY Zenon, <3>1, FirstWaiting DEF TypeOK
    <3>3. QED
      BY Zenon, <2>4, <3>2 DEF establish_connection, take_event, check_stop
  <2>5. CASE event_con_new_ignored \/ establish_connection_fails
    BY <2>5 DEF event_con_new_ignored, establish_connection_fails, take_event,
                check_stop
  <2>6. CASE event_con_data
    BY Zenon, <2>6 DEF event_con_data, take_event, NextTokens
  <2>7. CASE channel_payload \/ channel_new_tracepoint \/ channel_terminate
             \/ channel_empty
    BY <2>7 DEF channel_payload, channel_new_tracepoint, channel_terminate,
                channel_empty, try_recv
  <2>8. CASE timer_queue \/ timer_udp \/ timer_empty
    BY Zenon, <2>8 DEF timer_queue, timer_udp, timer_empty
  <2>9. QED
    BY <1>4, <2>1, <2>2, <2>3, <2>4, <2>5, <2>6, <2>7, <2>8
    DEF LoopNext, events_done
<1>5. CASE SendNext
  <2>1. CASE send_slices_fails
    BY <2>1 DEF send_slices_fails, close_and_clean_connection, FrameDue
  <2>2. CASE send_done
    BY SMTT(30), <2>2 DEF send_done, TypeOK, Returns
  <2>3. QED
    BY <1>5, <2>1, <2>2
    DEF SendNext, send_pack, send_slices_ok, send_slices_blocked,
        send_slices_panics, FrameDue
<1>6. CASE ReceiveNext
  <2>1. CASE receive_would_block \/ receive_eof
    BY <2>1 DEF receive_would_block, receive_eof, close_and_clean_connection
  <2>2. CASE receive_invalid_header \/ set_tracepoints_fails
    BY <2>2 DEF receive_invalid_header, set_tracepoints_fails, read_request,
                close_and_clean_connection
  <2>3. CASE read_empty
    BY Zenon, <2>3 DEF read_empty, close_and_clean_connection
  <2>4. CASE send_tracepoint_list
    BY <2>4 DEF send_tracepoint_list, read_request, close_and_clean_connection
  <2>5. CASE execute_other_command \/ set_tracepoints
    BY <2>5 DEF execute_other_command, set_tracepoints
  <2>6. ASSUME NEW t \in Tracepoints, close_clear_flag(t)
        PROVE  /\ NoSessionYet' /\ QuietWhileConnected'
               /\ DataEventHasConnection' /\ ReceiveHasConnection'
    BY <2>6 DEF close_clear_flag
  <2>7. CASE close_start_udp_timer
    BY <2>7 DEF close_start_udp_timer, TypeOK, Returns
  <2>8. QED
    BY Zenon, <1>6, <2>1, <2>2, <2>3, <2>4, <2>5, <2>6, <2>7 DEF ReceiveNext
<1>7. QED
  BY <1>1, <1>2, <1>3, <1>4, <1>5, <1>6 DEF Next, TracerNext
-----------------------------------------------------------------------------
(* Frames.                                                                 *)

\* Every step keeps the bound on the queue of send_trace_data.
LEMMA FrameStep ==
    ASSUME TypeOK, FrameFits, EmptyQueIsEmpty, [Next]_vars
    PROVE  FrameFits' /\ EmptyQueIsEmpty'
<1> USE DEF FrameFits, EmptyQueIsEmpty
<1>1. ASSUME UNCHANGED <<que, queLen>>
      PROVE  FrameFits' /\ EmptyQueIsEmpty'
  BY <1>1
<1>2. CASE AppNext \/ EnvNext \/ UNCHANGED vars
  BY <1>1, <1>2, ControlUnchanged DEF vars, buffers
<1>3. CASE LoopNext
  BY Zenon, <1>1, <1>3
  DEF LoopNext, tracer_thread_main, poll_events, event_chan, event_timer,
      event_con_new_ignored, establish_connection, establish_connection_fails,
      event_con_data, events_done, channel_payload, channel_new_tracepoint,
      channel_terminate, channel_empty, timer_queue, timer_udp, timer_empty,
      buffers
<1>4. CASE ReceiveNext
  BY Zenon, <1>1, <1>4
  DEF ReceiveNext, receive_would_block, receive_eof, receive_invalid_header,
      read_empty, execute_other_command, send_tracepoint_list, set_tracepoints,
      set_tracepoints_fails, close_clear_flag, close_start_udp_timer, buffers
<1>5. CASE send_pack
  <2>1. Head(buffer) \in Element /\ que \in Seq(Element) /\ queLen \in Nat
    BY <1>5 DEF send_pack, TypeOK
  <2>2. que' # <<>>
    BY <1>5, <2>1 DEF send_pack
  <2> DEFINE l == BufferElementLen(Head(buffer))
  <2>3. l \in Nat /\ queLen' = queLen + (l + 4) /\ l + queLen + 12 < 4096
    BY SMTT(30), <1>5, <2>1, ElementSizes
    DEF send_pack, Fits, HEADER_LEN, QUEUE_TOTAL_SIZE
  <2> HIDE DEF l
  <2>4. queLen' + 12 <= 4096 + 3
    BY <2>1, <2>3
  <2>5. QED
    BY <2>2, <2>4 DEF HEADER_LEN, QUEUE_TOTAL_SIZE
<1>6. CASE send_slices_ok \/ send_slices_blocked \/ send_slices_fails
  BY <1>6 DEF send_slices_ok, send_slices_blocked, send_slices_fails,
              HEADER_LEN, QUEUE_TOTAL_SIZE
<1>7. CASE send_slices_panics \/ send_done
  BY <1>1, <1>7 DEF send_slices_panics, send_done, buffers
<1>8. QED
  BY <1>2, <1>3, <1>4, <1>5, <1>6, <1>7 DEF Next, TracerNext, SendNext
-----------------------------------------------------------------------------
(* Handing tracepoints over.                                               *)

\* Only a running thread takes a step.
LEMMA TracerRuns ==
    ASSUME TracerNext
    PROVE  Alive
<1> USE DEF Alive, Running
<1>1. CASE LoopNext
  BY Zenon, <1>1
  DEF LoopNext, tracer_thread_main, poll_events, event_chan, event_timer,
      event_con_new_ignored, establish_connection, establish_connection_fails,
      event_con_data, events_done, channel_payload, channel_new_tracepoint,
      channel_terminate, channel_empty, timer_queue, timer_udp, timer_empty,
      take_event, try_recv
<1>2. CASE SendNext
  BY <1>2
  DEF SendNext, send_pack, send_slices_ok, send_slices_blocked,
      send_slices_fails, send_slices_panics, send_done, FrameDue
<1>3. CASE ReceiveNext
  BY Zenon, <1>3
  DEF ReceiveNext, receive_would_block, receive_eof, receive_invalid_header,
      read_empty, execute_other_command, send_tracepoint_list, set_tracepoints,
      set_tracepoints_fails, close_clear_flag, close_start_udp_timer,
      read_request
<1>4. QED
  BY <1>1, <1>2, <1>3 DEF TracerNext

\* What a message at the end of the channel changes.
LEMMA ChannelAppend ==
    ASSUME channel \in Seq(Message), NEW m \in Message,
           channel' = Append(channel, m), RegisteredOnce,
           m.kind = "tracepoint" => m.tp \in Tracepoints \ InChannel
    PROVE  /\ RegisteredOnce'
           /\ m.kind = "tracepoint" => InChannel' = InChannel \cup {m.tp}
           /\ m.kind # "tracepoint" => InChannel' = InChannel
<1>1. /\ DOMAIN channel = 1..Len(channel) /\ Len(channel) \in Nat
      /\ DOMAIN channel' = 1..(Len(channel) + 1)
      /\ \A i \in 1..Len(channel) : channel'[i] = channel[i]
      /\ channel'[Len(channel) + 1] = m
  OBVIOUS
<1>2. \A i \in DOMAIN channel' : i \in DOMAIN channel \/ i = Len(channel) + 1
  BY SMTT(30), <1>1
<1>3. RegisteredOnce'
  <2>1. \A i \in DOMAIN channel : ~(/\ m.kind = "tracepoint"
                                    /\ channel[i].kind = "tracepoint"
                                    /\ channel[i].tp = m.tp)
    BY Zenon DEF InChannel
  <2>2. \A i \in DOMAIN channel' :
           \/ i \in DOMAIN channel /\ channel'[i] = channel[i]
           \/ i = Len(channel) + 1 /\ channel'[i] = m
    BY Zenon, <1>1, <1>2
  <2>3. ASSUME NEW i \in DOMAIN channel', NEW j \in DOMAIN channel',
               channel'[i].kind = "tracepoint", channel'[j].kind = "tracepoint",
               channel'[i].tp = channel'[j].tp
        PROVE  i = j
    <3>1. CASE i = Len(channel) + 1 /\ channel'[i] = m
      BY Zenon, <2>1, <2>2, <2>3, <3>1
    <3>2. CASE j = Len(channel) + 1 /\ channel'[j] = m
      BY Zenon, <2>1, <2>2, <2>3, <3>2
    <3>3. CASE /\ i \in DOMAIN channel /\ channel'[i] = channel[i]
               /\ j \in DOMAIN channel /\ channel'[j] = channel[j]
      BY Zenon, <2>3, <3>3 DEF RegisteredOnce
    <3>4. QED
      BY Zenon, <2>2, <3>1, <3>2, <3>3
  <2>4. QED
    BY Zenon, <2>3 DEF RegisteredOnce
<1>4. ASSUME NEW t \in Tracepoints
      PROVE  t \in InChannel' <=> \/ t \in InChannel
                                  \/ m.kind = "tracepoint" /\ m.tp = t
  BY <1>1, <1>2 DEF InChannel
<1>5. InChannel \subseteq Tracepoints /\ InChannel' \subseteq Tracepoints
  BY DEF InChannel
<1>6. QED
  BY Zenon, <1>3, <1>4, <1>5

\* What taking the first message changes.
LEMMA ChannelTail ==
    ASSUME channel \in Seq(Message), channel # <<>>,
           channel' = Tail(channel), RegisteredOnce
    PROVE  /\ RegisteredOnce'
           /\ Head(channel).kind = "tracepoint"
                => InChannel' = InChannel \ {Head(channel).tp}
           /\ Head(channel).kind # "tracepoint" => InChannel' = InChannel
<1>1. /\ Len(channel) \in Nat \ {0} /\ DOMAIN channel = 1..Len(channel)
      /\ DOMAIN channel' = 1..(Len(channel) - 1)
      /\ \A i \in 1..(Len(channel) - 1) : channel'[i] = channel[i + 1]
      /\ Head(channel) = channel[1]
  OBVIOUS
<1>2. /\ \A i \in DOMAIN channel' : i + 1 \in DOMAIN channel /\ i + 1 # 1
      /\ \A j \in DOMAIN channel : j # 1 => j - 1 \in DOMAIN channel'
                                           /\ channel'[j - 1] = channel[j]
  BY <1>1
<1>3. RegisteredOnce'
  BY SMTT(30), <1>1, <1>2 DEF RegisteredOnce
<1>4. \A t \in InChannel' :
        t \in InChannel /\ (Head(channel).kind = "tracepoint" => t # Head(channel).tp)
  BY <1>1, <1>2 DEF InChannel, RegisteredOnce
<1>5. \A t \in InChannel :
        (Head(channel).kind = "tracepoint" => t # Head(channel).tp) => t \in InChannel'
  BY Zenon, <1>1, <1>2 DEF InChannel
<1>6. QED
  BY Zenon, <1>3, <1>4, <1>5

\* The application thread keeps the hand-over.
LEMMA HandOverApp ==
    ASSUME TypeOK, SubmitInFlight, TracepointsHandedOver, RegisteredOnce,
           AppNext
    PROVE  TracepointsHandedOver' /\ RegisteredOnce'
<1> USE DEF TracepointsHandedOver
<1>1. channel \in Seq(Message)
  BY DEF TypeOK
<1>2. UNCHANGED <<pc, tracepoints, enabled>>
  BY Zenon DEF AppNext, tracy_register, tracy_submit, tracepoint_enabled,
         tracy_submit_send, tracy_finit, control, shared
<1>3. Alive' = Alive
  BY <1>2 DEF Alive
<1>4. ASSUME UNCHANGED <<appTps, channel>>
      PROVE  TracepointsHandedOver' /\ RegisteredOnce'
  BY Zenon, <1>2, <1>3, <1>4 DEF InChannel, RegisteredOnce
<1>5. ASSUME NEW t \in Tracepoints, tracy_register(t)
      PROVE  TracepointsHandedOver' /\ RegisteredOnce'
  <2> DEFINE m == [kind |-> "tracepoint", tp |-> t]
  <2>1. m \in Message /\ m.kind = "tracepoint" /\ m.tp = t
    BY DEF Message
  <2>2. CASE Alive
    <3>1. t \notin tracepoints /\ t \notin InChannel
      BY <1>5, <2>2 DEF tracy_register
    <3>2. channel' = Append(channel, m) /\ appTps' = appTps \cup {t}
      BY SMTT(30), <1>5, <2>2 DEF tracy_register, send_to_tracer
    <3> HIDE DEF m
    <3>3. RegisteredOnce' /\ InChannel' = InChannel \cup {t}
      BY Zenon, <1>1, <2>1, <3>1, <3>2, ChannelAppend
    <3>4. QED
      BY <1>2, <1>3, <2>2, <3>1, <3>2, <3>3
  <2>3. CASE ~Alive
    <3>1. channel' = channel
      BY Zenon, <1>5, <2>3 DEF tracy_register, send_to_tracer
    <3>2. QED
      BY <1>2, <1>3, <2>3, <3>1 DEF InChannel, RegisteredOnce
  <2>4. QED
    BY Zenon, <2>2, <2>3
<1>6. ASSUME NEW m \in Message, m.kind # "tracepoint", send_to_tracer(m),
             UNCHANGED appTps
      PROVE  TracepointsHandedOver' /\ RegisteredOnce'
  <2>1. CASE Alive
    <3>1. RegisteredOnce' /\ InChannel' = InChannel
      BY Zenon, <1>1, <1>6, <2>1, ChannelAppend DEF send_to_tracer
    <3>2. QED
      BY Zenon, <1>2, <1>3, <1>6, <3>1
  <2>2. CASE ~Alive
    BY SMTT(30), <1>4, <1>6, <2>2 DEF send_to_tracer
  <2>3. QED
    BY <2>1, <2>2
<1>7. CASE tracy_submit_send
  <2> DEFINE m == [kind |-> "payload",
                   elem |-> [id |-> nsubmit + 1, tp |-> appArg.tp,
                             data |-> appArg.data, sess |-> appArg.sess]]
  <2>1. appPc = "checked" /\ send_to_tracer(m) /\ UNCHANGED appTps
    BY Zenon, <1>7 DEF tracy_submit_send
  <2>2. m \in Message
    BY Zenon, <2>1, SubmittedIsElement
  <2>3. m.kind # "tracepoint"
    OBVIOUS
  <2> HIDE DEF m
  <2>4. QED
    BY Zenon, <1>6, <2>1, <2>2, <2>3
<1>8. CASE tracy_finit
  <2>1. [kind |-> "terminate"] \in Message
    BY SMTT(30) DEF Message
  <2>2. QED
    BY <1>6, <1>8, <2>1 DEF tracy_finit
<1>9. ASSUME NEW t \in Tracepoints, NEW n \in DataLens, tracy_submit(t, n)
      PROVE  TracepointsHandedOver' /\ RegisteredOnce'
  BY <1>4, <1>9 DEF tracy_submit, shared
<1>10. CASE tracepoint_enabled
  BY <1>4, <1>10 DEF tracepoint_enabled, shared
<1>11. QED
  BY Zenon, <1>5, <1>7, <1>8, <1>9, <1>10 DEF AppNext

\* The tracer thread keeps the hand-over.
LEMMA HandOverTracer ==
    ASSUME TypeOK, TracepointsHandedOver, RegisteredOnce, TracerNext
    PROVE  TracepointsHandedOver' /\ RegisteredOnce'
<1> USE DEF TracepointsHandedOver, app, shared, control
<1>1. Alive /\ channel \in Seq(Message)
  BY TracerRuns DEF TypeOK
<1>2. ASSUME UNCHANGED <<appTps, channel, tracepoints, enabled>>
      PROVE  TracepointsHandedOver' /\ RegisteredOnce'
  BY Zenon, <1>1, <1>2 DEF InChannel, RegisteredOnce
<1>3. CASE channel_payload \/ channel_terminate
  <2>1. RegisteredOnce' /\ InChannel' = InChannel
    BY SMTT(30), <1>1, <1>3, ChannelTail
    DEF channel_payload, channel_terminate, try_recv
  <2>2. UNCHANGED <<appTps, tracepoints, enabled>>
    BY <1>3 DEF channel_payload, channel_terminate
  <2>3. QED
    BY Zenon, <1>1, <2>1, <2>2
<1>4. CASE channel_new_tracepoint
  <2> DEFINE t == Head(channel).tp
  <2>1. RegisteredOnce' /\ InChannel' = InChannel \ {t}
    BY Zenon, <1>1, <1>4, ChannelTail DEF channel_new_tracepoint, try_recv
  <2>2. t \in InChannel
    <3>1. /\ Head(channel) \in Message /\ Head(channel).kind = "tracepoint"
          /\ 1 \in DOMAIN channel /\ Head(channel) = channel[1]
      BY <1>1, <1>4 DEF channel_new_tracepoint, try_recv
    <3>2. t \in Tracepoints
      BY SMTT(30), <3>1 DEF Message
    <3>3. QED
      BY SMTT(30), <3>1, <3>2 DEF InChannel
  <2>3. tracepoints' = tracepoints \cup {t} /\ UNCHANGED <<appTps, enabled>>
    BY Zenon, <1>4 DEF channel_new_tracepoint
  <2> HIDE DEF t
  <2>4. QED
    BY <1>1, <2>1, <2>2, <2>3
<1>5. CASE set_tracepoints
  <2>1. UNCHANGED <<appTps, channel, tracepoints>>
    BY Zenon, <1>5 DEF set_tracepoints
  <2>2. \A t \in Tracepoints : enabled'[t] => t \in tracepoints
    BY Zenon, <1>5 DEF set_tracepoints, store_flag, TypeOK
  <2>3. QED
    BY <1>1, <2>1, <2>2 DEF InChannel, RegisteredOnce
<1>6. ASSUME NEW t \in Tracepoints, close_clear_flag(t)
      PROVE  TracepointsHandedOver' /\ RegisteredOnce'
  <2>1. UNCHANGED <<appTps, channel, tracepoints>>
    BY SMTT(30), <1>6 DEF close_clear_flag
  <2>2. \A u \in Tracepoints : enabled'[u] => u \in tracepoints
    BY <1>6 DEF close_clear_flag, TypeOK
  <2>3. QED
    BY <1>1, <2>1, <2>2 DEF InChannel, RegisteredOnce
<1>7. CASE SendNext
  BY Zenon, <1>2, <1>7
  DEF SendNext, send_pack, send_slices_ok, send_slices_blocked,
      send_slices_fails, send_slices_panics, send_done
<1>8. QED
  BY Zenon, <1>2, <1>3, <1>4, <1>5, <1>6, <1>7
  DEF TracerNext, LoopNext, ReceiveNext, tracer_thread_main, poll_events,
      event_chan, event_timer, event_con_new_ignored, establish_connection,
      establish_connection_fails, event_con_data, events_done, channel_empty,
      timer_queue, timer_udp, timer_empty, receive_would_block, receive_eof,
      receive_invalid_header, read_empty, execute_other_command,
      send_tracepoint_list, set_tracepoints_fails, close_start_udp_timer

\* Every step keeps the hand-over.
LEMMA HandOverStep ==
    ASSUME TypeOK, SubmitInFlight, TracepointsHandedOver, RegisteredOnce,
           [Next]_vars
    PROVE  TracepointsHandedOver' /\ RegisteredOnce'
<1>1. CASE EnvNext \/ UNCHANGED vars
  BY Zenon, <1>1 DEF EnvNext, connect, request, leave, queue_elapses, udp_elapses,
              vars, app, shared, control, TracepointsHandedOver,
              RegisteredOnce, InChannel, Alive
<1>2. QED
  BY <1>1, HandOverApp, HandOverTracer DEF Next
\* Every step keeps what a close in progress has cleared.
LEMMA ClearedStep ==
    ASSUME TypeOK, TracepointsHandedOver, ClearedFlags, [Next]_vars
    PROVE  ClearedFlags'
<1> USE DEF ClearedFlags, app, shared, control
<1>1. \A t \in Tracepoints : enabled[t] => t \in tracepoints
  BY DEF TracepointsHandedOver
<1>2. ASSUME NEW caller \in Returns, close_and_clean_connection(caller),
             UNCHANGED enabled
      PROVE  ClearedFlags'
  BY <1>1, <1>2 DEF close_and_clean_connection, flags_to_clear
<1>3. CASE AppNext \/ EnvNext \/ UNCHANGED vars
  <2>1. UNCHANGED <<pc, toClear, enabled>>
    BY Zenon, <1>3
    DEF AppNext, tracy_register, tracy_submit, tracepoint_enabled,
        tracy_submit_send, tracy_finit, EnvNext, connect, request, leave,
        queue_elapses, udp_elapses, vars
  <2>2. QED
    BY <2>1
<1>4. CASE LoopNext
  <2>1. pc' # "close" \/ UNCHANGED <<pc, toClear, enabled>>
    BY Zenon, <1>4
    DEF LoopNext, tracer_thread_main, poll_events, event_chan, event_timer,
        event_con_new_ignored, establish_connection,
        establish_connection_fails, event_con_data, events_done,
        channel_payload, channel_new_tracepoint, channel_terminate,
        channel_empty, timer_queue, timer_udp, timer_empty
  <2>2. QED
    BY <2>1
<1>5. CASE SendNext
  <2>1. CASE send_slices_fails
    BY SMTT(30), <1>2, <2>1 DEF send_slices_fails, TypeOK
  <2>2. CASE send_done
    BY <2>2 DEF send_done, TypeOK, Returns
  <2>3. QED
    BY Zenon, <1>5, <2>1, <2>2
    DEF SendNext, send_pack, send_slices_ok, send_slices_blocked,
        send_slices_panics, FrameDue
<1>6. CASE ReceiveNext
  <2>1. {"events", "drain", "receive"} \subseteq Returns
    BY DEF Returns
  <2>2. CASE receive_eof \/ receive_invalid_header \/ set_tracepoints_fails
    BY Zenon, <1>2, <2>1, <2>2
    DEF receive_eof, receive_invalid_header, set_tracepoints_fails
  <2>3. CASE read_empty
    BY SMTT(30), <1>2, <2>1, <2>3 DEF read_empty
  <2>4. CASE send_tracepoint_list
    BY SMTT(30), <1>2, <2>1, <2>4 DEF send_tracepoint_list, read_request
  <2>5. ASSUME NEW t \in Tracepoints, close_clear_flag(t)
        PROVE  ClearedFlags'
    BY Zenon, <2>5 DEF close_clear_flag, TypeOK
  <2>6. CASE close_start_udp_timer
    BY SMTT(30), <2>6 DEF close_start_udp_timer, TypeOK, Returns
  <2>7. QED
    BY Zenon, <1>6, <2>2, <2>3, <2>4, <2>5, <2>6
    DEF ReceiveNext, receive_would_block, execute_other_command,
        set_tracepoints, read_request
<1>7. QED
  BY <1>3, <1>4, <1>5, <1>6 DEF Next, TracerNext

\* Every step leaves each connection request a client of its own: accepting uses
\* up one of each, and a poll moves the request from mio into the batch.
LEMMA RequestStep ==
    ASSUME TypeOK, RequestHasClient, [Next]_vars
    PROVE  RequestHasClient'
<1> DEFINE NoMore == /\ backlog' = backlog
                     /\ "CON_NEW" \in edges' => "CON_NEW" \in edges
                     /\ "CON_NEW" \in batch' => "CON_NEW" \in batch
<1> USE DEF RequestHasClient, RequestsIn
<1>1. Len(backlog) \in Nat
  BY DEF TypeOK
<1>2. CASE NoMore
  BY <1>1, <1>2
<1>3. CASE poll_events
  <2>1. /\ backlog' = backlog /\ edges' = {}
        /\ "CON_NEW" \in batch' => "CON_NEW" \in edges
    BY <1>3 DEF poll_events, ReadyTokens, ChannelReady, TimerReady
  <2>2. QED
    BY <1>1, <2>1
<1>4. CASE establish_connection
  <2>1. /\ backlog # <<>> /\ backlog' = Tail(backlog)
        /\ "CON_NEW" \in edges' => "CON_NEW" \in edges
        /\ "CON_NEW" \in batch /\ "CON_NEW" \notin batch'
    BY <1>4 DEF establish_connection, remaining_backlog, take_event, NextTokens
  <2>2. Len(backlog') = Len(backlog) - 1
    BY <2>1 DEF TypeOK
  <2>3. QED
    BY <1>1, <2>1, <2>2
<1>5. ASSUME NEW c \in Clients, connect(c)
      PROVE  RequestHasClient'
  <2>1. backlog' = Append(backlog, c) /\ batch' = batch
    BY <1>5 DEF connect, control
  <2>2. Len(backlog') = Len(backlog) + 1
    BY <2>1 DEF TypeOK
  <2>3. QED
    BY <1>1, <2>1, <2>2
<1> USE DEF control, network
<1>6. CASE AppNext \/ UNCHANGED vars
  BY Zenon, <1>2, <1>6
  DEF AppNext, tracy_register, tracy_submit, tracepoint_enabled,
      tracy_submit_send, tracy_finit, vars
<1>7. CASE EnvNext
  <2>1. ASSUME NEW c \in Clients, backlog' = backlog, batch' = batch,
               edges' = DataEdge(c)
        PROVE  NoMore
    BY <2>1 DEF DataEdge
  <2>2. QED
    BY <1>2, <1>5, <1>7, <2>1
    DEF EnvNext, request, leave, queue_elapses, udp_elapses
<1>8. CASE LoopNext
  <2>1. CASE \/ event_chan \/ event_timer \/ event_con_new_ignored
             \/ establish_connection_fails \/ event_con_data
    <3>1. backlog' = backlog /\ edges' = edges /\ \E token : take_event(token)
      BY Zenon, <2>1
      DEF event_chan, event_timer, event_con_new_ignored,
          establish_connection_fails, event_con_data
    <3>2. \A x : x \in batch' => x \in batch
      BY Zenon, <3>1 DEF take_event
    <3>3. QED
      BY Zenon, <1>2, <3>1, <3>2
  <2>2. QED
    BY Zenon, <1>2, <1>3, <1>4, <1>8, <2>1
    DEF LoopNext, tracer_thread_main, events_done, channel_payload,
        channel_new_tracepoint, channel_terminate, channel_empty, timer_queue,
        timer_udp, timer_empty
<1>9. CASE SendNext
  BY <1>2, <1>9
  DEF SendNext, send_pack, send_slices_ok, send_slices_blocked,
      send_slices_fails, send_slices_panics, send_done,
      close_and_clean_connection
<1>10. CASE ReceiveNext
  <2>1. ASSUME NEW caller, close_and_clean_connection(caller),
               backlog' = backlog, batch' = batch
        PROVE  NoMore
    BY <2>1 DEF close_and_clean_connection
  <2>2. NoMore
    BY Zenon, <1>10, <2>1
    DEF ReceiveNext, receive_would_block, receive_eof, receive_invalid_header,
        read_empty, execute_other_command, send_tracepoint_list,
        set_tracepoints, set_tracepoints_fails, close_clear_flag,
        close_start_udp_timer
  <2>3. QED
    BY <1>2, <2>2
<1>11. QED
  BY <1>6, <1>7, <1>8, <1>9, <1>10 DEF Next, TracerNext
-----------------------------------------------------------------------------
(* The theorems.                                                           *)

\* The first state satisfies the invariant.
LEMMA InitIInv == Init => IInv
<1> SUFFICES ASSUME Init PROVE IInv
  OBVIOUS
<1> USE DEF Init, None
<1>1. TypeOK
  <2>1. appArg \in Args
    <3>1. (CHOOSE t \in Tracepoints : TRUE) \in Tracepoints
      BY NamesAssumption
    <3>2. 0 \in 0..MaxClients
      BY BoundsAssumption
    <3>3. QED
      BY <3>1, <3>2 DEF NoArg, Args
  <2>2. 0 \in 0..MaxClients /\ announce \in BOOLEAN
    BY BoundsAssumption, AnnouncingAssumption
  <2>3. /\ peer \in [Clients -> {"away", "open", "fin", "rst"}]
        /\ inbox \in [Clients -> Seq(Request)]
        /\ enabled \in [Tracepoints -> BOOLEAN]
    OBVIOUS
  <2>4. /\ channel \in Seq(Message) /\ backlog \in Seq(Clients)
        /\ buffer \in Seq(Element) /\ que \in Seq(Element)
        /\ sent \in Seq([elem : Element, to : Clients, aligned : BOOLEAN])
    OBVIOUS
  <2>5. /\ pc \in Running \cup Panics \cup {"exit"} /\ ret \in Returns
        /\ queue_timeout \in TimerStates /\ udp_timeout \in TimerStates
    BY DEF Running, Returns, TimerStates
  <2>6. QED
    BY Zenon, <2>1, <2>2, <2>3, <2>4, <2>5 DEF TypeOK
<1>2. InChannel = {}
  BY DEF InChannel
<1>3. RequestHasClient
  BY DEF RequestHasClient, RequestsIn
<1>4. /\ SubmitInFlight /\ ReaderHeld /\ NoSessionYet
      /\ QuietWhileConnected /\ DataEventHasConnection /\ ReceiveHasConnection
  BY DEF SubmitInFlight, ReaderHeld, NoSessionYet, QuietWhileConnected,
         DataEventHasConnection, ReceiveHasConnection
<1>5. TracepointsHandedOver /\ RegisteredOnce
  BY <1>2 DEF TracepointsHandedOver, RegisteredOnce
<1>6. ClearedFlags /\ FrameFits /\ EmptyQueIsEmpty
  BY DEF ClearedFlags, FrameFits, EmptyQueIsEmpty, HEADER_LEN,
         QUEUE_TOTAL_SIZE
<1>7. QED
  BY Zenon, <1>1, <1>3, <1>4, <1>5, <1>6 DEF IInv

\* IInv is inductive.
THEOREM Invariance == Spec => []IInv
<1>1. IInv /\ [Next]_vars => IInv'
  BY TypeStep, SubmitStep, ReaderStep, SessionStep, FrameStep, HandOverStep,
     ClearedStep, RequestStep
  DEF IInv
<1>2. QED
  BY InitIInv, <1>1, PTL DEF Spec

\* Every variable keeps its type, in every instance.
THEOREM TypeCorrect == Spec => []TypeOK
  BY Invariance, PTL DEF IInv

\* No announcement is scheduled while a client is connected.
THEOREM Quiet == Spec => []QuietWhileConnected
  BY Invariance, PTL DEF IInv

\* receive never finds the connection gone.
THEOREM ReceiveSafe == Spec => []ReceiveHasConnection
  BY Invariance, PTL DEF IInv

\* Tracepoints are in exactly one place on their way to the thread, and only
\* tracepoints the thread knows are enabled.
THEOREM HandedOver == Spec => []TracepointsHandedOver
  BY Invariance, PTL DEF IInv

\* A frame never exceeds QUEUE_TOTAL_SIZE by more than three bytes.
THEOREM FrameBound == Spec => []FrameFits
  BY Invariance, PTL DEF IInv

\* Every element fits into an empty queue, so send_trace_data never sends a
\* frame without data and its loop comes to an end.
THEOREM NoEmptyFrame == Spec => []FramesCarryData
<1>1. IInv => FramesCarryData
  <2> SUFFICES ASSUME IInv, FrameDue, que = <<>>
               PROVE  FALSE
    BY DEF FramesCarryData
  <2>1. queLen = 0 /\ buffer # <<>> /\ ~Fits(Head(buffer))
    BY SMTT(30) DEF IInv, EmptyQueIsEmpty, FrameDue
  <2>2. Head(buffer) \in Element
    BY <2>1 DEF IInv, TypeOK
  <2>3. BufferElementLen(Head(buffer)) \in Nat
        /\ BufferElementLen(Head(buffer)) <= 2088
    BY <2>2, ElementSizes
  <2>4. QED
    BY <2>1, <2>3 DEF Fits, HEADER_LEN, QUEUE_TOTAL_SIZE
<1>2. QED
  BY Invariance, <1>1, PTL

\* Closing a connection leaves every tracepoint disabled: only the last step of
\* close leaves it, and it is taken when no flag is left to clear.
THEOREM CloseDisables == Spec => CloseDisablesAll
<1>1. IInv /\ [Next]_vars
      => [(pc = "close" /\ pc' # "close")
             => \A t \in Tracepoints : ~enabled'[t]]_vars
  <2> SUFFICES ASSUME IInv, Next, pc = "close", pc' # "close"
               PROVE  \A t \in Tracepoints : ~enabled'[t]
    OBVIOUS
  <2>1. CASE close_start_udp_timer
    <3>1. enabled' = enabled /\ toClear = {}
      BY <2>1 DEF close_start_udp_timer, shared
    <3>2. \A t \in Tracepoints : ~enabled[t]
      BY <3>1 DEF IInv, ClearedFlags
    <3>3. QED
      BY <3>1, <3>2
  <2>2. CASE AppNext \/ EnvNext
    BY <2>2, ControlUnchanged DEF control
  <2>3. CASE LoopNext
    BY Zenon, <2>3
    DEF LoopNext, tracer_thread_main, poll_events, event_chan, event_timer,
        event_con_new_ignored, establish_connection, take_event, try_recv,
        establish_connection_fails, event_con_data, events_done,
        channel_payload, channel_new_tracepoint, channel_terminate,
        channel_empty, timer_queue, timer_udp, timer_empty
  <2>4. CASE SendNext
    BY <2>4
    DEF SendNext, send_pack, send_slices_ok, send_slices_blocked,
        send_slices_fails, send_slices_panics, send_done, FrameDue
  <2>5. CASE ReceiveNext
    BY Zenon, <2>1, <2>5
    DEF ReceiveNext, receive_would_block, receive_eof, receive_invalid_header,
        read_empty, execute_other_command, send_tracepoint_list,
        set_tracepoints, set_tracepoints_fails, close_clear_flag, read_request
  <2>6. QED
    BY <2>2, <2>3, <2>4, <2>5 DEF Next, TracerNext
<1>2. QED
  BY Invariance, <1>1, PTL DEF Spec, CloseDisablesAll

\* accept() is only called for a client that waits: a request pending, in mio or
\* in the batch, has a client of its own in the backlog.
THEOREM AcceptFinds == Spec => []AcceptFindsClient
<1>1. IInv => AcceptFindsClient
  <2> SUFFICES ASSUME IInv, "CON_NEW" \in batch
               PROVE  backlog # <<>>
    BY DEF AcceptFindsClient
  <2>1. RequestsIn(batch) = 1 /\ RequestsIn(edges) \in Nat
    BY DEF RequestsIn
  <2>2. QED
    BY <2>1 DEF IInv, TypeOK, RequestHasClient
<1>2. QED
  BY Invariance, <1>1, PTL
=============================================================================
