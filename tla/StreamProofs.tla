---------------------------- MODULE StreamProofs ----------------------------
(***************************************************************************)
(* The way of a payload from tracy_submit to the socket, in every instance *)
(* of Tracer: it is what TraceStream promises, data of the session never   *)
(* waits without a timer, and nothing is left behind at the exit.          *)
(***************************************************************************)
EXTENDS TracerProofs

(* Steps that leave payloads where they are.                               *)

places == <<nsubmit, channel, buffer, que, left>>

\* Only these actions move a payload or change the channel.
Moves ==
    \/ \E t \in Tracepoints : tracy_register(t)
    \/ tracy_submit_send \/ tracy_finit
    \/ channel_payload \/ channel_new_tracepoint \/ channel_terminate
    \/ send_pack \/ send_slices_ok \/ send_slices_blocked \/ send_slices_fails

LEMMA OtherSteps ==
    ASSUME [Next]_vars, ~Moves
    PROVE  UNCHANGED <<places, sent>>
<1> USE DEF Moves, places, app, shared, control, buffers, history
<1>1. CASE AppNext
  BY Zenon, <1>1 DEF AppNext, tracy_submit, tracepoint_enabled
<1>2. CASE EnvNext
  BY <1>2 DEF EnvNext, connect, request, leave, queue_elapses, udp_elapses
<1>3. CASE LoopNext
  BY Zenon, <1>3
  DEF LoopNext, tracer_thread_main, poll_events, event_chan, event_timer,
      event_con_new_ignored, establish_connection, establish_connection_fails,
      event_con_data, events_done, channel_empty, timer_queue, timer_udp,
      timer_empty
<1>4. CASE SendNext
  BY <1>4 DEF SendNext, send_slices_panics, send_done
<1>5. CASE ReceiveNext
  BY Zenon, <1>5
  DEF ReceiveNext, receive_would_block, receive_eof, receive_invalid_header,
      read_empty, execute_other_command, send_tracepoint_list, set_tracepoints,
      set_tracepoints_fails, close_clear_flag, close_start_udp_timer
<1>6. CASE UNCHANGED vars
  BY <1>6 DEF vars
<1>7. QED
  BY <1>1, <1>2, <1>3, <1>4, <1>5, <1>6 DEF Next, TracerNext
-----------------------------------------------------------------------------
(* Payloads stay in order.                                                 *)

\* A message that is not a payload enters the channel.
LEMMA OrderControl ==
    ASSUME TypeOK, ChannelInOrder, NEW m \in Message, m.kind # "payload",
           send_to_tracer(m), UNCHANGED <<nsubmit, buffer, que, left>>
    PROVE  ChannelInOrder'
<1>1. CASE ~Alive
  BY <1>1 DEF send_to_tracer, ChannelInOrder, IsPayload, Handled
<1>2. CASE Alive
  <2>1. channel \in Seq(Message) /\ channel' = Append(channel, m)
    BY <1>2 DEF TypeOK, send_to_tracer
  <2>2. /\ DOMAIN channel = 1..Len(channel) /\ Len(channel) \in Nat
        /\ DOMAIN channel' = 1..(Len(channel) + 1)
        /\ \A i \in 1..Len(channel) : channel'[i] = channel[i]
        /\ channel'[Len(channel) + 1] = m
    BY <2>1
  <2>3. \A i : IsPayload(i)' <=> IsPayload(i)
    BY <2>2 DEF IsPayload
  <2>4. \A i : IsPayload(i) => i \in DOMAIN channel /\ i \in DOMAIN channel'
                               /\ channel'[i] = channel[i]
    BY <2>2 DEF IsPayload
  <2>5. Handled' = Handled
    BY DEF Handled
  <2>6. QED
    BY <2>3, <2>4, <2>5 DEF ChannelInOrder
<1>3. QED
  BY <1>1, <1>2

\* A payload enters the channel with the next number.
LEMMA OrderSubmit ==
    ASSUME TypeOK, SubmitInFlight, ChannelInOrder, tracy_submit_send
    PROVE  ChannelInOrder'
<1>1. UNCHANGED <<buffer, que, left>>
  BY DEF tracy_submit_send, buffers, history
<1>2. CASE ~Alive
  BY <1>1, <1>2
  DEF tracy_submit_send, send_to_tracer, ChannelInOrder, IsPayload, Handled
<1>3. CASE Alive
  <2> DEFINE m == [kind |-> "payload",
                   elem |-> [id |-> nsubmit + 1, tp |-> appArg.tp,
                             data |-> appArg.data, sess |-> appArg.sess]]
  <2>1. m \in Message /\ channel \in Seq(Message)
    BY SubmittedIsElement DEF TypeOK, tracy_submit_send
  <2>2. channel' = Append(channel, m) /\ nsubmit' = nsubmit + 1
    BY <1>3 DEF tracy_submit_send, send_to_tracer
  <2>3. m.kind = "payload" /\ m.elem.id = nsubmit + 1
    OBVIOUS
  <2> HIDE DEF m
  <2> PICK last \in Nat : last = Len(channel) + 1
    BY <2>1
  <2>4. /\ DOMAIN channel = 1..(last - 1)
        /\ DOMAIN channel' = 1..last
        /\ \A i \in 1..(last - 1) : channel'[i] = channel[i]
        /\ channel'[last] = m
    BY <2>1, <2>2
  <2>5. /\ \A i \in DOMAIN channel : i \in DOMAIN channel'
                                     /\ channel'[i] = channel[i] /\ i < last
        /\ \A i \in DOMAIN channel' : i \in DOMAIN channel \/ i = last
        /\ last \in DOMAIN channel'
        /\ \A i \in DOMAIN channel' : ~(last < i)
    <3>1. last >= 1
      BY <2>1
    <3>2. QED
      BY <2>4, <3>1
  <2>6. /\ \A i \in DOMAIN channel : IsPayload(i)' <=> IsPayload(i)
        /\ IsPayload(last)'
    BY <2>3, <2>4, <2>5 DEF IsPayload
  <2>7. Handled' = Handled /\ Handled \in Nat /\ nsubmit \in Nat
    BY <1>1 DEF Handled, TypeOK
  <2>8. Handled <= nsubmit
    BY DEF ChannelInOrder
  <2>9. \A i \in DOMAIN channel' : IsPayload(i)'
          => channel'[i].elem.id \in (Handled' + 1)..nsubmit'
    BY <2>2, <2>3, <2>4, <2>5, <2>6, <2>7, <2>8 DEF ChannelInOrder
  <2>10. \A i, j \in DOMAIN channel' : (IsPayload(i)' /\ IsPayload(j)' /\ i < j)
           => channel'[i].elem.id < channel'[j].elem.id
    <3>1. \A i \in DOMAIN channel : IsPayload(i) => channel[i].elem.id < nsubmit + 1
      BY <2>7 DEF ChannelInOrder
    <3>2. QED
      BY <2>3, <2>4, <2>5, <2>6, <3>1 DEF ChannelInOrder
  <2>11. \A k \in (Handled' + 1)..nsubmit' :
           \E i \in DOMAIN channel' : IsPayload(i)' /\ channel'[i].elem.id = k
    <3>1. \A k \in (Handled + 1)..nsubmit :
            \E i \in DOMAIN channel : IsPayload(i) /\ channel[i].elem.id = k
      BY DEF ChannelInOrder
    <3>2. SUFFICES ASSUME NEW k \in (Handled + 1)..(nsubmit + 1)
                   PROVE  \E i \in DOMAIN channel' :
                             IsPayload(i)' /\ channel'[i].elem.id = k
      BY <2>2, <2>7
    <3>3. CASE k = nsubmit + 1
      BY <2>3, <2>4, <2>5, <2>6, <3>3
    <3>4. CASE k # nsubmit + 1
      <4>1. k \in (Handled + 1)..nsubmit
        BY <2>7, <3>4
      <4>2. QED
        BY <2>5, <2>6, <3>1, <4>1
    <3>5. QED
      BY <3>3, <3>4
  <2>12. QED
    BY SMTT(30), <2>2, <2>7, <2>8, <2>9, <2>10, <2>11 DEF ChannelInOrder
<1>4. QED
  BY <1>2, <1>3

\* The first message leaves the channel; a payload is the next one.
LEMMA OrderTake ==
    ASSUME TypeOK, ChannelInOrder, channel # <<>>, channel' = Tail(channel),
           nsubmit' = nsubmit,
           Handled' = IF Head(channel).kind = "payload" THEN Handled + 1
                                                        ELSE Handled
    PROVE  /\ ChannelInOrder'
           /\ Head(channel).kind = "payload" => Head(channel).elem.id = Handled + 1
<1>1. channel \in Seq(Message) /\ Handled \in Nat /\ nsubmit \in Nat
  BY DEF TypeOK, Handled
<1>2. /\ Len(channel) \in Nat \ {0} /\ DOMAIN channel = 1..Len(channel)
      /\ DOMAIN channel' = 1..(Len(channel) - 1)
      /\ \A i \in 1..(Len(channel) - 1) : channel'[i] = channel[i + 1]
      /\ Head(channel) = channel[1]
  BY <1>1
<1>3. /\ \A i \in DOMAIN channel' : /\ i + 1 \in DOMAIN channel /\ 1 < i + 1
                                    /\ channel'[i] = channel[i + 1]
      /\ \A j \in DOMAIN channel : j # 1 => /\ j - 1 \in DOMAIN channel'
                                            /\ channel'[j - 1] = channel[j]
      /\ 1 \in DOMAIN channel
  BY <1>2
<1>4. \A i \in DOMAIN channel' : IsPayload(i)' <=> IsPayload(i + 1)
  BY <1>3 DEF IsPayload
<1>5. ASSUME NEW j \in DOMAIN channel, j # 1, IsPayload(j)
      PROVE  IsPayload(j - 1)'
  BY <1>3, <1>5 DEF IsPayload
<1>6. Head(channel).kind = "payload" => Head(channel).elem.id = Handled + 1
  <2> SUFFICES ASSUME IsPayload(1)
               PROVE  channel[1].elem.id = Handled + 1
    BY <1>2, <1>3 DEF IsPayload
  <2>1. channel[1].elem.id \in (Handled + 1)..nsubmit
    BY <1>3 DEF ChannelInOrder
  <2>2. PICK i \in DOMAIN channel : IsPayload(i) /\ channel[i].elem.id = Handled + 1
    BY <1>1, <2>1 DEF ChannelInOrder
  <2>3. i # 1 => 1 < i
    BY <1>2
  <2>4. i # 1 => channel[1].elem.id < Handled + 1
    BY <1>3, <2>2, <2>3 DEF ChannelInOrder
  <2>5. QED
    BY <1>1, <2>1, <2>2, <2>4
<1>7. ASSUME NEW i \in DOMAIN channel', IsPayload(i)'
      PROVE  channel'[i].elem.id \in (Handled' + 1)..nsubmit'
  <2>1. IsPayload(i + 1) /\ i + 1 \in DOMAIN channel /\ 1 < i + 1
        /\ channel'[i] = channel[i + 1]
    BY <1>3, <1>4, <1>7
  <2>2. channel[i + 1].elem.id \in (Handled + 1)..nsubmit
    BY <2>1 DEF ChannelInOrder
  <2>3. CASE Head(channel).kind = "payload"
    <3>1. IsPayload(1) /\ channel[1].elem.id = Handled + 1
      BY <1>2, <1>3, <1>6, <2>3 DEF IsPayload
    <3>2. channel[1].elem.id < channel[i + 1].elem.id
      BY <1>3, <2>1, <3>1 DEF ChannelInOrder
    <3>3. QED
      BY <1>1, <2>1, <2>2, <2>3, <3>1, <3>2
  <2>4. CASE Head(channel).kind # "payload"
    BY <2>1, <2>2, <2>4
  <2>5. QED
    BY <2>3, <2>4
<1>8. ASSUME NEW i \in DOMAIN channel', NEW j \in DOMAIN channel',
             IsPayload(i)', IsPayload(j)', i < j
      PROVE  channel'[i].elem.id < channel'[j].elem.id
  <2>1. i + 1 < j + 1
    BY <1>2, <1>8
  <2>2. QED
    BY <1>3, <1>4, <1>8, <2>1 DEF ChannelInOrder
<1>9. ASSUME NEW k \in (Handled' + 1)..nsubmit'
      PROVE  \E i \in DOMAIN channel' : IsPayload(i)' /\ channel'[i].elem.id = k
  <2>1. k \in (Handled + 1)..nsubmit
    BY <1>1, <1>9
  <2>2. PICK j \in DOMAIN channel : IsPayload(j) /\ channel[j].elem.id = k
    BY <2>1 DEF ChannelInOrder
  <2>3. j # 1
    <3> SUFFICES ASSUME j = 1 PROVE FALSE
      OBVIOUS
    <3>1. Head(channel).kind = "payload"
      BY <1>2, <2>2 DEF IsPayload
    <3>2. k = Handled + 1 /\ Handled' = Handled + 1
      BY <1>2, <1>6, <2>2, <3>1
    <3>3. QED
      BY <1>1, <1>9, <3>2
  <2>4. QED
    BY <1>3, <1>5, <2>2, <2>3
<1>10. Handled' <= nsubmit'
  <2>1. CASE Head(channel).kind = "payload"
    <3>1. IsPayload(1)
      BY <1>2, <1>3, <2>1 DEF IsPayload
    <3>2. channel[1].elem.id \in (Handled + 1)..nsubmit
      BY <1>3, <3>1 DEF ChannelInOrder
    <3>3. QED
      BY <1>1, <2>1, <3>2
  <2>2. CASE Head(channel).kind # "payload"
    BY <2>2 DEF ChannelInOrder
  <2>3. QED
    BY <2>1, <2>2
<1>11. QED
  BY <1>6, <1>7, <1>8, <1>9, <1>10 DEF ChannelInOrder

\* Every step keeps payloads in order.
LEMMA OrderStep ==
    ASSUME TypeOK, SubmitInFlight, QueuesInOrder, ChannelInOrder, [Next]_vars
    PROVE  QueuesInOrder' /\ ChannelInOrder'
<1>1. /\ que \in Seq(Element) /\ buffer \in Seq(Element) /\ left \in Nat
      /\ Len(que) \in Nat /\ Len(buffer) \in Nat
  BY DEF TypeOK
<1>2. CASE ~Moves
  <2>1. UNCHANGED places
    BY <1>2, OtherSteps
  <2>2. QED
    BY <2>1
    DEF places, QueuesInOrder, ChannelInOrder, IsPayload, Handled
<1>3. ASSUME UNCHANGED <<buffer, que, left>>
      PROVE  QueuesInOrder' /\ Handled' = Handled
  BY <1>3 DEF QueuesInOrder, Handled
<1>4. ASSUME NEW t \in Tracepoints, tracy_register(t)
      PROVE  QueuesInOrder' /\ ChannelInOrder'
  <2>1. /\ [kind |-> "tracepoint", tp |-> t] \in Message
        /\ [kind |-> "tracepoint", tp |-> t].kind # "payload"
    BY DEF Message
  <2>2. UNCHANGED <<nsubmit, buffer, que, left>>
        /\ send_to_tracer([kind |-> "tracepoint", tp |-> t])
    BY <1>4 DEF tracy_register, buffers, history
  <2>3. QED
    BY <1>3, <2>1, <2>2, OrderControl
<1>5. CASE tracy_finit
  <2>1. /\ [kind |-> "terminate"] \in Message
        /\ [kind |-> "terminate"].kind # "payload"
    BY DEF Message
  <2>2. UNCHANGED <<nsubmit, buffer, que, left>>
        /\ send_to_tracer([kind |-> "terminate"])
    BY <1>5 DEF tracy_finit, buffers, history
  <2>3. QED
    BY <1>3, <2>1, <2>2, OrderControl
<1>6. CASE tracy_submit_send
  BY <1>3, <1>6, OrderSubmit DEF tracy_submit_send, buffers, history
<1>7. CASE channel_new_tracepoint \/ channel_terminate
  <2>1. /\ channel # <<>> /\ Head(channel).kind # "payload"
        /\ channel' = Tail(channel)
        /\ UNCHANGED <<nsubmit, buffer, que, left>>
    BY <1>7 DEF channel_new_tracepoint, channel_terminate, try_recv, app,
                buffers, history
  <2>2. QED
    BY <1>3, <2>1, OrderTake
<1>8. CASE channel_payload
  <2> DEFINE e == Head(channel).elem
  <2>1. /\ channel # <<>> /\ Head(channel).kind = "payload"
        /\ channel' = Tail(channel) /\ buffer' = Append(buffer, e)
        /\ UNCHANGED <<nsubmit, que, left>>
    BY <1>8 DEF channel_payload, try_recv, append, app, history
  <2>2. e \in Element
    <3>1. Head(channel) \in Message
      BY <2>1 DEF TypeOK
    <3>2. QED
      BY <2>1, <3>1 DEF Message
  <2> HIDE DEF e
  <2>3. /\ Len(buffer') = Len(buffer) + 1
        /\ DOMAIN buffer' = 1..(Len(buffer) + 1)
        /\ \A i \in 1..Len(buffer) : buffer'[i] = buffer[i]
        /\ buffer'[Len(buffer) + 1] = e
        /\ DOMAIN buffer = 1..Len(buffer)
    BY <1>1, <2>1, <2>2
  <2>4. Handled' = Handled + 1
    BY <1>1, <2>1, <2>3 DEF Handled
  <2>5. ChannelInOrder' /\ e.id = left + Len(que) + Len(buffer) + 1
    BY <2>1, <2>4, OrderTake DEF Handled, e
  <2>6. \A i \in DOMAIN buffer' : buffer'[i].id = left' + Len(que') + i
    <3> SUFFICES ASSUME NEW i \in DOMAIN buffer'
                 PROVE  buffer'[i].id = left + Len(que) + i
      BY <2>1
    <3>1. CASE i \in DOMAIN buffer
      BY <2>3, <3>1 DEF QueuesInOrder
    <3>2. CASE i = Len(buffer) + 1
      <4>1. buffer'[i] = e
        BY <2>3, <3>2
      <4>2. QED
        BY <1>1, <2>5, <3>2, <4>1
    <3>3. QED
      BY <1>1, <2>3, <3>1, <3>2
  <2>7. QED
    BY <2>1, <2>5, <2>6 DEF QueuesInOrder
<1>9. ASSUME UNCHANGED <<channel, nsubmit>>, Handled' = Handled
      PROVE  ChannelInOrder'
  BY <1>9 DEF ChannelInOrder, IsPayload
<1>10. CASE send_pack
  <2>1. /\ buffer # <<>> /\ que' = Append(que, Head(buffer))
        /\ buffer' = Tail(buffer) /\ UNCHANGED <<channel, nsubmit, left>>
    BY <1>10 DEF send_pack, app, shared, history
  <2>2. /\ Len(buffer) # 0 /\ Head(buffer) = buffer[1] /\ 1 \in DOMAIN buffer
        /\ Head(buffer) \in Element
        /\ Len(buffer') = Len(buffer) - 1
        /\ DOMAIN buffer' = 1..(Len(buffer) - 1)
        /\ \A i \in 1..(Len(buffer) - 1) : /\ buffer'[i] = buffer[i + 1]
                                           /\ i + 1 \in DOMAIN buffer
    BY <1>1, <2>1
  <2>3. /\ Len(que') = Len(que) + 1 /\ DOMAIN que' = 1..(Len(que) + 1)
        /\ DOMAIN que = 1..Len(que)
        /\ \A i \in 1..Len(que) : que'[i] = que[i]
        /\ que'[Len(que) + 1] = buffer[1]
    BY <1>1, <2>1, <2>2
  <2>4. buffer[1].id = left + Len(que) + 1
    BY <2>2 DEF QueuesInOrder
  <2>5. \A i \in DOMAIN que' : que'[i].id = left' + i
    <3> SUFFICES ASSUME NEW i \in DOMAIN que'
                 PROVE  que'[i].id = left + i
      BY <2>1
    <3>1. CASE i \in DOMAIN que
      BY <2>3, <3>1 DEF QueuesInOrder
    <3>2. CASE i = Len(que) + 1
      <4>1. que'[i] = buffer[1]
        BY <2>3, <3>2
      <4>2. QED
        BY <1>1, <2>4, <3>2, <4>1
    <3>3. QED
      BY <1>1, <2>3, <3>1, <3>2
  <2>6. \A i \in DOMAIN buffer' : buffer'[i].id = left' + Len(que') + i
    <3>1. \A i \in DOMAIN buffer' :
             buffer'[i].id = left + Len(que) + (i + 1)
      BY <2>2 DEF QueuesInOrder
    <3>2. QED
      BY <1>1, <2>1, <2>2, <2>3, <3>1
  <2>7. Handled' = Handled
    BY <1>1, <2>1, <2>2, <2>3 DEF Handled
  <2>8. QED
    BY <1>9, <2>1, <2>5, <2>6, <2>7 DEF QueuesInOrder
<1>11. CASE send_slices_ok \/ send_slices_blocked \/ send_slices_fails
  <2>1. /\ left' = left + Len(que) /\ que' = <<>>
        /\ UNCHANGED <<buffer, channel, nsubmit>>
    BY <1>11 DEF send_slices_ok, send_slices_blocked, send_slices_fails, app,
                 shared
  <2>2. Len(que') = 0 /\ DOMAIN que' = {}
    BY <2>1
  <2>3. Handled' = Handled
    BY <1>1, <2>1, <2>2 DEF Handled
  <2>4. DOMAIN buffer \subseteq Nat
    BY <1>1
  <2>5. QED
    BY <1>1, <1>9, <2>1, <2>2, <2>3, <2>4 DEF QueuesInOrder
<1>12. QED
  BY <1>2, <1>4, <1>5, <1>6, <1>7, <1>8, <1>10, <1>11 DEF Moves
-----------------------------------------------------------------------------
(* The end.                                                                *)

\* Every step keeps the order to terminate last.
LEMMA TerminateStep ==
    ASSUME TypeOK, SubmitInFlight, TerminateLast, [Next]_vars
    PROVE  TerminateLast'
<1> USE DEF TerminateLast
<1>1. channel \in Seq(Message) /\ DOMAIN channel = 1..Len(channel)
      /\ Len(channel) \in Nat
  BY DEF TypeOK
<1>2. CASE AppNext
  <2>1. UNCHANGED <<pc, ret>>
    BY <1>2, ControlUnchanged DEF control
  <2>2. appPc # "done"
    BY Zenon, <1>2 DEF AppNext, tracy_register, tracy_submit, tracepoint_enabled,
                tracy_submit_send, tracy_finit
  <2>3. \A i \in DOMAIN channel : channel[i].kind # "terminate"
    BY <2>2
  <2>4. ASSUME NEW m \in Message, send_to_tracer(m),
               m.kind = "terminate" => appPc' = "done"
        PROVE  TerminateLast'
    <3>1. CASE ~Alive
      BY <2>1, <2>2, <2>3, <2>4, <3>1 DEF send_to_tracer
    <3>2. CASE Alive
      <4>1. channel' = Append(channel, m)
        BY <2>4, <3>2 DEF send_to_tracer
      <4>2. /\ Len(channel') = Len(channel) + 1
            /\ DOMAIN channel' = 1..(Len(channel) + 1)
            /\ \A i \in 1..Len(channel) : channel'[i] = channel[i]
            /\ channel'[Len(channel) + 1] = m
        BY <1>1, <4>1
      <4>3. \A i \in DOMAIN channel' : i \in DOMAIN channel \/ i = Len(channel')
        BY <1>1, <4>2
      <4>4. QED
        BY <1>1, <2>1, <2>2, <2>3, <2>4, <4>2, <4>3
    <3>3. QED
      BY <3>1, <3>2
  <2>5. ASSUME NEW t \in Tracepoints, tracy_register(t)
        PROVE  TerminateLast'
    <3>1. [kind |-> "tracepoint", tp |-> t] \in Message
      BY SMTT(30) DEF Message
    <3>2. QED
      BY <2>4, <2>5, <3>1 DEF tracy_register
  <2>6. CASE tracy_submit_send
    BY <2>4, <2>6, SubmittedIsElement DEF tracy_submit_send
  <2>7. CASE tracy_finit
    <3>1. [kind |-> "terminate"] \in Message
      BY DEF Message
    <3>2. QED
      BY <2>4, <2>7, <3>1 DEF tracy_finit
  <2>8. ASSUME UNCHANGED channel
        PROVE  TerminateLast'
    BY <2>1, <2>2, <2>3, <2>8
  <2>9. QED
    BY <1>2, <2>5, <2>6, <2>7, <2>8
    DEF AppNext, tracy_submit, tracepoint_enabled, shared
<1>3. ASSUME channel # <<>>, channel' = Tail(channel), UNCHANGED appPc
      PROVE  /\ \A i \in DOMAIN channel' : channel'[i].kind = "terminate"
                   => i = Len(channel') /\ appPc' = "done"
             /\ Head(channel).kind = "terminate"
                   => channel' = <<>> /\ appPc' = "done"
  <2>1. /\ Len(channel') = Len(channel) - 1
        /\ DOMAIN channel' = 1..(Len(channel) - 1)
        /\ \A i \in 1..(Len(channel) - 1) : channel'[i] = channel[i + 1]
        /\ Head(channel) = channel[1] /\ Len(channel) >= 1
        /\ channel' \in Seq(Message)
    BY <1>1, <1>3
  <2>2. \A i \in DOMAIN channel' : i + 1 \in DOMAIN channel /\ i \in Int
                                   /\ channel'[i] = channel[i + 1]
    BY <1>1, <2>1
  <2>3. \A i \in DOMAIN channel' : channel'[i].kind = "terminate"
           => i + 1 = Len(channel) /\ appPc' = "done"
    BY <1>3, <2>2
  <2>4. Head(channel).kind = "terminate" => Len(channel) = 1 /\ appPc' = "done"
    BY <1>1, <1>3, <2>1
  <2>5. Len(channel) = 1 => channel' = <<>>
    BY <2>1
  <2>6. QED
    BY <1>1, <2>1, <2>2, <2>3, <2>4, <2>5
<1>4. CASE channel_payload \/ channel_new_tracepoint
  BY <1>3, <1>4 DEF channel_payload, channel_new_tracepoint, try_recv, app,
                    control
<1>5. CASE channel_terminate
  BY <1>3, <1>5 DEF channel_terminate, try_recv, app
<1>6. ASSUME UNCHANGED <<channel, appPc>>,
             UNCHANGED <<pc, ret>> \/ ~(pc' = "send" /\ ret' = "exit")
      PROVE  TerminateLast'
  BY <1>6
<1>7. CASE LoopNext
  BY Zenon, <1>4, <1>5, <1>6, <1>7
  DEF LoopNext, tracer_thread_main, poll_events, event_chan, event_timer,
      event_con_new_ignored, establish_connection, establish_connection_fails,
      event_con_data, events_done, channel_empty, timer_queue, timer_udp,
      timer_empty, app, shared, control
<1>8. CASE SendNext
  <2>1. CASE send_done
    BY <1>6, <2>1 DEF send_done, TypeOK, Returns, app, shared
  <2>2. CASE send_slices_fails
    <3>1. UNCHANGED <<channel, appPc>> /\ pc' # "send"
      BY Zenon, <2>2 DEF send_slices_fails, close_and_clean_connection, app
    <3>2. QED
      BY Zenon, <1>6, <3>1
  <2>3. QED
    BY Zenon, <1>6, <1>8, <2>1, <2>2
    DEF SendNext, send_pack, send_slices_ok, send_slices_blocked,
        send_slices_panics, app, shared, control
<1>9. CASE ReceiveNext
  <2>1. CASE close_start_udp_timer
    BY Zenon, <1>6, <2>1 DEF close_start_udp_timer, TypeOK, Returns, app, shared
  <2>2. CASE send_tracepoint_list
    BY Zenon, <1>6, <2>2 DEF send_tracepoint_list, close_and_clean_connection, app,
                      read_request
  <2>3. QED
    BY Zenon, <1>6, <1>9, <2>1, <2>2
    DEF ReceiveNext, receive_would_block, receive_eof, receive_invalid_header,
        read_empty, execute_other_command, set_tracepoints,
        set_tracepoints_fails, close_clear_flag, close_and_clean_connection,
        app, shared, control
<1>10. CASE EnvNext \/ UNCHANGED vars
  BY Zenon, <1>6, <1>10
  DEF EnvNext, connect, request, leave, queue_elapses, udp_elapses, vars, app,
      shared, control
<1>11. QED
  BY <1>2, <1>7, <1>8, <1>9, <1>10 DEF Next, TracerNext

\* Every step keeps a thread that has ended flushed.
LEMMA ExitStep ==
    ASSUME TypeOK, NoSessionYet, ChannelInOrder, TerminateLast, ExitFlushed,
           [Next]_vars
    PROVE  ExitFlushed'
<1> USE DEF ExitFlushed, app, shared, control, buffers, history
<1>1. CASE AppNext
  <2>1. UNCHANGED <<pc, connection, buffer, que>>
    BY <1>1, ControlUnchanged
  <2>2. UNCHANGED left
    BY Zenon, <1>1 DEF AppNext, tracy_register, tracy_submit, tracepoint_enabled,
                tracy_submit_send, tracy_finit
  <2>3. pc = "exit" => UNCHANGED <<channel, nsubmit>>
    BY Zenon, <1>1 DEF AppNext, tracy_register, tracy_submit, tracepoint_enabled,
                tracy_submit_send, tracy_finit, send_to_tracer, Alive, Running
  <2>4. QED
    BY <2>1, <2>2, <2>3
<1>2. CASE EnvNext \/ UNCHANGED vars
  BY <1>2 DEF EnvNext, connect, request, leave, queue_elapses, udp_elapses,
              vars
<1>3. CASE LoopNext
  <2>1. CASE channel_terminate
    BY <2>1 DEF channel_terminate, sends_before_exit
  <2>2. CASE ~channel_terminate
    <3>1. pc' # "exit"
      BY Zenon, <1>3, <2>2
      DEF LoopNext, tracer_thread_main, poll_events, event_chan, event_timer,
          event_con_new_ignored, establish_connection, take_event, try_recv,
          establish_connection_fails, event_con_data, events_done,
          channel_payload, channel_new_tracepoint, channel_empty, timer_queue,
          timer_udp, timer_empty
    <3>2. QED
      BY <3>1
  <2>3. QED
    BY <2>1, <2>2
<1>4. CASE SendNext
  <2>1. CASE send_done
    <3> SUFFICES ASSUME ret = "exit"
                 PROVE  channel' = <<>> /\ buffer' = <<>> /\ que' = <<>>
                        /\ left' = nsubmit'
      BY <2>1 DEF send_done
    <3>1. channel = <<>> /\ buffer = <<>> /\ que = <<>>
      BY <2>1 DEF send_done, TerminateLast
    <3>2. Handled = left /\ left \in Nat /\ nsubmit \in Nat
      BY <3>1 DEF Handled, TypeOK
    <3>3. \A k \in (left + 1)..nsubmit : FALSE
      BY <3>1, <3>2 DEF ChannelInOrder
    <3>4. left = nsubmit
      <4>1. left <= nsubmit
        BY <3>2 DEF ChannelInOrder
      <4>2. left + 1 \notin (left + 1)..nsubmit
        BY Zenon, <3>3
      <4>3. QED
        BY <3>2, <4>1, <4>2
    <3>5. QED
      BY <2>1, <3>1, <3>4 DEF send_done
  <2>2. CASE ~send_done
    <3>1. pc' # "exit"
      BY <1>4, <2>2
      DEF SendNext, send_pack, send_slices_ok, send_slices_blocked,
          send_slices_fails, send_slices_panics, FrameDue,
          close_and_clean_connection
    <3>2. QED
      BY <3>1
  <2>3. QED
    BY <2>1, <2>2
<1>5. CASE ReceiveNext
  <2>1. CASE close_start_udp_timer
    BY <2>1 DEF close_start_udp_timer, NoSessionYet
  <2>2. CASE send_tracepoint_list
    BY SMTT(30), <2>2 DEF send_tracepoint_list, close_and_clean_connection, read_request
  <2>3. QED
    BY Zenon, <1>5, <2>1, <2>2
    DEF ReceiveNext, receive_would_block, receive_eof, receive_invalid_header,
        read_empty, execute_other_command, set_tracepoints, read_request,
        set_tracepoints_fails, close_clear_flag, close_and_clean_connection
<1>6. QED
  BY <1>1, <1>2, <1>3, <1>4, <1>5 DEF Next, TracerNext
-----------------------------------------------------------------------------
(* Sessions.                                                               *)

\* The sessions that payloads and a submit in flight belong to are clients.
LEMMA SessionTypes ==
    ASSUME TypeOK
    PROVE  /\ connection \in 0..MaxClients /\ appArg.sess \in 0..MaxClients
           /\ \A i \in DOMAIN channel : IsPayload(i)
                 => channel[i].elem.sess \in 0..MaxClients
           /\ \A i \in DOMAIN buffer : buffer[i].sess \in 0..MaxClients
<1>1. connection \in 0..MaxClients /\ appArg \in Args
  BY DEF TypeOK
<1>2. appArg.sess \in 0..MaxClients
  BY <1>1 DEF Args
<1>3. \A e \in Element : e.sess \in 0..MaxClients
  BY DEF Element
<1>4. ASSUME NEW i \in DOMAIN channel, IsPayload(i)
      PROVE  channel[i].elem.sess \in 0..MaxClients
  <2>1. channel[i] \in Message
    BY DEF TypeOK
  <2>2. channel[i].elem \in Element
    BY <1>4, <2>1 DEF IsPayload, Message
  <2>3. QED
    BY <1>3, <2>2
<1>5. ASSUME NEW i \in DOMAIN buffer
      PROVE  buffer[i].sess \in 0..MaxClients
  <2>1. buffer[i] \in Element
    BY DEF TypeOK
  <2>2. QED
    BY <1>3, <2>1
<1>6. QED
  BY <1>1, <1>2, <1>4, <1>5

\* A client at the end of the backlog leaves the ones before it in place.
LEMMA BacklogAppend ==
    ASSUME backlog \in Seq(Clients), NEW c \in Clients,
           backlog' = Append(backlog, c)
    PROVE  \A i \in DOMAIN backlog' :
              \/ i \in DOMAIN backlog /\ backlog'[i] = backlog[i]
              \/ i = Len(backlog) + 1 /\ backlog'[i] = c
OBVIOUS

\* What is left of the backlog when its first client is accepted.
LEMMA BacklogTail ==
    ASSUME backlog \in Seq(Clients), backlog # <<>>, backlog' = Tail(backlog)
    PROVE  /\ \A i \in DOMAIN backlog' : /\ i + 1 \in DOMAIN backlog
                                         /\ i + 1 # 1
                                         /\ backlog'[i] = backlog[i + 1]
                                         /\ i \in Int
           /\ 1 \in DOMAIN backlog /\ Head(backlog) = backlog[1]
OBVIOUS

\* The backlog holds clients.
LEMMA BacklogClients ==
    ASSUME backlog \in Seq(Clients)
    PROVE  \A i \in DOMAIN backlog : backlog[i] \in Clients
OBVIOUS

\* An empty buffer holds no element.
LEMMA BufferEmpty ==
    ASSUME buffer = <<>>
    PROVE  DOMAIN buffer = {}
OBVIOUS

\* Every step keeps payloads with clients that were accepted before.
LEMMA FreshStep ==
    ASSUME TypeOK, SubmitInFlight, SessionsFresh, [Next]_vars
    PROVE  SessionsFresh'
<1> USE DEF SessionsFresh, app, shared, control, buffers, network
<1>1. /\ channel \in Seq(Message) /\ buffer \in Seq(Element)
      /\ backlog \in Seq(Clients) /\ Len(channel) \in Nat
      /\ DOMAIN channel = 1..Len(channel)
  BY SMTT(30) DEF TypeOK
<1>2. ASSUME UNCHANGED <<backlog, peer>>
      PROVE  \A c : Accepted(c)' <=> Accepted(c)
  BY SMTT(30), <1>2 DEF Accepted
<1>3. Accepted(None)
  BY Zenon DEF Accepted
<1>4. ASSUME UNCHANGED <<backlog, peer, connection, channel, buffer>>,
             Accepted(appArg'.sess)
      PROVE  SessionsFresh'
  BY <1>2, <1>4 DEF IsPayload
<1>5. NoArg.sess = None
  BY DEF NoArg
<1>6. CASE AppNext
  <2>1. UNCHANGED <<backlog, peer, connection, buffer>>
    BY Zenon, <1>6, ControlUnchanged
    DEF AppNext, tracy_register, tracy_submit, tracepoint_enabled,
        tracy_submit_send, tracy_finit
  <2>2. ASSUME NEW m \in Message, send_to_tracer(m), Accepted(appArg'.sess),
               m.kind = "payload" => Accepted(m.elem.sess)
        PROVE  SessionsFresh'
    <3>1. CASE ~Alive
      BY <1>4, <2>1, <2>2, <3>1 DEF send_to_tracer
    <3>2. CASE Alive
      <4>1. channel' = Append(channel, m)
        BY <2>2, <3>2 DEF send_to_tracer
      <4>2. /\ DOMAIN channel' = 1..(Len(channel) + 1)
            /\ \A i \in 1..Len(channel) : channel'[i] = channel[i]
            /\ channel'[Len(channel) + 1] = m
        BY SMTT(30), <1>1, <4>1
      <4>3. \A i \in DOMAIN channel' : IsPayload(i)'
               => Accepted(channel'[i].elem.sess)
        BY <1>1, <2>2, <4>2 DEF IsPayload
      <4>4. QED
        BY Zenon, <1>2, <2>1, <2>2, <4>3
    <3>3. QED
      BY Zenon, <3>1, <3>2
  <2>3. ASSUME NEW t \in Tracepoints, tracy_register(t)
        PROVE  SessionsFresh'
    <3>1. /\ [kind |-> "tracepoint", tp |-> t] \in Message
          /\ [kind |-> "tracepoint", tp |-> t].kind # "payload"
      BY DEF Message
    <3>2. QED
      BY Zenon, <2>2, <2>3, <3>1 DEF tracy_register
  <2>4. CASE tracy_finit
    <3>1. /\ [kind |-> "terminate"] \in Message
          /\ [kind |-> "terminate"].kind # "payload"
      BY DEF Message
    <3>2. QED
      BY Zenon, <2>2, <2>4, <3>1 DEF tracy_finit
  <2>5. CASE tracy_submit_send
    <3> DEFINE m == [kind |-> "payload",
                     elem |-> [id |-> nsubmit + 1, tp |-> appArg.tp,
                               data |-> appArg.data, sess |-> appArg.sess]]
    <3>1. m \in Message
      <4>1. appPc = "checked"
        BY Zenon, <2>5 DEF tracy_submit_send
      <4>2. QED
        BY Zenon, <4>1, SubmittedIsElement
    <3>2. m.elem.sess = appArg.sess
      BY Zenon
    <3>3. send_to_tracer(m) /\ appArg' = NoArg
      BY Zenon, <2>5 DEF tracy_submit_send
    <3> HIDE DEF m
    <3>4. QED
      BY Zenon, <1>3, <1>5, <2>2, <3>1, <3>2, <3>3
  <2>6. ASSUME NEW t \in Tracepoints, NEW n \in DataLens, tracy_submit(t, n)
        PROVE  SessionsFresh'
    BY Zenon, <1>3, <1>4, <2>1, <2>6 DEF tracy_submit
  <2>7. CASE tracepoint_enabled
    <3>1. [appArg EXCEPT !.sess = connection].sess = connection
      BY DEF TypeOK, Args
    <3>2. appArg'.sess \in {connection, None}
      BY Zenon, <1>5, <2>7, <3>1 DEF tracepoint_enabled
    <3>3. QED
      BY <1>3, <1>4, <2>1, <2>7, <3>2 DEF tracepoint_enabled
  <2>8. QED
    BY Zenon, <1>6, <2>3, <2>4, <2>5, <2>6, <2>7 DEF AppNext
<1>7. ASSUME UNCHANGED <<backlog, peer, appArg>>,
             connection' \in {connection, None},
             \A i \in DOMAIN channel' : IsPayload(i)'
                => Accepted(channel'[i].elem.sess),
             \A i \in DOMAIN buffer' : Accepted(buffer'[i].sess)
      PROVE  SessionsFresh'
  BY Zenon, <1>2, <1>3, <1>7
<1>8. ASSUME channel # <<>>, channel' = Tail(channel)
      PROVE  /\ \A i \in DOMAIN channel' : IsPayload(i)'
                   => Accepted(channel'[i].elem.sess)
             /\ Head(channel).kind = "payload"
                   => Accepted(Head(channel).elem.sess)
  <2>1. /\ \A i \in DOMAIN channel' : /\ i + 1 \in DOMAIN channel
                                      /\ channel'[i] = channel[i + 1]
        /\ 1 \in DOMAIN channel /\ Head(channel) = channel[1]
    BY <1>1, <1>8
  <2>2. QED
    BY <2>1 DEF IsPayload
<1>9. CASE channel_new_tracepoint \/ channel_terminate
  BY Zenon, <1>7, <1>8, <1>9 DEF channel_new_tracepoint, channel_terminate, try_recv
<1>10. CASE channel_payload
  <2>1. /\ channel # <<>> /\ Head(channel).kind = "payload"
        /\ channel' = Tail(channel)
        /\ buffer' = Append(buffer, Head(channel).elem)
        /\ UNCHANGED <<backlog, peer, appArg, connection>>
    BY Zenon, <1>10 DEF channel_payload, try_recv, append
  <2>2. Head(channel).elem \in Element
    <3>1. Head(channel) \in Message
      BY <1>1, <2>1
    <3>2. QED
      BY <2>1, <3>1 DEF Message
  <2>3. \A i \in DOMAIN buffer' :
           \/ i \in DOMAIN buffer /\ buffer'[i] = buffer[i]
           \/ buffer'[i] = Head(channel).elem
    BY <1>1, <2>1, <2>2
  <2>4. QED
    BY Zenon, <1>7, <1>8, <2>1, <2>3
<1>11. CASE send_pack
  <2>1. \A i \in DOMAIN buffer' : /\ i + 1 \in DOMAIN buffer
                                  /\ buffer'[i] = buffer[i + 1]
    BY SMTT(30), <1>1, <1>11 DEF send_pack
  <2>2. QED
    BY Zenon, <1>7, <1>11, <2>1 DEF send_pack, IsPayload
<1>12. CASE establish_connection
  <2>1. /\ backlog # <<>> /\ connection' = Head(backlog)
        /\ backlog' = Tail(backlog)
        /\ UNCHANGED <<peer, appArg, channel, buffer>>
    BY <1>12 DEF establish_connection, remaining_backlog
  <2>2. /\ \A i \in DOMAIN backlog' : /\ i + 1 \in DOMAIN backlog /\ i + 1 # 1
                                      /\ backlog'[i] = backlog[i + 1]
                                      /\ i \in Int
        /\ 1 \in DOMAIN backlog /\ Head(backlog) = backlog[1]
    BY Zenon, <1>1, <2>1, BacklogTail
  <2>3. \A c : Accepted(c) => Accepted(c)'
    BY <2>1, <2>2 DEF Accepted
  <2>4. Accepted(connection)'
    BY <2>1, <2>2 DEF Accepted
  <2>5. \A i, j \in DOMAIN backlog' : backlog'[i] = backlog'[j] => i = j
    <3> SUFFICES ASSUME NEW i \in DOMAIN backlog', NEW j \in DOMAIN backlog',
                        backlog'[i] = backlog'[j]
                 PROVE  i = j
      OBVIOUS
    <3>1. i + 1 = j + 1
      BY <2>2
    <3>2. QED
      BY <2>2, <3>1
  <2>6. \A i \in DOMAIN backlog' : peer'[backlog'[i]] # "away"
    BY SMTT(30), <2>1, <2>2
  <2>7. QED
    BY Zenon, <2>1, <2>3, <2>4, <2>5, <2>6 DEF IsPayload
<1>13. ASSUME NEW c \in Clients, connect(c)
       PROVE  SessionsFresh'
  <2>1. /\ peer[c] = "away" /\ backlog' = Append(backlog, c)
        /\ peer' = [peer EXCEPT ![c] = "open"]
        /\ UNCHANGED <<connection, appArg, channel, buffer>>
    BY Zenon, <1>13 DEF connect
  <2>2. /\ \A i \in DOMAIN backlog' :
              \/ i \in DOMAIN backlog /\ backlog'[i] = backlog[i]
              \/ i = Len(backlog) + 1 /\ backlog'[i] = c
        /\ peer'[c] = "open" /\ \A d \in Clients : d # c => peer'[d] = peer[d]
    <3>1. \A i \in DOMAIN backlog' :
             \/ i \in DOMAIN backlog /\ backlog'[i] = backlog[i]
             \/ i = Len(backlog) + 1 /\ backlog'[i] = c
      BY Zenon, <1>1, <2>1, BacklogAppend
    <3>2. DOMAIN peer = Clients
      BY DEF TypeOK
    <3>3. QED
      BY Zenon, <2>1, <3>1, <3>2
  <2>3. \A i \in DOMAIN backlog : backlog[i] \in Clients /\ backlog[i] # c
    <3>1. \A i \in DOMAIN backlog : peer[backlog[i]] # "away"
      BY Zenon DEF SessionsFresh
    <3>2. \A i \in DOMAIN backlog : backlog[i] \in Clients
      BY Zenon, <1>1, BacklogClients
    <3>3. QED
      BY Zenon, <2>1, <3>1, <3>2
  <2>4. ASSUME NEW d \in 0..MaxClients, Accepted(d)
        PROVE  Accepted(d)'
    <3>1. d # None => d \in Clients
      BY SMTT(30) DEF None, Clients
    <3>2. QED
      BY <2>1, <2>2, <2>4, <3>1 DEF Accepted
  <2>5. /\ connection \in 0..MaxClients /\ appArg.sess \in 0..MaxClients
        /\ \A i \in DOMAIN channel : IsPayload(i)
              => channel[i].elem.sess \in 0..MaxClients
        /\ \A i \in DOMAIN buffer : buffer[i].sess \in 0..MaxClients
    BY Zenon, SessionTypes
  <2>6. \A i, j \in DOMAIN backlog' : backlog'[i] = backlog'[j] => i = j
    BY <2>2, <2>3
  <2>7. \A i \in DOMAIN backlog' : peer'[backlog'[i]] # "away"
    BY <2>2, <2>3
  <2>8. QED
    BY SMTT(30), <2>1, <2>4, <2>5, <2>6, <2>7 DEF IsPayload
<1>14. ASSUME NEW c \in Clients, NEW how \in {"fin", "rst"}, leave(c, how)
       PROVE  SessionsFresh'
  <2>1. /\ UNCHANGED <<backlog, connection, appArg, channel, buffer>>
        /\ \A d : peer[d] # "away" /\ d \in Clients => peer'[d] # "away"
    BY <1>14 DEF leave, TypeOK
  <2>2. ASSUME NEW d \in 0..MaxClients, Accepted(d)
        PROVE  Accepted(d)'
    <3>1. d # None => d \in Clients
      BY SMTT(30) DEF None, Clients
    <3>2. QED
      BY Zenon, <2>1, <2>2, <3>1 DEF Accepted
  <2>3. /\ connection \in 0..MaxClients /\ appArg.sess \in 0..MaxClients
        /\ \A i \in DOMAIN channel : IsPayload(i)
              => channel[i].elem.sess \in 0..MaxClients
        /\ \A i \in DOMAIN buffer : buffer[i].sess \in 0..MaxClients
    BY SessionTypes
  <2>4. \A i \in DOMAIN backlog : backlog[i] \in Clients
    BY Zenon, <1>1, BacklogClients
  <2>5. QED
    BY Zenon, <2>1, <2>2, <2>3, <2>4 DEF IsPayload
<1>15. ASSUME UNCHANGED <<backlog, peer, appArg, channel, buffer>>,
              connection' \in {connection, None}
       PROVE  SessionsFresh'
  BY Zenon, <1>7, <1>15 DEF IsPayload
<1>16. CASE LoopNext
  BY Zenon, <1>9, <1>10, <1>12, <1>15, <1>16
  DEF LoopNext, tracer_thread_main, poll_events, event_chan, event_timer,
      event_con_new_ignored, establish_connection_fails, event_con_data,
      events_done, channel_empty, timer_queue, timer_udp, timer_empty
<1>17. CASE SendNext
  BY Zenon, <1>11, <1>15, <1>17
  DEF SendNext, send_slices_ok, send_slices_blocked, send_slices_fails,
      send_slices_panics, send_done, close_and_clean_connection
<1>18. CASE ReceiveNext
  <2>1. CASE send_tracepoint_list
    BY Zenon, <1>15, <2>1 DEF send_tracepoint_list, close_and_clean_connection
  <2>2. QED
    BY Zenon, <1>15, <1>18, <2>1
    DEF ReceiveNext, receive_would_block, receive_eof, receive_invalid_header,
        read_empty, execute_other_command, set_tracepoints,
        set_tracepoints_fails, close_clear_flag, close_start_udp_timer,
        close_and_clean_connection
<1>19. CASE EnvNext
  BY Zenon, <1>13, <1>14, <1>15, <1>19
  DEF EnvNext, request, queue_elapses, udp_elapses
<1>20. CASE UNCHANGED vars
  BY Zenon, <1>15, <1>20 DEF vars
<1>21. QED
  BY Zenon, <1>6, <1>16, <1>17, <1>18, <1>19, <1>20 DEF Next, TracerNext

\* Every step keeps a timer for the data of the session.
LEMMA FlushStep ==
    ASSUME TypeOK, SessionsFresh, FlushArmed, [Next]_vars
    PROVE  FlushArmed'
<1> USE DEF FlushArmed, app, shared, control, timers, buffers
<1>1. ASSUME UNCHANGED <<connection, buffer>>, pc = "send" => pc' = "send",
             queue_timeout # "none" => queue_timeout' # "none"
      PROVE  FlushArmed'
  BY <1>1
<1>2. ASSUME connection' = None \/ pc' = "send"
      PROVE  FlushArmed'
  BY <1>2
<1>3. CASE AppNext
  <2>1. UNCHANGED <<connection, buffer, pc>>
    BY <1>3, ControlUnchanged
  <2>2. UNCHANGED queue_timeout
    BY Zenon, <1>3 DEF AppNext, tracy_register, tracy_submit, tracepoint_enabled,
                tracy_submit_send, tracy_finit
  <2>3. QED
    BY <1>1, <2>1, <2>2
<1>4. CASE EnvNext \/ UNCHANGED vars
  BY Zenon, <1>1, <1>4 DEF EnvNext, connect, request, leave, queue_elapses,
                    udp_elapses, vars
<1>5. CASE LoopNext
  <2>1. CASE channel_payload
    BY Zenon, <2>1 DEF channel_payload, check_start
  <2>2. CASE establish_connection
    <3>1. /\ connection' = Head(backlog) /\ buffer' = buffer
          /\ backlog # <<>> /\ backlog \in Seq(Clients)
      BY Zenon, <2>2 DEF establish_connection, TypeOK
    <3>2. 1 \in DOMAIN backlog /\ Head(backlog) = backlog[1]
          /\ Head(backlog) \in Clients
      BY <3>1
    <3>3. \A i \in DOMAIN buffer : Accepted(buffer[i].sess)
      BY Zenon DEF SessionsFresh
    <3>4. \A i \in DOMAIN buffer : buffer[i].sess # Head(backlog)
      BY <3>2, <3>3 DEF Accepted, Clients, None
    <3>5. QED
      BY <3>1, <3>4
  <2>3. QED
    BY Zenon, <1>1, <1>2, <1>5, <2>1, <2>2
    DEF LoopNext, tracer_thread_main, poll_events, event_chan, event_timer,
        event_con_new_ignored, establish_connection_fails, take_event,
        event_con_data, events_done, channel_new_tracepoint, try_recv,
        channel_terminate, channel_empty, timer_queue, timer_udp, timer_empty
<1>6. CASE SendNext
  <2>1. CASE send_done
    BY Zenon, <2>1, BufferEmpty DEF send_done
  <2>2. CASE send_slices_panics
    BY <1>2, <2>2 DEF send_slices_panics
  <2>3. CASE send_slices_fails
    BY <1>2, <2>3 DEF send_slices_fails, close_and_clean_connection
  <2>4. CASE send_pack \/ send_slices_ok \/ send_slices_blocked
    BY Zenon, <1>2, <2>4 DEF send_pack, send_slices_ok, send_slices_blocked, FrameDue
  <2>5. QED
    BY <1>6, <2>1, <2>2, <2>3, <2>4 DEF SendNext
<1>7. CASE ReceiveNext
  <2>1. ASSUME NEW caller, close_and_clean_connection(caller)
        PROVE  FlushArmed'
    BY Zenon, <1>2, <2>1 DEF close_and_clean_connection
  <2>2. CASE send_tracepoint_list
    BY <1>1, <2>1, <2>2 DEF send_tracepoint_list, read_request
  <2>3. CASE read_empty
    BY Zenon, <1>1, <2>1, <2>3 DEF read_empty
  <2>4. QED
    BY Zenon, <1>1, <1>7, <2>1, <2>2, <2>3
    DEF ReceiveNext, receive_would_block, receive_eof, receive_invalid_header,
        execute_other_command, set_tracepoints, set_tracepoints_fails,
        read_request, close_clear_flag, close_start_udp_timer
<1>8. QED
  BY <1>3, <1>4, <1>5, <1>6, <1>7 DEF Next, TracerNext
-----------------------------------------------------------------------------
(* The theorems.                                                           *)

\* The first state satisfies SInv.
LEMMA InitSInv == Init => SInv
<1> SUFFICES ASSUME Init PROVE SInv
  OBVIOUS
<1>1. /\ channel = <<>> /\ buffer = <<>> /\ que = <<>> /\ backlog = <<>>
      /\ left = 0 /\ nsubmit = 0 /\ connection = None /\ appArg.sess = None
      /\ pc = "start"
  BY DEF Init, NoArg
<1>2. Handled = 0
  BY <1>1 DEF Handled
<1>3. QED
  BY <1>1, <1>2
  DEF SInv, QueuesInOrder, ChannelInOrder, TerminateLast, SessionsFresh,
      FlushArmed, ExitFlushed, IsPayload, Accepted

\* SInv holds beside IInv.
THEOREM StreamInvariance == Spec => []SInv
<1>1. IInv /\ SInv /\ [Next]_vars => SInv'
  BY OrderStep, TerminateStep, FreshStep, FlushStep, ExitStep DEF IInv, SInv
<1>2. QED
  BY Invariance, InitSInv, <1>1, PTL DEF Spec

\* Data of the current session never waits in the buffer without a timeout.
THEOREM FlushAlwaysArmed == Spec => []FlushArmed
  BY StreamInvariance, PTL DEF SInv

\* A thread that ends with its client connected has tried to send everything.
THEOREM ExitAlwaysFlushed == Spec => []ExitFlushed
  BY StreamInvariance, PTL DEF SInv

\* The first state is one of the abstract stream.
LEMMA InitStream == Init => Stream!Init
<1> SUFFICES ASSUME Init PROVE Stream!Init
  OBVIOUS
<1>1. nsubmit = 0 /\ left = 0 /\ sent = <<>>
  BY DEF Init
<1>2. [i \in DOMAIN sent |-> sent[i].elem.id] = <<>>
  BY <1>1
<1>3. QED
  BY <1>1, <1>2 DEF Stream!Init

\* What a concatenation is made of.
LEMMA Concatenation ==
    ASSUME NEW S, NEW T, NEW s \in Seq(S), NEW t \in Seq(T)
    PROVE  /\ Len(s) \in Nat /\ DOMAIN s = 1..Len(s) /\ Len(t) \in Nat
           /\ DOMAIN (s \o t) = 1..(Len(s) + Len(t))
           /\ \A i \in 1..Len(s) : (s \o t)[i] = s[i]
           /\ \A i \in 1..Len(t) : (s \o t)[Len(s) + i] = t[i]
<1>1. /\ Len(s) \in Nat /\ DOMAIN s = 1..Len(s) /\ Len(t) \in Nat
      /\ s \in Seq(S \cup T) /\ t \in Seq(S \cup T)
  OBVIOUS
<1>2. /\ s \o t \in Seq(S \cup T) /\ Len(s \o t) = Len(s) + Len(t)
  BY <1>1
<1>3. /\ DOMAIN (s \o t) = 1..(Len(s) + Len(t))
      /\ \A i \in 1..Len(s) : (s \o t)[i] = s[i]
  BY <1>1, <1>2
<1>4. \A i \in 1..Len(t) : (s \o t)[Len(s) + i] = t[i]
  BY <1>1, <1>2
<1>5. QED
  BY <1>1, <1>3, <1>4

\* A function that is made like a concatenation of numbers is one.
LEMMA IsConcatenation ==
    ASSUME NEW s \in Seq(Nat), NEW t \in Seq(Nat),
           NEW f \in [1..(Len(s) + Len(t)) -> Nat],
           \A i \in 1..Len(s) : f[i] = s[i],
           \A i \in 1..Len(t) : f[Len(s) + i] = t[i]
    PROVE  f = s \o t
<1> DEFINE g == s \o t
<1>1. /\ Len(s) \in Nat /\ Len(t) \in Nat
      /\ \A i \in 1..Len(s) : g[i] = s[i]
      /\ \A i \in 1..Len(t) : g[Len(s) + i] = t[i]
  BY Concatenation
<1>2. g \in Seq(Nat) /\ Len(g) = Len(s) + Len(t)
  OBVIOUS
<1> HIDE DEF g
<1>3. g \in [1..(Len(s) + Len(t)) -> Nat]
  BY <1>2
<1>4. ASSUME NEW i \in 1..(Len(s) + Len(t)) PROVE f[i] = g[i]
  <2>1. CASE i <= Len(s)
    <3>1. i \in 1..Len(s)
      BY <1>1, <2>1
    <3>2. QED
      BY <1>1, <3>1
  <2>2. CASE i > Len(s)
    <3>1. PICK j \in 1..Len(t) : i = Len(s) + j
      <4>1. i - Len(s) \in 1..Len(t) /\ i = Len(s) + (i - Len(s))
        BY <1>1, <2>2
      <4>2. QED
        BY Zenon, <4>1
    <3>2. QED
      BY <1>1, <3>1
  <2>3. QED
    BY <1>1, <2>1, <2>2
<1>5. f = g
  BY <1>3, <1>4
<1>6. QED
  BY SMTT(30), <1>5 DEF g

\* The numbers that follow m, as a sequence.
LEMMA NumbersFrom ==
    ASSUME NEW m \in Nat, NEW n \in Nat
    PROVE  LET s == [i \in 1..n |-> m + i]
           IN  s \in Seq(Nat) /\ Len(s) = n /\ \A i \in 1..n : s[i] = m + i
<1>1. \A i \in 1..n : m + i \in Nat
  BY SMTT(30)
<1>2. QED
  BY <1>1

\* Every step is one of the abstract stream, or leaves it alone.
LEMMA StepStream ==
    ASSUME IInv, SInv, FramesCarryData, [Next]_vars
    PROVE  [Stream!Next]_<<nsubmit, left, [i \in DOMAIN sent |-> sent[i].elem.id]>>
<1> DEFINE delivered == [i \in DOMAIN sent |-> sent[i].elem.id]
<1>1. /\ left \in Nat /\ nsubmit \in Nat /\ que \in Seq(Element)
      /\ Len(que) \in Nat /\ Len(buffer) \in Nat
      /\ sent \in Seq([elem : Element, to : Clients, aligned : BOOLEAN])
  BY DEF IInv, TypeOK
<1>2. ASSUME UNCHANGED <<nsubmit, left, sent>>
      PROVE  UNCHANGED <<nsubmit, left, delivered>>
  BY <1>2
<1>3. CASE ~Moves
  <2>1. UNCHANGED <<places, sent>>
    BY <1>3, OtherSteps
  <2>2. QED
    BY <1>2, <2>1 DEF places
<1>4. CASE \/ \E t \in Tracepoints : tracy_register(t)
           \/ tracy_finit \/ channel_payload \/ channel_new_tracepoint
           \/ channel_terminate \/ send_pack
  BY Zenon, <1>2, <1>4 DEF tracy_register, tracy_finit, channel_payload,
                    channel_new_tracepoint, channel_terminate, send_pack, app,
                    history
<1>5. CASE tracy_submit_send
  <2>1. UNCHANGED <<left, sent>> /\ nsubmit' \in {nsubmit, nsubmit + 1}
    BY <1>5 DEF tracy_submit_send, history
  <2>2. UNCHANGED delivered
    BY SMTT(30), <2>1
  <2> HIDE DEF delivered
  <2>3. QED
    BY SMTT(30), <2>1, <2>2 DEF Stream!Next, Stream!Accept, delivered
<1>6. CASE send_slices_ok \/ send_slices_blocked \/ send_slices_fails
  <2> DEFINE k == left + Len(que)
  <2>1. left' = k /\ UNCHANGED nsubmit
    BY <1>6 DEF send_slices_ok, send_slices_blocked, send_slices_fails, app
  <2>2. k \in (left + 1)..nsubmit
    <3>1. que # <<>>
      BY <1>6 DEF FramesCarryData, send_slices_ok, send_slices_blocked,
                  send_slices_fails
    <3>2. Len(que) # 0
      BY SMTT(30), <1>1, <3>1
    <3>3. left + Len(que) + Len(buffer) <= nsubmit
      BY DEF SInv, ChannelInOrder, Handled
    <3>4. QED
      BY SMTT(30), <1>1, <3>2, <3>3
  <2>3. CASE send_slices_blocked \/ send_slices_fails
    <3>1. UNCHANGED delivered
      BY SMTT(30), <2>3 DEF send_slices_blocked, send_slices_fails
    <3>2. Stream!Lose(k)
      BY <2>1, <3>1 DEF Stream!Lose
    <3>3. QED
      BY <2>2, <3>2 DEF Stream!Next
  <2>4. ASSUME send_slices_ok PROVE Stream!Deliver(k)
    <3> DEFINE frame == [i \in DOMAIN que |->
                           [elem |-> que[i], to |-> connection,
                            aligned |-> connection \notin cut]]
               ids == [i \in 1..(k - left) |-> left + i]
               Sent == [elem : Element, to : Clients, aligned : BOOLEAN]
               Frames == [elem : Element, to : {connection}, aligned : BOOLEAN]
    <3>1. sent' = sent \o frame
      BY <2>4 DEF send_slices_ok
    <3>2. DOMAIN que = 1..Len(que) /\ \A i \in 1..Len(que) : que[i] \in Element
      BY <1>1
    <3>3. frame \in Seq(Frames) /\ Len(frame) = Len(que)
      BY SMTT(30), <1>1, <3>2
    <3>4. \A i \in 1..Len(que) : frame[i].elem.id = left + i
      <4>1. \A i \in 1..Len(que) : que[i].id = left + i
        BY <3>2 DEF SInv, QueuesInOrder
      <4>2. QED
        BY <3>2, <4>1
    <3>5. sent \in Seq(Sent)
      BY <1>1
    <3>6. \A x \in Sent : x.elem.id \in Nat
      BY DEF Element
    <3>7. ids \in Seq(Nat) /\ Len(ids) = Len(que)
          /\ \A i \in 1..Len(que) : ids[i] = left + i
      <4>1. k - left = Len(que)
        BY <1>1
      <4> HIDE DEF k
      <4>2. ids = [i \in 1..Len(que) |-> left + i]
        BY <4>1
      <4>3. left \in Nat /\ Len(que) \in Nat
        BY <1>1
      <4> HIDE DEF ids
      <4>4. QED
        BY <4>2, <4>3, NumbersFrom
    <3> HIDE DEF frame, ids, Sent, Frames
    <3>8. /\ DOMAIN sent = 1..Len(sent) /\ Len(sent) \in Nat
          /\ DOMAIN sent' = 1..(Len(sent) + Len(que))
          /\ \A i \in 1..Len(sent) : sent'[i] = sent[i]
          /\ \A i \in 1..Len(que) : sent'[Len(sent) + i] = frame[i]
      <4>1. Len(sent) \in Nat /\ DOMAIN sent = 1..Len(sent)
        BY <3>5
      <4>2. DOMAIN (sent \o frame) = 1..(Len(sent) + Len(frame))
        <5>1. sent \o frame \in Seq(Sent \cup Frames)
              /\ Len(sent \o frame) = Len(sent) + Len(frame)
          BY SMTT(30), <3>3, <3>5
        <5>2. QED
          BY <5>1
      <4>3. \A i \in 1..Len(sent) : (sent \o frame)[i] = sent[i]
        BY SMTT(30), <3>3, <3>5, Concatenation
      <4>4. \A i \in 1..Len(frame) : (sent \o frame)[Len(sent) + i] = frame[i]
        BY SMTT(30), <3>3, <3>5, Concatenation
      <4>5. QED
        BY Zenon, <3>1, <3>3, <4>1, <4>2, <4>3, <4>4
    <3>9. \A i \in 1..Len(sent) : sent[i].elem.id \in Nat
      BY <3>5, <3>6, <3>8
    <3>10. delivered \in Seq(Nat) /\ Len(delivered) = Len(sent)
      BY SMTT(30), <3>8, <3>9
    <3>11. \A i \in 1..Len(sent) : delivered'[i] = delivered[i]
      BY SMTT(30), <1>1, <3>8
    <3>12. \A i \in 1..Len(que) : delivered'[Len(sent) + i] = ids[i]
      <4>1. \A i \in 1..Len(que) : delivered'[Len(sent) + i] = frame[i].elem.id
        BY <1>1, <3>8
      <4>2. QED
        BY <3>4, <3>7, <4>1
    <3>13. delivered' \in [1..(Len(sent) + Len(que)) -> Nat]
      <4>1. ASSUME NEW i \in 1..(Len(sent) + Len(que))
            PROVE  sent'[i].elem.id \in Nat
        <5>1. CASE i <= Len(sent)
          BY <3>8, <3>9, <5>1
        <5>2. CASE i > Len(sent)
          <6>1. i - Len(sent) \in 1..Len(que) /\ i = Len(sent) + (i - Len(sent))
            BY <1>1, <3>8, <5>2
          <6>2. sent'[i] = frame[i - Len(sent)]
            BY <3>8, <6>1
          <6>3. left + (i - Len(sent)) \in Nat
            BY <1>1, <6>1
          <6>4. QED
            BY <3>4, <6>1, <6>2, <6>3
        <5>3. QED
          BY <3>8, <5>1, <5>2
      <4>2. QED
        BY <3>8, <4>1
    <3> HIDE DEF delivered
    <3>14. delivered' = delivered \o ids
      <4>1. /\ delivered' \in [1..(Len(delivered) + Len(ids)) -> Nat]
            /\ \A i \in 1..Len(delivered) : delivered'[i] = delivered[i]
            /\ \A i \in 1..Len(ids) : delivered'[Len(delivered) + i] = ids[i]
        BY <3>7, <3>10, <3>11, <3>12, <3>13, Zenon
      <4>2. QED
        <5>1. PICK d, e, f : d = delivered /\ e = ids /\ f = delivered'
          OBVIOUS
        <5>2. /\ d \in Seq(Nat) /\ e \in Seq(Nat)
              /\ f \in [1..(Len(d) + Len(e)) -> Nat]
              /\ \A i \in 1..Len(d) : f[i] = d[i]
              /\ \A i \in 1..Len(e) : f[Len(d) + i] = e[i]
          BY Zenon, <3>7, <3>10, <4>1, <5>1
        <5>3. f = d \o e
          BY Zenon, <5>2, IsConcatenation
        <5>4. QED
          BY <5>1, <5>3
    <3>15. QED
      BY Zenon, <2>1, <3>14 DEF Stream!Deliver, delivered, ids
  <2>5. CASE send_slices_ok
    <3>1. Stream!Deliver(k)
      BY <2>4, <2>5
    <3>2. \E j \in (left + 1)..nsubmit : Stream!Deliver(j) \/ Stream!Lose(j)
      BY Zenon, <2>2, <3>1 DEF Stream!Deliver
    <3>3. QED
      BY <3>2 DEF Stream!Next
  <2>6. QED
    BY SMTT(30), <1>6, <2>3, <2>5
<1>7. QED
  BY <1>3, <1>4, <1>5, <1>6 DEF Moves

\* The tracer implements the abstract stream: every payload that tracy_submit
\* accepted leaves once and in order, delivered or given up.
THEOREM Refinement == Spec => StreamSpec
<1>1. IInv /\ SInv /\ FramesCarryData /\ [Next]_vars
      => [Stream!Next]_<<nsubmit, left, [i \in DOMAIN sent |-> sent[i].elem.id]>>
  BY StepStream
<1>2. QED
  BY Invariance, StreamInvariance, NoEmptyFrame, InitStream, <1>1, PTL
  DEF Spec, StreamSpec, Stream!Spec

\* If accept() succeeds whenever a client waits, every step of a tracer that is
\* not serving anybody leaves its next announcement scheduled.
LEMMA IdleStep ==
    ASSUME "accept" \notin Faults, IInv, IdleAnnounces, [Next]_vars
    PROVE  IdleAnnounces'
<1> USE DEF IdleAnnounces
<1>1. CASE AppNext \/ UNCHANGED vars
  BY Zenon, <1>1
  DEF AppNext, tracy_register, tracy_submit, tracepoint_enabled,
      tracy_submit_send, tracy_finit, timers, control, beacon, vars
<1>2. CASE EnvNext
  BY <1>2 DEF EnvNext, connect, request, leave, queue_elapses, udp_elapses,
              timers, control, beacon
<1>3. CASE LoopNext
  <2>1. CASE tracer_thread_main
    BY <2>1 DEF tracer_thread_main, check_start, Running
  <2>2. CASE establish_connection
    <3>1. connection' = Head(backlog) /\ backlog # <<>> /\ backlog \in Seq(Clients)
      BY <2>2 DEF establish_connection, IInv, TypeOK
    <3>2. connection' \in Clients
      BY <3>1
    <3>3. QED
      BY <3>2 DEF Clients, None
  <2>3. ~establish_connection_fails
    <3>1. ASSUME establish_connection_fails
          PROVE  pc = "events" /\ "CON_NEW" \in batch /\ backlog = <<>>
      BY Zenon, <3>1 DEF establish_connection_fails, take_event, NextTokens
    <3>2. IInv /\ "CON_NEW" \in batch => backlog # <<>>
      BY DEF IInv, TypeOK, RequestHasClient, RequestsIn
    <3>3. QED
      BY <3>1, <3>2
  <2>4. CASE timer_udp
    BY <2>4 DEF timer_udp, restart_udp_timer, check_start
  <2>5. QED
    BY Zenon, <1>3, <2>1, <2>2, <2>3, <2>4
    DEF LoopNext, poll_events, event_chan, event_timer, event_con_new_ignored,
        take_event, event_con_data, events_done, channel_payload, try_recv,
        channel_new_tracepoint, channel_terminate, channel_empty, timer_queue,
        timer_empty, Running, timers, control, beacon
<1>4. ASSUME NEW caller, close_and_clean_connection(caller)
      PROVE  pc' \in {"close", "panic_close"}
  BY Zenon, <1>4 DEF close_and_clean_connection
<1>5. CASE SendNext
  BY <1>4, <1>5
  DEF SendNext, send_done, send_pack, send_slices_ok, send_slices_blocked,
      send_slices_fails, send_slices_panics, FrameDue, Running, timers, control,
      beacon
<1>6. CASE ReceiveNext
  <2>1. CASE close_start_udp_timer
    BY <2>1 DEF close_start_udp_timer, check_start
  <2>2. QED
    BY Zenon, <1>4, <1>6, <2>1
    DEF ReceiveNext, receive_would_block, receive_eof, receive_invalid_header,
        read_empty, execute_other_command, send_tracepoint_list,
        set_tracepoints, set_tracepoints_fails, read_request, close_clear_flag,
        Running, timers, control, beacon
<1>7. QED
  BY <1>1, <1>2, <1>3, <1>5, <1>6 DEF Next, TracerNext

\* As long as accept() does not fail on a client that waits, an announcing tracer
\* without a client always has its next announcement scheduled.
THEOREM IdleTracerAnnounces ==
    "accept" \notin Faults => (Spec => []IdleAnnounces)
<1> SUFFICES ASSUME "accept" \notin Faults
             PROVE  Spec => []IdleAnnounces
  OBVIOUS
<1>1. Init => IdleAnnounces
  BY DEF Init, IdleAnnounces
<1>2. IInv /\ IdleAnnounces /\ [Next]_vars => IdleAnnounces'
  BY IdleStep
<1>3. QED
  BY Invariance, <1>1, <1>2, PTL DEF Spec
=============================================================================
