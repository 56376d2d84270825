--------------------------- MODULE ProgressProofs ---------------------------
(***************************************************************************)
(* The tracer thread comes to rest, for every number of clients, requests, *)
(* submits and tracepoints: every step makes the numbers of TracerProgress *)
(* smaller.                                                                *)
(***************************************************************************)
EXTENDS TracerProofs, TracerProgress, FiniteSetTheorems

\* poll is called with no event left over, and the sets are finite.
Tidy ==
    /\ pc \in {"start", "poll"} => batch = {}
    /\ pc = "close" => ret # "poll"
    /\ IsFiniteSet(tracepoints) /\ IsFiniteSet(toClear)

\* Closing remembers to go anywhere but to poll.
LEMMA CloseTidy ==
    ASSUME Tidy, NEW r, r # "poll", close_and_clean_connection(r)
    PROVE  /\ pc' \in {"close", "panic_close"}
           /\ pc' = "close" => ret' # "poll"
           /\ IsFiniteSet(toClear')
  BY DEF Tidy, close_and_clean_connection, flags_to_clear

\* Every step keeps this.
LEMMA TidyStep ==
    ASSUME IInv, Tidy, [Next]_vars
    PROVE  Tidy'
<1>1. ASSUME UNCHANGED <<pc, ret, batch, tracepoints, toClear>> PROVE Tidy'
  BY <1>1 DEF Tidy
<1>2. ASSUME pc' \notin {"start", "poll", "close"},
             UNCHANGED <<tracepoints, toClear>>
      PROVE  Tidy'
  BY <1>2 DEF Tidy
<1>3. ASSUME NEW r, r # "poll", close_and_clean_connection(r),
             UNCHANGED tracepoints
      PROVE  Tidy'
  <2>1. /\ pc' \notin {"start", "poll"} /\ (pc' = "close" => ret' # "poll")
        /\ IsFiniteSet(toClear')
    BY <1>3, CloseTidy
  <2>2. QED
    BY <1>3, <2>1 DEF Tidy
<1>4. CASE AppNext \/ EnvNext \/ UNCHANGED vars
  <2>1. UNCHANGED <<pc, ret, batch, tracepoints, toClear>>
    BY <1>4, ControlUnchanged DEF vars, control
  <2>2. QED
    BY <1>1, <2>1
<1>5. CASE LoopNext
  <2>1. CASE tracer_thread_main
    BY Zenon, <2>1 DEF tracer_thread_main, Tidy
  <2>2. CASE poll_events
    BY <1>2, <2>2 DEF poll_events
  <2>3. CASE event_chan \/ event_timer \/ event_con_data
    BY <1>2, <2>3 DEF event_chan, event_timer, event_con_data
  <2>4. CASE \/ event_con_new_ignored \/ establish_connection
             \/ establish_connection_fails
    BY <1>2, <2>4 DEF event_con_new_ignored, establish_connection,
                      establish_connection_fails, take_event
  <2>5. CASE events_done
    BY <2>5 DEF events_done, Tidy
  <2>6. CASE channel_payload \/ channel_terminate \/ timer_queue
    BY <1>2, <2>6 DEF channel_payload, channel_terminate, timer_queue, try_recv
  <2>7. CASE channel_new_tracepoint
    <3>1. /\ pc = "channel" /\ pc' = pc /\ toClear' = toClear
          /\ tracepoints' = tracepoints \cup {Head(channel).tp}
      BY <2>7 DEF channel_new_tracepoint, try_recv, control
    <3>2. IsFiniteSet(tracepoints')
      BY <3>1, FS_AddElement DEF Tidy
    <3>3. QED
      BY <3>1, <3>2 DEF Tidy
  <2>8. CASE channel_empty \/ timer_empty
    BY <1>2, <2>8 DEF channel_empty, timer_empty
  <2>9. CASE timer_udp
    BY <1>1, <2>9 DEF timer_udp, control
  <2>10. QED
    BY Zenon, <1>5, <2>1, <2>2, <2>3, <2>4, <2>5, <2>6, <2>7, <2>8, <2>9
       DEF LoopNext
<1>6. CASE SendNext
  <2>1. pc = "send" /\ ret \in {"channel", "timer", "exit"}
    BY <1>6 DEF SendNext, send_pack, send_slices_ok, send_slices_blocked,
       send_slices_fails, send_slices_panics, send_done, FrameDue, IInv,
       ReaderHeld
  <2>2. CASE send_pack \/ send_slices_ok \/ send_slices_blocked
    BY <1>1, <2>2 DEF send_pack, send_slices_ok, send_slices_blocked, control
  <2>3. CASE send_slices_fails
    BY <1>3, <2>1, <2>3 DEF send_slices_fails
  <2>4. CASE send_slices_panics \/ send_done
    BY <1>2, <2>1, <2>4 DEF send_slices_panics, send_done
  <2>5. QED
    BY Zenon, <1>6, <2>2, <2>3, <2>4 DEF SendNext
<1>7. CASE ReceiveNext
  <2>1. CASE receive_would_block
    BY <1>2, <2>1 DEF receive_would_block
  <2>2. CASE receive_eof \/ receive_invalid_header \/ set_tracepoints_fails
    BY <1>3, <2>2 DEF receive_eof, receive_invalid_header,
                      set_tracepoints_fails
  <2>3. CASE read_empty
    BY <1>2, <1>3, <2>3 DEF read_empty
  <2>4. CASE execute_other_command \/ set_tracepoints
    BY <1>1, <2>4 DEF execute_other_command, set_tracepoints, control
  <2>5. CASE send_tracepoint_list
    <3>1. CASE close_and_clean_connection("receive")
      BY <1>3, <2>5, <3>1 DEF send_tracepoint_list
    <3>2. CASE ~close_and_clean_connection("receive")
      BY <1>2, <2>5, <3>2 DEF send_tracepoint_list, read_request
    <3>3. QED
      BY <3>1, <3>2
  <2>6. CASE \E t \in Tracepoints : close_clear_flag(t)
    <3>1. PICK t \in Tracepoints : close_clear_flag(t)
      BY <2>6
    <3>2. /\ UNCHANGED <<pc, ret, batch, tracepoints>>
          /\ toClear' = toClear \ {t}
      BY <3>1 DEF close_clear_flag
    <3>3. IsFiniteSet(toClear')
      BY <3>2, FS_RemoveElement DEF Tidy
    <3>4. QED
      BY <3>2, <3>3 DEF Tidy
  <2>7. CASE close_start_udp_timer
    <3>1. /\ pc = "close" /\ pc' = ret /\ UNCHANGED <<tracepoints, toClear>>
      BY <2>7 DEF close_start_udp_timer
    <3>2. ret \in Returns /\ ret # "poll"
      BY <3>1 DEF IInv, TypeOK, Tidy
    <3>3. QED
      BY <1>2, <3>1, <3>2 DEF Returns
  <2>8. QED
    BY Zenon, <1>7, <2>1, <2>2, <2>3, <2>4, <2>5, <2>6, <2>7 DEF ReceiveNext
<1>8. QED
  BY Zenon, <1>4, <1>5, <1>6, <1>7 DEF Next, TracerNext

\* The numbers are natural numbers, so that there is no way down forever.
Numbers == Events \in Nat /\ Supply \in Nat /\ Inside \in Nat /\ WayBack \in Nat
Sizes ==
    /\ Len(channel) \in Nat /\ Len(buffer) \in Nat /\ Len(que) \in Nat
    /\ Unread \in Nat /\ Cardinality(toClear) \in Nat
LEMMA Measures == IInv /\ Tidy => Numbers /\ Sizes
<1> SUFFICES ASSUME IInv, Tidy PROVE Numbers /\ Sizes
  OBVIOUS
<1>1. \A b : Bit(b) \in Nat
  BY DEF Bit
<1>2. Events \in Nat
  <2>1. \A a, b, c, d \in Nat : 4 * a + 2 * b + 2 * c + 2 * d \in Nat
    OBVIOUS
  <2>2. \A a, b, c, d \in Nat : 3 * a + b + c + d \in Nat
    OBVIOUS
  <2>3. Pending \in Nat
    BY Zenon, <1>1, <2>1 DEF Pending
  <2>4. Known \in Nat
    BY Zenon, <1>1, <2>2 DEF Known
  <2>5. QED
    BY <2>3, <2>4 DEF Events
<1>3. Len(channel) \in Nat /\ Len(buffer) \in Nat /\ Len(que) \in Nat
  BY DEF IInv, TypeOK
<1>4. Supply \in Nat
  <2>1. \A a, b, c, d \in Nat : a + b + c + d \in Nat
    OBVIOUS
  <2>2. QED
    BY Zenon, <1>1, <1>3, <2>1 DEF Supply
<1>5. Unread \in Nat
  <2>1. reader # None => reader \in Clients
    BY DEF IInv, TypeOK, Clients, None
  <2>2. inbox \in [Clients -> Seq(Request)]
    BY DEF IInv, TypeOK
  <2>3. reader # None => Len(inbox[reader]) \in Nat
    BY <2>1, <2>2
  <2>4. QED
    BY <2>3 DEF Unread
<1>6. Cardinality(toClear) \in Nat
  BY FS_CardinalityType DEF Tidy
<1>7. Inside \in Nat
  BY <1>3, <1>5, <1>6 DEF Inside
<1>8. WayBack \in Nat
  BY DEF WayBack
<1>9. QED
  BY <1>2, <1>3, <1>4, <1>5, <1>6, <1>7, <1>8 DEF Numbers, Sizes
-----------------------------------------------------------------------------
(* The numbers, one by one.                                                *)

\* The order of the four numbers.
LEMMA Down ==
    ASSUME Numbers, Numbers', Events' <= Events,
           \/ Events' < Events
           \/ /\ Supply' <= Supply
              /\ \/ Supply' < Supply
                 \/ /\ Inside' <= Inside
                    /\ Inside' < Inside \/ WayBack' < WayBack
    PROVE  LessToDo
<1>1. /\ Events \in Nat /\ Supply \in Nat /\ Inside \in Nat
      /\ Events' \in Nat /\ Supply' \in Nat /\ Inside' \in Nat
  BY DEF Numbers
<1>2. /\ Events' < Events \/ Events' = Events
      /\ Supply' <= Supply => Supply' < Supply \/ Supply' = Supply
      /\ Inside' <= Inside => Inside' < Inside \/ Inside' = Inside
  BY <1>1
<1>3. QED
  BY Zenon, <1>2 DEF LessToDo

\* What the handlers announce to poll: a step that leaves the lists of events
\* alone and stays in the handler, or leaves nothing ready behind.
ChannelServed == In("channel") \/ In("exit")
HandlerKept ==
    /\ channel' # <<>> => channel # <<>>
    /\ "elapsed" \in {queue_timeout', udp_timeout'}
         => "elapsed" \in {queue_timeout, udp_timeout}
    /\ (ChannelServed /\ Alive' /\ channel' # <<>>) => ChannelServed'
    /\ (In("timer") /\ Alive'
          /\ "elapsed" \in {queue_timeout', udp_timeout'}) => In("timer")'

LEMMA EventsKept ==
    ASSUME Alive, HandlerKept, batch' = batch, edges' \subseteq edges
    PROVE  Events' <= Events
<1>1. (ChannelPending' => ChannelPending) /\ (TimerPending' => TimerPending)
  <2>1. ChannelPending' => ChannelPending
    BY Zenon DEF HandlerKept, ChannelPending, ChannelServed
  <2>2. TimerPending' => TimerPending
    BY Zenon DEF HandlerKept, TimerPending
  <2>3. QED
    BY <2>1, <2>2
<1>2. Known' = Known /\ Known \in Nat
  <2>1. \A a : Bit(a) \in Nat
    BY DEF Bit
  <2>2. \A a, b, c, d \in Nat : 3 * a + b + c + d \in Nat
    OBVIOUS
  <2>3. Known \in Nat
    BY Zenon, <2>1, <2>2 DEF Known
  <2>4. Known' = Known
    BY Zenon DEF Known
  <2>5. QED
    BY <2>3, <2>4
<1>3. Pending' <= Pending /\ Pending \in Nat /\ Pending' \in Nat
  <2>1. /\ Bit("CON_NEW" \in edges') <= Bit("CON_NEW" \in edges)
        /\ Bit("CON_DATA" \in edges') <= Bit("CON_DATA" \in edges)
    BY DEF Bit
  <2>2. /\ Bit(ChannelPending') <= Bit(ChannelPending)
        /\ Bit(TimerPending') <= Bit(TimerPending)
    BY <1>1 DEF Bit
  <2>3. /\ Bit("CON_NEW" \in edges) \in Nat /\ Bit("CON_NEW" \in edges') \in Nat
        /\ Bit("CON_DATA" \in edges) \in Nat
        /\ Bit("CON_DATA" \in edges') \in Nat
        /\ Bit(ChannelPending) \in Nat /\ Bit(ChannelPending') \in Nat
        /\ Bit(TimerPending) \in Nat /\ Bit(TimerPending') \in Nat
    BY DEF Bit
  <2>4. \A a, b, c, d, a1, b1, c1, d1 \in Nat :
           (a1 <= a /\ b1 <= b /\ c1 <= c /\ d1 <= d) =>
              /\ 4 * a1 + 2 * b1 + 2 * c1 + 2 * d1
                   <= 4 * a + 2 * b + 2 * c + 2 * d
              /\ 4 * a1 + 2 * b1 + 2 * c1 + 2 * d1 \in Nat
              /\ 4 * a + 2 * b + 2 * c + 2 * d \in Nat
    OBVIOUS
  <2>5. QED
    BY <2>1, <2>2, <2>3, <2>4 DEF Pending
<1>4. \A m, n, k \in Nat : m <= n => m + k <= n + k
  OBVIOUS
<1>5. QED
  BY Zenon, <1>2, <1>3, <1>4 DEF Events

\* A sum of four numbers, none of which grows.
LEMMA SumOfFour ==
    ASSUME NEW k \in Nat, NEW l \in Nat, NEW m \in Nat, NEW n \in Nat,
           NEW k1 \in Nat, NEW l1 \in Nat, NEW m1 \in Nat, NEW n1 \in Nat,
           k1 <= k, l1 <= l, m1 <= m, n1 <= n
    PROVE  /\ k1 + l1 + m1 + n1 <= k + l + m + n
           /\ (l1 < l \/ k1 < k \/ m1 < m \/ n1 < n)
                => k1 + l1 + m1 + n1 < k + l + m + n
OBVIOUS

\* Supplies that are not renewed, and one that is used up.
SupplyUsed ==
    \/ Len(channel') < Len(channel)
    \/ connection # None /\ connection' = None
    \/ queue_timeout = "elapsed" /\ queue_timeout' # "elapsed"
    \/ udp_timeout = "elapsed" /\ udp_timeout' # "elapsed"
LEMMA SupplyKept ==
    ASSUME Len(channel) \in Nat, Len(channel') \in Nat,
           Len(channel') <= Len(channel),
           connection' \in {connection, None},
           queue_timeout' = "elapsed" => queue_timeout = "elapsed",
           udp_timeout' = "elapsed" => udp_timeout = "elapsed"
    PROVE  Supply' <= Supply /\ (SupplyUsed => Supply' < Supply)
<1> DEFINE a == Bit(connection # None)
           b == Bit(queue_timeout = "elapsed")
           c == Bit(udp_timeout = "elapsed")
<1>1. /\ a \in Nat /\ a' \in Nat /\ b \in Nat /\ b' \in Nat
      /\ c \in Nat /\ c' \in Nat
      /\ a' <= a /\ b' <= b /\ c' <= c
  BY DEF Bit
<1>2. /\ (connection # None /\ connection' = None) => a' < a
      /\ (queue_timeout = "elapsed" /\ queue_timeout' # "elapsed") => b' < b
      /\ (udp_timeout = "elapsed" /\ udp_timeout' # "elapsed") => c' < c
  BY DEF Bit
<1>3. /\ Supply = a + Len(channel) + b + c
      /\ Supply' = a' + Len(channel') + b' + c'
  BY DEF Supply
<1>4. SupplyUsed => \/ Len(channel') < Len(channel) \/ a' < a \/ b' < b
                    \/ c' < c
  BY Zenon, <1>2 DEF SupplyUsed
<1> HIDE DEF a, b, c
<1>5. QED
  BY Zenon, <1>1, <1>3, <1>4, SumOfFour

\* Closing uses up the connection, or ends the thread.
LEMMA CloseUses ==
    ASSUME TypeOK, Alive, NEW r \in Returns, close_and_clean_connection(r)
    PROVE  /\ edges' \subseteq edges /\ connection' \in {connection, None}
           /\ queue_timeout' = "elapsed" => queue_timeout = "elapsed"
           /\ \/ /\ connection # None /\ connection' = None
                 /\ pc' = "close" /\ ret' = r
              \/ pc' = "panic_close" /\ toClear' = toClear /\ ~Alive'
  BY DEF close_and_clean_connection, check_stop, Alive, Running

\* A step outside of the handlers, inside of one, or to the end of the thread.
LEMMA Outside ==
    ASSUME pc \notin {"channel", "timer", "send", "close", "exit"},
           channel' = channel,
           "elapsed" \in {queue_timeout', udp_timeout'}
             => "elapsed" \in {queue_timeout, udp_timeout}
    PROVE  HandlerKept
  BY DEF HandlerKept, ChannelServed, In

LEMMA Within ==
    ASSUME channel' # <<>> => channel # <<>>,
           "elapsed" \in {queue_timeout', udp_timeout'}
             => "elapsed" \in {queue_timeout, udp_timeout},
           \/ UNCHANGED <<pc, ret>>
           \/ pc \in {"channel", "timer", "exit"} /\ pc' = "send" /\ ret' = pc
           \/ pc = "send" /\ pc' = "close" /\ ret' = ret
           \/ pc \in {"send", "close"} /\ pc' = ret /\ ret' = ret
           \/ ~Alive'
    PROVE  HandlerKept
<1>1. \A h \in {"channel", "timer", "exit"} : (In(h) /\ Alive') => In(h)'
  BY DEF In
<1>2. QED
  BY Zenon, <1>1 DEF HandlerKept, ChannelServed
-----------------------------------------------------------------------------
(* The events.                                                             *)

LEMMA BitType == \A b : Bit(b) \in 0..1
  BY DEF Bit

\* poll moves the pending events to the list of those the thread knows.
LEMMA PollTakes ==
    ASSUME TypeOK, Tidy, poll_events
    PROVE  Events' < Events
<1> DEFINE a == Bit("CON_NEW" \in edges)
           b == Bit("CON_DATA" \in edges)
           c == Bit(ChannelPending)
           d == Bit(TimerPending)
<1>1. /\ pc = "poll" /\ batch = {} /\ edges' = {} /\ batch' = ReadyTokens
      /\ ReadyTokens # {} /\ UNCHANGED <<channel, queue_timeout, udp_timeout>>
  BY DEF poll_events, Tidy, shared, timers
<1>2. edges \subseteq {"CON_NEW", "CON_DATA"}
  BY DEF TypeOK
<1>3. /\ ChannelPending <=> channel # <<>>
      /\ TimerPending <=> "elapsed" \in {queue_timeout, udp_timeout}
  BY <1>1 DEF ChannelPending, TimerPending, In, Alive, Running
<1>4. /\ "CON_NEW" \in batch' <=> "CON_NEW" \in edges
      /\ "CON_DATA" \in batch' <=> "CON_DATA" \in edges
      /\ "CHAN" \in batch' <=> ChannelPending
      /\ "TIMER" \in batch' <=> TimerPending
  BY <1>1, <1>2, <1>3 DEF ReadyTokens, ChannelReady, TimerReady
<1>5. ~ChannelPending' /\ ~TimerPending'
  BY <1>1, <1>3, <1>4 DEF ChannelPending, TimerPending
<1>6. \/ "CON_NEW" \in edges \/ "CON_DATA" \in edges
      \/ ChannelPending \/ TimerPending
  BY Zenon, <1>1, <1>2, <1>3 DEF ReadyTokens, ChannelReady, TimerReady
<1>8. Pending = 4 * a + 2 * b + 2 * c + 2 * d
  BY Zenon DEF Pending
<1>9. Known = 0
  <2>1. /\ Bit("CON_NEW" \in batch) = 0 /\ Bit("CON_DATA" \in batch) = 0
        /\ Bit("CHAN" \in batch) = 0 /\ Bit("TIMER" \in batch) = 0
    BY <1>1 DEF Bit
  <2>2. QED
    BY <2>1 DEF Known
<1>10. Pending' = 0
  <2>1. /\ Bit("CON_NEW" \in edges') = 0 /\ Bit("CON_DATA" \in edges') = 0
        /\ Bit(ChannelPending') = 0 /\ Bit(TimerPending') = 0
    BY <1>1, <1>5 DEF Bit
  <2>2. QED
    BY <2>1 DEF Pending
<1>11. Known' = 3 * a + b + c + d
  <2>1. /\ Bit("CON_NEW" \in batch') = a /\ Bit("CON_DATA" \in batch') = b
        /\ Bit("CHAN" \in batch') = c /\ Bit("TIMER" \in batch') = d
    BY <1>4 DEF Bit
  <2>2. QED
    BY Zenon, <2>1 DEF Known
<1>12. /\ a \in 0..1 /\ b \in 0..1 /\ c \in 0..1 /\ d \in 0..1
       /\ a = 1 \/ b = 1 \/ c = 1 \/ d = 1
  BY <1>6 DEF Bit
<1> HIDE DEF a, b, c, d
<1>13. Pending \in Nat /\ Known' < Pending /\ Known' \in Nat
  BY <1>8, <1>11, <1>12
<1>14. \A m, n \in Nat : m < n => 0 + m < n + 0
  OBVIOUS
<1>15. QED
  BY Zenon, <1>9, <1>10, <1>13, <1>14 DEF Events

\* An event that is handled is off the list, and at most CON_DATA is new.
LEMMA EventTaken ==
    ASSUME pc = "events",
           NEW token \in {"CON_NEW", "CON_DATA", "CHAN", "TIMER"},
           token \in batch, batch' = batch \ {token},
           "CON_NEW" \in edges' => "CON_NEW" \in edges,
           token # "CON_NEW" => edges' = edges,
           token = "CHAN" => pc' = "channel",
           token = "TIMER" => pc' = "timer",
           channel' = channel,
           "elapsed" \in {queue_timeout', udp_timeout'}
             => "elapsed" \in {queue_timeout, udp_timeout}
    PROVE  Events' < Events
<1> DEFINE a == Bit("CON_NEW" \in edges)
           b == Bit("CON_DATA" \in edges)
           c == Bit(ChannelPending)
           d == Bit(TimerPending)
           p == Bit("CON_NEW" \in batch)
           q == Bit("CON_DATA" \in batch)
           r == Bit("CHAN" \in batch)
           s == Bit("TIMER" \in batch)
<1>1. Alive /\ \A h : h \in {"channel", "timer", "exit"} => ~In(h)
  BY DEF Alive, Running, In
<1>2. ChannelPending' => ChannelPending
  <2>1. token = "CHAN" => In("channel")'
    BY DEF In
  <2>2. QED
    BY <1>1, <2>1 DEF ChannelPending
<1>3. TimerPending' => TimerPending
  <2>1. token = "TIMER" => In("timer")'
    BY DEF In
  <2>2. QED
    BY <1>1, <2>1 DEF TimerPending
<1>4. /\ a \in 0..1 /\ b \in 0..1 /\ c \in 0..1 /\ d \in 0..1
      /\ a' \in 0..1 /\ b' \in 0..1 /\ c' \in 0..1 /\ d' \in 0..1
  BY Zenon, BitType
<1>5. /\ p \in 0..1 /\ q \in 0..1 /\ r \in 0..1 /\ s \in 0..1
      /\ p' \in 0..1 /\ q' \in 0..1 /\ r' \in 0..1 /\ s' \in 0..1
  BY Zenon, BitType
<1>6. a' <= a /\ (token # "CON_NEW" => b' = b)
  BY DEF Bit
<1>7. c' <= c /\ d' <= d
  BY <1>2, <1>3 DEF Bit
<1>8. /\ p' <= p /\ q' <= q /\ r' <= r /\ s' <= s
      /\ token = "CON_NEW" => p = 1 /\ p' = 0
      /\ token = "CON_DATA" => q = 1 /\ q' = 0
      /\ token = "CHAN" => r = 1 /\ r' = 0
      /\ token = "TIMER" => s = 1 /\ s' = 0
  BY DEF Bit
<1>9. /\ Pending = 4 * a + 2 * b + 2 * c + 2 * d
      /\ Pending' = 4 * a' + 2 * b' + 2 * c' + 2 * d'
  BY Zenon DEF Pending
<1>10. Known = 3 * p + q + r + s /\ Known' = 3 * p' + q' + r' + s'
  BY Zenon DEF Known
<1>11. Events = Pending + Known /\ Events' = Pending' + Known'
  BY Zenon DEF Events
<1> HIDE DEF a, b, c, d, p, q, r, s
<1>12. /\ Pending' \in Nat /\ Pending \in Nat
       /\ Pending' <= Pending + 2
       /\ token # "CON_NEW" => Pending' <= Pending
  <2>1. PICK j, k, m, n, j1, k1, m1, n1 \in 0..1 :
           /\ j = a /\ k = b /\ m = c /\ n = d
           /\ j1 = a' /\ k1 = b' /\ m1 = c' /\ n1 = d'
    BY Zenon, <1>4
  <2>2. j1 <= j /\ m1 <= m /\ n1 <= n /\ (token # "CON_NEW" => k1 = k)
    BY Zenon, <1>6, <1>7, <2>1
  <2>3. /\ Pending = 4 * j + 2 * k + 2 * m + 2 * n
        /\ Pending' = 4 * j1 + 2 * k1 + 2 * m1 + 2 * n1
    BY Zenon, <1>9, <2>1
  <2>4. QED
    BY <2>2, <2>3
<1>13. /\ Known' \in Nat /\ Known \in Nat
       /\ Known' < Known
       /\ token = "CON_NEW" => Known' + 3 <= Known
  <2>1. PICK j, k, m, n, j1, k1, m1, n1 \in 0..1 :
           /\ j = p /\ k = q /\ m = r /\ n = s
           /\ j1 = p' /\ k1 = q' /\ m1 = r' /\ n1 = s'
    BY Zenon, <1>5
  <2>2. /\ j1 <= j /\ k1 <= k /\ m1 <= m /\ n1 <= n
        /\ token = "CON_NEW" => j = 1 /\ j1 = 0
        /\ token = "CON_DATA" => k = 1 /\ k1 = 0
        /\ token = "CHAN" => m = 1 /\ m1 = 0
        /\ token = "TIMER" => n = 1 /\ n1 = 0
    BY Zenon, <1>8, <2>1
  <2>3. /\ Known = 3 * j + k + m + n
        /\ Known' = 3 * j1 + k1 + m1 + n1
    BY Zenon, <1>10, <2>1
  <2>4. QED
    BY <2>2, <2>3
<1>14. \A j, k, m, n \in Nat :
          (j <= k + 2 /\ m + 3 <= n) \/ (j <= k /\ m < n) => j + m < k + n
  OBVIOUS
<1>15. QED
  BY Zenon, <1>11, <1>12, <1>13, <1>14

LEMMA EventSteps ==
    ASSUME TypeOK, Tidy,
           \/ poll_events \/ event_chan \/ event_timer \/ event_con_new_ignored
           \/ establish_connection \/ establish_connection_fails
           \/ event_con_data
    PROVE  Events' < Events
<1> USE DEF take_event, shared, timers, network
<1>1. \A k : k \in NextTokens => k \in batch
  BY DEF NextTokens
<1>2. CASE event_chan
  <2>1. QED
    BY <1>1, <1>2, EventTaken DEF event_chan
<1>3. CASE event_timer
  BY <1>1, <1>3, EventTaken DEF event_timer
<1>4. CASE event_con_new_ignored
  BY <1>1, <1>4, EventTaken DEF event_con_new_ignored
<1>5. CASE establish_connection
  BY <1>1, <1>5, EventTaken DEF establish_connection, check_stop
<1>6. CASE establish_connection_fails
  BY <1>1, <1>6, EventTaken DEF establish_connection_fails, check_stop
<1>7. CASE event_con_data
  BY <1>1, <1>7, EventTaken DEF event_con_data
<1>8. QED
  BY Zenon, <1>2, <1>3, <1>4, <1>5, <1>6, <1>7, PollTakes
-----------------------------------------------------------------------------
(* The steps of the handlers.                                              *)

\* The work inside a handler becomes less when one of its queues does.
LEMMA InsideDown ==
    ASSUME Sizes, Sizes', Len(buffer') <= Len(buffer), Len(que') <= Len(que),
           Unread' <= Unread, Cardinality(toClear') <= Cardinality(toClear)
    PROVE  /\ Inside' <= Inside
           /\ (\/ Len(que') < Len(que) \/ Unread' < Unread
               \/ Cardinality(toClear') < Cardinality(toClear))
                => Inside' < Inside
<1>1. PICK j, k, m, n, j1, k1, m1, n1 \in Nat :
         /\ j = Len(buffer) /\ k = Len(que) /\ m = Unread
         /\ n = Cardinality(toClear)
         /\ j1 = Len(buffer') /\ k1 = Len(que') /\ m1 = Unread'
         /\ n1 = Cardinality(toClear')
  BY Zenon DEF Sizes
<1>2. Inside = 2 * j + k + m + n /\ Inside' = 2 * j1 + k1 + m1 + n1
  BY Zenon, <1>1 DEF Inside
<1>3. /\ j1 <= j /\ k1 <= k /\ m1 <= m /\ n1 <= n
  BY Zenon, <1>1
<1>4. /\ 2 * j1 + k1 + m1 + n1 <= 2 * j + k + m + n
      /\ (k1 < k \/ m1 < m \/ n1 < n)
           => 2 * j1 + k1 + m1 + n1 < 2 * j + k + m + n
  BY <1>3
<1>5. QED
  BY Zenon, <1>1, <1>2, <1>4

\* A step of a handler that raises no event and renews no supply leaves less to
\* do if it uses a supply up, or comes closer to the end of the handler.
LEMMA StepDown ==
    ASSUME Numbers, Numbers', Sizes, Sizes', Alive, HandlerKept,
           batch' = batch, edges' \subseteq edges,
           Len(channel') <= Len(channel), connection' \in {connection, None},
           queue_timeout' = "elapsed" => queue_timeout = "elapsed",
           udp_timeout' = "elapsed" => udp_timeout = "elapsed",
           \/ SupplyUsed
           \/ Inside' <= Inside /\ (Inside' < Inside \/ WayBack' < WayBack)
    PROVE  LessToDo
<1>1. Events' <= Events
  BY EventsKept
<1>2. Supply' <= Supply /\ (SupplyUsed => Supply' < Supply)
  BY SupplyKept DEF Sizes
<1>3. QED
  BY Zenon, <1>1, <1>2, Down

\* The same for a step that leaves the queues alone and goes on to a function
\* closer to poll.
LEMMA MovesOn ==
    ASSUME Numbers, Numbers', Sizes, Sizes', Alive, HandlerKept,
           UNCHANGED <<channel, batch, edges, connection, queue_timeout>>,
           udp_timeout' = "elapsed" => udp_timeout = "elapsed",
           UNCHANGED <<buffer, que, toClear>>, Unread' <= Unread,
           WayBack' < WayBack
    PROVE  LessToDo
<1>1. Inside' <= Inside
  BY InsideDown DEF Sizes
<1>2. QED
  BY <1>1, StepDown DEF Sizes

\* Closing uses the connection up, or ends the thread.
LEMMA CloseSteps ==
    ASSUME Numbers, Numbers', Sizes, Sizes', TypeOK, Alive,
           NEW r \in Returns, close_and_clean_connection(r),
           pc \in {"receive", "drain"} \/ (pc = "send" /\ r = ret),
           UNCHANGED <<channel, batch, udp_timeout, buffer>>,
           Len(que') <= Len(que), Unread' <= Unread
    PROVE  LessToDo
<1>1. /\ edges' \subseteq edges /\ connection' \in {connection, None}
      /\ queue_timeout' = "elapsed" => queue_timeout = "elapsed"
      /\ \/ /\ connection # None /\ connection' = None
            /\ pc' = "close" /\ ret' = r
         \/ pc' = "panic_close" /\ toClear' = toClear /\ ~Alive'
  BY CloseUses
<1>2. HandlerKept
  <2>1. CASE pc \in {"receive", "drain"}
    BY <1>1, <2>1, Outside
  <2>2. CASE pc = "send" /\ r = ret
    BY <1>1, <2>2, Within
  <2>3. QED
    BY <2>1, <2>2
<1>3. CASE connection # None /\ connection' = None
  BY <1>1, <1>2, <1>3, StepDown DEF SupplyUsed, Sizes
<1>4. CASE pc' = "panic_close" /\ toClear' = toClear
  <2>1. Inside' <= Inside
    BY <1>4, InsideDown DEF Sizes
  <2>2. WayBack' < WayBack
    BY <1>4 DEF WayBack
  <2>3. QED
    BY <1>1, <1>2, <2>1, <2>2, StepDown DEF Sizes
<1>5. QED
  BY <1>1, <1>3, <1>4

\* Only receiving and the clients touch what is unread.
LEMMA UnreadKept ==
    ASSUME Sizes, UNCHANGED <<reader, inbox>>
    PROVE  Unread' <= Unread
<1>1. Unread' = Unread /\ Unread \in Nat
  BY Zenon DEF Unread, Sizes
<1>2. QED
  BY <1>1

\* The loop, the channel handler and the timer handler.
LEMMA LoopSteps ==
    ASSUME IInv, Tidy, Numbers, Numbers', Sizes, Sizes', Alive, LoopNext
    PROVE  LessToDo
<1> USE DEF control, shared, timers, buffers, network
<1>1. CASE \/ poll_events \/ event_chan \/ event_timer \/ event_con_new_ignored
           \/ establish_connection \/ establish_connection_fails
           \/ event_con_data
  BY Zenon, <1>1, EventSteps DEF IInv, LessToDo
<1>2. UNCHANGED <<reader, inbox>> => Unread' <= Unread
  BY UnreadKept
<1>3. CASE tracer_thread_main
  <2>1. /\ pc = "start" /\ pc' \in {"poll", "panic_bind"}
        /\ udp_timeout' = "elapsed" => udp_timeout = "elapsed"
        /\ UNCHANGED <<channel, batch, edges, connection, queue_timeout, buffer,
                       que, toClear, reader, inbox>>
    BY Zenon, <1>3 DEF tracer_thread_main, check_start
  <2>2. HandlerKept
    BY <2>1, Outside
  <2>3. WayBack' < WayBack
    BY <2>1 DEF WayBack
  <2>4. QED
    BY <1>2, <2>1, <2>2, <2>3, MovesOn
<1>4. CASE events_done
  <2>1. /\ pc = "events" /\ pc' = "poll"
        /\ UNCHANGED <<channel, batch, edges, connection, queue_timeout,
                       udp_timeout, buffer, que, toClear, reader, inbox>>
    BY <1>4 DEF events_done
  <2>2. HandlerKept
    BY <2>1, Outside
  <2>3. WayBack' < WayBack
    BY <2>1 DEF WayBack
  <2>4. QED
    BY <1>2, <2>1, <2>2, <2>3, MovesOn
<1>5. CASE channel_empty \/ timer_empty
  <2>1. /\ \/ pc = "channel" /\ channel = <<>>
           \/ pc = "timer" /\ "elapsed" \notin {queue_timeout, udp_timeout}
        /\ pc' = "events"
        /\ UNCHANGED <<channel, batch, edges, connection, queue_timeout,
                       udp_timeout, buffer, que, toClear, reader, inbox>>
    BY <1>5 DEF channel_empty, timer_empty
  <2>2. HandlerKept
    BY <2>1 DEF HandlerKept, ChannelServed, In
  <2>3. WayBack' < WayBack
    BY <2>1 DEF WayBack
  <2>4. QED
    BY Zenon, <1>2, <2>1, <2>2, <2>3, MovesOn
<1>6. ASSUME NEW k, try_recv(k)
      PROVE  /\ pc = "channel" /\ channel # <<>>
             /\ Len(channel') < Len(channel)
  <2>1. channel \in Seq(Message) /\ channel # <<>> /\ channel' = Tail(channel)
    BY <1>6 DEF try_recv, IInv, TypeOK
  <2>2. QED
    BY <1>6, <2>1 DEF try_recv
<1>7. CASE channel_payload \/ channel_new_tracepoint \/ channel_terminate
  <2>1. pc = "channel" /\ channel # <<>> /\ Len(channel') < Len(channel)
    BY Zenon, <1>6, <1>7 DEF channel_payload, channel_new_tracepoint, channel_terminate
  <2>2. /\ UNCHANGED <<batch, edges, connection, udp_timeout>>
        /\ queue_timeout' = "elapsed" => queue_timeout = "elapsed"
        /\ \/ UNCHANGED <<pc, ret>>
           \/ pc' = "send" /\ ret' \in {"channel", "exit"}
           \/ pc' = "exit"
    BY <1>7 DEF channel_payload, channel_new_tracepoint, channel_terminate,
                check_start, check_stop
  <2>3. HandlerKept
    BY Zenon, <2>1, <2>2 DEF HandlerKept, ChannelServed, In, Alive, Running
  <2>4. QED
    BY <2>1, <2>2, <2>3, StepDown DEF SupplyUsed, Sizes
<1>8. CASE timer_queue \/ timer_udp
  <2>1. /\ UNCHANGED <<channel, batch, edges, connection>>
        /\ queue_timeout' = "elapsed" => queue_timeout = "elapsed"
        /\ udp_timeout' = "elapsed" => udp_timeout = "elapsed"
        /\ SupplyUsed
        /\ pc = "timer"
        /\ UNCHANGED <<pc, ret>> \/ (pc' = "send" /\ ret' = pc)
    BY <1>8 DEF timer_queue, timer_udp, restart_udp_timer, check_start,
                SupplyUsed
  <2>2. HandlerKept
    BY <2>1, Within
  <2>3. QED
    BY <2>1, <2>2, StepDown DEF Sizes
<1>9. QED
  BY Zenon, <1>1, <1>3, <1>4, <1>5, <1>7, <1>8 DEF LoopNext

\* Sending: a frame that is due carries data, so writing it empties que.
LEMMA SendSteps ==
    ASSUME IInv, FramesCarryData, Numbers, Numbers', Sizes, Sizes', Alive,
           SendNext
    PROVE  LessToDo
<1> USE DEF control, shared, timers, buffers, network
<1>1. UNCHANGED <<reader, inbox>> => Unread' <= Unread
  BY UnreadKept
<1>2. pc = "send" /\ ret \in {"channel", "timer", "exit"}
  BY Zenon DEF SendNext, send_pack, send_slices_ok, send_slices_blocked,
     send_slices_fails, send_slices_panics, send_done, FrameDue, IInv,
     ReaderHeld
<1>3. ASSUME que' = <<>> PROVE Len(que') <= Len(que)
  BY <1>3 DEF Sizes
<1>4. ASSUME FrameDue, que' = <<>> PROVE Len(que') < Len(que)
  <2>1. que # <<>> /\ que \in Seq(Element)
    BY <1>4 DEF FramesCarryData, IInv, TypeOK
  <2>2. QED
    BY <1>4, <2>1
<1>5. CASE send_pack
  <2>1. /\ UNCHANGED <<channel, batch, edges, connection, queue_timeout,
                       udp_timeout, toClear, reader, inbox, pc, ret>>
    BY <1>5 DEF send_pack
  <2>2. /\ buffer \in Seq(Element) /\ buffer # <<>> /\ que \in Seq(Element)
        /\ buffer' = Tail(buffer) /\ que' = Append(que, Head(buffer))
    BY <1>5 DEF send_pack, IInv, TypeOK
  <2>3. Len(buffer') = Len(buffer) - 1 /\ Len(que') = Len(que) + 1
    BY <2>2
  <2>4. Unread' = Unread
    BY <2>1 DEF Unread
  <2>5. Inside' < Inside
    <3>1. PICK j, k, m, n \in Nat :
             /\ j = Len(buffer) /\ k = Len(que) /\ m = Unread
             /\ n = Cardinality(toClear)
      BY Zenon DEF Sizes
    <3>2. /\ Inside = 2 * j + k + m + n
          /\ Inside' = 2 * (j - 1) + (k + 1) + m + n
      BY Zenon, <2>1, <2>3, <2>4, <3>1 DEF Inside
    <3>3. 2 * (j - 1) + (k + 1) + m + n < 2 * j + k + m + n
      OBVIOUS
    <3>4. QED
      BY Zenon, <3>2, <3>3
  <2>6. HandlerKept
    BY <2>1, Within
  <2>7. QED
    BY <2>1, <2>5, <2>6, StepDown DEF Sizes, Numbers
<1>6. CASE send_slices_ok \/ send_slices_blocked
  <2>1. /\ FrameDue /\ que' = <<>>
        /\ UNCHANGED <<channel, batch, edges, connection, queue_timeout,
                       udp_timeout, buffer, toClear, reader, inbox, pc, ret>>
    BY <1>6 DEF send_slices_ok, send_slices_blocked
  <2>2. Inside' <= Inside /\ Inside' < Inside
    BY <1>1, <1>3, <1>4, <2>1, InsideDown DEF Sizes
  <2>3. HandlerKept
    BY <2>1, Within
  <2>4. QED
    BY SMTT(30), <2>1, <2>2, <2>3, StepDown DEF Sizes
<1>7. CASE send_slices_fails
  <2>1. /\ close_and_clean_connection(ret) /\ que' = <<>>
        /\ UNCHANGED <<channel, batch, udp_timeout, buffer, reader, inbox>>
    BY <1>7 DEF send_slices_fails
  <2>2. TypeOK /\ ret \in Returns
    BY <1>2 DEF Returns, IInv
  <2>3. QED
    BY Zenon, <1>1, <1>2, <1>3, <2>1, <2>2, CloseSteps
<1>8. CASE send_slices_panics \/ send_done
  <2>1. /\ pc' \in {"panic_send", ret} /\ ret' = ret
        /\ UNCHANGED <<channel, batch, edges, connection, queue_timeout,
                       udp_timeout, buffer, que, toClear, reader, inbox>>
    BY <1>8 DEF send_slices_panics, send_done
  <2>2. HandlerKept
    BY <1>2, <2>1, Within DEF Alive, Running
  <2>3. WayBack' < WayBack
    BY <1>2, <2>1 DEF WayBack
  <2>4. QED
    BY Zenon, <1>1, <2>1, <2>2, <2>3, MovesOn
<1>9. QED
  BY Zenon, <1>5, <1>6, <1>7, <1>8 DEF SendNext

\* Receiving: every request that is read is gone from the stream.
LEMMA ReadTakes ==
    ASSUME IInv, Sizes, NEW cmds, read_request(cmds), reader' = reader
    PROVE  pc = "receive" /\ Unread' < Unread
<1>1. /\ pc = "receive" /\ inbox[reader] # <<>>
      /\ inbox' = [inbox EXCEPT ![reader] = Tail(inbox[reader])]
  BY DEF read_request
<1>2. reader \in Clients /\ inbox \in [Clients -> Seq(Request)]
  BY <1>1 DEF IInv, ReaderHeld, TypeOK
<1>3. inbox[reader] \in Seq(Request) /\ inbox'[reader] = Tail(inbox[reader])
  BY <1>1, <1>2
<1>4. Len(inbox'[reader]) < Len(inbox[reader])
  <2>1. \A s \in Seq(Request) : s # <<>> => Len(Tail(s)) < Len(s)
    OBVIOUS
  <2>2. QED
    BY Zenon, <1>1, <1>3, <2>1
<1>5. reader # None
  BY <1>2 DEF Clients, None
<1>6. QED
  BY <1>1, <1>4, <1>5 DEF Unread

LEMMA ReceiveSteps ==
    ASSUME IInv, Tidy, Numbers, Numbers', Sizes, Sizes', Alive, ReceiveNext
    PROVE  LessToDo
<1> USE DEF control, shared, timers, buffers, network
<1>1. TypeOK
  BY DEF IInv
<1>2. reader' = None => Unread' <= Unread
  BY DEF Unread, Sizes
<1>3. {"events", "receive", "drain"} \subseteq Returns
  BY DEF Returns
<1>4. Unread' < Unread => Unread' <= Unread
  BY DEF Sizes
<1>5. CASE receive_would_block
  <2>1. /\ pc = "receive" /\ pc' = "events" /\ reader' = None
        /\ UNCHANGED <<channel, batch, edges, connection, queue_timeout,
                       udp_timeout, buffer, que, toClear>>
    BY <1>5 DEF receive_would_block
  <2>2. HandlerKept
    BY <2>1, Outside
  <2>3. WayBack' < WayBack
    BY <2>1 DEF WayBack
  <2>4. QED
    BY Zenon, <1>2, <2>1, <2>2, <2>3, MovesOn
<1>6. CASE receive_eof
  <2>1. /\ pc = "receive" /\ reader' = None
        /\ close_and_clean_connection("events")
        /\ UNCHANGED <<channel, batch, udp_timeout, buffer, que>>
    BY <1>6 DEF receive_eof
  <2>2. QED
    BY SMTT(30), <1>1, <1>2, <1>3, <2>1, CloseSteps DEF Sizes
<1>7. CASE receive_invalid_header
  <2>1. /\ read_request({"bad"}) /\ close_and_clean_connection("drain")
        /\ UNCHANGED <<channel, batch, udp_timeout, buffer, que, reader>>
    BY <1>7 DEF receive_invalid_header
  <2>2. pc = "receive" /\ Unread' <= Unread
    BY <1>4, <2>1, ReadTakes
  <2>3. QED
    BY <1>1, <1>3, <2>1, <2>2, CloseSteps DEF Sizes
<1>8. CASE set_tracepoints_fails
  <2>1. /\ read_request({"broken"}) /\ close_and_clean_connection("receive")
        /\ UNCHANGED <<channel, batch, udp_timeout, buffer, que, reader>>
    BY <1>8 DEF set_tracepoints_fails
  <2>2. pc = "receive" /\ Unread' <= Unread
    BY <1>4, <2>1, ReadTakes
  <2>3. QED
    BY <1>1, <1>3, <2>1, <2>2, CloseSteps DEF Sizes
<1>9. CASE read_empty
  <2>1. /\ pc = "drain" /\ reader' = None
        /\ UNCHANGED <<channel, batch, udp_timeout, buffer, que>>
    BY <1>9 DEF read_empty
  <2>2. CASE close_and_clean_connection("events")
    BY <1>1, <1>2, <1>3, <2>1, <2>2, CloseSteps DEF Sizes
  <2>3. CASE ~close_and_clean_connection("events")
    <3>1. /\ pc' = "events"
          /\ UNCHANGED <<edges, connection, queue_timeout, toClear>>
      BY <1>9, <2>3 DEF read_empty
    <3>2. HandlerKept
      BY <2>1, <3>1, Outside
    <3>3. WayBack' < WayBack
      BY <2>1, <3>1 DEF WayBack
    <3>4. QED
      BY Zenon, <1>2, <2>1, <3>1, <3>2, <3>3, MovesOn
  <2>4. QED
    BY Zenon, <2>2, <2>3
<1>10. ASSUME NEW cmds, read_request(cmds),
              UNCHANGED <<channel, batch, edges, connection, queue_timeout,
                          udp_timeout, buffer, que, toClear, reader>>
       PROVE  LessToDo
  <2>1. pc = "receive" /\ Unread' < Unread /\ Unread' <= Unread
    BY <1>4, <1>10, ReadTakes
  <2>2. HandlerKept
    BY Zenon, <1>10, <2>1, Outside
  <2>3. Inside' <= Inside /\ Inside' < Inside
    BY <1>10, <2>1, InsideDown DEF Sizes
  <2>4. QED
    BY <1>10, <2>2, <2>3, StepDown DEF Sizes
<1>11. CASE execute_other_command
  BY <1>10, <1>11 DEF execute_other_command
<1>12. CASE set_tracepoints
  BY <1>10, <1>12 DEF set_tracepoints
<1>13. CASE send_tracepoint_list
  <2>1. /\ read_request({"list"})
        /\ UNCHANGED <<channel, batch, udp_timeout, buffer, que, reader>>
        /\ \/ close_and_clean_connection("receive")
           \/ UNCHANGED <<edges, connection, queue_timeout, toClear>>
    BY <1>13 DEF send_tracepoint_list
  <2>2. CASE close_and_clean_connection("receive")
    <3>1. pc = "receive" /\ Unread' <= Unread
      BY <1>4, <2>1, ReadTakes
    <3>2. QED
      BY <1>1, <1>3, <2>1, <2>2, <3>1, CloseSteps DEF Sizes
  <2>3. CASE UNCHANGED <<edges, connection, queue_timeout, toClear>>
    BY <1>10, <2>1, <2>3
  <2>4. QED
    BY <2>1, <2>2, <2>3
<1>14. CASE \E t \in Tracepoints : close_clear_flag(t)
  <2>1. PICK t \in Tracepoints : close_clear_flag(t)
    BY <1>14
  <2>2. /\ t \in toClear /\ toClear' = toClear \ {t}
        /\ UNCHANGED <<channel, batch, edges, connection, queue_timeout,
                       udp_timeout, buffer, que, reader, inbox, pc, ret>>
    BY <2>1 DEF close_clear_flag
  <2>3. Cardinality(toClear') = Cardinality(toClear) - 1
    BY Zenon, <2>2, FS_RemoveElement DEF Tidy
  <2>4. /\ Cardinality(toClear') <= Cardinality(toClear)
        /\ Cardinality(toClear') < Cardinality(toClear)
    BY <2>3 DEF Sizes
  <2>5. Unread' <= Unread
    BY <2>2 DEF Unread, Sizes
  <2>6. Inside' <= Inside /\ Inside' < Inside
    BY <2>2, <2>4, <2>5, InsideDown DEF Sizes
  <2>7. HandlerKept
    BY <2>2, Within
  <2>8. QED
    BY <2>2, <2>6, <2>7, StepDown DEF Sizes
<1>15. CASE close_start_udp_timer
  <2>1. /\ pc = "close" /\ pc' = ret /\ ret' = ret
        /\ udp_timeout' = "elapsed" => udp_timeout = "elapsed"
        /\ UNCHANGED <<channel, batch, edges, connection, queue_timeout, buffer,
                       que, toClear, reader, inbox>>
    BY <1>15 DEF close_start_udp_timer, check_start
  <2>2. HandlerKept
    BY <2>1, Within
  <2>3. ret \in Returns
    BY <1>1 DEF TypeOK
  <2>4. WayBack' < WayBack
    BY <2>1, <2>3 DEF WayBack, Returns
  <2>5. Unread' <= Unread
    BY <2>1 DEF Unread, Sizes
  <2>6. QED
    BY Zenon, <2>1, <2>2, <2>4, <2>5, MovesOn
<1>16. QED
  BY Zenon, <1>5, <1>6, <1>7, <1>8, <1>9, <1>11, <1>12, <1>13, <1>14, <1>15
     DEF ReceiveNext
-----------------------------------------------------------------------------
\* The tracer thread reaches poll with no event left over.
THEOREM TidyInvariance == Spec => []Tidy
<1>1. Init => Tidy
  <2>1. Init => /\ pc = "start" /\ batch = {} /\ tracepoints = {}
                /\ toClear = {}
    BY DEF Init
  <2>2. QED
    BY <2>1, FS_EmptySet DEF Tidy
<1>2. IInv /\ Tidy /\ [Next]_vars => Tidy'
  BY TidyStep
<1>3. QED
  BY <1>1, <1>2, Invariance, PTL DEF Spec

\* The thread comes to rest: its measures are natural numbers and every step it
\* takes makes them smaller, whatever the application and the clients have
\* done.  After the last event from outside it therefore takes finitely many
\* steps; with TracerNext scheduled (FairSpec) it is then waiting in poll, or
\* has ended.
THEOREM ComesToRest == Spec => []Numbers /\ ThreadAdvances
<1>1. /\ IInv /\ Tidy /\ FramesCarryData /\ Numbers /\ Sizes
      /\ Numbers' /\ Sizes' /\ [Next]_vars
      => [TracerNext => LessToDo]_vars
  <2> SUFFICES ASSUME IInv, Tidy, FramesCarryData, Numbers, Sizes,
                      Numbers', Sizes', TracerNext
               PROVE  LessToDo
    OBVIOUS
  <2>1. Alive
    BY TracerRuns
  <2>2. QED
    BY Zenon, <2>1, LoopSteps, SendSteps, ReceiveSteps DEF TracerNext
<1>2. QED
  BY <1>1, Measures, Invariance, TidyInvariance, NoEmptyFrame, PTL
     DEF Spec, ThreadAdvances
=============================================================================
