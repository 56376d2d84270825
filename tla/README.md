# A TLA+ model of libtracy

libtracy is a tracing library for C programs, written in Rust. An application
registers tracepoints and submits data to them; a thread of the library
announces itself by UDP, accepts one TCP client, lets it enable tracepoints and
sends it the data. This directory holds models of the tracer, the instances TLC
checks, and proofs that TLAPS checks for every instance.

## The system

| part | source | state | operations |
| --- | --- | --- | --- |
| application interface | `src/lib.rs`, `src/tracy.h` | `TracerNg`: its map of tracepoints | init, register, enabled, submit, finit |
| event loop | `src/lib.rs` | `Poll`, the batch of events | poll, event, channel and timer handlers |
| connection and timers | `src/lib.rs` | `connection`, `queue_timeout`, `udp_timeout` | accept, start and stop timers, close and clean |
| TCP sending | `src/tcp_handler.rs` | `buffer`, `buffer_occupancy`, the frame `que` | append, pack, write |
| TCP receiving | `src/tcp_handler.rs` | the clone of the socket, its buffered bytes | parse, list, enable, disable, drain |
| UDP beacon | `src/udp_beacon.rs` | `udp_sock`, its timer | bind, announce |
| client, dissector, empty build, examples | `client/`, `scripts/`, `empty_building/`, `examples/` | - | not modelled |

The application thread and the tracer thread share three things: the atomic
`client_connected`, one atomic flag for each tracepoint, and the channel that
carries payloads, new tracepoints and the order to terminate. The tracer thread
never locks. What makes it hard:

- `tracy_submit` reads two atomics and then sends; a session may end, and
  another begin, in between.
- Closing a connection happens deep inside the handlers, whose callers do not
  learn of it, and every use of the connection is an `unwrap()`.
- mio is edge-triggered and delivers events in batches; a handler may invalidate
  what a later event of the batch is about.
- Writes on the non-blocking socket may fail or stop half-way.
- Timeouts may have elapsed when they are cancelled.
- Requests arrive in segments that have nothing to do with their fields, and
  `receive` starts each time with an empty buffer.

What each part must guarantee: the interface hands every tracepoint and payload
over once and in order; the loop ends on finit and only then; sessions do not
overlap, closing disables every tracepoint and announcing resumes; sending
keeps order and size limits and always makes progress; receiving only ever works
on its own connection.

## Modules

- `Tracer.tla`: the two threads and their environment. One action for each
  handler, cut where it touches what the threads share, so that its
  interleavings are the program's. `pc` names the running function of the tracer
  thread and `ret` where it returns to. An `unwrap()` or `expect()` that meets
  `None` or `Err` ends the thread in one of the `Panics`. Definitions bear the
  names of the functions they model. `sent`, `left`, `cut` and the fields `id`
  and `sess` of an element are history and guard nothing.
- `TraceStream.tla`: the abstract promise of the way from submit to the socket.
  Payloads are numbered as they are accepted and leave in that order, once each,
  either delivered or given up. `Tracer` refines it (`StreamSpec`).
- `TracerClaims.tla`: what comments and documents say of the tracer. `BufferBounded`
  holds; the others are not kept by the code.
- `TracerProgress.tla`: how much is left to do for the tracer thread, as four
  numbers compared one after the other: events it has not handled; what the
  handlers use up (the connection, messages, elapsed timeouts); what their loops
  use up (buffer, frame, unread requests, flags to clear); the way back to poll.
  `ThreadAdvances` says that every step of the thread makes them smaller.
- `Receive.tla`: `receive`, `execute_command`, `set_tracepoints` and `read_empty`
  at byte offsets. `wire` says which field begins where, `arrived` how much the
  kernel has delivered, `pos` how much was read; `read_exact` finds its bytes or
  takes and loses what there is. It models one session, from a client just
  accepted, and has the detail behind what is one request in `Tracer`. `asked`,
  `applied`, `ends`, `due`, `split` and `correct` are history and guard nothing;
  `due` is the offset at which the length in the last header lets its request end.
- `Activation.tla`: the abstract promise of what requests do to the flags. Names
  are executed in the order in which they were asked for, none twice, though any
  may be lost; the end of the session clears every flag, and nothing else changes
  one. `Receive` refines it (`ActivationSpec`); an event of the socket begins to
  read and returning to poll ends it.
- `TracyApi.tla`: what the calls of the interface agree on. `tracy_init` with its
  parameters, the repair of names in `tracy_register` and `tracy_submit` (and its
  absence in `tracy_tracepoint_enabled`), the two maps that lead to shared flags,
  and whether the parameters lead to announcements. A session is opened and
  closed in one step here; `Tracer` has the steps.
- `MCTracer.tla`, `MCReceive.tla`, `MCTracyApi.tla`: name lengths, requests, names
  and parameters for TLC.
- `TracerProofs.tla`, `StreamProofs.tla`, `ProgressProofs.tla` (about `Tracer`),
  `ReceiveProofs.tla`, `RequestProofs.tla`, `ActivationProofs.tla` (about
  `Receive`), `TracyApiProofs.tla`: the theorems.

The three models meet at the same functions, without a formal composition.
`Receive` shows that names are executed in order and as they were asked for until
a request fails, which are the requests of `Tracer`; `TracyApi` shows that a
tracepoint has one flag and a name of at most 32 characters, which `Tracer`
assumes.

Data is abstracted to what the properties tell apart: a payload to its length, a
frame to the sum of the encoded lengths, a name in `TracyApi` to its stem and the
three facts `fix_tracepoint_str` looks at, the byte stream of a client in
`Tracer` to a sequence of requests. A request of `Tracer` is well-formed
(`enable`, `disable`, `list`), of another command (`other`), refused by
`check_parse_header` (`bad`), or an enable or disable request that cannot be read
to its end (`broken`: a name too long, or not yet arrived). A request with several
names is a sequence of requests with one name, and possibly `broken` at the end.

External, and modelled from how the code uses it: the kernel's backlog and
sockets, mio (sockets are reported before channel and timer in a batch; edges
are spent when reported; registering a socket reports what is already there),
the timer wheel (a timeout lies at least one tick ahead; cancelling works on
elapsed timeouts too), and `write_all`. A timeout elapses only outside
`timer_handler`: one that the handler sets lies a tick ahead, and the handler is
done before.

In `Receive`, a read that starts inside a field does not meet the magic number:
the bytes of names and of length fields, from wherever a header is read, are
assumed not to form it. A length field is read where a
name begins, or at the next header if the announced length is too large, and then
holds the first two bytes of the magic number (`MAGIC_AS_LEN`). The magic number
is the code's, `RuSt`; `doc/tlv_documentation.txt` has 0x0000beef, and a request
that begins with that is refused like any other without the magic number.
A client may break off at any byte. What has been delivered by then stays readable
and nothing is delivered afterwards.

Bounds: `MaxClients`, `MaxRequests`, `MaxSubmits`, `MaxRegisters` cap what clients
and the application do. `MAX_TRACEPOINT_NAME_LEN` of `Receive` is 32 in the code
and 2 in its runs, where a name of 3 bytes is too long; the proofs hold for any
limit below `MAGIC_AS_LEN`. Lengths are natural numbers: the u32 sum of
`set_tracepoints` for a length within one name of 2^32 is outside the model.

## Runs

| run | question | result |
| --- | --- | --- |
| `sessions` | Two clients, every kind of request, a failing accept, writes that block, the largest payload and one too large: does announcing pause during a session, do tracepoints arrive, do accept and receive find their client, does a close disable everything, does every step bring the thread closer to rest? | holds |
| `stream` | Payloads at the limits of submit (0, 2048, 4096) and of a frame (1951, 1952), writes that succeed, block and fail: order, sizes, progress, a flush always scheduled, never more than a frame's worth waiting, everything tried before exit? | holds |
| `liveness` | Without failing accepts: is an announcement scheduled, and made, whenever nobody is connected; does finit end the thread, is data flushed, is the first waiting client accepted? | holds |
| `receive` | Two requests, well-formed or not, in every segmentation, and a client that shuts down or breaks off at any byte: is only executed what was asked for, do flags change in no other way, is everything read and nothing read for ever, are whole requests executed? | holds |
| `api` | Every spelling of a name and every wrong parameter: one flag for a name, which spellings are ever reported as enabled, names a client can use, announcements with an address? | holds |
| `late_payload` | Is the connection always there when trace data is sent? | violated |
| `double_close` | Is it there when the connection is closed? | violated |
| `silenced` | Is an announcement scheduled whenever nobody is connected, also when accept fails? | violated |
| `stale_data` | Does a client only get data of its own session? | violated |
| `stale_enable` | Are tracepoints disabled without a client? | violated |
| `framing` | Do frames follow each other without a gap? | violated |
| `segments` | Are the activations of a correct client executed, however they are cut? | violated |

The last seven are disagreements between documents or comments and the code; the
`findings` of `PROJECT.json` quote both. Two clients are enough for one session
to disturb the next and for one client to wait while another is served (a third
would only wait behind them); two
requests for one that fails and one behind it; two payloads for a frame that is
full or fails with one left over. With a name of 32 bytes,
payloads of 2048 and 1951 bytes are the largest pair that shares a frame (4099
bytes), 2048 and 1952 the smallest that does not. In `receive`, two requests are
enough for one that is cut, misread or refused and one behind it; names of 1, 2
and 3 bytes are the shortest that can be cut in themselves and one too long;
the requests beside the protocol's have flags, a command of the tracer's, and
lengths that are too small, too large or odd. In `api`, one tracepoint has every
spelling and another shows that they are told apart; four registrations exceed
the spellings that lead to one flag. Deadlock is
not checked: a tracer whose thread has ended, or whose client says no more, stops.

Three more disagreements have no violated run:

- `tracy.h` (145-149) says that `tracy_tracepoint_enabled` lowercases and truncates
  the name it is given. It does neither: `EnabledOnlyIfRepaired`, which `api` checks
  and `TracyApiProofs` proves, says that it is true only for a name in the spelling
  that `tracy_register` stores. For an upper-case or long spelling of an enabled
  tracepoint, which `tracy_submit` accepts, it answers false.
- `format_json` (`udp_beacon.rs` 50-51) adds the seconds of the announce interval to
  its milliseconds part and announces the sum as `update_interval_msecs`: 1000 ms
  become 1. Below a second the number is right. It is not modelled.
- Data is said to be sent when the occupancy of the buffer reaches a limit, so that
  "small payloads don't immediately invoke a syscall" (`README.md` 77-80).
  `buffer_occupancy` is never reduced (`clear_buffer` is dead code), so once 4096
  bytes have passed, each payload is sent at once. `BufferBounded` shows the
  safe side: when the thread waits in poll, the elements in the buffer are at most
  4096 bytes together, which needs the counter to be at least their sum.

`tracy_init` refuses a `buffer_flush_interval` of 0, where `tracy.h` (82) names
`announce_interval`.

One restriction matters for reading `stream` and `liveness`: their clients send
some of the commands only (`Commands` in the cfg), to keep the instances small.
`sessions` has all of them. `liveness` has no failing accept: `event_handler`
stops the UDP timer after `establish_connection` whether or not it accepted, and
`silenced` shows that an accept that fails leaves an idle tracer silent until its
next session ends. `RequestAccepted` is about the client that has waited longest
when a request is noticed and nobody is connected. It says nothing of the clients
behind it: a request that arrives during a session, or together with another, has
spent its edge, and its client waits for a later one. `AcceptFindsClient` is the
other half: an edge that is answered always has its client, so accept fails for
reasons of the kernel's only.

Fairness (`FairSpec`): weak fairness of the tracer thread, which the operating
system schedules when it is runnable, and in `Tracer` of the two timeouts, since
time passes. Nothing is assumed of the application or of clients; none of the
properties needs them to act.

## Proofs

The assumptions are the named `ASSUME`s of `Tracer`, `Receive` and `TracyApi`:
names of at most 32 bytes in `Tracer`, which `TracyApi` shows of every registered
name, and otherwise only the types of the constants. Everything is proved for
every set of tracepoints, names, requests, data lengths, parameters and faults,
and for every number of clients, requests and calls.

`TracerProofs.tla` proves `TypeOK`, `QuietWhileConnected`,
`ReceiveHasConnection`, `TracepointsHandedOver`, `AcceptFindsClient`, `FrameFits`,
`FramesCarryData` (invariants) and `CloseDisablesAll` (an action property). They
follow from one inductive invariant, `IInv`. To the properties it adds:

- `SubmitInFlight`: a submit past its checks has a valid length. Elements in the
  channel are then at most 2088 bytes long (`ElementSizes`), so one always fits
  into an empty frame.
- `ReaderHeld`: receive, and a close it called, hold a client's socket.
- `NoSessionYet` and `DataEventHasConnection`: `CON_DATA` is pending only for a
  connection, and is gone from the batch once a handler runs that may close.
  This is where the order of mio's events enters; without it receive may panic.
- `RequestHasClient`: the connection requests that are pending or in the batch are
  not more than the clients in the backlog, which implies
  `AcceptFindsClient`: accepting takes out one client and spends one request.
- `RegisteredOnce`: a tracepoint is at most once in the channel, so taking it
  out removes it.
- `ClearedFlags`: during a close, only flags still to clear are true. It needs
  `TracepointsHandedOver`: no flag is true outside the thread's own map.
- `EmptyQueIsEmpty`: an empty frame has length 0.

There is a lemma for each group of conjuncts (`TypeStep`, `SubmitStep`,
`ReaderStep`, `SessionStep`, `RequestStep`, `FrameStep`, `HandOverStep`,
`ClearedStep`), and in
it a step for each action that matters.

`StreamProofs.tla` builds on it and proves `FlushArmed`, `ExitFlushed`,
`IdleAnnounces` (if accept does not fail: `"accept" \notin Faults`) and the
refinement `StreamSpec`. Its invariant `SInv`
says where every payload is: frame, buffer and channel hold, in this order, the
numbers from the last one that left to the last one submitted (`QueuesInOrder`,
`ChannelInOrder`), the order to terminate is the last message (`TerminateLast`),
and every payload belongs to a client accepted before it was submitted
(`SessionsFresh`: a client in the backlog has no data yet, so accepting it leaves
nothing unscheduled). A frame that is written is then the next run of numbers,
which is the abstract step (`StepStream`).

`ProgressProofs.tla` proves `ThreadAdvances` (`ComesToRest`), with the four
numbers of `TracerProgress` being natural numbers at all times. It needs two facts
besides `IInv`: poll is called with no event left over and the sets of
tracepoints are finite (`Tidy`, inductive by itself), and a frame that is due
carries data (`NoEmptyFrame`), since an empty one could be written for ever.
The steps fall into four kinds: taking an event (`EventSteps`: accepting may
raise `CON_DATA`, so `CON_NEW` weighs more), using up a message, a timeout or the
connection, going round a loop, and returning. The handlers leave the number of
events alone (`HandlerKept`): a message or a timeout that turns up while its
handler runs is handled by that very call.

`ReceiveProofs.tla` proves `TypeOK`, `NothingFabricated`, `EdgeForUnread`,
`CounterBounded` and `ReceiveAdvances`. Its invariant `RInv` says that each field
of the stream begins where the one before it ends (`Gapless`), that names are
numbered in the order of their offsets (`Numbered`) and that a name follows a
header or name of its own request (`SameRequest`); that the reader, while it reads
names, is at a field of the request whose header it read (`ReaderInStep`),
wherever it was before; and that what was executed lies behind the reader
(`ExecutedBehind`). `ReceiveAdvances` is the byte-level counterpart of
`ThreadAdvances`: a request without bytes, a length that is never reached, or a
session that is already closed cannot keep the thread in `receive`.

`RequestProofs.tla` proves `WholeRequestsExecuted`, the positive half of what
`segments` refutes. Its invariant `WInv` describes the stream of a client that has
kept to the protocol: requests lie between members of `ends` (`EndsBetween`), and
the length in a header leads exactly to the end of its request (`ProtocolKept`).
Since `due` carries the announced end along, no sum over the names of a request is
needed. As long as nothing was cut, what has arrived ends where a request ends;
the reader is then at such an end, or inside a request at the field its counter
`i` says (`OnTrack`), and the names executed are all those before it
(`ExecutedSoFar`). `KeepsSession`
states a consequence that no state at rest shows: such a client is connected, and
the thread has not panicked, at every single step.

`ActivationProofs.tla` proves the refinement `ActivationSpec`. Every step of
`Receive` is a step of `Activation` or changes none of its variables
(`StepFlags`). It needs `RInv` (the next name executed has a greater number than
the last) and that the socket is only reported during a session
(`ReportedInSession`), so that a reader begins only then.

`TracyApiProofs.tla` proves all five properties of `api`. `AInv` adds that
registered names are repaired, no two share a flag, and a flag is true only if
the thread knows its name (`FlagsOwned`), that a submit past its check therefore
names a tracepoint the thread knows (`SubmitKnown`), and that there is a socket
only with an address (`SocketHasAddress`).

Every invariant, action property and refinement of a passing run is thus proved,
but for `BufferBounded`, whose sum over the buffer would need induction over
sequences. Also only model-checked: the liveness properties `FinitStopsThread`,
`PayloadFlushed`, `AnnouncesWhenIdle`, `RequestAccepted` and `ArrivedIsRead`, because
temporal reasoning under fairness is out of the prover's reach. What is proved of them is
their core: the thread cannot run for ever without new events (`ThreadAdvances`,
`ReceiveAdvances`), a flush is always scheduled (`FlushArmed`), an announcement too
(`IdleAnnounces`), an unread byte always reported (`EdgeForUnread`). That a thread at rest in poll has nothing left
to do, and that fairness takes it there, is TLC's part.

## Not modelled

The texts that are printed, timestamps, the bytes of frames, the content of
announcements (`sequence_no` and the interval among it: nothing reads them back),
addresses and ports, calls with a NULL handle, failing allocations, and use of the handle after
`tracy_finit`: none of them changes what the threads do. `tracy_submit_printf` in
`tracy.h` is a call of `tracy_submit`. Requests whose names or lengths contain the
magic number inside, and names that are not UTF-8 (they are looked up as the empty name), are left
out of `Receive`. The Python client, the dissector, the empty build and the
examples have no state of the tracer's; the models allow any client and any
sequence of calls.
