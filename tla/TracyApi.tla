------------------------------ MODULE TracyApi ------------------------------
(***************************************************************************)
(* What the calls of the application interface agree on: the parameters of *)
(* tracy_init and the beacon that follows from them, the repair of names,  *)
(* and the flag that the application's and the thread's map hold for a     *)
(* name.                                                                   *)
(*                                                                         *)
(* A name is abstracted to its first 32 characters in lower case (stem)    *)
(* and to what fix_tracepoint_str looks at.  An Arc<AtomicBool> is its     *)
(* number in the order of allocation.  Sessions are as in Tracer, which    *)
(* has tracy_finit and closes connections step by step.                    *)
(***************************************************************************)
EXTENDS Integers, Sequences

CONSTANTS
    Names,        \* the names the application and the client use
    Params,       \* the parameters the application passes to tracy_init
    DataLens,     \* the data_len values the application passes to submit
    MaxRegisters, \* bound: calls of tracy_register
    MaxSubmits    \* bound: payloads that enter the channel

MAX_SUBMIT_LEN == 2048

\* ascii: every character is; long: there are more than 32; upper: one of the
\* first 32 is an upper-case letter.
Name == [stem : STRING, ascii : BOOLEAN, long : BOOLEAN, upper : BOOLEAN]

\* Pointers are given or NULL; what announce_iface and announce_mcast_addr
\* point to is of use ("ok") or not ("bad").
Pointer == {"null", "bad", "ok"}
Param == [hostname : BOOLEAN, process_name : BOOLEAN, flush : Nat,
          interval : Nat, iface : Pointer, addr : Pointer]

ASSUME NamesAssumption == Names \subseteq Name
ASSUME ParamsAssumption == Params \subseteq Param
ASSUME BoundsAssumption ==
    DataLens \subseteq Nat /\ MaxRegisters \in Nat /\ MaxSubmits \in Nat

VARIABLES
    handle,            \* what tracy_init returned
    app_cfg,           \* InitData
    appPc, appArg,     \* tracy_submit between its accesses to shared state
    appTps,            \* TracerNg.tracepoints: from names to flags
    client_connected,
    flags,             \* the flags, in the order of their allocation
    channel,
    thrTps,            \* TracerContext.tracepoints
    buffer,            \* names of the payloads the thread has taken
    nsubmit,
    udp_sock, udp_timer, panicked

app == <<handle, app_cfg, appPc, appArg, appTps, nsubmit>>
shared == <<client_connected, flags, channel>>
thread == <<thrTps, buffer>>
beacon == <<udp_sock, udp_timer, panicked>>
vars == <<app, shared, thread, beacon>>

EmptyMap == [n \in {} |-> 0]
NoName == [stem |-> "", ascii |-> TRUE, long |-> FALSE, upper |-> FALSE]
insert(map, n, flag) ==
    [m \in DOMAIN map \cup {n} |-> IF m = n THEN flag ELSE map[m]]

Init ==
    /\ handle = "none"
    /\ app_cfg = [interval |-> 0, iface |-> "null", addr |-> "null"]
    /\ appPc = "idle" /\ appArg = NoName /\ nsubmit = 0
    /\ appTps = EmptyMap /\ thrTps = EmptyMap
    /\ client_connected = FALSE /\ flags = <<>> /\ channel = <<>>
    /\ buffer = <<>>
    /\ udp_sock = FALSE /\ udp_timer = FALSE /\ panicked = FALSE
-----------------------------------------------------------------------------
(* The application thread.                                                 *)

is_null(p) == ~p.hostname \/ ~p.process_name \/ p.flush = 0

\* The conversions of pointers, by whether they give Some: NULL does not, nor
\* does an address that cannot be parsed.
rawpt_to_str(pointer) == pointer # "null"
string_to_addr(s) == s = "ok"
rawpt_to_addr(pointer) == rawpt_to_str(pointer) /\ string_to_addr(pointer)

init_data(p) == [interval |-> p.interval, iface |-> p.iface, addr |-> p.addr]

announces_mutant(p) == p.interval > 0 /\ rawpt_to_str(p.iface)
announces(p) ==
    p.interval > 0 /\ rawpt_to_str(p.iface) /\ rawpt_to_addr(p.addr)

\* Whether a UDP socket is bound: to the interface, or to any if there is none.
udp_beacon_init(iface) == IF iface = "bad" THEN {FALSE} ELSE BOOLEAN

\* tracy_init, and the start of the thread.
tracy_init(p) ==
    /\ handle = "none"
    /\ IF is_null(p)
       THEN handle' = "null" /\ UNCHANGED <<app_cfg, udp_sock, udp_timer>>
       ELSE /\ handle' = "live"
            /\ app_cfg' = init_data(p)
            /\ udp_sock' \in IF announces(p) THEN udp_beacon_init(p.iface)
                                            ELSE {FALSE}
            /\ udp_timer' = announces(p)
    /\ UNCHANGED <<appPc, appArg, appTps, nsubmit, shared, thread, panicked>>

truncate_mutant(n) == n
truncate(n) == [n EXCEPT !.long = FALSE]
fix_tracepoint_str(n) == [truncate(n) EXCEPT !.upper = FALSE]

already_registered_mutant(n) == FALSE
already_registered(n) == n \in DOMAIN appTps

registered_name_mutant(n) == truncate(n)
registered_name(n) == fix_tracepoint_str(n)

\* A flag is allocated for every call, and dropped if it is not needed.
tracy_register(n) ==
    /\ handle = "live" /\ appPc = "idle"
    /\ Len(flags) < MaxRegisters
    /\ n.ascii
    /\ flags' = Append(flags, FALSE)
    /\ LET name == registered_name(n)
           flag == Len(flags) + 1
       IN  IF already_registered(name)
           THEN UNCHANGED <<appTps, channel>>
           ELSE /\ appTps' = insert(appTps, name, flag)
                /\ channel' = Append(channel, [kind |-> "tracepoint",
                                               name |-> name, flag |-> flag])
    /\ UNCHANGED <<handle, app_cfg, appPc, appArg, nsubmit, client_connected,
                   thread, beacon>>

tracepoint_enabled(n) == n \in DOMAIN appTps /\ flags[appTps[n]]

\* The answer for a name as the application spells it.
tracy_tracepoint_enabled(n) == tracepoint_enabled(n)

valid_data_len(k) == k # 0 /\ k <= MAX_SUBMIT_LEN

submitted_name_mutant(n) == [n EXCEPT !.long = FALSE]
submitted_name(n) == fix_tracepoint_str(n)

\* tracy_submit: the load of client_connected, the load of the flag, the send.
tracy_submit(n, k) ==
    /\ handle = "live" /\ appPc = "idle"
    /\ valid_data_len(k)
    /\ nsubmit < MaxSubmits
    /\ client_connected
    /\ n.ascii
    /\ appPc' = "loaded" /\ appArg' = n
    /\ UNCHANGED <<handle, app_cfg, appTps, nsubmit, shared, thread, beacon>>

tracy_submit_check ==
    /\ appPc = "loaded"
    /\ IF tracepoint_enabled(fix_tracepoint_str(appArg))
       THEN appPc' = "checked" /\ UNCHANGED appArg
       ELSE appPc' = "idle" /\ appArg' = NoName
    /\ UNCHANGED <<handle, app_cfg, appTps, nsubmit, shared, thread, beacon>>

tracy_submit_send ==
    /\ appPc = "checked"
    /\ appPc' = "idle" /\ appArg' = NoName
    /\ nsubmit' = nsubmit + 1
    /\ channel' = Append(channel, [kind |-> "payload",
                                   name |-> submitted_name(appArg)])
    /\ UNCHANGED <<handle, app_cfg, appTps, client_connected, flags, thread,
                   beacon>>
-----------------------------------------------------------------------------
(* The tracer thread, the client and time.                                 *)

\* insert_tracepoint
channel_new_tracepoint ==
    /\ channel # <<>> /\ Head(channel).kind = "tracepoint"
    /\ channel' = Tail(channel)
    /\ thrTps' = insert(thrTps, Head(channel).name, Head(channel).flag)
    /\ UNCHANGED <<app, client_connected, flags, buffer, beacon>>

channel_payload ==
    /\ channel # <<>> /\ Head(channel).kind = "payload"
    /\ channel' = Tail(channel)
    /\ buffer' = Append(buffer, Head(channel).name)
    /\ UNCHANGED <<app, client_connected, flags, thrTps, beacon>>

establish_connection ==
    /\ handle = "live" /\ ~client_connected
    /\ client_connected' = TRUE
    /\ udp_timer' = FALSE
    /\ UNCHANGED <<app, flags, channel, thread, udp_sock, panicked>>

\* The flags of the thread's map are cleared, and the UDP timer starts even if
\* the application did not ask for announcements.
close_and_clean_connection ==
    /\ client_connected' = FALSE
    /\ flags' = [f \in DOMAIN flags |->
                    flags[f] /\ f \notin {thrTps[n] : n \in DOMAIN thrTps}]
    /\ udp_timer' = TRUE
    /\ UNCHANGED <<app, channel, thread, udp_sock, panicked>>

client_leaves == client_connected /\ close_and_clean_connection

\* The client is free to send any name: it must be in the map as it stands, and
\* one that is too long costs the session.
set_tracepoint(n, state) ==
    /\ client_connected
    /\ IF n.long
       THEN close_and_clean_connection
       ELSE /\ flags' = IF n \in DOMAIN thrTps
                        THEN [flags EXCEPT ![thrTps[n]] = state] ELSE flags
            /\ UNCHANGED <<app, client_connected, channel, thread, beacon>>

\* announce_tracer: sending needs the address, which is unwrapped.
announce_tracer ==
    /\ udp_timer
    /\ panicked' = (udp_sock /\ app_cfg.addr # "ok")
    /\ UNCHANGED <<app, shared, thread, udp_sock, udp_timer>>

AppNext ==
    \/ \E p \in Params : tracy_init(p)
    \/ \E n \in Names : tracy_register(n)
    \/ \E n \in Names, k \in DataLens : tracy_submit(n, k)
    \/ tracy_submit_check
    \/ tracy_submit_send

ThreadNext ==
    /\ ~panicked
    /\ \/ channel_new_tracepoint
       \/ channel_payload
       \/ establish_connection
       \/ client_leaves
       \/ \E n \in Names, state \in BOOLEAN : set_tracepoint(n, state)
       \/ announce_tracer

Next == AppNext \/ ThreadNext

Spec == Init /\ [][Next]_vars
-----------------------------------------------------------------------------
(* Properties.                                                             *)

Repaired(n) == n.ascii /\ ~n.long /\ ~n.upper

Key == {n \in Name : n.ascii /\ ~n.long}
Message(nflags) ==
    [kind : {"tracepoint"}, name : Name, flag : 1..nflags]
    \cup [kind : {"payload"}, name : Name]

\* Every variable keeps its type; the keys of the maps are ASCII and at most 32
\* characters long, and lead to flags that exist.
TypeOK ==
    /\ handle \in {"none", "null", "live"}
    /\ app_cfg \in [interval : Nat, iface : Pointer, addr : Pointer]
    /\ appPc \in {"idle", "loaded", "checked"} /\ appArg \in Name \cup {NoName}
    /\ nsubmit \in Nat
    /\ DOMAIN appTps \subseteq Key /\ DOMAIN thrTps \subseteq Key
    /\ appTps \in [DOMAIN appTps -> 1..Len(flags)]
    /\ thrTps \in [DOMAIN thrTps -> 1..Len(flags)]
    /\ client_connected \in BOOLEAN
    /\ flags \in Seq(BOOLEAN)
    /\ channel \in Seq(Message(Len(flags)))
    /\ buffer \in Seq(Name)
    /\ udp_sock \in BOOLEAN /\ udp_timer \in BOOLEAN /\ panicked \in BOOLEAN

\* The application and the thread share one flag for a name, whatever spellings
\* of it are registered and when: what a client enables is what submit reads.
SameFlag ==
    /\ \A n \in DOMAIN thrTps : n \in DOMAIN appTps /\ thrTps[n] = appTps[n]
    /\ \A i \in DOMAIN channel : channel[i].kind = "tracepoint" =>
          /\ channel[i].name \in DOMAIN appTps
          /\ channel[i].flag = appTps[channel[i].name]

\* tracy_tracepoint_enabled says no to every name that is not ASCII, as tracy.h
\* has it, but also to every name in upper case or too long, which tracy.h says
\* it repairs (145-149): whatever is registered and enabled, such a name is
\* never in the map, although submit would send data under it.
EnabledOnlyIfRepaired ==
    \A n \in Names : tracy_tracepoint_enabled(n) => Repaired(n)

\* A client that lists the tracepoints can set each of them by the name it got
\* (set_tracepoints refuses long ones), and finds in the list the name of every
\* payload that is on its way to it.
ClientKnowsNames ==
    /\ \A n \in DOMAIN thrTps : ~n.long
    /\ \A i \in DOMAIN buffer : buffer[i] \in DOMAIN thrTps
    /\ \A i \in DOMAIN channel : channel[i].kind = "payload"
          => channel[i].name \in DOMAIN thrTps

\* The address is there whenever there is a socket to announce on.
AnnounceHasAddress == ~panicked
=============================================================================
