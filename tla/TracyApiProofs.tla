--------------------------- MODULE TracyApiProofs ---------------------------
(***************************************************************************)
(* The properties of TracyApi, for every set of names, parameters and data *)
(* lengths, from the inductive invariant AInv.                             *)
(***************************************************************************)
EXTENDS TracyApi, TLAPS

\* The keys of the maps are repaired, each has a flag of its own, and only
\* flags the thread knows of are set.
FlagsOwned ==
    /\ \A n \in DOMAIN appTps : Repaired(n)
    /\ \A m, n \in DOMAIN appTps : appTps[m] = appTps[n] => m = n
    /\ \A n \in DOMAIN appTps : flags[appTps[n]] => n \in DOMAIN thrTps

\* A submit past its check is about a tracepoint the thread knows.
SubmitKnown ==
    /\ appPc # "idle" => appArg \in Name /\ appArg.ascii
    /\ appPc = "checked" => fix_tracepoint_str(appArg) \in DOMAIN thrTps

\* A socket is only bound for an application that gave an address.
SocketHasAddress ==
    /\ udp_sock => app_cfg.addr = "ok"
    /\ handle = "none" => ~udp_sock

AInv ==
    /\ TypeOK /\ SameFlag /\ FlagsOwned /\ SubmitKnown /\ ClientKnowsNames
    /\ SocketHasAddress /\ AnnounceHasAddress
-----------------------------------------------------------------------------
(* Names, maps and the channel.                                            *)

\* Repairing a name makes it a key, and leaves a repaired name alone.
LEMMA Repair ==
    ASSUME NEW n \in Name
    PROVE  /\ fix_tracepoint_str(n) \in Name
           /\ n.ascii => fix_tracepoint_str(n) \in Key
           /\ n.ascii => Repaired(fix_tracepoint_str(n))
           /\ Repaired(n) => fix_tracepoint_str(n) = n
  BY DEF Name, Key, Repaired, fix_tracepoint_str, truncate

\* What Append does to a sequence.
LEMMA AppendOne ==
    ASSUME NEW S, NEW s \in Seq(S), NEW e \in S
    PROVE  /\ Append(s, e) \in Seq(S) /\ Len(Append(s, e)) = Len(s) + 1
           /\ Len(s) \in Nat /\ DOMAIN s = 1..Len(s)
           /\ DOMAIN Append(s, e) = 1..(Len(s) + 1)
           /\ \A k \in DOMAIN s : Append(s, e)[k] = s[k]
           /\ Append(s, e)[Len(s) + 1] = e
  OBVIOUS

\* What Tail does to a sequence.
LEMMA TailOne ==
    ASSUME NEW S, NEW s \in Seq(S), s # <<>>
    PROVE  /\ Tail(s) \in Seq(S) /\ Head(s) \in S
           /\ 1 \in DOMAIN s /\ Head(s) = s[1]
           /\ \A k \in DOMAIN Tail(s) : k + 1 \in DOMAIN s /\ Tail(s)[k] = s[k + 1]
  OBVIOUS

\* The two kinds of messages, and a new flag leaves the old ones what they are.
LEMMA Messages ==
    ASSUME NEW k \in Nat
    PROVE  /\ \A n \in Name, f \in 1..k :
                [kind |-> "tracepoint", name |-> n, flag |-> f] \in Message(k)
           /\ \A n \in Name : [kind |-> "payload", name |-> n] \in Message(k)
           /\ \A m \in Message(k) :
                 /\ m.name \in Name
                 /\ m.kind = "tracepoint" => m.flag \in 1..k
           /\ Message(k) \subseteq Message(k + 1)
  BY DEF Message

\* A sequence over a set is one over a larger set.
LEMMA Wider ==
    ASSUME NEW S, NEW T, S \subseteq T, NEW s \in Seq(S)
    PROVE  s \in Seq(T)
  OBVIOUS
-----------------------------------------------------------------------------
(* Every action preserves AInv.                                            *)

\* tracy_register: the new flag is nobody else's and not set.
LEMMA RegisterStep ==
    ASSUME AInv, NEW n \in Names, tracy_register(n)
    PROVE  AInv'
<1> DEFINE name == fix_tracepoint_str(n)
           flag == Len(flags) + 1
           msg == [kind |-> "tracepoint", name |-> name, flag |-> flag]
<1>1. name \in Key /\ name \in Name /\ Repaired(name)
  BY Repair, NamesAssumption DEF tracy_register
<1>2. /\ flags \in Seq(BOOLEAN) /\ Len(flags) \in Nat /\ flags' = Append(flags, FALSE)
      /\ UNCHANGED <<handle, app_cfg, appPc, appArg, nsubmit, client_connected,
                     thrTps, buffer, udp_sock, udp_timer, panicked>>
  BY DEF AInv, TypeOK, tracy_register, thread, beacon
<1>3. /\ flags' \in Seq(BOOLEAN) /\ Len(flags') = flag
      /\ 1..Len(flags) \subseteq 1..flag /\ flag \in 1..flag
      /\ \A f \in 1..Len(flags) : flags'[f] = flags[f]
      /\ flags'[flag] = FALSE
  BY <1>2
<1>4. /\ appTps \in [DOMAIN appTps -> 1..flag]
      /\ thrTps \in [DOMAIN thrTps -> 1..flag]
      /\ \A m \in DOMAIN appTps : appTps[m] \in 1..Len(flags) /\ appTps[m] # flag
  BY <1>2, <1>3 DEF AInv, TypeOK
<1>5. channel \in Seq(Message(flag)) /\ msg \in Message(flag)
  <2>1. channel \in Seq(Message(Len(flags)))
    BY DEF AInv, TypeOK
  <2>2. Message(Len(flags)) \subseteq Message(flag)
    BY <1>2, Messages
  <2>3. msg \in Message(flag)
    <3>1. name \in Name /\ flag \in 1..flag /\ flag \in Nat
      BY <1>1, <1>2, <1>3
    <3> HIDE DEF name, flag
    <3>2. QED
      BY <3>1 DEF Message
  <2>4. QED
    BY <2>1, <2>2, <2>3, Wider
<1>6. \/ UNCHANGED <<appTps, channel>>
      \/ /\ name \notin DOMAIN appTps
         /\ appTps' = insert(appTps, name, flag)
         /\ channel' = Append(channel, msg)
  BY DEF tracy_register, already_registered, registered_name
<1> HIDE DEF name, msg, flag
<1>7. CASE UNCHANGED <<appTps, channel>>
  <2>1. TypeOK'
    BY <1>2, <1>3, <1>4, <1>5, <1>7 DEF AInv, TypeOK
  <2>2. SameFlag' /\ SubmitKnown' /\ ClientKnowsNames'
    BY <1>2, <1>7 DEF AInv, SameFlag, SubmitKnown, ClientKnowsNames
  <2>3. FlagsOwned'
    BY <1>2, <1>3, <1>4, <1>7 DEF AInv, FlagsOwned
  <2>4. SocketHasAddress' /\ AnnounceHasAddress'
    BY <1>2 DEF AInv, SocketHasAddress, AnnounceHasAddress
  <2>5. QED
    BY <2>1, <2>2, <2>3, <2>4 DEF AInv
<1>8. CASE /\ name \notin DOMAIN appTps
           /\ appTps' = insert(appTps, name, flag)
           /\ channel' = Append(channel, msg)
  <2>1. /\ DOMAIN appTps' = DOMAIN appTps \cup {name}
        /\ appTps' \in [DOMAIN appTps' -> 1..flag]
        /\ appTps'[name] = flag
        /\ \A m \in DOMAIN appTps : appTps'[m] = appTps[m]
    <3> DEFINE S == 1..flag
    <3>1. appTps \in [DOMAIN appTps -> S] /\ flag \in S
      BY <1>3, <1>4
    <3> HIDE DEF S
    <3>2. /\ DOMAIN appTps' = DOMAIN appTps \cup {name}
          /\ appTps' \in [DOMAIN appTps' -> S]
          /\ appTps'[name] = flag
          /\ \A m \in DOMAIN appTps : appTps'[m] = appTps[m]
      BY <1>8, <3>1 DEF insert
    <3>3. QED
      BY <3>2 DEF S
  <2>2. /\ channel' \in Seq(Message(flag))
        /\ \A k \in DOMAIN channel' : \/ k \in DOMAIN channel
                                         /\ channel'[k] = channel[k]
                                      \/ channel'[k] = msg
    <3>1. /\ channel' \in Seq(Message(flag)) /\ Len(channel) \in Nat
          /\ DOMAIN channel = 1..Len(channel)
          /\ DOMAIN channel' = 1..(Len(channel) + 1)
          /\ \A k \in DOMAIN channel : channel'[k] = channel[k]
          /\ channel'[Len(channel) + 1] = msg
      BY <1>5, <1>8, AppendOne
    <3>2. QED
      BY <3>1
  <2>3. msg.kind = "tracepoint" /\ msg.name = name /\ msg.flag = flag
    BY DEF msg
  <2>4. TypeOK'
    BY <1>1, <1>2, <1>3, <1>4, <2>1, <2>2 DEF AInv, TypeOK
  <2>5. SameFlag'
    <3>1. \A m \in DOMAIN thrTps : m \in DOMAIN appTps /\ thrTps[m] = appTps[m]
      BY DEF AInv, SameFlag
    <3>2. \A k \in DOMAIN channel : channel[k].kind = "tracepoint" =>
             /\ channel[k].name \in DOMAIN appTps
             /\ channel[k].flag = appTps[channel[k].name]
      BY DEF AInv, SameFlag
    <3>3. QED
      BY <1>2, <2>1, <2>2, <2>3, <3>1, <3>2 DEF SameFlag
  <2>6. SubmitKnown' /\ ClientKnowsNames'
    BY <1>2, <2>2, <2>3 DEF AInv, SubmitKnown, ClientKnowsNames
  <2>7. FlagsOwned'
    <3>1. \A m \in DOMAIN appTps' : Repaired(m)
      BY <1>1, <2>1 DEF AInv, FlagsOwned
    <3>2. ASSUME NEW l \in DOMAIN appTps', NEW m \in DOMAIN appTps',
                 appTps'[l] = appTps'[m]
          PROVE  l = m
      BY <1>4, <2>1, <3>2 DEF AInv, FlagsOwned
    <3>3. ASSUME NEW m \in DOMAIN appTps', flags'[appTps'[m]]
          PROVE  m \in DOMAIN thrTps'
      BY <1>2, <1>3, <1>4, <2>1, <3>3 DEF AInv, FlagsOwned
    <3>4. QED
      BY <3>1, <3>2, <3>3 DEF FlagsOwned
  <2>8. SocketHasAddress' /\ AnnounceHasAddress'
    BY <1>2 DEF AInv, SocketHasAddress, AnnounceHasAddress
  <2>9. QED
    BY <2>4, <2>5, <2>6, <2>7, <2>8 DEF AInv
<1>9. QED
  BY <1>6, <1>7, <1>8

\* tracy_submit: the flag it reads is set only for a tracepoint of the thread's.
LEMMA SubmitStep ==
    ASSUME AInv,
           \/ \E n \in Names, k \in DataLens : tracy_submit(n, k)
           \/ tracy_submit_check
           \/ tracy_submit_send
    PROVE  AInv'
<1> DEFINE name == fix_tracepoint_str(appArg)
           msg == [kind |-> "payload", name |-> name]
<1>1. /\ UNCHANGED <<handle, app_cfg, appTps, client_connected, flags, thrTps,
                     buffer, udp_sock, udp_timer, panicked>>
      /\ appPc' \in {"idle", "loaded", "checked"}
      /\ nsubmit' \in {nsubmit, nsubmit + 1}
  BY DEF tracy_submit, tracy_submit_check, tracy_submit_send, shared, thread,
         beacon
<1>2. FlagsOwned' /\ SocketHasAddress' /\ AnnounceHasAddress'
  BY <1>1 DEF AInv, FlagsOwned, SocketHasAddress,
              AnnounceHasAddress
<1>3. CASE \E n \in Names, k \in DataLens : tracy_submit(n, k)
  <2>1. channel' = channel /\ appArg' \in Name /\ appArg'.ascii
        /\ appPc' = "loaded"
    BY <1>3, NamesAssumption DEF tracy_submit, shared
  <2>2. TypeOK'
    BY <1>1, <2>1 DEF AInv, TypeOK
  <2>3. SameFlag' /\ ClientKnowsNames' /\ SubmitKnown'
    BY <1>1, <2>1 DEF AInv, SameFlag, ClientKnowsNames, SubmitKnown
  <2>4. QED
    BY <1>2, <2>2, <2>3 DEF AInv
<1>4. CASE tracy_submit_check
  <2>1. /\ channel' = channel
        /\ \/ appPc' = "idle" /\ appArg' = NoName
           \/ /\ appPc = "loaded" /\ appPc' = "checked" /\ appArg' = appArg
              /\ tracepoint_enabled(name)
    BY <1>4 DEF tracy_submit_check, shared
  <2>2. TypeOK'
    BY <1>1, <2>1 DEF AInv, TypeOK
  <2>3. tracepoint_enabled(name) => name \in DOMAIN thrTps
    BY DEF AInv, FlagsOwned, tracepoint_enabled
  <2>4. SubmitKnown'
    BY <1>1, <2>1, <2>3 DEF AInv, SubmitKnown
  <2>5. SameFlag' /\ ClientKnowsNames'
    BY <1>1, <2>1 DEF AInv, SameFlag, ClientKnowsNames
  <2>6. QED
    BY <1>2, <2>2, <2>4, <2>5 DEF AInv
<1>5. CASE tracy_submit_send
  <2>1. /\ appPc = "checked" /\ appPc' = "idle" /\ appArg' = NoName
        /\ channel' = Append(channel, msg)
    BY <1>5 DEF tracy_submit_send, submitted_name
  <2>2. name \in DOMAIN thrTps /\ name \in Name
    BY <2>1, Repair DEF AInv, TypeOK, SubmitKnown
  <2>3. channel \in Seq(Message(Len(flags))) /\ msg \in Message(Len(flags))
    <3>1. Len(flags) \in Nat
      BY DEF AInv, TypeOK
    <3>2. QED
      BY <2>2, <3>1, Messages DEF AInv, TypeOK
  <2>4. msg.kind = "payload" /\ msg.name = name
    OBVIOUS
  <2> HIDE DEF msg, name
  <2>5. /\ channel' \in Seq(Message(Len(flags)))
        /\ \A k \in DOMAIN channel' : \/ k \in DOMAIN channel
                                         /\ channel'[k] = channel[k]
                                      \/ channel'[k] = msg
    <3>1. /\ channel' \in Seq(Message(Len(flags))) /\ Len(channel) \in Nat
          /\ DOMAIN channel = 1..Len(channel)
          /\ DOMAIN channel' = 1..(Len(channel) + 1)
          /\ \A k \in DOMAIN channel : channel'[k] = channel[k]
          /\ channel'[Len(channel) + 1] = msg
      BY <2>1, <2>3, AppendOne
    <3>2. QED
      BY <3>1
  <2>6. TypeOK'
    BY <1>1, <2>1, <2>5 DEF AInv, TypeOK
  <2>7. SameFlag' /\ SubmitKnown'
    BY <1>1, <2>1, <2>4, <2>5 DEF AInv, SameFlag, SubmitKnown
  <2>8. ClientKnowsNames'
    BY <1>1, <2>2, <2>4, <2>5 DEF AInv, ClientKnowsNames
  <2>9. QED
    BY <1>2, <2>6, <2>7, <2>8 DEF AInv
<1>6. QED
  BY <1>3, <1>4, <1>5

\* The thread takes a message: what was true of the channel is true of the map.
LEMMA TakeStep ==
    ASSUME AInv, channel_new_tracepoint \/ channel_payload
    PROVE  AInv'
<1> DEFINE msg == Head(channel)
<1>1. /\ UNCHANGED <<handle, app_cfg, appPc, appArg, appTps, nsubmit,
                     client_connected, flags, udp_sock, udp_timer, panicked>>
      /\ channel # <<>> /\ channel' = Tail(channel)
  BY DEF channel_new_tracepoint, channel_payload, app, beacon
<1>2. SocketHasAddress' /\ AnnounceHasAddress'
  BY <1>1 DEF AInv, SocketHasAddress, AnnounceHasAddress
<1>3. channel \in Seq(Message(Len(flags))) /\ Len(flags) \in Nat
  BY DEF AInv, TypeOK
<1>4. /\ channel' \in Seq(Message(Len(flags)))
      /\ msg \in Message(Len(flags)) /\ 1 \in DOMAIN channel /\ msg = channel[1]
      /\ \A k \in DOMAIN channel' :
            k + 1 \in DOMAIN channel /\ channel'[k] = channel[k + 1]
  BY <1>1, <1>3, TailOne
<1>5. msg.name \in Name /\ (msg.kind = "tracepoint" => msg.flag \in 1..Len(flags))
  BY <1>3, <1>4, Messages
<1> HIDE DEF msg
<1>6. CASE channel_new_tracepoint
  <2>1. /\ msg.kind = "tracepoint" /\ buffer' = buffer
        /\ thrTps' = insert(thrTps, msg.name, msg.flag)
    BY <1>6 DEF channel_new_tracepoint, msg
  <2>2. msg.name \in DOMAIN appTps /\ msg.flag = appTps[msg.name]
    BY <1>4, <2>1 DEF AInv, SameFlag
  <2>3. /\ DOMAIN thrTps' = DOMAIN thrTps \cup {msg.name}
        /\ thrTps' \in [DOMAIN thrTps' -> 1..Len(flags)]
        /\ \A m \in DOMAIN thrTps' : m \in DOMAIN appTps /\ thrTps'[m] = appTps[m]
    <3> DEFINE S == 1..Len(flags)
    <3>1. thrTps \in [DOMAIN thrTps -> S] /\ msg.flag \in S
      BY <1>5, <2>1 DEF AInv, TypeOK
    <3> HIDE DEF S
    <3>2. /\ DOMAIN thrTps' = DOMAIN thrTps \cup {msg.name}
          /\ thrTps' \in [DOMAIN thrTps' -> S]
          /\ thrTps'[msg.name] = msg.flag
          /\ \A m \in DOMAIN thrTps : m # msg.name => thrTps'[m] = thrTps[m]
      BY <2>1, <3>1 DEF insert
    <3>3. \A m \in DOMAIN thrTps : m \in DOMAIN appTps /\ thrTps[m] = appTps[m]
      BY DEF AInv, SameFlag
    <3>4. QED
      BY <2>2, <3>2, <3>3 DEF S
  <2>4. TypeOK'
    BY <1>1, <1>4, <2>1, <2>2, <2>3 DEF AInv, TypeOK
  <2>5. SameFlag'
    BY <1>1, <1>4, <2>3 DEF AInv, SameFlag
  <2>6. FlagsOwned' /\ SubmitKnown'
    BY <1>1, <2>3 DEF AInv, FlagsOwned, SubmitKnown
  <2>7. ClientKnowsNames'
    <3>1. ~msg.name.long
      BY <2>2 DEF AInv, FlagsOwned, Repaired
    <3>2. QED
      BY <1>1, <1>4, <2>1, <2>3, <3>1 DEF AInv, ClientKnowsNames
  <2>8. QED
    BY <1>2, <2>4, <2>5, <2>6, <2>7 DEF AInv
<1>7. CASE channel_payload
  <2>1. /\ msg.kind = "payload" /\ thrTps' = thrTps
        /\ buffer' = Append(buffer, msg.name) /\ buffer \in Seq(Name)
    BY <1>7 DEF channel_payload, msg, AInv, TypeOK
  <2>2. /\ buffer' \in Seq(Name) /\ Len(buffer) \in Nat
        /\ DOMAIN buffer = 1..Len(buffer)
        /\ DOMAIN buffer' = 1..(Len(buffer) + 1)
        /\ \A k \in DOMAIN buffer : buffer'[k] = buffer[k]
        /\ buffer'[Len(buffer) + 1] = msg.name
    BY <1>5, <2>1, AppendOne
  <2>3. TypeOK'
    BY <1>1, <1>4, <2>1, <2>2 DEF AInv, TypeOK
  <2>4. SameFlag'
    BY <1>1, <1>4, <2>1 DEF AInv, SameFlag
  <2>5. FlagsOwned' /\ SubmitKnown'
    BY <1>1, <2>1 DEF AInv, FlagsOwned, SubmitKnown
  <2>6. ClientKnowsNames'
    <3>1. msg.name \in DOMAIN thrTps
      BY <1>4, <2>1 DEF AInv, ClientKnowsNames
    <3>2. \A k \in DOMAIN buffer' : buffer'[k] \in DOMAIN thrTps
      BY <2>2, <3>1 DEF AInv, ClientKnowsNames
    <3>3. QED
      BY <1>1, <1>4, <2>1, <3>2 DEF AInv, ClientKnowsNames
  <2>7. QED
    BY <1>2, <2>3, <2>4, <2>5, <2>6 DEF AInv
<1>8. QED
  BY <1>6, <1>7

\* Flags may change, as long as none is set that the thread does not know.
LEMMA FlagsStep ==
    ASSUME AInv, flags' \in Seq(BOOLEAN), Len(flags') = Len(flags),
           \A n \in DOMAIN appTps : flags'[appTps[n]] => n \in DOMAIN thrTps,
           client_connected' \in BOOLEAN, udp_timer' \in BOOLEAN,
           UNCHANGED <<app, channel, thread, udp_sock, panicked>>
    PROVE  AInv'
<1> USE DEF app, thread
<1>1. TypeOK'
  BY DEF AInv, TypeOK
<1>2. SameFlag' /\ SubmitKnown' /\ ClientKnowsNames'
  BY DEF AInv, SameFlag, SubmitKnown, ClientKnowsNames
<1>3. FlagsOwned'
  BY DEF AInv, FlagsOwned
<1>4. SocketHasAddress' /\ AnnounceHasAddress'
  BY DEF AInv, SocketHasAddress, AnnounceHasAddress
<1>5. QED
  BY <1>1, <1>2, <1>3, <1>4 DEF AInv

\* Sessions begin and end, and clients set flags.
LEMMA SessionStep ==
    ASSUME AInv,
           \/ establish_connection \/ client_leaves
           \/ \E n \in Names, state \in BOOLEAN : set_tracepoint(n, state)
    PROVE  AInv'
<1>1. /\ flags \in Seq(BOOLEAN) /\ Len(flags) \in Nat /\ DOMAIN flags = 1..Len(flags)
      /\ \A n \in DOMAIN appTps : appTps[n] \in 1..Len(flags)
      /\ \A n \in DOMAIN thrTps : thrTps[n] \in 1..Len(flags)
      /\ \A n \in DOMAIN thrTps : n \in DOMAIN appTps /\ thrTps[n] = appTps[n]
      /\ \A m, n \in DOMAIN appTps : appTps[m] = appTps[n] => m = n
      /\ \A n \in DOMAIN appTps : flags[appTps[n]] => n \in DOMAIN thrTps
      /\ client_connected \in BOOLEAN /\ udp_timer \in BOOLEAN
  BY DEF AInv, TypeOK, SameFlag, FlagsOwned
<1>2. CASE establish_connection
  BY <1>1, <1>2, FlagsStep DEF establish_connection
<1>3. ASSUME close_and_clean_connection PROVE AInv'
  <2> DEFINE cleared(f) == flags[f] /\ f \notin {thrTps[n] : n \in DOMAIN thrTps}
  <2>1. /\ flags' = [f \in DOMAIN flags |-> cleared(f)]
        /\ client_connected' = FALSE /\ udp_timer' = TRUE
        /\ UNCHANGED <<app, channel, thread, udp_sock, panicked>>
    BY <1>3 DEF close_and_clean_connection
  <2>2. \A f \in DOMAIN flags : cleared(f) \in BOOLEAN /\ (cleared(f) => flags[f])
    BY <1>1
  <2> HIDE DEF cleared
  <2>3. /\ flags' \in Seq(BOOLEAN) /\ Len(flags') = Len(flags)
        /\ \A f \in 1..Len(flags) : flags'[f] = cleared(f)
    BY <1>1, <2>1, <2>2
  <2>4. \A n \in DOMAIN appTps : flags'[appTps[n]] => n \in DOMAIN thrTps
    BY <1>1, <2>2, <2>3
  <2>5. QED
    BY <2>1, <2>3, <2>4, FlagsStep
<1>4. ASSUME NEW n \in Names, NEW state \in BOOLEAN, set_tracepoint(n, state)
      PROVE  AInv'
  <2>1. CASE n.long
    BY <1>3, <1>4, <2>1 DEF set_tracepoint
  <2>2. CASE ~n.long
    <3>1. /\ flags' = IF n \in DOMAIN thrTps
                      THEN [flags EXCEPT ![thrTps[n]] = state] ELSE flags
          /\ UNCHANGED <<app, client_connected, channel, thread, udp_sock,
                         udp_timer, panicked>>
      BY <1>4, <2>2 DEF set_tracepoint, beacon
    <3>2. flags' \in Seq(BOOLEAN) /\ Len(flags') = Len(flags)
      <4>1. flags \in [1..Len(flags) -> BOOLEAN]
        BY <1>1
      <4>2. flags' \in [1..Len(flags) -> BOOLEAN]
        BY <3>1, <4>1
      <4>3. QED
        BY <1>1, <4>2
    <3>3. ASSUME NEW m \in DOMAIN appTps, flags'[appTps[m]]
          PROVE  m \in DOMAIN thrTps
      <4>1. CASE n \in DOMAIN thrTps /\ appTps[m] = thrTps[n]
        BY <1>1, <4>1
      <4>2. CASE ~(n \in DOMAIN thrTps /\ appTps[m] = thrTps[n])
        <5>1. appTps[m] \in DOMAIN flags
          BY <1>1
        <5>2. flags'[appTps[m]] = flags[appTps[m]]
          BY <3>1, <4>2, <5>1
        <5>3. QED
          BY <1>1, <3>3, <5>2
      <4>3. QED
        BY <4>1, <4>2
    <3>4. QED
      BY <1>1, <3>1, <3>2, <3>3, FlagsStep
  <2>3. QED
    BY <2>1, <2>2
<1>5. QED
  BY <1>2, <1>3, <1>4 DEF client_leaves

\* tracy_init binds a socket only with an address, which announce_tracer needs.
LEMMA BeaconStep ==
    ASSUME AInv, announce_tracer \/ \E p \in Params : tracy_init(p)
    PROVE  AInv'
<1>1. UNCHANGED <<appPc, appArg, appTps, nsubmit, client_connected, flags,
                  channel, thrTps, buffer>>
  BY DEF announce_tracer, tracy_init, app, shared, thread
<1>2. SameFlag' /\ FlagsOwned' /\ SubmitKnown' /\ ClientKnowsNames'
  BY <1>1 DEF AInv, SameFlag, FlagsOwned, SubmitKnown, ClientKnowsNames
<1>3. CASE \E p \in Params : tracy_init(p)
  <2>1. PICK p \in Params : tracy_init(p)
    BY <1>3
  <2>2. /\ p.interval \in Nat /\ p.iface \in Pointer /\ p.addr \in Pointer
    BY ParamsAssumption DEF Param
  <2>3. announces(p) \in BOOLEAN /\ (announces(p) => p.addr = "ok")
    BY <2>2 DEF announces, rawpt_to_addr, rawpt_to_str, string_to_addr
  <2>4. /\ handle = "none" /\ UNCHANGED panicked
        /\ \/ handle' = "null" /\ UNCHANGED <<app_cfg, udp_sock, udp_timer>>
           \/ /\ handle' = "live"
              /\ app_cfg' = [interval |-> p.interval, iface |-> p.iface,
                             addr |-> p.addr]
              /\ udp_sock' \in BOOLEAN /\ (udp_sock' => announces(p))
              /\ udp_timer' = announces(p)
    <3> HIDE DEF announces
    <3>1. QED
      BY <2>1, <2>3 DEF tracy_init, init_data, udp_beacon_init
  <2>5. app_cfg' \in [interval : Nat, iface : Pointer, addr : Pointer]
    BY <2>2, <2>4 DEF AInv, TypeOK
  <2>6. udp_sock' => app_cfg'.addr = "ok"
    <3>1. CASE UNCHANGED <<app_cfg, udp_sock>>
      BY <3>1 DEF AInv, SocketHasAddress
    <3>2. CASE app_cfg' = [interval |-> p.interval, iface |-> p.iface,
                           addr |-> p.addr] /\ (udp_sock' => announces(p))
      <4>1. app_cfg'.addr = p.addr
        BY <3>2
      <4>2. QED
        BY <2>3, <3>2, <4>1
    <3>3. QED
      BY <2>4, <3>1, <3>2
  <2>7. TypeOK'
    BY <1>1, <2>3, <2>4, <2>5 DEF AInv, TypeOK
  <2>8. ~panicked' /\ handle' # "none"
    BY <2>4 DEF AInv, SocketHasAddress, AnnounceHasAddress
  <2>9. SocketHasAddress' /\ AnnounceHasAddress'
    BY <2>6, <2>8 DEF SocketHasAddress, AnnounceHasAddress
  <2>10. QED
    BY <1>2, <2>7, <2>9 DEF AInv
<1>4. CASE announce_tracer
  <2>1. /\ UNCHANGED <<handle, app_cfg, udp_sock, udp_timer>>
        /\ panicked' = (udp_sock /\ app_cfg.addr # "ok")
    BY <1>4 DEF announce_tracer, app
  <2>2. panicked' = FALSE
    BY <2>1 DEF AInv, TypeOK, SocketHasAddress
  <2>3. TypeOK'
    BY <1>1, <2>1, <2>2 DEF AInv, TypeOK
  <2>4. SocketHasAddress' /\ AnnounceHasAddress'
    BY <2>1, <2>2 DEF AInv, SocketHasAddress, AnnounceHasAddress
  <2>5. QED
    BY <1>2, <2>3, <2>4 DEF AInv
<1>5. QED
  BY <1>3, <1>4
-----------------------------------------------------------------------------
(* The theorems.                                                           *)

\* The inductive invariant holds.
THEOREM ApiInvariance == Spec => []AInv
<1>1. Init => AInv
  <2> SUFFICES ASSUME Init PROVE AInv
    OBVIOUS
  <2>1. DOMAIN EmptyMap = {} /\ EmptyMap \in [DOMAIN EmptyMap -> 1..Len(flags)]
    BY DEF EmptyMap
  <2>2. TypeOK
    <3>1. app_cfg \in [interval : Nat, iface : Pointer, addr : Pointer]
      BY DEF Init, Pointer
    <3>2. /\ DOMAIN appTps \subseteq Key /\ DOMAIN thrTps \subseteq Key
          /\ appTps \in [DOMAIN appTps -> 1..Len(flags)]
          /\ thrTps \in [DOMAIN thrTps -> 1..Len(flags)]
      BY <2>1 DEF Init
    <3>3. /\ flags \in Seq(BOOLEAN) /\ buffer \in Seq(Name)
          /\ channel \in Seq(Message(Len(flags)))
      BY DEF Init
    <3>4. QED
      BY <3>1, <3>2, <3>3 DEF Init, TypeOK
  <2>3. SameFlag /\ FlagsOwned /\ SubmitKnown /\ ClientKnowsNames
    BY <2>1 DEF Init, SameFlag, FlagsOwned, SubmitKnown, ClientKnowsNames
  <2>4. SocketHasAddress /\ AnnounceHasAddress
    BY DEF Init, SocketHasAddress, AnnounceHasAddress
  <2>5. QED
    BY <2>2, <2>3, <2>4 DEF AInv
<1>2. AInv /\ [Next]_vars => AInv'
  <2> SUFFICES ASSUME AInv, [Next]_vars PROVE AInv'
    OBVIOUS
  <2>1. CASE UNCHANGED vars
    BY <2>1 DEF vars, app, shared, thread, beacon, AInv, TypeOK, SameFlag,
                FlagsOwned, SubmitKnown, ClientKnowsNames, SocketHasAddress,
                AnnounceHasAddress
  <2>2. CASE AppNext
    BY <2>2, RegisterStep, SubmitStep, BeaconStep DEF AppNext
  <2>3. CASE ThreadNext
    BY <2>3, TakeStep, SessionStep, BeaconStep DEF ThreadNext
  <2>4. QED
    BY <2>1, <2>2, <2>3 DEF Next
<1>3. QED
  BY <1>1, <1>2, PTL DEF Spec

\* Every variable keeps its type.
THEOREM ApiTypes == Spec => []TypeOK
  BY ApiInvariance, PTL DEF AInv

\* Application and thread share one flag for a name.
THEOREM OneFlag == Spec => []SameFlag
  BY ApiInvariance, PTL DEF AInv

\* Whatever the client is sent bears a name the client can list and set.
THEOREM KnownNames == Spec => []ClientKnowsNames
  BY ApiInvariance, PTL DEF AInv

\* tracy_tracepoint_enabled answers yes only to names that are repaired already.
THEOREM RepairedEnabled == Spec => []EnabledOnlyIfRepaired
<1>1. AInv => EnabledOnlyIfRepaired
  BY DEF AInv, FlagsOwned, EnabledOnlyIfRepaired, tracy_tracepoint_enabled,
         tracepoint_enabled
<1>2. QED
  BY ApiInvariance, <1>1, PTL

\* announce_tracer never unwraps an address that is not there.
THEOREM HasAddress == Spec => []AnnounceHasAddress
  BY ApiInvariance, PTL DEF AInv
=============================================================================
