---------------------------- MODULE RequestProofs ---------------------------
(***************************************************************************)
(* WholeRequestsExecuted, for every set of names and requests: requests    *)
(* that keep to the protocol and arrive whole are executed.                *)
(***************************************************************************)
EXTENDS ReceiveProofs

\* The client has kept to the protocol so far, is still there, and nothing
\* arrived in part.
Good == correct /\ ~split /\ peer = "open"

IsHeader(o) == o \in DOMAIN wire /\ wire[o].kind = "header"

\* Where the request of a header ends, by the length in the header.
Announced(o) == o + HEADER_LEN + wire[o].len

\* A name set_tracepoints accepts.
ShortName(o) == IsName(o) /\ wire[o].n <= MAX_TRACEPOINT_NAME_LEN

\* A request ends where the next one begins.
EndsBetween ==
    /\ \A e \in ends : IsHeader(e) \/ (e = written /\ todo = <<>>)
    /\ ~split => arrived \in ends

\* Every name the client has asked for is in the stream.
NamesOnWire ==
    \A k \in DOMAIN asked : \E o \in DOMAIN wire : IsName(o) /\ wire[o].id = k

\* A request is followed by the next where its header says, or is being written.
Complete(o) ==
    /\ Announced(o) \in ends
    /\ \A p \in DOMAIN wire : (o < p /\ p < Announced(o)) => ShortName(p)
InProgress(o) ==
    /\ todo # <<>> /\ due = Announced(o)
    /\ \A e \in ends : e <= o
    /\ \A p \in DOMAIN wire : o < p => ShortName(p)
ProtocolKept == correct =>
    /\ \A o \in DOMAIN wire : IsHeader(o) =>
          /\ wire[o].flags = 0 /\ wire[o].cmd \in {1, 3, 4}
          /\ wire[o].cmd = 1 => wire[o].len = 0
          /\ Complete(o) \/ InProgress(o)
    /\ \A k \in DOMAIN todo : NameLen[todo[k]] <= MAX_TRACEPOINT_NAME_LEN

\* The reader is between two requests, or in one it will read to its end.
InRequest(o) ==
    /\ IsHeader(o) /\ len = wire[o].len /\ pos = o + HEADER_LEN + i
    /\ Announced(o) \in ends /\ Announced(o) <= arrived
    /\ pc = "names" => pos \in DOMAIN wire \/ pos = Announced(o)
    /\ Frontier <= Announced(o) /\ (pc = "name" => Frontier < Announced(o))
OnTrack == Good =>
    /\ connected /\ pc \in {"poll", "receive", "names", "name"}
    /\ pc \in {"poll", "receive"} => pos \in ends
    /\ pc \in {"names", "name"} => \E o \in DOMAIN wire : InRequest(o)

\* The names before the reader, and no others, have been executed.
ExecutedSoFar == Good =>
    /\ Len(applied) <= Len(asked)
    /\ \A o \in DOMAIN wire : IsName(o) =>
          (o < Frontier <=> wire[o].id <= Len(applied))

WInv == EndsBetween /\ NamesOnWire /\ ProtocolKept /\ OnTrack /\ ExecutedSoFar
-----------------------------------------------------------------------------
(* The stream.                                                             *)

\* Offsets in the stream, and the fields there.
LEMMA Offsets ==
    ASSUME RInv
    PROVE  /\ pos \in Nat /\ arrived \in Nat /\ written \in Nat /\ name_len \in Nat
           /\ pos <= arrived /\ arrived <= written /\ written \notin DOMAIN wire
           /\ \A o \in DOMAIN wire : /\ o \in Nat /\ End(o) \in Nat /\ o < End(o)
                                     /\ End(o) <= written
           /\ \A o, p \in DOMAIN wire : o < p => End(o) <= p
<1>1. /\ pos \in Nat /\ arrived \in Nat /\ written \in Nat /\ name_len \in Nat
  BY DEF RInv, TypeOK
<1>2. pos <= arrived /\ arrived <= written
  BY DEF RInv, ReaderInStep
<1>3. \A o \in DOMAIN wire : /\ o \in Nat /\ End(o) \in Nat /\ o < End(o)
                             /\ End(o) <= written
  BY Fields DEF RInv, Gapless
<1>4. \A o, p \in DOMAIN wire : o < p => End(o) <= p
  BY DEF RInv, Gapless
<1>5. written \notin DOMAIN wire
  BY <1>1, <1>3
<1>6. QED
  BY <1>1, <1>2, <1>3, <1>4, <1>5

\* The histories of names have lengths.
LEMMA Counts ==
    ASSUME RInv
    PROVE  /\ Len(applied) \in Nat /\ Len(asked) \in Nat
           /\ DOMAIN asked = 1..Len(asked)
  BY DEF RInv, TypeOK

\* Requests end between fields.
LEMMA EndOffsets ==
    ASSUME RInv, EndsBetween, NEW e \in ends
    PROVE  /\ e \in Nat /\ e <= written /\ (IsHeader(e) \/ e = written)
           /\ \A o \in DOMAIN wire : o < e => End(o) <= e
<1>1. IsHeader(e) \/ e = written
  BY DEF EndsBetween
<1>2. CASE IsHeader(e)
  BY <1>2, Offsets DEF IsHeader
<1>3. CASE e = written
  BY <1>3, Offsets
<1>4. QED
  BY <1>1, <1>2, <1>3

\* A header announces a request that is no shorter than the header.
LEMMA HeaderField ==
    ASSUME RInv, NEW o, IsHeader(o)
    PROVE  /\ o \in Nat /\ wire[o].len \in Nat /\ Announced(o) \in Nat
           /\ End(o) = o + HEADER_LEN /\ End(o) <= Announced(o)
<1>1. o \in DOMAIN wire /\ wire[o].kind = "header"
  BY DEF IsHeader
<1>2. o \in Nat /\ wire[o].len \in Nat
  BY <1>1, Fields DEF RInv
<1>3. QED
  BY <1>1, <1>2 DEF Announced, End, HEADER_LEN

\* Where a request of a client that keeps to the protocol begins, and something
\* has arrived, the whole request has.
LEMMA RequestAhead ==
    ASSUME RInv, WInv, Good, NEW e \in ends, e < arrived
    PROVE  /\ IsHeader(e) /\ wire[e].flags = 0 /\ wire[e].cmd \in {1, 3, 4}
           /\ wire[e].cmd = 1 => Announced(e) = End(e)
           /\ Announced(e) \in ends /\ Announced(e) <= arrived
<1>1. arrived \in ends /\ EndsBetween
  BY DEF WInv, EndsBetween, Good
<1>2. IsHeader(e)
  BY <1>1, EndOffsets, Offsets
<1>3. /\ wire[e].flags = 0 /\ wire[e].cmd \in {1, 3, 4}
      /\ wire[e].cmd = 1 => wire[e].len = 0
      /\ Complete(e) \/ InProgress(e)
  BY <1>2 DEF WInv, ProtocolKept, Good, IsHeader
<1>4. Complete(e)
  <2>1. e \in Nat
    BY <1>1, EndOffsets
  <2>2. ~ InProgress(e)
    BY <1>1, <2>1, Offsets DEF InProgress
  <2>3. QED
    BY <1>3, <2>2
<1>5. Announced(e) <= arrived
  <2>1. Announced(e) \in ends /\ Announced(e) \in Nat /\ Announced(e) <= written
    BY <1>1, <1>2, <1>4, EndOffsets, HeaderField DEF Complete
  <2>2. CASE arrived = written
    BY <2>1, <2>2
  <2>3. CASE IsHeader(arrived)
    <3>1. ~ ShortName(arrived) /\ arrived \in DOMAIN wire
      BY <2>3 DEF ShortName, IsName, IsHeader
    <3>2. ~(arrived < Announced(e))
      BY <1>4, <3>1 DEF Complete
    <3>3. QED
      BY <2>1, <3>2, Offsets
  <2>4. QED
    BY <1>1, <2>2, <2>3, EndOffsets
<1>6. wire[e].cmd = 1 => Announced(e) = End(e)
  BY <1>2, <1>3, HeaderField DEF Announced, HEADER_LEN
<1>7. QED
  BY <1>2, <1>3, <1>4, <1>5, <1>6 DEF Complete

\* The fields of a request that is being read are names that can be read.
LEMMA NamesAhead ==
    ASSUME RInv, WInv, Good, NEW o, InRequest(o),
           NEW p \in DOMAIN wire, o < p, p < Announced(o)
    PROVE  ShortName(p) /\ End(p) <= Announced(o)
<1>1. IsHeader(o) /\ o \in DOMAIN wire /\ Announced(o) \in ends /\ EndsBetween
  BY DEF InRequest, IsHeader, WInv
<1>2. /\ o \in Nat /\ Announced(o) \in Nat /\ o < Announced(o)
  BY <1>1, HeaderField DEF HEADER_LEN
<1>3. Complete(o) \/ InProgress(o)
  BY <1>1 DEF WInv, ProtocolKept, Good
<1>4. ~ InProgress(o)
  BY <1>1, <1>2 DEF InProgress
<1>5. ShortName(p)
  BY <1>3, <1>4 DEF Complete
<1>6. End(p) <= Announced(o)
  BY <1>1, EndOffsets
<1>7. QED
  BY <1>5, <1>6
-----------------------------------------------------------------------------
(* The client.                                                             *)

\* What both kinds of writing do to the stream: w is where it ended.
Extended(w) ==
    /\ w = written /\ DOMAIN wire' = DOMAIN wire \cup {w}
    /\ \A o \in DOMAIN wire : wire'[o] = wire[o]
    /\ wire'[w].kind \in {"header", "name"}
    /\ wire'[w].kind = "header" <=> todo = <<>>
    /\ written' \in Nat /\ w < written'
    /\ ends' = ends \/ (ends' = ends \cup {written'} /\ todo' = <<>>)
    /\ correct' => correct
    /\ UNCHANGED <<pc, connected, pos, i, len, name_len, peer, arrived, split,
                   applied>>

\* A header begins a request, which ends there if it has no names.
HeaderWritten(w) ==
    /\ todo = <<>> /\ wire'[w].kind = "header" /\ asked' = asked
    /\ due' = Announced(w)'
    /\ todo' = <<>> => ends' = ends \cup {written'}
    /\ todo' # <<>> => ends' = ends
    /\ correct' => /\ wire'[w].flags = 0 /\ wire'[w].cmd \in {1, 3, 4}
                   /\ wire'[w].cmd = 1 => wire'[w].len = 0
                   /\ todo' = <<>> => written' = Announced(w)'
                   /\ \A k \in DOMAIN todo' :
                         NameLen[todo'[k]] <= MAX_TRACEPOINT_NAME_LEN

\* The last name ends the request, where it is due.
NameWritten(w) ==
    /\ todo # <<>> /\ wire'[w].kind = "name" /\ due' = due
    /\ wire'[w].n = NameLen[todo[1]] /\ 1 \in DOMAIN todo
    /\ \A k \in DOMAIN todo' : k + 1 \in DOMAIN todo /\ todo'[k] = todo[k + 1]
    /\ wire'[w].id = Len(asked) + 1 /\ DOMAIN asked' = 1..(Len(asked) + 1)
    /\ DOMAIN asked = 1..Len(asked) /\ Len(asked) \in Nat
    /\ todo' = <<>> => ends' = ends \cup {written'} /\ (correct' => written' = due)
    /\ todo' # <<>> => ends' = ends

\* What write_header does.
LEMMA WritesHeader ==
    ASSUME RInv, NEW r \in Requests, write_header(r), NEW w, w = written
    PROVE  Extended(w) /\ HeaderWritten(w)
<1> DEFINE f == [kind |-> "header", cmd |-> r.cmd, flags |-> r.flags,
                 len |-> r.len]
<1>1. /\ wire' = put(written, f) /\ written' = written + HEADER_LEN
      /\ todo = <<>> /\ todo' = r.names /\ due' = written' + r.len
      /\ ends' = (IF r.names = <<>> THEN ends \cup {written'} ELSE ends)
      /\ correct' = (correct /\ WellFormed(r))
      /\ UNCHANGED <<pc, connected, pos, i, len, name_len, peer, asked, arrived,
                     split, applied>>
  BY DEF write_header, session, locals, network
<1>2. r.len \in Nat
  BY RequestsAssumption DEF Request
<1>3. f.kind = "header" /\ f.cmd = r.cmd /\ f.flags = r.flags /\ f.len = r.len
  OBVIOUS
<1> HIDE DEF f
<1>4. /\ DOMAIN wire' = DOMAIN wire \cup {w} /\ wire'[w] = f
      /\ \A o \in DOMAIN wire : wire'[o] = wire[o]
  BY <1>1, Offsets DEF put
<1>5. w \in Nat /\ written' \in Nat /\ w < written' /\ written' = w + HEADER_LEN
  BY <1>1, Offsets DEF HEADER_LEN
<1>6. Extended(w)
  BY <1>1, <1>3, <1>4, <1>5 DEF Extended
<1>7. due' = Announced(w)' /\ (r.len = 0 => written' = Announced(w)')
  <2>1. Announced(w)' = w + HEADER_LEN + r.len
    BY <1>3, <1>4 DEF Announced
  <2>2. QED
    BY <1>1, <1>2, <1>5, <2>1 DEF HEADER_LEN
<1>8. ASSUME correct'
      PROVE  /\ r.flags = 0 /\ r.cmd \in {1, 3, 4}
             /\ r.cmd = 1 => r.len = 0
             /\ r.names = <<>> => r.len = 0
             /\ \A k \in DOMAIN r.names :
                   NameLen[r.names[k]] <= MAX_TRACEPOINT_NAME_LEN
  <2>1. WellFormed(r)
    BY Zenon, <1>1, <1>8
  <2>2. QED
    BY <2>1 DEF WellFormed
<1>9. HeaderWritten(w)
  <2>1. correct' => /\ wire'[w].flags = 0 /\ wire'[w].cmd \in {1, 3, 4}
                    /\ wire'[w].cmd = 1 => wire'[w].len = 0
                    /\ todo' = <<>> => written' = Announced(w)'
                    /\ \A k \in DOMAIN todo' :
                          NameLen[todo'[k]] <= MAX_TRACEPOINT_NAME_LEN
    BY Zenon, <1>1, <1>3, <1>4, <1>7, <1>8
  <2>2. QED
    BY Zenon, <1>1, <1>3, <1>4, <1>7, <2>1 DEF HeaderWritten
<1>10. QED
  BY <1>6, <1>9

\* What write_name does.
LEMMA WritesName ==
    ASSUME RInv, write_name, NEW w, w = written
    PROVE  Extended(w) /\ NameWritten(w)
<1> DEFINE t == Head(todo)
           f == [kind |-> "name", n |-> NameLen[t], tp |-> t,
                 id |-> Len(asked) + 1]
           a == [tp |-> t, cmd |-> cmd]
           Asked == [tp : Names, cmd : Nat]
<1>1. /\ wire' = put(written, f) /\ written' = written + 2 + NameLen[t]
      /\ todo # <<>> /\ todo' = Tail(todo) /\ due' = due
      /\ asked' = Append(asked, a)
      /\ ends' = (IF Len(todo) = 1 THEN ends \cup {written'} ELSE ends)
      /\ correct' = (correct /\ (Len(todo) = 1 => written' = due))
      /\ UNCHANGED <<pc, connected, pos, i, len, name_len, peer, arrived, split,
                     applied>>
  BY DEF write_name, session, locals, network
<1>2. f.kind = "name" /\ f.n = NameLen[t] /\ f.id = Len(asked) + 1
  OBVIOUS
<1>3. todo \in Seq(Names) /\ asked \in Seq(Asked) /\ cmd \in Nat
  BY DEF RInv, TypeOK
<1>4. /\ t \in Names /\ t = todo[1] /\ 1 \in DOMAIN todo
      /\ (Len(todo) = 1) <=> (Tail(todo) = <<>>)
      /\ \A k \in DOMAIN Tail(todo) : k + 1 \in DOMAIN todo
                                      /\ Tail(todo)[k] = todo[k + 1]
  <2>1. t \in Names /\ t = todo[1] /\ 1 \in DOMAIN todo
    BY <1>1, <1>3
  <2>2. Tail(todo) \in Seq(Names) /\ Len(Tail(todo)) = Len(todo) - 1
        /\ Len(todo) \in Nat
    BY <1>1, <1>3
  <2>3. (Len(todo) = 1) <=> (Tail(todo) = <<>>)
    BY <2>2
  <2>4. \A k \in DOMAIN Tail(todo) : k + 1 \in DOMAIN todo
                                     /\ Tail(todo)[k] = todo[k + 1]
    BY <1>1, <1>3
  <2>5. QED
    BY <2>1, <2>3, <2>4
<1>5. a \in Asked
  BY <1>3, <1>4
<1> HIDE DEF t, f, a, Asked
<1>6. NameLen[t] \in Nat
  BY <1>4, NamesAssumption
<1>7. /\ DOMAIN wire' = DOMAIN wire \cup {w} /\ wire'[w] = f
      /\ \A o \in DOMAIN wire : wire'[o] = wire[o]
  BY <1>1, Offsets DEF put
<1>8. written' \in Nat /\ w < written'
  BY <1>1, <1>6, Offsets
<1>9. /\ DOMAIN asked = 1..Len(asked) /\ Len(asked) \in Nat
      /\ DOMAIN asked' = 1..(Len(asked) + 1)
  BY <1>1, <1>3, <1>5
<1>10. Extended(w)
  BY <1>1, <1>2, <1>4, <1>7, <1>8 DEF Extended
<1>11. NameWritten(w)
  BY <1>1, <1>2, <1>4, <1>7, <1>9 DEF NameWritten
<1>12. QED
  BY <1>10, <1>11

\* Every step of the client keeps the invariant: the reader does not notice.
LEMMA ClientKeeps ==
    ASSUME RInv, WInv, write_name \/ \E r \in Requests : write_header(r)
    PROVE  WInv'
<1>1. PICK w \in Nat : Extended(w) /\ (HeaderWritten(w) \/ NameWritten(w))
  BY WritesHeader, WritesName, Offsets
<1> DEFINE Old == DOMAIN wire
<1>2. /\ w = written /\ w \notin Old /\ DOMAIN wire' = Old \cup {w}
      /\ \A o \in Old : wire'[o] = wire[o]
      /\ w < written' /\ written' \in Nat
      /\ wire'[w].kind \in {"header", "name"}
      /\ wire'[w].kind = "header" <=> todo = <<>>
  BY <1>1, Offsets DEF Extended
<1>3. \A o \in Old : o \in Nat /\ o < w
  BY <1>2, Offsets
<1>4. \A e \in ends : e \in Nat /\ e <= w
  BY <1>2, EndOffsets DEF WInv
<1>5. \A o \in Old : /\ IsName(o)' = IsName(o) /\ IsHeader(o)' = IsHeader(o)
                     /\ ShortName(o)' = ShortName(o)
                     /\ Announced(o)' = Announced(o)
  BY <1>2 DEF IsName, IsHeader, ShortName, Announced
<1>6. /\ IsHeader(w)' <=> wire'[w].kind = "header"
      /\ IsName(w)' <=> wire'[w].kind = "name"
  BY <1>2 DEF IsHeader, IsName
<1>7. /\ UNCHANGED <<pc, connected, pos, i, len, name_len, arrived, applied>>
      /\ split' = split /\ peer' = peer /\ (correct' => correct)
      /\ ends' = ends \/ (ends' = ends \cup {written'} /\ todo' = <<>>)
      /\ Frontier' = Frontier
  BY <1>1 DEF Extended, Frontier
<1>8. Good' => Good
  BY <1>7 DEF Good
<1>9. EndsBetween'
  <2>1. ASSUME NEW e \in ends'
        PROVE  IsHeader(e)' \/ (e = written' /\ todo' = <<>>)
    <3>1. CASE e \in Old /\ IsHeader(e)
      BY <1>5, <3>1
    <3>2. CASE e = w /\ todo = <<>>
      BY <1>2, <1>6, <3>2
    <3>3. CASE e \notin ends
      BY <1>7, <2>1, <3>3
    <3>4. QED
      BY <1>2, <3>1, <3>2, <3>3 DEF WInv, EndsBetween, IsHeader
  <2>2. ~split' => arrived' \in ends'
    BY <1>7 DEF WInv, EndsBetween
  <2>3. QED
    BY <2>1, <2>2 DEF EndsBetween
<1>10. NamesOnWire'
  <2>1. ASSUME NEW k \in DOMAIN asked
        PROVE  \E o \in DOMAIN wire' : IsName(o)' /\ wire'[o].id = k
    BY <1>2, <1>5 DEF WInv, NamesOnWire
  <2>2. CASE HeaderWritten(w)
    BY <2>1, <2>2 DEF NamesOnWire, HeaderWritten
  <2>3. CASE NameWritten(w)
    <3>1. /\ wire'[w].id = Len(asked) + 1 /\ DOMAIN asked' = 1..(Len(asked) + 1)
          /\ DOMAIN asked = 1..Len(asked) /\ Len(asked) \in Nat /\ IsName(w)'
      BY <1>6, <2>3 DEF NameWritten
    <3>2. \A k \in DOMAIN asked' : k \in DOMAIN asked \/ k = wire'[w].id
      BY <3>1
    <3>3. QED
      BY <1>2, <2>1, <3>1, <3>2 DEF NamesOnWire
  <2>4. QED
    BY <1>1, <2>2, <2>3
<1>11. ASSUME correct' PROVE ProtocolKept'
  <2>1. /\ \A o \in Old : IsHeader(o) =>
             /\ wire[o].flags = 0 /\ wire[o].cmd \in {1, 3, 4}
             /\ wire[o].cmd = 1 => wire[o].len = 0
             /\ Complete(o) \/ InProgress(o)
        /\ \A k \in DOMAIN todo : NameLen[todo[k]] <= MAX_TRACEPOINT_NAME_LEN
    BY <1>7, <1>11 DEF WInv, ProtocolKept
  <2>2. ASSUME NEW o \in Old, Complete(o) PROVE Complete(o)'
    <3>1. Announced(o) \in ends /\ Announced(o) \in Nat /\ Announced(o) <= w
      BY <1>4, <2>2 DEF Complete
    <3>2. ASSUME NEW p \in DOMAIN wire', o < p, p < Announced(o)
          PROVE  ShortName(p)'
      <4>1. p \in Old
        BY <1>2, <3>1, <3>2
      <4>2. QED
        BY <1>5, <2>2, <3>2, <4>1 DEF Complete
    <3>3. Announced(o)' \in ends'
      BY <1>5, <1>7, <3>1
    <3>4. QED
      BY <1>5, <3>2, <3>3 DEF Complete
  <2>3. CASE HeaderWritten(w)
    <3>1. \A o \in Old : IsHeader(o) => Complete(o)'
      BY <2>1, <2>2, <2>3 DEF HeaderWritten, InProgress
    <3>2. Complete(w)' \/ InProgress(w)'
      <4>1. \A p \in DOMAIN wire' : ~(w < p)
        BY <1>2, <1>3
      <4>2. CASE todo' = <<>>
        <5>1. Announced(w)' \in ends'
          BY <1>11, <2>3, <4>2 DEF HeaderWritten
        <5>2. QED
          BY <4>1, <5>1 DEF Complete
      <4>3. CASE todo' # <<>>
        <5>1. ends' = ends /\ due' = Announced(w)'
          BY <2>3, <4>3 DEF HeaderWritten
        <5>2. QED
          BY <1>4, <4>1, <4>3, <5>1 DEF InProgress
      <4>4. QED
        BY <4>2, <4>3
    <3>3. /\ wire'[w].flags = 0 /\ wire'[w].cmd \in {1, 3, 4}
          /\ wire'[w].cmd = 1 => wire'[w].len = 0
          /\ \A k \in DOMAIN todo' :
                NameLen[todo'[k]] <= MAX_TRACEPOINT_NAME_LEN
      BY <1>11, <2>3 DEF HeaderWritten
    <3>4. ASSUME NEW o \in DOMAIN wire', IsHeader(o)'
          PROVE  /\ wire'[o].flags = 0 /\ wire'[o].cmd \in {1, 3, 4}
                 /\ wire'[o].cmd = 1 => wire'[o].len = 0
                 /\ Complete(o)' \/ InProgress(o)'
      BY <1>2, <1>5, <2>1, <3>1, <3>2, <3>3, <3>4
    <3>5. QED
      BY <3>3, <3>4 DEF ProtocolKept
  <2>4. CASE NameWritten(w)
    <3>1. ShortName(w)'
      <4>1. wire'[w].n = NameLen[todo[1]] /\ 1 \in DOMAIN todo /\ IsName(w)'
        BY <1>6, <2>4 DEF NameWritten
      <4>2. QED
        BY <2>1, <4>1 DEF ShortName
    <3>2. ASSUME NEW o \in Old, InProgress(o)
          PROVE  Complete(o)' \/ InProgress(o)'
      <4>1. \A p \in DOMAIN wire' : o < p => ShortName(p)'
        BY <1>2, <1>5, <3>1, <3>2 DEF InProgress
      <4>2. CASE todo' = <<>>
        <5>1. Announced(o)' \in ends'
          BY <1>5, <1>11, <2>4, <3>2, <4>2 DEF NameWritten, InProgress
        <5>2. QED
          BY <4>1, <5>1 DEF Complete
      <4>3. CASE todo' # <<>>
        <5>1. ends' = ends /\ due' = Announced(o)'
          BY <1>5, <2>4, <3>2, <4>3 DEF NameWritten, InProgress
        <5>2. QED
          BY <3>2, <4>1, <4>3, <5>1 DEF InProgress
      <4>4. QED
        BY <4>2, <4>3
    <3>3. \A k \in DOMAIN todo' : NameLen[todo'[k]] <= MAX_TRACEPOINT_NAME_LEN
      BY <2>1, <2>4 DEF NameWritten
    <3>4. ~IsHeader(w)'
      BY <1>6, <2>4 DEF NameWritten
    <3>5. ASSUME NEW o \in DOMAIN wire', IsHeader(o)'
          PROVE  /\ wire'[o].flags = 0 /\ wire'[o].cmd \in {1, 3, 4}
                 /\ wire'[o].cmd = 1 => wire'[o].len = 0
                 /\ Complete(o)' \/ InProgress(o)'
      BY SMTT(30), <1>2, <1>5, <2>1, <2>2, <3>2, <3>4, <3>5
    <3>6. QED
      BY <3>3, <3>5 DEF ProtocolKept
  <2>5. QED
    BY <1>1, <2>3, <2>4
<1>12. ASSUME Good' PROVE OnTrack'
  <2>1. /\ connected /\ pc \in {"poll", "receive", "names", "name"}
        /\ pc \in {"poll", "receive"} => pos \in ends
        /\ pc \in {"names", "name"} => \E o \in Old : InRequest(o)
    BY <1>8, <1>12 DEF WInv, OnTrack
  <2>2. ASSUME NEW o \in Old, InRequest(o) PROVE InRequest(o)'
    <3>1. pos \in Old => pos \in DOMAIN wire'
      BY <1>2
    <3>2. QED
      BY <1>2, <1>5, <1>7, <2>2, <3>1 DEF InRequest
  <2>3. QED
    BY <1>2, <1>7, <2>1, <2>2 DEF OnTrack
<1>13. ASSUME Good' PROVE ExecutedSoFar'
  <2>1. /\ Len(applied) <= Len(asked) /\ Len(applied) \in Nat
        /\ Len(asked) \in Nat
        /\ \A o \in Old : IsName(o) =>
              (o < Frontier <=> wire[o].id <= Len(applied))
    BY <1>8, <1>13, Counts DEF WInv, ExecutedSoFar
  <2>2. ASSUME NEW o \in Old, IsName(o)'
        PROVE  o < Frontier' <=> wire'[o].id <= Len(applied')
    BY Zenon, <1>2, <1>5, <1>7, <2>1, <2>2
  <2>3. CASE HeaderWritten(w)
    <3>1. asked' = asked /\ ~IsName(w)'
      BY <1>6, <2>3 DEF HeaderWritten
    <3>2. QED
      BY Zenon, <1>2, <1>7, <2>1, <2>2, <3>1 DEF ExecutedSoFar
  <2>4. CASE NameWritten(w)
    <3>1. wire'[w].id = Len(asked) + 1 /\ Len(asked') = Len(asked) + 1
      BY <2>4 DEF NameWritten
    <3>2. ~(w < Frontier')
      BY <1>2, <1>7, Offsets DEF Frontier
    <3>3. w < Frontier' <=> wire'[w].id <= Len(applied')
      BY <1>7, <2>1, <3>1, <3>2
    <3>4. Len(applied') <= Len(asked')
      BY <1>7, <2>1, <3>1
    <3>5. QED
      BY Zenon, <1>2, <2>2, <3>3, <3>4 DEF ExecutedSoFar
  <2>5. QED
    BY <1>1, <2>3, <2>4
<1>14. QED
  BY <1>9, <1>10, <1>11, <1>12, <1>13 DEF WInv, ProtocolKept, OnTrack, ExecutedSoFar
-----------------------------------------------------------------------------
(* The reader.                                                             *)

\* What is said of the stream alone is kept when the stream is.
Still == UNCHANGED <<wire, written, todo, due, asked, ends, correct>>
LEMMA StreamKept ==
    ASSUME WInv, Still
    PROVE  /\ NamesOnWire' /\ ProtocolKept'
           /\ (~split' => arrived' \in ends) => EndsBetween'
           /\ \A o : /\ IsName(o)' <=> IsName(o)
                     /\ IsHeader(o)' <=> IsHeader(o)
                     /\ Announced(o)' = Announced(o)
<1> USE DEF Still
<1>1. \A o : /\ IsName(o)' <=> IsName(o)
             /\ IsHeader(o)' <=> IsHeader(o)
             /\ Announced(o)' = Announced(o)
  BY DEF IsName, IsHeader, Announced
<1>2. NamesOnWire'
  BY <1>1 DEF WInv, NamesOnWire
<1>3. (~split' => arrived' \in ends) => EndsBetween'
  BY <1>1 DEF WInv, EndsBetween
<1>4. \A o : /\ ShortName(o)' <=> ShortName(o)
             /\ Complete(o)' <=> Complete(o)
             /\ InProgress(o)' <=> InProgress(o)
  <2>1. \A o : ShortName(o)' <=> ShortName(o)
    BY <1>1 DEF ShortName
  <2>2. QED
    BY Zenon, <1>1, <2>1 DEF Complete, InProgress
<1>5. ProtocolKept'
  BY <1>1, <1>4 DEF WInv, ProtocolKept
<1>6. QED
  BY <1>1, <1>2, <1>3, <1>5

\* The reader goes on to the end of a request and passes no name.
LEMMA OnToTheEnd ==
    ASSUME RInv, WInv, Good, Still, applied' = applied, connected',
           pc' \in {"poll", "receive"}, pos' \in ends, Frontier <= pos',
           \A o \in DOMAIN wire : (IsName(o) /\ Frontier <= o) => pos' <= o
    PROVE  OnTrack' /\ ExecutedSoFar'
<1>1. OnTrack'
  BY DEF OnTrack, Still
<1>2. pos' \in Nat /\ Frontier \in Int /\ Frontier' = pos'
  BY EndOffsets, Offsets DEF WInv, Frontier
<1>3. ExecutedSoFar'
  <2>1. /\ Len(applied) <= Len(asked)
        /\ \A o \in DOMAIN wire : IsName(o) =>
              (o < Frontier <=> wire[o].id <= Len(applied))
    BY DEF WInv, ExecutedSoFar
  <2>2. \A o \in DOMAIN wire : IsName(o) => (o < pos' <=> o < Frontier)
    BY <1>2, Offsets
  <2>3. \A o \in DOMAIN wire : IsName(o) =>
              (o < pos' <=> wire[o].id <= Len(applied))
    BY <2>1, <2>2
  <2>4. \A o : IsName(o)' <=> IsName(o)
    BY StreamKept
  <2>5. QED
    BY <1>2, <2>1, <2>3, <2>4 DEF ExecutedSoFar, Still
<1>4. QED
  BY <1>1, <1>3

\* Before a name is executed, all the names before it have been, so that it is
\* the next one.
LEMMA NextName ==
    ASSUME RInv, WInv, Good, IsName(Frontier)
    PROVE  wire[Frontier].id = Len(applied) + 1
<1> DEFINE d == wire[Frontier].id
           k == Len(applied) + 1
<1>1. Frontier \in DOMAIN wire /\ Frontier \in Nat
  BY Offsets DEF IsName
<1>2. /\ d \in DOMAIN asked /\ DOMAIN asked = 1..Len(asked)
      /\ Len(asked) \in Nat /\ Len(applied) \in Nat
  BY <1>1, Counts DEF RInv, Numbered
<1>3. ~(d <= Len(applied))
  BY <1>1 DEF WInv, ExecutedSoFar
<1>4. k \in DOMAIN asked /\ k <= d /\ d \in Nat
  BY <1>2, <1>3
<1>5. PICK q \in DOMAIN wire : IsName(q) /\ wire[q].id = k
  BY <1>4 DEF WInv, NamesOnWire
<1>6. q \in Nat /\ ~(q < Frontier)
  BY <1>2, <1>5, Offsets DEF WInv, ExecutedSoFar
<1>7. ~(Frontier < q)
  BY <1>1, <1>2, <1>4, <1>5 DEF RInv, Numbered
<1>8. q = Frontier
  BY <1>1, <1>6, <1>7
<1>9. QED
  BY <1>5, <1>8

\* In a request, the reader is at its end or at a name it can read.
LEMMA AtName ==
    ASSUME RInv, WInv, Good, pc = "names", NEW o, InRequest(o)
    PROVE  /\ ~more_names => pos = Announced(o)
           /\ more_names => /\ ShortName(pos) /\ Available(2)
                            /\ pos < Announced(o)
<1>1. /\ IsHeader(o) /\ len = wire[o].len /\ pos = o + HEADER_LEN + i
      /\ Announced(o) <= arrived /\ pos <= Announced(o)
      /\ pos \in DOMAIN wire \/ pos = Announced(o)
  BY DEF InRequest, Frontier
<1>2. /\ o \in Nat /\ len \in Nat /\ i \in Nat /\ pos \in Nat /\ arrived \in Nat
      /\ Announced(o) = o + HEADER_LEN + len /\ Announced(o) \in Nat
  BY <1>1, HeaderField DEF RInv, TypeOK, Announced
<1>3. ~more_names => pos = Announced(o)
  BY <1>1, <1>2 DEF more_names, HEADER_LEN
<1>4. ASSUME more_names
      PROVE  ShortName(pos) /\ Available(2) /\ pos < Announced(o)
  <2>1. o < pos /\ pos < Announced(o) /\ pos \in DOMAIN wire
    BY <1>1, <1>2, <1>4 DEF more_names, HEADER_LEN
  <2>2. ShortName(pos) /\ End(pos) <= Announced(o)
    BY <2>1, NamesAhead
  <2>3. End(pos) = pos + (2 + wire[pos].n) /\ wire[pos].n \in Nat
    BY <2>1, <2>2, Fields DEF End, ShortName, IsName, RInv
  <2>4. Available(2)
    BY <1>1, <1>2, <2>2, <2>3 DEF Available
  <2>5. QED
    BY <2>1, <2>2, <2>4
<1>5. QED
  BY <1>3, <1>4

\* Where a request begins, receive finds a valid header and all of the request,
\* or nothing at all.
LEMMA AtHeader ==
    ASSUME RInv, WInv, Good, pc = "receive"
    PROVE  /\ pos \in ends /\ connected
           /\ ~Available(HEADER_LEN) => pos = arrived
           /\ Available(HEADER_LEN) =>
                /\ IsHeader(pos) /\ check_parse_header
                /\ wire[pos].cmd \in {1, 3, 4}
                /\ wire[pos].cmd = 1 => Announced(pos) = End(pos)
                /\ Announced(pos) \in ends /\ Announced(pos) <= arrived
                /\ End(pos) = pos + HEADER_LEN /\ End(pos) <= Announced(pos)
                /\ \A o \in DOMAIN wire :
                      (IsName(o) /\ pos <= o) => End(pos) <= o
<1>1. pos \in ends /\ connected
  BY DEF WInv, OnTrack
<1>2. pos \in Nat /\ arrived \in Nat /\ pos <= arrived
  BY Offsets
<1>3. ASSUME pos < arrived
      PROVE  /\ IsHeader(pos) /\ check_parse_header
             /\ wire[pos].cmd \in {1, 3, 4}
             /\ wire[pos].cmd = 1 => Announced(pos) = End(pos)
             /\ Announced(pos) \in ends /\ Announced(pos) <= arrived
             /\ End(pos) = pos + HEADER_LEN /\ End(pos) <= Announced(pos)
             /\ Announced(pos) \in Nat
  <2>1. /\ IsHeader(pos) /\ wire[pos].flags = 0 /\ wire[pos].cmd \in {1, 3, 4}
        /\ wire[pos].cmd = 1 => Announced(pos) = End(pos)
        /\ Announced(pos) \in ends /\ Announced(pos) <= arrived
    BY <1>1, <1>3, RequestAhead
  <2>2. check_parse_header
    BY <2>1 DEF check_parse_header, check_magic_number, check_flags, IsHeader
  <2>3. QED
    BY <2>1, <2>2, HeaderField
<1>4. ~Available(HEADER_LEN) => pos = arrived
  BY <1>2, <1>3 DEF Available, HEADER_LEN
<1>5. Available(HEADER_LEN) => pos < arrived
  BY <1>2 DEF Available, HEADER_LEN
<1>6. ASSUME IsHeader(pos), NEW o \in DOMAIN wire, IsName(o), pos <= o
      PROVE  End(pos) <= o
  <2>1. o # pos /\ pos \in DOMAIN wire
    BY <1>6 DEF IsHeader, IsName
  <2>2. QED
    BY <1>2, <1>6, <2>1, Offsets
<1>7. QED
  BY <1>1, <1>3, <1>4, <1>5, <1>6

\* From a field of a request the reader comes to the next, or to its end.
LEMMA NextField ==
    ASSUME RInv, NEW o \in DOMAIN wire, NEW a \in Nat, End(o) <= a, a <= arrived
    PROVE  End(o) \in DOMAIN wire \/ End(o) = a
<1>1. End(o) \in DOMAIN wire \cup {written}
  BY DEF RInv, Gapless
<1>2. End(o) \in Nat /\ arrived \in Nat /\ written \in Nat /\ arrived <= written
  BY Zenon, Offsets
<1>3. QED
  BY <1>1, <1>2

\* The thread neither writes the stream nor delivers it.
LEMMA ReaderReads ==
    ASSUME TracerNext
    PROVE  Still /\ arrived' = arrived /\ split' = split /\ peer' = peer
  BY StreamUnchanged DEF Still, TracerNext, event_con_data, receive_would_block,
     receive_eof, receive_invalid_header, read_empty, send_tracepoint_list,
     execute_other_command, set_tracepoints, set_tracepoints_done,
     read_name_len, read_name, set_tracepoints_fails, client, network

\* Every step of receive keeps the reader on its way.
LEMMA ReaderOnTrack ==
    ASSUME RInv, WInv, Good, TracerNext
    PROVE  OnTrack' /\ ExecutedSoFar'
<1>1. Still /\ arrived' = arrived /\ split' = split /\ peer' = peer
  BY ReaderReads
<1>2. /\ connected /\ pc \in {"poll", "receive", "names", "name"}
      /\ pc \in {"poll", "receive"} => pos \in ends
      /\ pc \in {"names", "name"} => \E o \in DOMAIN wire : InRequest(o)
  BY DEF WInv, OnTrack
<1>3. /\ peer = "open" /\ pos \in Nat /\ i \in Nat
      /\ pc # "name" => Frontier = pos
  BY Offsets DEF Good, RInv, TypeOK, Frontier
<1>4. CASE event_con_data
  <2>1. /\ pc = "poll" /\ pc' = "receive" /\ pos' = pos /\ applied' = applied
        /\ connected' = connected
    BY <1>4 DEF event_con_data
  <2>2. QED
    BY <1>1, <1>2, <1>3, <2>1, OnToTheEnd
<1>5. CASE receive_would_block
  <2>1. /\ pc = "receive" /\ pc' = "poll" /\ pos' = arrived /\ applied' = applied
        /\ connected' = connected /\ ~Available(HEADER_LEN)
    BY <1>5 DEF receive_would_block, session
  <2>2. pos' = pos
    BY <2>1, AtHeader
  <2>3. QED
    BY <1>1, <1>2, <1>3, <2>1, <2>2, OnToTheEnd
<1>6. ~receive_eof
  BY <1>3 DEF receive_eof
<1>7. ~receive_invalid_header
  BY AtHeader DEF receive_invalid_header
<1>8. ~read_empty
  BY <1>2 DEF read_empty
<1>9. CASE send_tracepoint_list
  <2>1. /\ pc = "receive" /\ pos' = pos + HEADER_LEN /\ wire[pos].cmd = 1
        /\ Available(HEADER_LEN) /\ applied' = applied
    BY <1>9 DEF send_tracepoint_list, read_header, after_header, ListRequest
  <2>2. pc' = pc /\ connected' = connected
    BY <1>2, <1>3, <1>9 DEF send_tracepoint_list, session
  <2>3. pos' = End(pos) /\ pos' \in ends /\ pos <= pos'
    BY <1>3, <2>1, AtHeader DEF HEADER_LEN
  <2>4. \A o \in DOMAIN wire : (IsName(o) /\ Frontier <= o) => pos' <= o
    BY <1>3, <2>1, <2>3, AtHeader
  <2>5. QED
    BY <1>1, <1>2, <1>3, <2>1, <2>2, <2>3, <2>4, OnToTheEnd
<1>10. ~execute_other_command
  BY AtHeader DEF execute_other_command, read_header, ListRequest,
                  EnableRequest, DisableRequest
<1>11. CASE set_tracepoints
  <2>1. /\ pc = "receive" /\ pos' = pos + HEADER_LEN /\ Available(HEADER_LEN)
        /\ pc' = "names" /\ i' = 0 /\ len' = wire[pos].len
        /\ applied' = applied /\ connected' = connected
    BY <1>11 DEF set_tracepoints, read_header, after_header, session
  <2>2. /\ IsHeader(pos) /\ pos \in DOMAIN wire /\ pos' = End(pos)
        /\ Announced(pos) \in ends /\ Announced(pos) <= arrived
        /\ End(pos) <= Announced(pos)
        /\ \A o \in DOMAIN wire : (IsName(o) /\ pos <= o) => End(pos) <= o
    BY <2>1, AtHeader DEF IsHeader
  <2>3. pos' \in DOMAIN wire \/ pos' = Announced(pos)
    BY <2>2, NextField, HeaderField
  <2>4. Frontier' = pos' /\ pos' \in Nat /\ pos <= pos'
    BY <1>3, <2>1 DEF Frontier, HEADER_LEN
  <2>5. \A o : /\ IsName(o)' <=> IsName(o)
               /\ IsHeader(o)' <=> IsHeader(o)
               /\ Announced(o)' = Announced(o)
    BY <1>1, StreamKept
  <2>6. wire' = wire /\ ends' = ends /\ asked' = asked
    BY <1>1 DEF Still
  <2>7. \E o \in DOMAIN wire' : InRequest(o)'
    <3>1. pos' = pos + HEADER_LEN + i'
      BY <1>3, <2>1 DEF HEADER_LEN
    <3>2. \A o : o = pos => InRequest(o)'
      BY <1>1, <2>1, <2>2, <2>3, <2>4, <2>5, <2>6, <3>1 DEF InRequest
    <3>3. QED
      BY <2>2, <2>6, <3>2
  <2>8. OnTrack'
    BY <1>2, <2>1, <2>7 DEF OnTrack
  <2>9. ASSUME NEW o \in DOMAIN wire, IsName(o)
        PROVE  o < pos' <=> wire[o].id <= Len(applied)
    <3>1. o \in Nat /\ (o < pos <=> wire[o].id <= Len(applied))
      BY <1>3, <2>1, <2>9, Offsets DEF WInv, ExecutedSoFar
    <3>2. QED
      BY <1>3, <2>2, <2>4, <2>9, <3>1
  <2>10. ExecutedSoFar'
    BY <2>1, <2>4, <2>5, <2>6, <2>9 DEF ExecutedSoFar, WInv
  <2>11. QED
    BY <2>8, <2>10
<1>12. CASE set_tracepoints_done
  <2>1. /\ pc = "names" /\ ~more_names /\ pc' = "receive" /\ pos' = pos
        /\ applied' = applied /\ connected' = connected
    BY <1>12 DEF set_tracepoints_done, after_command, session
  <2>2. pos \in ends
    BY <1>2, <2>1, AtName DEF InRequest
  <2>3. QED
    BY <1>1, <1>2, <1>3, <2>1, <2>2, OnToTheEnd
<1>13. CASE read_name_len
  <2>1. /\ pc = "names" /\ more_names /\ pc' = "name" /\ pos' = pos + 2
        /\ i' = i + 2 /\ len' = len /\ applied' = applied
        /\ connected' = connected
    BY <1>13 DEF read_name_len, session
  <2>2. PICK o \in DOMAIN wire : InRequest(o)
    BY <1>2, <2>1
  <2>3. pos < Announced(o) /\ Announced(o) \in Nat /\ o \in Nat
    BY <2>1, <2>2, AtName, HeaderField DEF InRequest
  <2>4. Frontier' = pos /\ Frontier = pos
    BY <1>3, <2>1 DEF Frontier
  <2>5. wire' = wire /\ ends' = ends /\ asked' = asked
    BY <1>1 DEF Still
  <2>6. \A p : /\ IsName(p)' <=> IsName(p)
               /\ IsHeader(p)' <=> IsHeader(p)
               /\ Announced(p)' = Announced(p)
    BY <1>1, StreamKept
  <2>7. InRequest(o)'
    <3>1. pos' = o + HEADER_LEN + i'
      BY <1>3, <2>1, <2>2, <2>3 DEF InRequest, HEADER_LEN
    <3>2. Frontier' <= Announced(o) /\ Frontier' < Announced(o)
      BY <1>3, <2>3, <2>4
    <3>3. QED
      BY <1>1, <2>1, <2>2, <2>5, <2>6, <3>1, <3>2 DEF InRequest
  <2>8. OnTrack'
    BY Zenon, <1>2, <2>1, <2>5, <2>7 DEF OnTrack
  <2>9. ExecutedSoFar'
    BY <2>1, <2>4, <2>5, <2>6 DEF ExecutedSoFar, WInv
  <2>10. QED
    BY <2>8, <2>9
<1>14. CASE read_name
  <2> DEFINE q == pos - 2
  <2>1. /\ pc = "name" /\ pc' = "names" /\ pos' = pos + name_len
        /\ i' = i + name_len /\ len' = len /\ connected' = connected
    BY <1>14 DEF read_name
  <2>2. PICK o \in DOMAIN wire : InRequest(o)
    BY <1>2, <2>1
  <2>3. /\ IsName(q) /\ wire[q].n = name_len /\ Frontier = q /\ q \in DOMAIN wire
    BY <2>1 DEF RInv, ReaderInStep, Frontier, IsName
  <2>4. /\ o \in Nat /\ q \in Nat /\ Announced(o) \in Nat /\ name_len \in Nat
        /\ o < q /\ q < Announced(o) /\ pos = o + HEADER_LEN + i
    <3>1. /\ IsHeader(o) /\ q < Announced(o) /\ pos = o + HEADER_LEN + i
      BY <2>1, <2>2, <2>3 DEF InRequest
    <3>2. o \in Nat /\ Announced(o) \in Nat /\ q \in Nat /\ name_len \in Nat
      BY <2>3, <3>1, HeaderField, Offsets
    <3>3. o < q
      BY <1>3, <3>1, <3>2 DEF HEADER_LEN
    <3>4. QED
      BY <3>1, <3>2, <3>3
  <2>5. pos' = End(q) /\ pos' \in Nat
    <3>1. End(q) = q + (2 + name_len)
      BY <2>3 DEF End, IsName
    <3>2. QED
      BY <1>3, <2>1, <2>4, <3>1
  <2>6. End(q) <= Announced(o) /\ Announced(o) <= arrived
    BY <2>2, <2>3, <2>4, NamesAhead DEF InRequest
  <2>7. pos' \in DOMAIN wire \/ pos' = Announced(o)
    BY <2>3, <2>4, <2>5, <2>6, NextField
  <2>8. Frontier' = pos'
    BY <2>1 DEF Frontier
  <2>9. wire' = wire /\ ends' = ends /\ asked' = asked
    BY <1>1 DEF Still
  <2>10. \A p : /\ IsName(p)' <=> IsName(p)
                /\ IsHeader(p)' <=> IsHeader(p)
                /\ Announced(p)' = Announced(p)
    BY <1>1, StreamKept
  <2>11. InRequest(o)'
    <3>1. pos' = o + HEADER_LEN + i'
      BY <1>3, <2>1, <2>4 DEF HEADER_LEN
    <3>2. Frontier' <= Announced(o) /\ pc' # "name"
      BY <2>1, <2>5, <2>6, <2>8
    <3>3. QED
      BY <1>1, <2>1, <2>2, <2>7, <2>9, <2>10, <3>1, <3>2 DEF InRequest
  <2>12. OnTrack'
    BY <1>2, <2>1, <2>9, <2>11 DEF OnTrack
  <2>13. wire[q].id = Len(applied) + 1
    BY <2>3, NextName
  <2>14. /\ Len(applied) \in Nat /\ Len(asked) \in Nat
         /\ DOMAIN asked = 1..Len(asked) /\ wire[q].id \in DOMAIN asked
    BY <2>3, Counts DEF RInv, Numbered
  <2>15. Len(applied') = Len(applied) + 1
    <3>1. wire[q].id \in Nat /\ wire[q].tp \in Names /\ state \in BOOLEAN
      BY <2>3, Fields DEF RInv, IsName, TypeOK
    <3>2. applied \in Seq([id : Nat, tp : Names, state : BOOLEAN])
      BY DEF RInv, TypeOK
    <3>3. applied' = Append(applied, [id |-> wire[q].id, tp |-> wire[q].tp,
                                      state |-> state])
      BY <1>14 DEF read_name
    <3>4. QED
      BY <3>1, <3>2, <3>3
  <2>16. ASSUME NEW p \in DOMAIN wire, IsName(p)
         PROVE  p < pos' <=> wire[p].id <= Len(applied')
    <3>1. /\ p \in Nat /\ wire[p].id \in DOMAIN asked
          /\ p < q <=> wire[p].id <= Len(applied)
          /\ q < p => wire[q].id < wire[p].id
          /\ q < p => End(q) <= p
          /\ q < End(q)
      <4>1. /\ p \in Nat /\ q < End(q) /\ (q < p => End(q) <= p)
        BY <2>3, Offsets
      <4>2. /\ wire[p].id \in DOMAIN asked
            /\ q < p => wire[q].id < wire[p].id
        BY <2>3, <2>16 DEF RInv, Numbered
      <4>3. p < q <=> wire[p].id <= Len(applied)
        BY <2>3, <2>16 DEF WInv, ExecutedSoFar
      <4>4. QED
        BY <4>1, <4>2, <4>3
    <3>2. CASE p < q
      BY <2>4, <2>5, <2>14, <2>15, <3>1, <3>2
    <3>3. CASE p = q
      BY <2>4, <2>5, <2>13, <2>14, <2>15, <3>1, <3>3
    <3>4. CASE q < p
      BY <2>4, <2>5, <2>13, <2>14, <2>15, <3>1, <3>4
    <3>5. QED
      BY <2>4, <3>1, <3>2, <3>3, <3>4
  <2>17. ExecutedSoFar'
    BY <2>8, <2>9, <2>10, <2>13, <2>14, <2>15, <2>16 DEF ExecutedSoFar
  <2>18. QED
    BY <2>12, <2>17
<1>15. ~set_tracepoints_fails
  <2>1. ASSUME pc = "names", more_names
        PROVE  Available(2) /\ short_enough(NextLen)
    BY <1>2, <2>1, AtName DEF short_enough, NextLen, ShortName, IsName
  <2>2. ASSUME pc = "name" PROVE Available(name_len)
    <3>1. PICK o \in DOMAIN wire : InRequest(o)
      BY <1>2, <2>2
    <3>2. /\ IsName(pos - 2) /\ wire[pos - 2].n = name_len
          /\ Frontier = pos - 2 /\ pos - 2 \in DOMAIN wire
      BY <2>2 DEF RInv, ReaderInStep, Frontier, IsName
    <3>3. /\ o \in Nat /\ Announced(o) \in Nat /\ name_len \in Nat
          /\ o < pos - 2 /\ pos - 2 < Announced(o) /\ Announced(o) <= arrived
          /\ arrived \in Nat
      <4>1. /\ IsHeader(o) /\ pos = o + HEADER_LEN + i
            /\ pos - 2 < Announced(o) /\ Announced(o) <= arrived
        BY <2>2, <3>1, <3>2 DEF InRequest
      <4>2. /\ o \in Nat /\ Announced(o) \in Nat /\ name_len \in Nat
            /\ arrived \in Nat
        BY <4>1, HeaderField, Offsets
      <4>3. QED
        BY <1>3, <4>1, <4>2 DEF HEADER_LEN
    <3>4. End(pos - 2) <= Announced(o)
      BY <3>1, <3>2, <3>3, NamesAhead
    <3>5. QED
      BY <1>3, <3>2, <3>3, <3>4 DEF End, IsName, Available
  <2>3. QED
    BY <2>1, <2>2 DEF set_tracepoints_fails
<1>16. QED
  BY Zenon, <1>4, <1>5, <1>6, <1>7, <1>8, <1>9, <1>10, <1>11, <1>12, <1>13, <1>14,
     <1>15 DEF TracerNext

\* Every step of the network and of the reader keeps the invariant.
LEMMA ReaderKeeps ==
    ASSUME RInv, WInv,
           \/ TracerNext \/ UNCHANGED vars
           \/ \E how \in Hangups : hang_up(how)
           \/ \E n \in 1..written : segment(n)
    PROVE  WInv'
<1>1. Still
  BY StreamUnchanged DEF Still
<1>2. NamesOnWire' /\ ProtocolKept'
  BY <1>1, StreamKept
<1>3. CASE TracerNext
  <2>1. arrived' = arrived /\ split' = split /\ peer' = peer
    BY <1>3, ReaderReads
  <2>2. EndsBetween'
    BY <1>1, <2>1, StreamKept DEF WInv, EndsBetween
  <2>3. Good' <=> Good
    BY <1>1, <2>1 DEF Good, Still
  <2>4. OnTrack' /\ ExecutedSoFar'
    BY Zenon, <1>3, <2>3, ReaderOnTrack DEF OnTrack, ExecutedSoFar
  <2>5. QED
    BY <1>2, <2>2, <2>4 DEF WInv
<1>4. CASE \E how \in Hangups : hang_up(how)
  <2>1. arrived' = arrived /\ split' = split /\ peer' # "open"
    BY <1>4, HangupsAssumption DEF hang_up, network
  <2>2. EndsBetween'
    BY SMTT(30), <1>1, <2>1, StreamKept DEF WInv, EndsBetween
  <2>3. OnTrack' /\ ExecutedSoFar'
    BY <2>1 DEF OnTrack, ExecutedSoFar, Good
  <2>4. QED
    BY <1>2, <2>2, <2>3 DEF WInv
<1>5. CASE \E n \in 1..written : segment(n)
  <2>1. PICK n \in 1..written : segment(n)
    BY <1>5
  <2>2. /\ n \in (arrived + 1)..written /\ arrived' = n
        /\ split' = (split \/ n \notin ends) /\ peer' = peer
        /\ UNCHANGED <<pc, connected, pos, i, len, applied>>
    BY <2>1 DEF segment, client, locals
  <2>3. ~split' => ~split /\ arrived' \in ends
    BY Zenon, <2>2
  <2>4. EndsBetween'
    BY <1>1, <2>3, StreamKept
  <2>5. Good' => Good
    BY <1>1, <2>2, <2>3 DEF Good, Still
  <2>6. arrived \in Nat /\ arrived' \in Nat /\ arrived <= arrived'
    BY <2>2, Offsets
  <2>7. /\ \A o : /\ IsName(o)' <=> IsName(o)
                  /\ IsHeader(o)' <=> IsHeader(o)
                  /\ Announced(o)' = Announced(o)
        /\ Frontier' = Frontier
        /\ wire' = wire /\ ends' = ends /\ asked' = asked
    BY <1>1, <2>2, StreamKept DEF Frontier, Still
  <2>8. ASSUME NEW o, InRequest(o) PROVE InRequest(o)'
    <3>1. Announced(o) \in Nat /\ Announced(o) <= arrived'
      BY <2>6, <2>8, HeaderField DEF InRequest
    <3>2. QED
      BY <2>2, <2>7, <2>8, <3>1 DEF InRequest
  <2>9. OnTrack'
    BY <2>2, <2>5, <2>7, <2>8 DEF WInv, OnTrack
  <2>10. ExecutedSoFar'
    BY <2>2, <2>5, <2>7 DEF WInv, ExecutedSoFar
  <2>11. QED
    BY <1>2, <2>4, <2>9, <2>10 DEF WInv
<1>6. CASE UNCHANGED vars
  <2>1. /\ peer' = peer
        /\ UNCHANGED <<pc, connected, pos, i, len, applied, arrived, split>>
    BY <1>6 DEF vars, client, network, locals, session
  <2>2. EndsBetween'
    BY <1>1, <2>1, StreamKept DEF WInv, EndsBetween
  <2>3. /\ \A o : /\ IsName(o)' <=> IsName(o)
                  /\ IsHeader(o)' <=> IsHeader(o)
                  /\ Announced(o)' = Announced(o)
        /\ Frontier' = Frontier /\ (Good' <=> Good)
        /\ wire' = wire /\ ends' = ends /\ asked' = asked
    BY <1>1, <2>1, StreamKept DEF Frontier, Still, Good
  <2>4. \A o : InRequest(o)' <=> InRequest(o)
    BY SMTT(30), <2>1, <2>3 DEF InRequest
  <2>5. OnTrack' /\ ExecutedSoFar'
    BY <2>1, <2>3, <2>4 DEF WInv, OnTrack, ExecutedSoFar
  <2>6. QED
    BY <1>2, <2>2, <2>5 DEF WInv
<1>7. QED
  BY <1>3, <1>4, <1>5, <1>6
-----------------------------------------------------------------------------
(* The theorems.                                                           *)

\* WInv is inductive in the states that RInv describes.
THEOREM RequestInvariance == Spec => []WInv
<1>1. Init => WInv
  <2> SUFFICES ASSUME Init PROVE WInv
    OBVIOUS
  <2>1. /\ DOMAIN wire = {} /\ DOMAIN asked = {} /\ DOMAIN todo = {}
        /\ ends = {0} /\ written = 0 /\ todo = <<>> /\ arrived = 0 /\ pos = 0
        /\ pc = "poll" /\ connected /\ Len(applied) = 0 /\ Len(asked) = 0
    BY DEF Init
  <2>2. QED
    BY <2>1 DEF WInv, EndsBetween, NamesOnWire, ProtocolKept, OnTrack,
                ExecutedSoFar
<1>2. RInv /\ WInv /\ [Next]_vars => WInv'
  BY ClientKeeps, ReaderKeeps DEF Next
<1>3. QED
  BY <1>1, <1>2, ReceiveInvariance, PTL DEF Spec

\* A client that keeps to the protocol, and whose requests never arrive in part,
\* does not lose its session and does not make the thread panic.
SessionKept == Good => connected /\ pc \notin Panics
THEOREM KeepsSession == Spec => []SessionKept
<1>1. WInv => SessionKept
  BY DEF WInv, OnTrack, SessionKept, Panics
<1>2. QED
  BY <1>1, RequestInvariance, PTL

\* Requests that keep to the protocol and never arrive in part are all executed
\* and do not cost the client its session: receive, set_tracepoints and
\* read_exact stay in step with the client for as long as it keeps to it.
THEOREM WholeRequests == Spec => []WholeRequestsExecuted
<1>1. RInv /\ WInv => WholeRequestsExecuted
  <2> SUFFICES ASSUME RInv, WInv, Settled, ~split PROVE AllApplied
    BY DEF WholeRequestsExecuted
  <2>1. /\ Good /\ pc = "poll" /\ ~edge /\ arrived = written
    BY DEF Settled, Good
  <2>2. connected
    BY <2>1 DEF WInv, OnTrack
  <2>3. pos = written /\ Frontier = written
    BY <2>1, <2>2, Offsets DEF RInv, EdgeForUnread, Frontier
  <2>4. /\ Len(applied) \in Nat /\ Len(asked) \in Nat
        /\ DOMAIN asked = 1..Len(asked) /\ Len(applied) <= Len(asked)
    BY <2>1, Counts DEF WInv, ExecutedSoFar
  <2>5. \A k \in DOMAIN asked : k <= Len(applied)
    <3>1. \A o \in DOMAIN wire : IsName(o) => wire[o].id <= Len(applied)
      BY <2>1, <2>3, Offsets DEF WInv, ExecutedSoFar
    <3>2. QED
      BY <3>1 DEF WInv, NamesOnWire
  <2>6. Len(applied) = Len(asked)
    BY <2>4, <2>5
  <2>7. QED
    BY <2>2, <2>6 DEF AllApplied
<1>2. QED
  BY <1>1, ReceiveInvariance, RequestInvariance, PTL
=============================================================================
