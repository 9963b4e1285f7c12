------------------------- MODULE RuntimeHost_proof -------------------------
(***************************************************************************)
(* Proofs about RuntimeHost, for any number of requests and events.        *)
(*                                                                         *)
(* The argument: a request ends as failed only through a dead process or a *)
(* channel that ended without a reply.  A channel loses its sender either  *)
(* to the reply behind which nothing comes (Ending), or when the reader    *)
(* has left its loop, which it does for the host's fault (Blame).          *)
(*                                                                         *)
(* Order (OInv) is a second invariant, carried beside that one: what is in *)
(* a live request's channel, followed by its lines in the host's output,   *)
(* is place by place what its caller is owed; and the line that makes the  *)
(* reader leave is the last one written (Drained), so that nothing of a    *)
(* request's is behind it.                                                 *)
(***************************************************************************)
EXTENDS RuntimeHost, NatFacts

Fault == broke \/ exited

\* The host is blamed for a reader that has left, a dead process, a failure.
Blame ==
  /\ \A i \in 1 .. Len(out) : out[i] = Bad => broke
  /\ proc = "dead" /\ ~dropped => Fault
  /\ reader # "reading" /\ ~dropped => Fault
  /\ dropped => \A r \in Requests : ~Outstanding(r)
  /\ \A r \in Requests : pc[r] = "failed" => Fault

\* A request the reader has let go has its reply at the end of its channel.
Ending ==
  \A r \in Requests :
    Outstanding(r) /\ r \notin pending /\ reader # "gone" =>
      /\ Len(chan[r]) > 0
      /\ chan[r][Len(chan[r])].what # "event"

\* A request the reader still has a sender for has had no reply.
Streaming ==
  \A r \in pending : \A i \in 1 .. Len(chan[r]) : chan[r][i].what = "event"

IInv == TypeOK /\ Blame /\ Ending /\ Streaming

-----------------------------------------------------------------------------
USE CallsAssumption, MaxEventsAssumption
USE DEF Requests, Load

\* Nothing has happened yet.
LEMMA InitIInv == Init => IInv
<1>. SUFFICES ASSUME Init PROVE IInv
  OBVIOUS
<1>1. TypeOK
  <2>1. pc \in [Requests -> {"new", "registered", "waiting",
                            "ok", "refused", "failed", "abandoned"}]
    BY DEF Init
  <2>2. /\ chan \in [Requests -> Seq(Line)] /\ out \in Seq(Line \cup {Bad})
        /\ sent \in [Requests -> 0 .. MaxEvents] /\ got \in [Requests -> Nat]
        /\ answer \in [Requests -> {"none", "ok", "refused"}]
    BY DEF Init
  <2>. QED
    BY <2>1, <2>2 DEF Init, TypeOK, Outstanding
<1>2. Blame /\ Ending /\ Streaming
  BY DEF Init, Blame, Ending, Streaming, Outstanding
<1>. QED
  BY <1>1, <1>2 DEF IInv

\* The calls.
LEMMA BeginKeeps ==
  ASSUME IInv, NEW r \in Requests, Begin(r)
  PROVE  IInv'
<1>1. TypeOK'
  BY DEF IInv, TypeOK, Begin, Outstanding, hostside
<1>2. Blame'
  BY DEF IInv, TypeOK, Blame, Begin, Outstanding, hostside, Fault
<1>3. Ending'
  BY DEF IInv, TypeOK, Ending, Begin, Outstanding, hostside
<1>4. Streaming'
  BY DEF IInv, TypeOK, Streaming, Begin, hostside, Outstanding
<1>. QED
  BY <1>1, <1>2, <1>3, <1>4 DEF IInv

LEMMA WriteKeeps ==
  ASSUME IInv, NEW r \in Requests, Write(r)
  PROVE  IInv'
<1>1. TypeOK'
  BY DEF IInv, TypeOK, Write, Outstanding
<1>2. Blame'
  BY DEF IInv, TypeOK, Blame, Write, Outstanding, Fault
<1>3. Ending'
  BY DEF IInv, TypeOK, Ending, Write, Outstanding
<1>4. Streaming'
  BY DEF IInv, TypeOK, Streaming, Write, Outstanding
<1>. QED
  BY <1>1, <1>2, <1>3, <1>4 DEF IInv

LEMMA WriteFailsKeeps ==
  ASSUME IInv, NEW r \in Requests, WriteFails(r)
  PROVE  IInv'
<1>1. TypeOK'
  BY DEF IInv, TypeOK, WriteFails, Return, Outstanding, hostside
<1>2. Blame'
  BY DEF IInv, TypeOK, Blame, WriteFails, Return, Outstanding, hostside, Fault
<1>3. Ending'
  BY DEF IInv, TypeOK, Ending, WriteFails, Return, Outstanding, hostside
<1>4. Streaming'
  BY DEF IInv, TypeOK, Streaming, WriteFails, Return, hostside, Outstanding
<1>. QED
  BY <1>1, <1>2, <1>3, <1>4 DEF IInv

LEMMA OnEventKeeps ==
  ASSUME IInv, NEW r \in Requests, OnEvent(r)
  PROVE  IInv'
<1>1. /\ chan[r] \in Seq(Line) /\ Len(chan[r]) > 0
      /\ chan'[r] = Tail(chan[r])
      /\ \A s \in Requests \ {r} : chan'[s] = chan[s]
      /\ pc[r] = "waiting" /\ chan[r][1].what = "event"
  BY DEF IInv, TypeOK, OnEvent
<1>2. /\ chan' \in [Requests -> Seq(Line)] /\ got' \in [Requests -> Nat]
  BY <1>1 DEF IInv, TypeOK, OnEvent
<1>3. TypeOK'
  BY <1>1, <1>2 DEF IInv, TypeOK, OnEvent, Outstanding, hostside
<1>4. Blame'
  BY DEF IInv, Blame, OnEvent, Outstanding, hostside, Fault
<1>5. Ending'
  <2>. SUFFICES ASSUME NEW s \in Requests, Outstanding(s), s \notin pending, reader # "gone"
                PROVE  /\ Len(chan'[s]) > 0
                       /\ chan'[s][Len(chan'[s])].what # "event"
    BY DEF Ending, OnEvent, Outstanding
  <2>1. Len(chan[s]) > 0 /\ chan[s][Len(chan[s])].what # "event"
    BY DEF IInv, Ending
  <2>2. CASE s = r
    <3>1. Len(chan[r]) > 1
      BY <1>1, <2>1, <2>2
    <3>2. /\ Len(Tail(chan[r])) = Len(chan[r]) - 1
          /\ \A i \in 1 .. Len(chan[r]) - 1 : Tail(chan[r])[i] = chan[r][i + 1]
      BY <1>1
    <3>3. chan'[r][Len(chan'[r])] = chan[r][Len(chan[r])]
      BY <1>1, <3>1, <3>2
    <3>4. Len(chan'[r]) > 0
      BY <1>1, <3>1, <3>2
    <3>. QED
      BY <2>1, <2>2, <3>3, <3>4
  <2>3. CASE s # r
    BY <1>1, <2>1, <2>3
  <2>. QED
    BY <2>2, <2>3
<1>6. Streaming'
  <2>. SUFFICES ASSUME NEW s \in pending, NEW i \in 1 .. Len(chan'[s])
                PROVE  chan'[s][i].what = "event"
    BY DEF Streaming, OnEvent
  <2>1. s \in Requests
    BY DEF IInv, TypeOK
  <2>2. CASE s = r
    <3>1. Len(chan[r]) \in Nat /\ Len(Tail(chan[r])) = Len(chan[r]) - 1
      BY <1>1
    <3>2. i \in 1 .. Len(chan[r]) - 1 /\ i + 1 \in 1 .. Len(chan[r])
      <4>1. Len(chan'[s]) = Len(chan[r]) - 1
        BY <1>1, <2>2, <3>1
      <4>2. i \in 1 .. Len(chan[r]) - 1
        BY <4>1
      <4>. QED
        BY <3>1, <4>2
    <3>3. chan'[r][i] = chan[r][i + 1]
      BY <1>1, <3>2
    <3>. QED
      BY <2>2, <3>2, <3>3 DEF IInv, Streaming
  <2>3. CASE s # r
    <3>1. chan'[s] = chan[s]
      BY <1>1, <2>1, <2>3
    <3>. QED
      BY <3>1 DEF IInv, Streaming
  <2>. QED
    BY <2>2, <2>3
<1>. QED
  BY <1>3, <1>4, <1>5, <1>6 DEF IInv

LEMMA AbandonKeeps ==
  ASSUME IInv, NEW r \in Requests, Abandon(r)
  PROVE  IInv'
<1>1. TypeOK'
  <2>1. /\ pc' = [pc EXCEPT ![r] = "abandoned"]
        /\ chan' = [chan EXCEPT ![r] = <<>>]
        /\ pending' = pending \ {r}
    BY DEF Abandon, Return
  <2>2. /\ pc' \in [Requests -> {"new", "registered", "waiting",
                               "ok", "refused", "failed", "abandoned"}]
        /\ chan' \in [Requests -> Seq(Line)]
    BY <2>1 DEF IInv, TypeOK
  <2>3. \A s \in Requests : ~Outstanding(s)' => chan'[s] = <<>> /\ s \notin pending'
    BY <2>1 DEF IInv, TypeOK, Outstanding
  <2>. QED
    BY <2>1, <2>2, <2>3 DEF IInv, TypeOK, Abandon, hostside
<1>2. Blame'
  BY DEF IInv, TypeOK, Blame, Abandon, Return, Outstanding, hostside, Fault
<1>3. Ending'
  BY DEF IInv, TypeOK, Ending, Abandon, Return, Outstanding, hostside
<1>4. Streaming'
  BY DEF IInv, TypeOK, Streaming, Abandon, Return, hostside, Outstanding
<1>. QED
  BY <1>1, <1>2, <1>3, <1>4 DEF IInv

LEMMA OnReplyKeeps ==
  ASSUME IInv, NEW r \in Requests, OnReply(r)
  PROVE  IInv'
<1>1. /\ pc[r] = "waiting" /\ chan[r] \in Seq(Line) /\ Len(chan[r]) > 0
      /\ chan[r][1].what # "event" /\ Head(chan[r]) = chan[r][1]
      /\ chan[r][1] \in Line
  BY DEF IInv, TypeOK, OnReply
<1>2. chan[r][1].what \in {"ok", "refused"}
  BY <1>1 DEF Line
<1>3. r \notin pending
  BY <1>1 DEF IInv, Streaming
<1>4. /\ pc' = [pc EXCEPT ![r] = chan[r][1].what] /\ chan' = [chan EXCEPT ![r] = <<>>]
      /\ UNCHANGED <<pending, got, late, reader, out, dropped, hostside>>
  BY <1>1 DEF OnReply, Return
<1>5. TypeOK'
  <2>1. /\ pc' \in [Requests -> {"new", "registered", "waiting",
                               "ok", "refused", "failed", "abandoned"}]
        /\ chan' \in [Requests -> Seq(Line)]
    BY <1>2, <1>4 DEF IInv, TypeOK
  <2>2. \A s \in Requests : ~Outstanding(s)' => chan'[s] = <<>> /\ s \notin pending
    BY <1>3, <1>4 DEF IInv, TypeOK, Outstanding
  <2>. QED
    BY <1>4, <2>1, <2>2 DEF IInv, TypeOK, hostside
<1>6. Blame'
  BY <1>2, <1>4 DEF IInv, TypeOK, Blame, Outstanding, hostside, Fault
<1>7. Ending' /\ Streaming'
  BY <1>2, <1>3, <1>4 DEF IInv, TypeOK, Ending, Streaming, Outstanding, hostside
<1>. QED
  BY <1>5, <1>6, <1>7 DEF IInv

LEMMA OnClosedKeeps ==
  ASSUME IInv, NEW r \in Requests, OnClosed(r)
  PROVE  IInv'
<1>1. /\ pc[r] = "waiting" /\ chan[r] = <<>> /\ r \notin pending
      /\ pc' = [pc EXCEPT ![r] = "failed"] /\ chan' = [chan EXCEPT ![r] = <<>>]
  BY DEF OnClosed, Return
<1>2. reader = "gone" /\ ~dropped
  <2>1. Outstanding(r) /\ Len(chan[r]) = 0
    BY <1>1 DEF Outstanding
  <2>. QED
    BY <1>1, <2>1 DEF IInv, Ending, Blame
<1>3. Fault
  BY <1>2 DEF IInv, Blame
<1>4. TypeOK'
  <2>1. /\ pc' \in [Requests -> {"new", "registered", "waiting",
                               "ok", "refused", "failed", "abandoned"}]
        /\ chan' \in [Requests -> Seq(Line)]
    BY <1>1 DEF IInv, TypeOK
  <2>2. \A s \in Requests : ~Outstanding(s)' => chan'[s] = <<>> /\ s \notin pending
    BY <1>1 DEF IInv, TypeOK, Outstanding
  <2>. QED
    BY <2>1, <2>2 DEF IInv, TypeOK, OnClosed
<1>5. Blame'
  BY <1>1, <1>2, <1>3 DEF IInv, TypeOK, Blame, OnClosed, Outstanding, Fault
<1>6. Ending'
  BY <1>2 DEF OnClosed, Ending
<1>7. Streaming'
  BY <1>1 DEF IInv, TypeOK, Streaming, OnClosed
<1>. QED
  BY <1>4, <1>5, <1>6, <1>7 DEF IInv

LEMMA DropKeeps == IInv /\ Drop => IInv'
<1>. SUFFICES ASSUME IInv, Drop PROVE IInv'
  OBVIOUS
<1>1. TypeOK'
  BY DEF IInv, TypeOK, Drop, Outstanding, caller
<1>2. Blame'
  BY DEF IInv, Blame, Drop, Outstanding, caller, Fault
<1>3. Ending'
  BY DEF IInv, Ending, Drop, Outstanding, caller
<1>4. Streaming'
  BY DEF IInv, Streaming, Drop, caller
<1>. QED
  BY <1>1, <1>2, <1>3, <1>4 DEF IInv

\* The reader.
LEMMA DeliverKeeps == IInv /\ Deliver => IInv'
<1>. SUFFICES ASSUME IInv, Deliver PROVE IInv'
  OBVIOUS
<1>. DEFINE line == Head(out)
<1>1. /\ out \in Seq(Line \cup {Bad}) /\ Len(out) > 0 /\ line \in Line
      /\ out' = Tail(out)
      /\ chan' = IF line.id \in pending
                 THEN [chan EXCEPT ![line.id] = Append(@, line)]
                 ELSE chan
      /\ pending' = IF line.what = "event" THEN pending ELSE pending \ {line.id}
      /\ UNCHANGED <<caller, reader, dropped, hostside>>
  BY DEF IInv, TypeOK, Deliver
<1>2. \A s \in Requests \ {line.id} : chan'[s] = chan[s] /\ (s \in pending' <=> s \in pending)
  BY <1>1 DEF IInv, TypeOK
<1>3. line.id \in Requests
  BY <1>1 DEF Line
<1>4. /\ line.id \notin pending => chan' = chan
      /\ line.id \in pending =>
           /\ chan'[line.id] = Append(chan[line.id], line)
           /\ Len(chan'[line.id]) = Len(chan[line.id]) + 1
           /\ chan'[line.id][Len(chan[line.id]) + 1] = line
           /\ \A i \in 1 .. Len(chan[line.id]) : chan'[line.id][i] = chan[line.id][i]
      /\ Len(chan[line.id]) \in Nat
  BY <1>1, <1>3 DEF IInv, TypeOK
<1>5. TypeOK'
  <2>1. chan' \in [Requests -> Seq(Line)] /\ out' \in Seq(Line \cup {Bad})
    <3>1. out' \in Seq(Line \cup {Bad})
      BY <1>1
    <3>2. chan[line.id] \in Seq(Line) /\ Append(chan[line.id], line) \in Seq(Line)
      <4>1. chan[line.id] \in Seq(Line)
        BY <1>3 DEF IInv, TypeOK
      <4>. QED
        BY <1>1, <4>1
    <3>3. chan' \in [Requests -> Seq(Line)]
      BY <1>1, <1>3, <3>2 DEF IInv, TypeOK
    <3>. QED
      BY <3>1, <3>3
  <2>2. pending' \subseteq pending
    BY <1>1
  <2>3. \A s \in Requests : ~Outstanding(s)' => chan'[s] = <<>> /\ s \notin pending'
    BY <1>1, <1>2, <1>3, <1>4, <2>2 DEF IInv, TypeOK, Outstanding, caller
  <2>. QED
    BY <1>1, <2>1, <2>2, <2>3 DEF IInv, TypeOK, caller, hostside
<1>6. Blame'
  <2>1. \A i \in 1 .. Len(out') : out'[i] = out[i + 1] /\ i + 1 \in 1 .. Len(out)
    BY <1>1
  <2>2. \A i \in 1 .. Len(out') : out'[i] = Bad => broke
    BY <2>1 DEF IInv, Blame
  <2>. QED
    BY <1>1, <2>2 DEF IInv, Blame, Outstanding, caller, hostside, Fault
<1>7. Ending'
  <2>. SUFFICES ASSUME NEW s \in Requests, Outstanding(s), s \notin pending', reader # "gone"
                PROVE  /\ Len(chan'[s]) > 0
                       /\ chan'[s][Len(chan'[s])].what # "event"
    BY <1>1 DEF Ending, Outstanding, caller
  <2>1. CASE s \notin pending
    BY <1>2, <1>4, <2>1 DEF IInv, Ending
  <2>2. CASE s \in pending
    BY <1>1, <1>2, <1>4, <2>2
  <2>. QED
    BY <2>1, <2>2
<1>8. Streaming'
  <2>. SUFFICES ASSUME NEW s \in pending', NEW i \in 1 .. Len(chan'[s])
                PROVE  chan'[s][i].what = "event"
    BY DEF Streaming
  <2>1. s \in pending /\ s \in Requests
    BY <1>1 DEF IInv, TypeOK
  <2>2. CASE s # line.id
    BY <1>2, <2>1, <2>2 DEF IInv, Streaming
  <2>3. CASE s = line.id
    <3>1. line.what = "event"
      BY <1>1, <2>3
    <3>2. CASE i = Len(chan[s]) + 1
      BY <1>4, <2>1, <2>3, <3>1, <3>2
    <3>3. CASE i # Len(chan[s]) + 1
      <4>1. i \in 1 .. Len(chan[s]) /\ chan'[s][i] = chan[s][i]
        BY <1>4, <2>1, <2>3, <3>3
      <4>. QED
        BY <2>1, <4>1 DEF IInv, Streaming
    <3>. QED
      BY <3>2, <3>3
  <2>. QED
    BY <2>2, <2>3
<1>. QED
  BY <1>5, <1>6, <1>7, <1>8 DEF IInv

LEMMA EndOfOutputKeeps == IInv /\ EndOfOutput => IInv'
<1>. SUFFICES ASSUME IInv, EndOfOutput PROVE IInv'
  OBVIOUS
<1>1. /\ reader = "reading" /\ reader' = "ended"
      /\ UNCHANGED <<caller, pending, chan, dropped, hostside>>
      /\ \/ Len(out) > 0 /\ out[1] = Bad /\ out' = Tail(out)
         \/ proc = "dead" /\ out' = out
  BY DEF IInv, TypeOK, EndOfOutput
<1>2. out' \in Seq(Line \cup {Bad})
  <2>1. out \in Seq(Line \cup {Bad})
    BY DEF IInv, TypeOK
  <2>2. CASE Len(out) > 0 /\ out' = Tail(out)
    BY <2>1, <2>2
  <2>. QED
    BY <1>1, <2>1, <2>2
<1>3. \A i \in 1 .. Len(out') : out'[i] = Bad => broke
  BY <1>1 DEF IInv, TypeOK, Blame
<1>4. ~dropped => Fault
  BY <1>1 DEF IInv, TypeOK, Blame, Fault
<1>5. TypeOK'
  BY <1>1, <1>2 DEF IInv, TypeOK, Outstanding, caller, hostside
<1>6. Blame'
  BY <1>1, <1>3, <1>4 DEF IInv, Blame, Outstanding, caller, hostside, Fault
<1>7. Ending' /\ Streaming'
  BY <1>1 DEF IInv, Ending, Streaming, Outstanding, caller
<1>. QED
  BY <1>5, <1>6, <1>7 DEF IInv

LEMMA ClearKeeps == IInv /\ Clear => IInv'
<1>. SUFFICES ASSUME IInv, Clear PROVE IInv'
  OBVIOUS
<1>1. TypeOK'
  BY DEF IInv, TypeOK, Clear, Outstanding, caller, hostside
<1>2. Blame'
  BY DEF IInv, Blame, Clear, Outstanding, caller, hostside, Fault
<1>3. Ending' /\ Streaming'
  BY DEF Ending, Streaming, Clear
<1>. QED
  BY <1>1, <1>2, <1>3 DEF IInv

\* The host.
LEMMA HostWrites ==
  ASSUME IInv, NEW line \in Line \cup {Bad}, out' = Append(out, line),
         line = Bad => broke', broke => broke', UNCHANGED exited,
         sent' \in [Requests -> 0 .. MaxEvents],
         answer' \in [Requests -> {"none", "ok", "refused"}], broke' \in BOOLEAN,
         UNCHANGED <<caller, pending, chan, reader, dropped, proc, asked>>
  PROVE  IInv'
<1>1. /\ out \in Seq(Line \cup {Bad}) /\ Len(out') = Len(out) + 1
      /\ out'[Len(out) + 1] = line
      /\ \A i \in 1 .. Len(out) : out'[i] = out[i]
  BY DEF IInv, TypeOK
<1>2. TypeOK'
  <2>1. out' \in Seq(Line \cup {Bad})
    BY <1>1
  <2>. QED
    BY <2>1 DEF IInv, TypeOK, Outstanding, caller
<1>3. \A i \in 1 .. Len(out') : out'[i] = Bad => broke'
  BY <1>1 DEF IInv, Blame
<1>4. Blame'
  BY <1>3 DEF IInv, Blame, Outstanding, caller, Fault
<1>5. Ending' /\ Streaming'
  BY DEF IInv, Ending, Streaming, Outstanding, caller
<1>. QED
  BY <1>2, <1>4, <1>5 DEF IInv

LEMMA HostExitsKeeps == IInv /\ HostExits => IInv'
<1>. SUFFICES ASSUME IInv, HostExits PROVE IInv'
  OBVIOUS
<1>1. TypeOK'
  BY DEF IInv, TypeOK, HostExits, Outstanding, caller
<1>2. Blame'
  BY DEF IInv, Blame, HostExits, Outstanding, caller, Fault
<1>3. Ending' /\ Streaming'
  BY DEF IInv, Ending, Streaming, HostExits, Outstanding, caller
<1>. QED
  BY <1>1, <1>2, <1>3 DEF IInv

\* Every step keeps the invariant.
LEMMA NextKeeps == IInv /\ [Next]_vars => IInv'
<1>. SUFFICES ASSUME IInv, [Next]_vars PROVE IInv'
  OBVIOUS
<1>1. ASSUME NEW r \in Requests, Begin(r) \/ Write(r) \/ WriteFails(r) \/ Receive(r)
      PROVE  IInv'
  BY <1>1, BeginKeeps, WriteKeeps, WriteFailsKeeps, OnEventKeeps, AbandonKeeps,
     OnReplyKeeps, OnClosedKeeps DEF Receive
<1>2. ASSUME NEW r \in Requests, HostEvent(r) PROVE IInv'
  <2>1. /\ sent' \in [Requests -> 0 .. MaxEvents] /\ sent'[r] \in 1 .. MaxEvents
    BY <1>2 DEF HostEvent, IInv, TypeOK
  <2>2. Event(r, sent'[r]) \in Line
    BY <2>1 DEF Event, Line
  <2>. QED
    BY <1>2, <2>1, <2>2, HostWrites DEF HostEvent, Event, Bad, IInv, TypeOK
<1>3. ASSUME NEW r \in Requests, HostReply(r) PROVE IInv'
  <2>1. PICK w \in {"ok", "refused"} :
          answer' = [answer EXCEPT ![r] = w] /\ out' = Append(out, Reply(r, w))
    BY <1>3 DEF HostReply
  <2>2. Reply(r, w) \in Line /\ Reply(r, w) # Bad
    BY <2>1 DEF Reply, Line, Bad
  <2>3. answer' \in [Requests -> {"none", "ok", "refused"}]
    BY <2>1 DEF IInv, TypeOK
  <2>. QED
    BY <1>3, <2>1, <2>2, <2>3, HostWrites DEF HostReply, IInv, TypeOK
<1>4. CASE HostBreaks
  BY <1>4, HostWrites DEF HostBreaks, IInv, TypeOK
<1>5. CASE Drop \/ Read \/ HostExits
  BY <1>5, DropKeeps, DeliverKeeps, EndOfOutputKeeps, ClearKeeps, HostExitsKeeps DEF Read
<1>6. CASE UNCHANGED vars
  BY <1>6 DEF vars, caller, hostside, IInv, TypeOK, Blame, Ending, Streaming,
     Outstanding, Fault
<1>. QED
  BY <1>1, <1>2, <1>3, <1>4, <1>5, <1>6 DEF Next

(* The invariant holds in every behaviour: the facts below rest on it.     *)
THEOREM Inductive == Spec => []IInv
BY InitIInv, NextKeeps, PTL DEF Spec

(* The request map, the channels and the pipe keep their types, and a call *)
(* that has returned leaves nothing in the map or in its channel.          *)
THEOREM TypeCorrect == Spec => []TypeOK
<1>1. IInv => TypeOK
  BY DEF IInv
<1>. QED
  BY <1>1, Inductive, PTL

(* A request fails only through the host's own exit or protocol break:     *)
(* another caller's going away never fails it (call_streaming, exited).    *)
THEOREM Isolated == Spec => []FailedOnlyByHost
<1>1. IInv => FailedOnlyByHost
  BY DEF IInv, Blame, Fault, FailedOnlyByHost
<1>. QED
  BY <1>1, Inductive, PTL


-----------------------------------------------------------------------------
(* The lines of one request among others.                                  *)

\* The function LinesFor chooses.
UpTo(f, s, r) ==
  f = [i \in 0 .. Len(s) |->
         IF i = 0 THEN <<>>
         ELSE IF s[i].id = r THEN Append(f[i - 1], s[i]) ELSE f[i - 1]]

\* What it amounts to, without the recursion.
Follows(f, s, r, n) ==
  \A i \in 1 .. n : f[i] = IF s[i].id = r THEN Append(f[i - 1], s[i]) ELSE f[i - 1]

\* There is such a function: built up one place at a time.
LEMMA FilterExists ==
  ASSUME NEW s, NEW r, Len(s) \in Nat
  PROVE  \E f : UpTo(f, s, r)
<1>. DEFINE N == {n \in Nat : \E f : f = [i \in 0 .. n |-> f[i]] /\ f[0] = <<>> /\ Follows(f, s, r, n)}
<1>1. 0 \in N
  <2>1. PICK f : f = [i \in 0 .. 0 |-> <<>>]
    OBVIOUS
  <2>2. f = [i \in 0 .. 0 |-> f[i]] /\ f[0] = <<>> /\ Follows(f, s, r, 0)
    BY <2>1 DEF Follows
  <2>. QED
    BY <2>2
<1>2. ASSUME NEW n \in Nat, n \in N PROVE n + 1 \in N
  <2>1. PICK f : f = [i \in 0 .. n |-> f[i]] /\ f[0] = <<>> /\ Follows(f, s, r, n)
    BY <1>2
  <2>2. PICK last : last = IF s[n + 1].id = r THEN Append(f[n], s[n + 1]) ELSE f[n]
    OBVIOUS
  <2>3. PICK g : g = [i \in 0 .. n + 1 |-> IF i = n + 1 THEN last ELSE f[i]]
    OBVIOUS
  <2>4. g[n + 1] = last /\ \A i \in 0 .. n : g[i] = f[i]
    BY <2>3
  <2>5. Follows(g, s, r, n + 1)
    <3>2. ASSUME NEW i \in 1 .. n + 1
          PROVE  g[i] = IF s[i].id = r THEN Append(g[i - 1], s[i]) ELSE g[i - 1]
      <4>1. CASE i = n + 1
        BY <2>2, <2>4, <4>1
      <4>2. CASE i # n + 1
        <5>1. i \in 1 .. n /\ i - 1 \in 0 .. n /\ i \in 0 .. n
          BY <4>2
        <5>2. g[i] = f[i] /\ g[i - 1] = f[i - 1]
          BY <2>4, <5>1
        <5>. QED
          BY <2>1, <5>1, <5>2 DEF Follows
      <4>. QED
        BY <4>1, <4>2
    <3>. QED
      BY <3>2 DEF Follows
  <2>6. g = [i \in 0 .. n + 1 |-> g[i]]
    BY <2>3
  <2>. HIDE DEF Follows
  <2>. QED
    BY <2>1, <2>4, <2>5, <2>6
<1>. HIDE DEF N
<1>3. Len(s) \in N
  BY <1>1, <1>2, NatSet
<1>4. PICK f : f = [i \in 0 .. Len(s) |-> f[i]] /\ f[0] = <<>> /\ Follows(f, s, r, Len(s))
  BY <1>3 DEF N
<1>5. \A i \in 0 .. Len(s) :
        f[i] = IF i = 0 THEN <<>>
               ELSE IF s[i].id = r THEN Append(f[i - 1], s[i]) ELSE f[i - 1]
  <2>1. \A i \in 0 .. Len(s) : i = 0 \/ (i # 0 /\ i \in 1 .. Len(s))
    OBVIOUS
  <2>2. f[0] = <<>>
    BY <1>4
  <2>3. \A i \in 1 .. Len(s) :
          f[i] = IF s[i].id = r THEN Append(f[i - 1], s[i]) ELSE f[i - 1]
    BY <1>4 DEF Follows
  <2>. QED
    BY <2>1, <2>2, <2>3, Zenon
<1>6. PICK To : To = [i \in 0 .. Len(s) |->
         IF i = 0 THEN <<>>
         ELSE IF s[i].id = r THEN Append(f[i - 1], s[i]) ELSE f[i - 1]]
  OBVIOUS
<1>7. f = To
  BY <1>4, <1>5, <1>6
<1>. QED
  BY <1>6, <1>7 DEF UpTo

\* What LinesFor takes, it takes place by place.
LEMMA LinesUnfold ==
  ASSUME NEW s, NEW r, Len(s) \in Nat
  PROVE  \E f : LinesFor(s, r) = f[Len(s)] /\ f[0] = <<>> /\ Follows(f, s, r, Len(s))
<1>1. LinesFor(s, r) = (CHOOSE f : UpTo(f, s, r))[Len(s)]
  BY Zenon DEF LinesFor, UpTo
<1>2. PICK f : f = CHOOSE g : UpTo(g, s, r)
  OBVIOUS
<1>3. UpTo(f, s, r)
  BY <1>2, FilterExists
<1>4. PICK To : To = [i \in 0 .. Len(s) |->
         IF i = 0 THEN <<>>
         ELSE IF s[i].id = r THEN Append(f[i - 1], s[i]) ELSE f[i - 1]]
  OBVIOUS
<1>5. f = To
  BY <1>3, <1>4 DEF UpTo
<1>6. /\ f[0] = <<>>
      /\ \A i \in 1 .. Len(s) :
           f[i] = IF s[i].id = r THEN Append(f[i - 1], s[i]) ELSE f[i - 1]
  <2>1. \A i \in 0 .. Len(s) :
          To[i] = IF i = 0 THEN <<>>
                  ELSE IF s[i].id = r THEN Append(f[i - 1], s[i]) ELSE f[i - 1]
    BY <1>4
  <2>2. \A i \in 1 .. Len(s) : i \in 0 .. Len(s) /\ i # 0
    OBVIOUS
  <2>3. 0 \in 0 .. Len(s)
    OBVIOUS
  <2>. HIDE <1>4
  <2>. QED
    BY <1>5, <2>1, <2>2, <2>3, Zenon
<1>7. f[0] = <<>> /\ Follows(f, s, r, Len(s))
  BY <1>6 DEF Follows
<1>. QED
  BY <1>1, <1>2, <1>7

\* Opaque where only the instances of a lemma matter.
Joined(p, q) == p \o q
Elements(s, n, L) == \A i \in 1 .. n : s[i] \in L

\* Behind p nothing changes.
LEMMA AppendBehind ==
  \A L : \A p \in Seq(L), q \in Seq(L), x \in L :
    Append(q, x) \in Seq(L) /\ Append(Joined(p, q), x) = Joined(p, Append(q, x))
<1>. SUFFICES ASSUME NEW L, NEW p \in Seq(L), NEW q \in Seq(L), NEW x \in L
              PROVE  Append(q, x) \in Seq(L) /\ Append(Joined(p, q), x) = Joined(p, Append(q, x))
  OBVIOUS
<1>. QED
  BY AppendProperties DEF Joined

\* What is filtered into p is p and what is filtered into <<>>.
LEMMA FiltersBehind ==
  \A L, s, r, f, g : \A n \in Nat :
    /\ Elements(s, n, L)
    /\ Follows(f, s, r, n) /\ f[0] \in Seq(L)
    /\ Follows(g, s, r, n) /\ g[0] = <<>>
    => g[n] \in Seq(L) /\ f[n] = Joined(f[0], g[n])
<1>. SUFFICES ASSUME NEW L, NEW s, NEW r, NEW f, NEW g, NEW n \in Nat,
                     Elements(s, n, L), Follows(f, s, r, n), f[0] \in Seq(L),
                     Follows(g, s, r, n), g[0] = <<>>
              PROVE  g[n] \in Seq(L) /\ f[n] = Joined(f[0], g[n])
  OBVIOUS
<1>0. PICK p \in Seq(L) : p = f[0]
  OBVIOUS
<1>. DEFINE P(m) == g[m] \in Seq(L) /\ f[m] = Joined(p, g[m])
            Q == {m \in Nat : m <= n => P(m)}
<1>1. 0 \in Q
  <2>1. p \o <<>> = p /\ <<>> \in Seq(L)
    BY ConcatEmptySeq
  <2>. QED
    BY <1>0, <2>1 DEF Joined
<1>2. ASSUME NEW m \in Nat, m \in Q PROVE m + 1 \in Q
  <2>. SUFFICES ASSUME m + 1 <= n PROVE P(m + 1)
    <3>. HIDE DEF P
    <3>. QED
      OBVIOUS
  <2>1. P(m)
    <3>. HIDE DEF P
    <3>. QED
      BY <1>2
  <2>2. PICK q \in Seq(L) : g[m] = q /\ f[m] = Joined(p, q)
    BY <2>1, Zenon
  <2>3. m + 1 \in 1 .. n /\ (m + 1) - 1 = m
    OBVIOUS
  <2>4. PICK x \in L : x = s[m + 1]
    BY <2>3 DEF Elements
  <2>5. /\ g[m + 1] = IF x.id = r THEN Append(q, x) ELSE q
        /\ f[m + 1] = IF x.id = r THEN Append(Joined(p, q), x) ELSE Joined(p, q)
    BY <2>2, <2>3, <2>4 DEF Follows
  <2>6. CASE x.id = r
    <3>1. g[m + 1] = Append(q, x) /\ f[m + 1] = Append(Joined(p, q), x)
      BY <2>5, <2>6
    <3>2. Append(q, x) \in Seq(L) /\ Append(Joined(p, q), x) = Joined(p, Append(q, x))
      BY AppendBehind
    <3>. QED
      BY <3>1, <3>2
  <2>7. CASE x.id # r
    BY <2>2, <2>5, <2>7
  <2>. QED
    BY <2>6, <2>7
<1>3. n \in Q
  <2>. HIDE DEF Q
  <2>. QED
    BY <1>1, <1>2, NatSet
<1>. QED
  <2>. HIDE DEF P
  <2>1. P(n)
    BY <1>3
  <2>. QED
    BY <1>0, <2>1 DEF P, Joined

\* What LinesFor does at either end of a sequence.
LEMMA LinesForNone == \A r : LinesFor(<<>>, r) = <<>>
<1>. SUFFICES ASSUME NEW r PROVE LinesFor(<<>>, r) = <<>>
  OBVIOUS
<1>. QED
  BY LinesUnfold

\* Only lines of s are among them.
LEMMA LinesForType ==
  ASSUME NEW L, NEW s \in Seq(L), NEW r
  PROVE  LinesFor(s, r) \in Seq(L)
<1>1. PICK n \in Nat : n = Len(s)
  OBVIOUS
<1>2. PICK f : LinesFor(s, r) = f[n] /\ f[0] = <<>> /\ Follows(f, s, r, n)
  BY <1>1, LinesUnfold
<1>3. PICK e \in Seq(L) : e = <<>>
  BY EmptySeq, Zenon
<1>4. Elements(s, n, L) /\ f[0] \in Seq(L)
  BY <1>1, <1>2, <1>3 DEF Elements
<1>5. f[n] \in Seq(L)
  BY <1>2, <1>3, <1>4, FiltersBehind
<1>. QED
  BY <1>2, <1>5

\* A line written at the end is the last of its request.
LEMMA LinesForAppend ==
  ASSUME NEW L, NEW s \in Seq(L), NEW x \in L, NEW r
  PROVE  LinesFor(Append(s, x), r) =
           IF x.id = r THEN Append(LinesFor(s, r), x) ELSE LinesFor(s, r)
<1>1. PICK t \in Seq(L) : t = Append(s, x)
  BY AppendProperties
<1>2. PICK n \in Nat : n = Len(s)
  OBVIOUS
<1>3. Len(t) = n + 1 /\ t[n + 1] = x /\ \A i \in 1 .. n : t[i] = s[i] /\ s[i] \in L
  BY <1>1, <1>2
<1>4. PICK f : LinesFor(t, r) = f[n + 1] /\ f[0] = <<>> /\ Follows(f, t, r, n + 1)
  BY <1>3, LinesUnfold
<1>5. PICK g : LinesFor(s, r) = g[n] /\ g[0] = <<>> /\ Follows(g, s, r, n)
  BY <1>2, LinesUnfold
<1>6. f[n] = g[n]
  <2>1. Follows(f, s, r, n)
    BY <1>3, <1>4 DEF Follows
  <2>2. PICK e \in Seq(L) : e = <<>>
    BY EmptySeq, Zenon
  <2>3. f[0] \in Seq(L) /\ Elements(s, n, L)
    BY <1>3, <1>4, <2>2 DEF Elements
  <2>4. Follows(g, s, r, n) /\ g[0] = <<>>
    BY <1>5
  <2>5. g[n] \in Seq(L) /\ f[n] = Joined(f[0], g[n])
    BY <2>1, <2>3, <2>4, FiltersBehind
  <2>. QED
    BY <1>4, <2>2, <2>5, ConcatEmptySeq DEF Joined
<1>7. f[n + 1] = IF x.id = r THEN Append(f[n], x) ELSE f[n]
  <2>1. n + 1 \in 1 .. n + 1 /\ (n + 1) - 1 = n
    OBVIOUS
  <2>. QED
    BY <1>3, <1>4, <2>1 DEF Follows
<1>. QED
  BY <1>1, <1>4, <1>5, <1>6, <1>7

\* The line at the head is the first of its request.
LEMMA LinesForTail ==
  ASSUME NEW L, NEW s \in Seq(L), s # <<>>, NEW r
  PROVE  LinesFor(s, r) =
           IF Head(s).id = r THEN <<Head(s)>> \o LinesFor(Tail(s), r) ELSE LinesFor(Tail(s), r)
<1>1. PICK t \in Seq(L) : t = Tail(s)
  BY HeadTailProperties
<1>2. PICK n \in Nat : n = Len(t)
  OBVIOUS
<1>3. PICK x \in L : x = Head(s)
  BY HeadTailProperties
<1>4. /\ Len(s) = n + 1 /\ s[1] = x
      /\ \A i \in 1 .. n : s[i + 1] = t[i] /\ t[i] \in L
  BY <1>1, <1>2, <1>3
<1>5. PICK f : LinesFor(s, r) = f[n + 1] /\ f[0] = <<>> /\ Follows(f, s, r, n + 1)
  <2>1. Len(s) \in Nat
    OBVIOUS
  <2>2. PICK f : LinesFor(s, r) = f[Len(s)] /\ f[0] = <<>> /\ Follows(f, s, r, Len(s))
    BY <2>1, LinesUnfold, Zenon
  <2>. QED
    BY <1>4, <2>2, Zenon
<1>6. PICK g : LinesFor(t, r) = g[n] /\ g[0] = <<>> /\ Follows(g, t, r, n)
  BY <1>2, LinesUnfold
<1>7. PICK p \in Seq(L) : p = IF x.id = r THEN <<x>> ELSE <<>>
  <2>1. <<x>> \in Seq(L) /\ <<>> \in Seq(L)
    OBVIOUS
  <2>. QED
    BY <2>1, Zenon
<1>8. PICK h : h = [i \in 0 .. n |-> f[i + 1]]
  OBVIOUS
<1>9. h[0] = p
  <2>1. 1 \in 1 .. n + 1 /\ 1 - 1 = 0 /\ 0 \in 0 .. n
    OBVIOUS
  <2>2. f[1] = IF x.id = r THEN Append(<<>>, x) ELSE <<>>
    BY <1>4, <1>5, <2>1 DEF Follows
  <2>3. Append(<<>>, x) = <<x>>
    OBVIOUS
  <2>. QED
    BY <1>7, <1>8, <2>1, <2>2, <2>3
<1>10. Follows(h, t, r, n)
  <2>. SUFFICES ASSUME NEW i \in 1 .. n
                PROVE  h[i] = IF t[i].id = r THEN Append(h[i - 1], t[i]) ELSE h[i - 1]
    BY DEF Follows
  <2>1. i + 1 \in 1 .. n + 1 /\ (i + 1) - 1 = i /\ i \in 0 .. n /\ i - 1 \in 0 .. n
        /\ (i - 1) + 1 = i
    OBVIOUS
  <2>2. f[i + 1] = IF t[i].id = r THEN Append(f[i], t[i]) ELSE f[i]
    BY <1>4, <1>5, <2>1 DEF Follows
  <2>3. h[i] = f[i + 1] /\ h[i - 1] = f[i]
    BY <1>8, <2>1
  <2>. QED
    BY <2>2, <2>3
<1>11. g[n] \in Seq(L) /\ h[n] = Joined(h[0], g[n])
  <2>1. h[0] \in Seq(L) /\ Elements(t, n, L)
    BY <1>4, <1>9 DEF Elements
  <2>. QED
    BY <1>6, <1>10, <2>1, FiltersBehind
<1>12. h[n] = f[n + 1]
  BY <1>8
<1>13. <<>> \o g[n] = g[n]
  BY <1>11, ConcatEmptySeq
<1>14. CASE x.id = r
  BY <1>1, <1>3, <1>5, <1>6, <1>7, <1>9, <1>11, <1>12, <1>14 DEF Joined
<1>15. CASE x.id # r
  BY <1>1, <1>3, <1>5, <1>6, <1>7, <1>9, <1>11, <1>12, <1>13, <1>15 DEF Joined
<1>. QED
  BY <1>14, <1>15

-----------------------------------------------------------------------------
(* What a request's caller is owed.                                        *)

\* Every line the host may write.
Written == Line \cup {Bad}

\* Events a + 1 to b of request r, and its reply w.
Owing(r, a, b, w) ==
  [i \in 1 .. b - a |-> Event(r, a + i)]
    \o (IF w = "none" THEN <<>> ELSE <<Reply(r, w)>>)

\* Every line a request may be owed is one the host may write.
LEMMA WrittenLines ==
  ASSUME NEW r \in Requests
  PROVE  /\ \A i \in 1 .. MaxEvents : Event(r, i) \in Written /\ Event(r, i).what = "event"
         /\ \A w \in {"ok", "refused"} : Reply(r, w) \in Written /\ Reply(r, w).what = w
         /\ \A i : Event(r, i).id = r
         /\ \A w : Reply(r, w).id = r
  BY DEF Written, Line, Event, Reply

Answers == {"none", "ok", "refused"}

\* s is what Owing describes, place by place.
Owes(s, r, a, b, w) ==
  /\ \A i \in 1 .. b - a : s[i] = Event(r, a + i)
  /\ w = "none" => Len(s) = b - a
  /\ w # "none" => Len(s) = (b - a) + 1 /\ s[(b - a) + 1] = Reply(r, w)

\* What is owed, place by place.
LEMMA OwingOwes ==
  ASSUME NEW r \in Requests, NEW a \in 0 .. MaxEvents, NEW b \in 0 .. MaxEvents, a <= b,
         NEW w \in Answers
  PROVE  Owing(r, a, b, w) \in Seq(Written) /\ Owes(Owing(r, a, b, w), r, a, b, w)
<1>0. b - a \in Nat /\ \A i \in 1 .. b - a : a + i \in 1 .. MaxEvents
  OBVIOUS
<1>1. PICK e \in Seq(Written) : e = [i \in 1 .. b - a |-> Event(r, a + i)]
  <2>1. \A i \in 1 .. b - a : Event(r, a + i) \in Written
    BY <1>0, WrittenLines
  <2>2. [i \in 1 .. b - a |-> Event(r, a + i)] \in Seq(Written)
    BY <1>0, <2>1, IsASeq
  <2>. QED
    BY <2>2, Zenon
<1>2. Len(e) = b - a /\ \A i \in 1 .. b - a : e[i] = Event(r, a + i)
  <2>1. DOMAIN e = 1 .. b - a
    BY <1>1
  <2>. QED
    BY <1>0, <1>1, <2>1, LenProperties
<1>3. CASE w = "none"
  <2>1. Owing(r, a, b, w) = e \o <<>>
    BY <1>1, <1>3 DEF Owing
  <2>2. Owing(r, a, b, w) = e
    BY <2>1, ConcatEmptySeq
  <2>. QED
    BY <1>2, <1>3, <2>2 DEF Owes
<1>4. CASE w # "none"
  <2>1. PICK x \in Written : x = Reply(r, w)
    BY <1>4, WrittenLines DEF Answers
  <2>2. Owing(r, a, b, w) = e \o <<x>>
    BY <1>1, <1>4, <2>1 DEF Owing
  <2>3. Owing(r, a, b, w) = Append(e, x)
    BY <2>2, AppendIsConcat
  <2>4. PICK s \in Seq(Written) : s = Append(e, x)
    BY AppendProperties
  <2>5. Len(s) = Len(e) + 1 /\ s[Len(e) + 1] = x /\ \A i \in 1 .. Len(e) : s[i] = e[i]
    BY <2>4, AppendProperties
  <2>6. Owes(s, r, a, b, w)
    BY <1>0, <1>2, <1>4, <2>1, <2>5 DEF Owes
  <2>. QED
    BY <2>3, <2>4, <2>6
<1>. QED
  BY <1>3, <1>4

\* Nothing else answers that description.
LEMMA OwesOne ==
  ASSUME NEW r \in Requests, NEW a \in 0 .. MaxEvents, NEW b \in 0 .. MaxEvents, a <= b,
         NEW w \in Answers, NEW s \in Seq(Written), Owes(s, r, a, b, w)
  PROVE  s = Owing(r, a, b, w)
<1>1. PICK t \in Seq(Written) : t = Owing(r, a, b, w)
  BY OwingOwes
<1>2. Owes(t, r, a, b, w)
  BY <1>1, OwingOwes
<1>3. Len(s) = Len(t) /\ \A i \in 1 .. Len(s) : s[i] = t[i]
  <2>1. b - a \in Nat
    OBVIOUS
  <2>2. CASE w = "none"
    BY <1>2, <2>1, <2>2 DEF Owes
  <2>3. CASE w # "none"
    <3>1. Len(s) = (b - a) + 1 /\ Len(t) = (b - a) + 1
      BY <1>2, <2>3 DEF Owes
    <3>2. ASSUME NEW i \in 1 .. Len(s) PROVE s[i] = t[i]
      <4>1. i \in 1 .. b - a \/ i = (b - a) + 1
        BY <2>1, <3>1
      <4>. QED
        BY <1>2, <2>3, <4>1 DEF Owes
    <3>. QED
      BY <3>1, <3>2
  <2>. QED
    BY <2>2, <2>3
<1>4. s = t
  BY <1>3, SameSeq
<1>. QED
  BY <1>1, <1>4

\* The caller takes the next event.
LEMMA OwesTail ==
  ASSUME NEW r \in Requests, NEW a \in 0 .. MaxEvents, NEW b \in 0 .. MaxEvents, a < b,
         NEW w \in Answers, NEW s \in Seq(Written), Owes(s, r, a, b, w)
  PROVE  Owes(Tail(s), r, a + 1, b, w)
<1>0. b - a \in Nat \ {0} /\ b - (a + 1) = (b - a) - 1
  OBVIOUS
<1>1. Len(s) \in Nat \ {0} /\ s # <<>>
  <2>1. Len(s) # 0 /\ Len(s) \in Nat
    BY <1>0 DEF Owes
  <2>. QED
    BY <2>1, EmptySeq
<1>2. PICK u \in Seq(Written) : u = Tail(s)
  BY <1>1, HeadTailProperties
<1>3. Len(u) = Len(s) - 1 /\ \A i \in 1 .. Len(u) : u[i] = s[i + 1]
  BY <1>1, <1>2, HeadTailProperties
<1>4. \A i \in 1 .. (b - a) - 1 : u[i] = Event(r, (a + 1) + i)
  <2>. SUFFICES ASSUME NEW i \in 1 .. (b - a) - 1 PROVE u[i] = Event(r, (a + 1) + i)
    OBVIOUS
  <2>0. Len(s) >= b - a
    BY <1>0 DEF Owes
  <2>1. i \in 1 .. Len(u) /\ i + 1 \in 1 .. b - a /\ a + (i + 1) = (a + 1) + i
    BY <1>0, <1>1, <1>3, <2>0
  <2>2. s[i + 1] = Event(r, a + (i + 1))
    BY <2>1 DEF Owes
  <2>. QED
    BY <1>3, <2>1, <2>2
<1>5. w = "none" => Len(u) = (b - a) - 1
  BY <1>0, <1>3 DEF Owes
<1>6. ASSUME w # "none" PROVE Len(u) = ((b - a) - 1) + 1 /\ u[((b - a) - 1) + 1] = Reply(r, w)
  <2>1. Len(s) = (b - a) + 1 /\ s[(b - a) + 1] = Reply(r, w)
    BY <1>6 DEF Owes
  <2>2. Len(u) = b - a /\ ((b - a) - 1) + 1 = b - a /\ b - a \in 1 .. Len(u)
    BY <1>0, <1>3, <2>1
  <2>. QED
    BY <1>3, <2>1, <2>2
<1>7. Owes(u, r, a + 1, b, w)
  BY <1>0, <1>4, <1>5, <1>6 DEF Owes
<1>. QED
  BY <1>2, <1>7

\* The host writes the next event, or the reply.
LEMMA OwesAppend ==
  ASSUME NEW r \in Requests, NEW a \in 0 .. MaxEvents, NEW b \in 0 .. MaxEvents, a <= b,
         NEW s \in Seq(Written), Owes(s, r, a, b, "none")
  PROVE  /\ b < MaxEvents => Owes(Append(s, Event(r, b + 1)), r, a, b + 1, "none")
         /\ \A w \in Answers \ {"none"} : Owes(Append(s, Reply(r, w)), r, a, b, w)
<1>0. b - a \in Nat
  OBVIOUS
<1>1. Len(s) = b - a /\ \A i \in 1 .. b - a : s[i] = Event(r, a + i)
  BY DEF Owes
<1>2. ASSUME NEW x \in Written
      PROVE  \E u \in Seq(Written) :
               /\ u = Append(s, x) /\ Len(u) = (b - a) + 1 /\ u[(b - a) + 1] = x
               /\ \A i \in 1 .. b - a : u[i] = Event(r, a + i)
  <2>1. PICK u \in Seq(Written) : u = Append(s, x)
    BY AppendProperties
  <2>2. Len(u) = Len(s) + 1 /\ u[Len(s) + 1] = x /\ \A i \in 1 .. Len(s) : u[i] = s[i]
    BY <2>1, AppendProperties
  <2>. QED
    BY <1>1, <2>1, <2>2
<1>3. ASSUME b < MaxEvents PROVE Owes(Append(s, Event(r, b + 1)), r, a, b + 1, "none")
  <2>1. b + 1 \in 1 .. MaxEvents /\ (b + 1) - a = (b - a) + 1
    BY <1>3
  <2>2. PICK x \in Written : x = Event(r, b + 1)
    BY <2>1, WrittenLines
  <2>3. PICK u \in Seq(Written) :
               /\ u = Append(s, x) /\ Len(u) = (b - a) + 1 /\ u[(b - a) + 1] = x
               /\ \A i \in 1 .. b - a : u[i] = Event(r, a + i)
    BY <1>2
  <2>4. ASSUME NEW i \in 1 .. (b - a) + 1 PROVE u[i] = Event(r, a + i)
    <3>1. i \in 1 .. b - a \/ (i = (b - a) + 1 /\ a + i = b + 1)
      BY <1>0
    <3>. QED
      BY <2>2, <2>3, <3>1
  <2>5. Owes(u, r, a, b + 1, "none")
    BY <2>1, <2>3, <2>4 DEF Owes
  <2>. QED
    BY <2>2, <2>3, <2>5
<1>4. ASSUME NEW w \in Answers \ {"none"} PROVE Owes(Append(s, Reply(r, w)), r, a, b, w)
  <2>1. PICK x \in Written : x = Reply(r, w)
    BY WrittenLines DEF Answers
  <2>2. PICK u \in Seq(Written) :
               /\ u = Append(s, x) /\ Len(u) = (b - a) + 1 /\ u[(b - a) + 1] = x
               /\ \A i \in 1 .. b - a : u[i] = Event(r, a + i)
    BY <1>2
  <2>3. Owes(u, r, a, b, w)
    BY <2>1, <2>2 DEF Owes
  <2>. QED
    BY <2>1, <2>2, <2>3
<1>. QED
  BY <1>3, <1>4

\* What is owed first, and that nothing comes behind a reply.
LEMMA OwesFirst ==
  ASSUME NEW r \in Requests, NEW a \in 0 .. MaxEvents, NEW b \in 0 .. MaxEvents, a <= b,
         NEW w \in Answers, NEW c \in Seq(Written), NEW o \in Seq(Written),
         Owes(Joined(c, o), r, a, b, w)
  PROVE  /\ c = <<>> /\ o = <<>> => a = b /\ w = "none"
         /\ a = b /\ w = "none" => c = <<>> /\ o = <<>>
         /\ c # <<>> /\ Head(c).what = "event" => a < b
         /\ c # <<>> /\ Head(c).what # "event" => a = b /\ w # "none" /\ Head(c).what = w
         /\ Len(c) > 0 /\ c[Len(c)].what # "event" => o = <<>>
<1>0. b - a \in Nat
  OBVIOUS
<1>1. PICK s \in Seq(Written) : s = Joined(c, o)
  BY ConcatProperties DEF Joined
<1>2. Len(s) = Len(c) + Len(o) /\ \A i \in 1 .. Len(c) : s[i] = c[i]
  BY <1>1, ConcatProperties DEF Joined
<1>3. /\ \A i \in 1 .. b - a : s[i] = Event(r, a + i)
      /\ w = "none" => Len(s) = b - a
      /\ w # "none" => Len(s) = (b - a) + 1 /\ s[(b - a) + 1] = Reply(r, w)
  BY <1>1 DEF Owes
<1>4. \A i \in 1 .. b - a : s[i].what = "event"
  <2>1. \A i \in 1 .. b - a : a + i \in 1 .. MaxEvents
    OBVIOUS
  <2>. QED
    BY <1>3, <2>1, WrittenLines
<1>5. w # "none" => s[(b - a) + 1].what = w /\ w # "event"
  BY <1>3, WrittenLines DEF Answers
<1>6. Len(c) \in Nat /\ Len(o) \in Nat /\ (c = <<>> <=> Len(c) = 0) /\ (o = <<>> <=> Len(o) = 0)
  BY EmptySeq
<1>7. c # <<>> => Head(c) = s[1] /\ 1 \in 1 .. Len(c)
  BY <1>2, <1>6
<1>8. (w = "none" /\ Len(s) = b - a) \/ (w # "none" /\ Len(s) = (b - a) + 1)
  BY <1>3
<1>9. /\ c = <<>> /\ o = <<>> => a = b /\ w = "none"
      /\ a = b /\ w = "none" => c = <<>> /\ o = <<>>
  BY <1>0, <1>2, <1>6, <1>8
<1>10. ASSUME c # <<>>, Head(c).what = "event", a = b PROVE FALSE
  <2>1. w # "none" /\ (b - a) + 1 = 1
    BY <1>9, <1>10
  <2>. QED
    BY <1>5, <1>7, <1>10, <2>1
<1>11. ASSUME c # <<>>, Head(c).what # "event"
       PROVE  a = b /\ w # "none" /\ Head(c).what = w
  <2>1. a = b
    <3>. SUFFICES ASSUME a < b PROVE FALSE
      OBVIOUS
    <3>1. 1 \in 1 .. b - a
      OBVIOUS
    <3>. QED
      BY <1>4, <1>7, <1>11, <3>1
  <2>2. w # "none" /\ (b - a) + 1 = 1
    BY <1>9, <1>11, <2>1
  <2>. QED
    BY <1>5, <1>7, <1>11, <2>1, <2>2
<1>12. ASSUME Len(c) > 0, c[Len(c)].what # "event" PROVE o = <<>>
  <2>. SUFFICES ASSUME Len(o) > 0 PROVE FALSE
    BY <1>6
  <2>1. Len(c) \in 1 .. b - a /\ Len(c) \in 1 .. Len(c)
    BY <1>0, <1>2, <1>6, <1>8, <1>12
  <2>. QED
    BY <1>2, <1>4, <1>12, <2>1
<1>13. c # <<>> /\ Head(c).what = "event" => a < b
  BY <1>10
<1>. QED
  BY <1>9, <1>11, <1>12, <1>13

\* The reader moves a line from the pipe to the channel; the caller takes one
\* from the channel; the host appends one to the pipe.
LEMMA JoinedMoves ==
  ASSUME NEW c \in Seq(Written), NEW o \in Seq(Written), NEW x \in Written
  PROVE  /\ Joined(Append(c, x), o) = Joined(c, <<x>> \o o)
         /\ Joined(c, Append(o, x)) = Append(Joined(c, o), x)
         /\ c # <<>> => Joined(Tail(c), o) = Tail(Joined(c, o))
<1>1. Joined(Append(c, x), o) = Joined(c, <<x>> \o o)
  <2>1. Append(c, x) = c \o <<x>>
    BY AppendIsConcat
  <2>2. <<x>> \in Seq(Written)
    OBVIOUS
  <2>3. (c \o <<x>>) \o o = c \o (<<x>> \o o)
    BY <2>2, ConcatAssociative
  <2>. QED
    BY <2>1, <2>3 DEF Joined
<1>2. Joined(c, Append(o, x)) = Append(Joined(c, o), x)
  BY AppendBehind
<1>3. ASSUME c # <<>> PROVE Joined(Tail(c), o) = Tail(Joined(c, o))
  <2>1. PICK d \in Seq(Written) : d = Tail(c)
    BY <1>3, HeadTailProperties
  <2>2. Len(c) \in Nat \ {0} /\ Len(o) \in Nat
    BY <1>3, EmptySeq
  <2>3. Len(d) = Len(c) - 1 /\ \A i \in 1 .. Len(d) : d[i] = c[i + 1]
    BY <1>3, <2>1, HeadTailProperties
  <2>4. PICK s \in Seq(Written) : s = c \o o
    BY ConcatProperties
  <2>5. Len(s) = Len(c) + Len(o)
        /\ \A i \in 1 .. Len(c) + Len(o) : s[i] = IF i <= Len(c) THEN c[i] ELSE o[i - Len(c)]
    BY <2>4, ConcatProperties
  <2>6. PICK t \in Seq(Written) : t = d \o o
    BY ConcatProperties
  <2>7. Len(t) = Len(d) + Len(o)
        /\ \A i \in 1 .. Len(d) + Len(o) : t[i] = IF i <= Len(d) THEN d[i] ELSE o[i - Len(d)]
    BY <2>6, ConcatProperties
  <2>8a. s # <<>>
    BY <2>2, <2>5, EmptySeq
  <2>8. PICK u \in Seq(Written) : u = Tail(s)
    BY <2>8a, HeadTailProperties
  <2>9. Len(u) = Len(s) - 1 /\ \A i \in 1 .. Len(u) : u[i] = s[i + 1]
    BY <2>8, <2>8a, HeadTailProperties
  <2>10. \A i \in 1 .. Len(u) : u[i] = t[i]
    <3>. SUFFICES ASSUME NEW i \in 1 .. Len(u) PROVE s[i + 1] = t[i]
      BY <2>9
    <3>1. i + 1 \in 1 .. Len(c) + Len(o) /\ i \in 1 .. Len(d) + Len(o)
          /\ (i + 1) - Len(c) = i - Len(d)
      BY <2>2, <2>3, <2>5, <2>9
    <3>2. CASE i <= Len(d)
      <4>1. i \in 1 .. Len(d) /\ i + 1 <= Len(c)
        BY <2>2, <2>3, <3>2
      <4>2. s[i + 1] = c[i + 1] /\ t[i] = d[i]
        BY <2>5, <2>7, <3>1, <3>2, <4>1
      <4>. QED
        BY <2>3, <4>1, <4>2
    <3>3. CASE ~(i <= Len(d))
      BY <2>2, <2>3, <2>5, <2>7, <3>1, <3>3
    <3>. QED
      BY <3>2, <3>3
  <2>11. Len(u) = Len(t)
    BY <2>2, <2>3, <2>5, <2>7, <2>9
  <2>12. u = t
    BY <2>10, <2>11, SameSeq
  <2>. QED
    BY <2>1, <2>4, <2>6, <2>8, <2>12 DEF Joined
<1>. QED
  BY <1>1, <1>2, <1>3

-----------------------------------------------------------------------------
(* Order.                                                                  *)

\* The request is not over.
Live(r) == pc[r] \in {"new", "registered", "waiting"}

\* Where request r stands: what is in its channel and behind that in the
\* host's output is what it is owed; the host answers what it was asked.
Ordered(r) ==
  /\ Live(r) => /\ got[r] <= sent[r]
                /\ Owes(Joined(chan[r], OutFor(r)), r, got[r], sent[r], answer[r])
  /\ r \in asked => pc[r] \notin {"new", "registered"}
  /\ r \notin asked => sent[r] = 0 /\ got[r] = 0 /\ answer[r] = "none"
  /\ pc[r] \in {"ok", "refused"} => answer[r] = pc[r] /\ got[r] = sent[r]
  /\ pc[r] = "failed" => answer[r] = "none" /\ proc = "dead"

\* The reader leaves nothing behind: after what makes it leave, nothing is
\* written.
Drained ==
  /\ \A i \in 1 .. Len(out) : out[i] = Bad => i = Len(out) /\ ~CanWrite
  /\ reader # "reading" => out = <<>> /\ ~CanWrite

OInv == Drained /\ \A r \in Requests : Ordered(r)

\* Nobody is owed anything yet.
LEMMA InitOInv == Init => OInv
<1>. SUFFICES ASSUME Init PROVE OInv
  OBVIOUS
<1>1. Drained
  BY DEF Init, Drained
<1>2. ASSUME NEW r \in Requests PROVE Ordered(r)
  <2>1. chan[r] = <<>> /\ OutFor(r) = <<>>
    BY LinesForNone DEF Init, OutFor
  <2>2. Len(Joined(chan[r], OutFor(r))) = 0
    BY <2>1 DEF Joined
  <2>3. got[r] = 0 /\ sent[r] = 0 /\ answer[r] = "none" /\ pc[r] = "new" /\ r \notin asked
    BY DEF Init
  <2>. QED
    BY <2>2, <2>3 DEF Ordered, Owes
<1>. QED
  BY <1>1, <1>2 DEF OInv

\* The types the order of the lines needs.
LEMMA Typed ==
  ASSUME TypeOK, NEW r \in Requests
  PROVE  /\ out \in Seq(Written) /\ chan[r] \in Seq(Written)
         /\ LinesFor(out, r) \in Seq(Written)
         /\ Joined(chan[r], LinesFor(out, r)) \in Seq(Written)
         /\ sent[r] \in 0 .. MaxEvents /\ got[r] \in Nat /\ answer[r] \in Answers
<1>1. out \in Seq(Written) /\ chan[r] \in Seq(Line)
      /\ sent[r] \in 0 .. MaxEvents /\ got[r] \in Nat /\ answer[r] \in Answers
  BY DEF TypeOK, Written, Answers
<1>2. chan[r] \in Seq(Written)
  BY <1>1 DEF Written
<1>3. LinesFor(out, r) \in Seq(Written)
  BY <1>1, LinesForType
<1>4. Joined(chan[r], LinesFor(out, r)) \in Seq(Written)
  BY <1>2, <1>3, ConcatProperties DEF Joined
<1>. QED
  BY <1>1, <1>2, <1>3, <1>4

\* What a request that is not over finds in its channel.
LEMMA Finds ==
  ASSUME TypeOK, NEW r \in Requests, Ordered(r), Live(r)
  PROVE  LET c == chan[r]
             o == LinesFor(out, r)
         IN
         /\ got[r] \in 0 .. MaxEvents
         /\ c = <<>> /\ o = <<>> => answer[r] = "none"
         /\ got[r] = sent[r] /\ answer[r] = "none" => o = <<>>
         /\ c # <<>> /\ Head(c).what = "event" => got[r] < sent[r]
         /\ c # <<>> /\ Head(c).what # "event" =>
              got[r] = sent[r] /\ answer[r] # "none" /\ Head(c).what = answer[r]
         /\ Len(c) > 0 /\ c[Len(c)].what # "event" => o = <<>>
<1>1. /\ chan[r] \in Seq(Written) /\ LinesFor(out, r) \in Seq(Written)
      /\ sent[r] \in 0 .. MaxEvents /\ got[r] \in Nat /\ answer[r] \in Answers
  BY Typed
<1>2. /\ got[r] <= sent[r]
      /\ Owes(Joined(chan[r], LinesFor(out, r)), r, got[r], sent[r], answer[r])
  BY DEF Ordered, OutFor
<1>3. got[r] \in 0 .. MaxEvents
  BY <1>1, <1>2
<1>. QED
  BY <1>1, <1>2, <1>3, OwesFirst

\* A request a step does not touch stays as it is.
LEMMA Untouched ==
  ASSUME NEW r \in Requests, Ordered(r),
         pc'[r] = pc[r], chan'[r] = chan[r], got'[r] = got[r], sent'[r] = sent[r],
         answer'[r] = answer[r], r \in asked' <=> r \in asked,
         LinesFor(out', r) = LinesFor(out, r), proc = "dead" => proc' = "dead"
  PROVE  Ordered(r)'
BY DEF Ordered, Live, OutFor

\* Where only a request's place in the call moves.
LEMMA BeginOrder ==
  ASSUME TypeOK, OInv, NEW r \in Requests, Begin(r)
  PROVE  OInv'
<1>1. Drained'
  BY DEF OInv, Drained, Begin, hostside, CanWrite
<1>2. ASSUME NEW q \in Requests PROVE Ordered(q)'
  <2>1. Ordered(q)
    BY DEF OInv
  <2>2. CASE q # r
    BY <2>1, <2>2, Untouched DEF Begin, hostside, TypeOK
  <2>3. CASE q = r
    <3>1. pc'[r] = "registered" /\ pc[r] = "new"
      BY DEF Begin, TypeOK
    <3>2. UNCHANGED <<chan, got, sent, answer, asked, out>>
      BY DEF Begin, hostside
    <3>. QED
      BY <2>1, <2>3, <3>1, <3>2 DEF Ordered, Live, OutFor
  <2>. QED
    BY <2>2, <2>3
<1>. QED
  BY <1>1, <1>2 DEF OInv

LEMMA WriteOrder ==
  ASSUME TypeOK, OInv, NEW r \in Requests, Write(r)
  PROVE  OInv'
<1>1. Drained'
  BY DEF OInv, Drained, Write, CanWrite
<1>2. ASSUME NEW q \in Requests PROVE Ordered(q)'
  <2>1. Ordered(q)
    BY DEF OInv
  <2>2. CASE q # r
    BY <2>1, <2>2, Untouched DEF Write, TypeOK
  <2>3. CASE q = r
    <3>1. pc'[r] = "waiting" /\ pc[r] = "registered" /\ r \in asked'
      BY DEF Write, TypeOK
    <3>2. UNCHANGED <<chan, got, sent, answer, out>>
      BY DEF Write
    <3>. QED
      BY <2>1, <2>3, <3>1, <3>2 DEF Ordered, Live, OutFor
  <2>. QED
    BY <2>2, <2>3
<1>. QED
  BY <1>1, <1>2 DEF OInv

LEMMA WriteFailsOrder ==
  ASSUME TypeOK, OInv, NEW r \in Requests, WriteFails(r)
  PROVE  OInv'
<1>1. Drained'
  BY DEF OInv, Drained, WriteFails, hostside, CanWrite
<1>2. ASSUME NEW q \in Requests PROVE Ordered(q)'
  <2>1. Ordered(q)
    BY DEF OInv
  <2>2. CASE q # r
    BY <2>1, <2>2, Untouched DEF WriteFails, Return, hostside, TypeOK
  <2>3. CASE q = r
    <3>1. pc'[r] = "failed" /\ pc[r] = "registered" /\ proc' = "dead"
      BY DEF WriteFails, Return, hostside, TypeOK
    <3>2. UNCHANGED <<got, sent, answer, asked>>
      BY DEF WriteFails, hostside
    <3>. QED
      BY <2>1, <2>3, <3>1, <3>2 DEF Ordered, Live
  <2>. QED
    BY <2>2, <2>3
<1>. QED
  BY <1>1, <1>2 DEF OInv

LEMMA AbandonOrder ==
  ASSUME TypeOK, OInv, NEW r \in Requests, Abandon(r)
  PROVE  OInv'
<1>1. Drained'
  BY DEF OInv, Drained, Abandon, hostside, CanWrite
<1>2. ASSUME NEW q \in Requests PROVE Ordered(q)'
  <2>1. Ordered(q)
    BY DEF OInv
  <2>2. CASE q # r
    BY <2>1, <2>2, Untouched DEF Abandon, Return, hostside, TypeOK
  <2>3. CASE q = r
    <3>1. pc'[r] = "abandoned"
      BY DEF Abandon, Return, TypeOK
    <3>2. UNCHANGED <<got, sent, answer, asked>>
      BY DEF Abandon, hostside
    <3>. QED
      BY <2>1, <2>3, <3>1, <3>2 DEF Ordered, Live
  <2>. QED
    BY <2>2, <2>3
<1>. QED
  BY <1>1, <1>2 DEF OInv

\* The caller takes the first of what it is owed.
LEMMA OnEventOrder ==
  ASSUME TypeOK, OInv, NEW r \in Requests, OnEvent(r)
  PROVE  OInv'
<1>1. Drained'
  BY DEF OInv, Drained, OnEvent, hostside, CanWrite
<1>2. ASSUME NEW q \in Requests PROVE Ordered(q)'
  <2>1. Ordered(q)
    BY DEF OInv
  <2>2. CASE q # r
    BY <2>1, <2>2, Untouched DEF OnEvent, hostside, TypeOK
  <2>3. CASE q = r
    <3>1. /\ pc[r] = "waiting" /\ Live(r) /\ chan[r] # <<>> /\ Head(chan[r]).what = "event"
          /\ chan'[r] = Tail(chan[r]) /\ got'[r] = got[r] + 1
          /\ UNCHANGED <<pc, out, sent, answer, asked, proc>>
      BY DEF OnEvent, TypeOK, hostside, Live
    <3>2. got[r] \in 0 .. MaxEvents /\ got[r] < sent[r]
      BY <2>1, <2>3, <3>1, Finds
    <3>3. PICK c \in Seq(Written) : c = chan[r]
      BY Typed
    <3>4. PICK o \in Seq(Written) : o = LinesFor(out, r)
      BY Typed
    <3>5. PICK s \in Seq(Written) : s = Joined(c, o)
      BY <3>3, <3>4, Typed
    <3>6. Joined(Tail(c), o) = Tail(s)
      <4>1. c # <<>> /\ Bad \in Written
        BY <3>1, <3>3 DEF Written
      <4>2. Joined(Tail(c), o) = Tail(Joined(c, o))
        BY <4>1, JoinedMoves
      <4>. QED
        BY <3>5, <4>2
    <3>7. Owes(s, r, got[r], sent[r], answer[r])
      BY <2>1, <2>3, <3>1, <3>3, <3>4, <3>5 DEF Ordered, OutFor
    <3>8. sent[r] \in 0 .. MaxEvents /\ answer[r] \in Answers
      BY Typed
    <3>9. Owes(Tail(s), r, got[r] + 1, sent[r], answer[r])
      BY <3>2, <3>7, <3>8, OwesTail
    <3>10. got'[r] <= sent'[r]
      BY <3>1, <3>2, <3>8
    <3>11. Owes(Joined(chan'[r], LinesFor(out', r)), r, got'[r], sent'[r], answer'[r])
      BY <3>1, <3>3, <3>4, <3>6, <3>9
    <3>12. r \in asked
      BY <2>1, <2>3, <3>2, <3>8 DEF Ordered
    <3>. QED
      BY <2>3, <3>1, <3>10, <3>11, <3>12 DEF Ordered, OutFor, Live
  <2>. QED
    BY <2>2, <2>3
<1>. QED
  BY <1>1, <1>2 DEF OInv

LEMMA OnReplyOrder ==
  ASSUME TypeOK, OInv, NEW r \in Requests, OnReply(r)
  PROVE  OInv'
<1>1. Drained'
  BY DEF OInv, Drained, OnReply, hostside, CanWrite
<1>2. ASSUME NEW q \in Requests PROVE Ordered(q)'
  <2>1. Ordered(q)
    BY DEF OInv
  <2>2. CASE q # r
    BY <2>1, <2>2, Untouched DEF OnReply, Return, hostside, TypeOK
  <2>3. CASE q = r
    <3>1. /\ Live(r) /\ chan[r] # <<>> /\ Head(chan[r]).what # "event"
          /\ pc'[r] = Head(chan[r]).what
          /\ UNCHANGED <<out, got, sent, answer, asked, proc>>
      BY DEF OnReply, Return, TypeOK, hostside, Live
    <3>2. got[r] = sent[r] /\ answer[r] # "none" /\ pc'[r] = answer[r]
      BY <2>1, <2>3, <3>1, Finds
    <3>3. answer[r] \in Answers
      BY Typed
    <3>4. r \in asked
      BY <2>1, <2>3, <3>2 DEF Ordered
    <3>. QED
      BY <2>3, <3>1, <3>2, <3>3, <3>4 DEF Ordered, Live, Answers
  <2>. QED
    BY <2>2, <2>3
<1>. QED
  BY <1>1, <1>2 DEF OInv

\* The channel ends with nothing in it only after the reader is gone: nothing
\* of the host's is left then.
LEMMA OnClosedOrder ==
  ASSUME IInv, OInv, NEW r \in Requests, OnClosed(r)
  PROVE  OInv'
<1>0. TypeOK
  BY DEF IInv
<1>1. Drained'
  BY DEF OInv, Drained, OnClosed, CanWrite
<1>2. ASSUME NEW q \in Requests PROVE Ordered(q)'
  <2>1. Ordered(q)
    BY DEF OInv
  <2>2. CASE q # r
    BY <1>0, <2>1, <2>2, Untouched DEF OnClosed, Return, TypeOK
  <2>3. CASE q = r
    <3>1. /\ Live(r) /\ Outstanding(r) /\ chan[r] = <<>> /\ r \notin pending
          /\ pc'[r] = "failed" /\ proc' = "dead" /\ pc[r] = "waiting"
          /\ UNCHANGED <<out, got, sent, answer, asked>>
      BY <1>0 DEF OnClosed, Return, TypeOK, Live, Outstanding
    <3>2. reader = "gone"
      BY <3>1 DEF IInv, Ending
    <3>3. out = <<>>
      BY <3>2 DEF OInv, Drained
    <3>4. LinesFor(out, r) = <<>>
      BY <3>3, LinesForNone
    <3>5. answer[r] = "none"
      BY <1>0, <2>1, <2>3, <3>1, <3>4, Finds
    <3>. QED
      BY <2>1, <2>3, <3>1, <3>5 DEF Ordered, Live
  <2>. QED
    BY <2>2, <2>3
<1>. QED
  BY <1>1, <1>2 DEF OInv

LEMMA DropOrder == ASSUME OInv, Drop PROVE OInv'
<1>1. Drained'
  BY DEF OInv, Drained, Drop, caller, CanWrite
<1>2. ASSUME NEW q \in Requests PROVE Ordered(q)'
  BY Untouched DEF OInv, Drop, caller
<1>. QED
  BY <1>1, <1>2 DEF OInv

LEMMA ClearOrder == ASSUME OInv, Clear PROVE OInv'
<1>1. Drained'
  BY DEF OInv, Drained, Clear, hostside, CanWrite
<1>2. ASSUME NEW q \in Requests PROVE Ordered(q)'
  BY Untouched DEF OInv, Clear, caller, hostside
<1>. QED
  BY <1>1, <1>2 DEF OInv

LEMMA HostExitsOrder == ASSUME OInv, HostExits PROVE OInv'
<1>1. Drained'
  BY DEF OInv, Drained, HostExits, CanWrite
<1>2. ASSUME NEW q \in Requests PROVE Ordered(q)'
  BY Untouched DEF OInv, HostExits, caller
<1>. QED
  BY <1>1, <1>2 DEF OInv

\* What is left of the host's output when its first line is taken.
LEMMA Taking ==
  ASSUME TypeOK, out # <<>>, Drained
  PROVE  /\ Head(out) \in Written /\ Tail(out) \in Seq(Written)
         /\ Head(out) = Bad => Tail(out) = <<>> /\ ~CanWrite
         /\ \A i \in 1 .. Len(Tail(out)) : Tail(out)[i] = Bad => i = Len(Tail(out)) /\ ~CanWrite
<1>1. PICK s \in Seq(Written) : s = out
  BY DEF TypeOK, Written
<1>2. PICK t \in Seq(Written) : t = Tail(s)
  BY <1>1, HeadTailProperties
<1>3. Len(s) \in Nat \ {0} /\ Len(t) \in Nat
  BY <1>1, EmptySeq
<1>4. Len(t) = Len(s) - 1 /\ (\A i \in 1 .. Len(t) : t[i] = s[i + 1]) /\ Head(s) = s[1]
      /\ Head(s) \in Written
  BY <1>1, <1>2, HeadTailProperties
<1>5. \A i \in 1 .. Len(s) : s[i] = Bad => i = Len(s) /\ ~CanWrite
  BY <1>1 DEF Drained
<1>6. s[1] = Bad => t = <<>> /\ ~CanWrite
  <2>1. 1 \in 1 .. Len(s)
    BY <1>3
  <2>2. s[1] = Bad => Len(t) = 0 /\ ~CanWrite
    BY <1>4, <1>5, <2>1
  <2>. QED
    BY <2>2, EmptySeq
<1>7. \A i \in 1 .. Len(t) : t[i] = Bad => i = Len(t) /\ ~CanWrite
  <2>1. \A i \in 1 .. Len(t) : i + 1 \in 1 .. Len(s) /\ (i + 1 = Len(s) => i = Len(t))
    BY <1>3, <1>4
  <2>. QED
    BY <1>4, <1>5, <2>1
<1>. QED
  BY <1>1, <1>2, <1>4, <1>6, <1>7

\* The reader moves a line from the output into the channel it names.
LEMMA DeliverOrder ==
  ASSUME IInv, OInv, Deliver
  PROVE  OInv'
<1>0. TypeOK
  BY DEF IInv
<1>1. PICK x \in Line : x = Head(out)
  <2>1. Head(out) \in Written /\ Head(out) # Bad
    BY <1>0, Taking DEF OInv, Deliver
  <2>. QED
    BY <2>1 DEF Written
<1>2. /\ reader = "reading" /\ out # <<>> /\ out' = Tail(out)
      /\ chan' = IF x.id \in pending THEN [chan EXCEPT ![x.id] = Append(@, x)] ELSE chan
      /\ UNCHANGED <<pc, got, sent, answer, asked, proc, broke, reader>>
  BY <1>1 DEF Deliver, caller, hostside
<1>3. x.id \in Requests /\ x \in Written
  BY <1>1 DEF Line, Written
<1>4. Drained'
  BY <1>0, <1>2, Taking DEF OInv, Drained, CanWrite
<1>5. ASSUME NEW q \in Requests PROVE Ordered(q)'
  <2>1. Ordered(q)
    BY DEF OInv
  <2>2. LinesFor(out, q) = IF x.id = q THEN <<x>> \o LinesFor(out', q) ELSE LinesFor(out', q)
    <3>1. out \in Seq(Written)
      BY <1>0, Typed
    <3>. QED
      BY <1>1, <1>2, <3>1, LinesForTail
  <2>3. CASE q # x.id
    <3>1. chan'[q] = chan[q]
      BY <1>0, <1>2, <2>3 DEF TypeOK
    <3>. QED
      BY <1>2, <2>1, <2>2, <2>3, <3>1, Untouched
  <2>4. CASE q = x.id /\ ~Live(q)
    BY <1>2, <2>1, <2>4 DEF Ordered, Live
  <2>5. CASE q = x.id /\ Live(q)
    <3>1. out' \in Seq(Written)
      BY <1>0, <1>2, Taking DEF OInv
    <3>2. PICK o \in Seq(Written) : o = LinesFor(out', q)
      BY <3>1, LinesForType
    <3>3. PICK c \in Seq(Written) : c = chan[q]
      BY <1>0, Typed
    <3>4. LinesFor(out, q) = <<x>> \o o
      BY <2>2, <2>5, <3>2
    <3>5. LinesFor(out, q) # <<>>
      <4>1. Len(<<x>> \o o) = 1 + Len(o) /\ Len(o) \in Nat
        BY <1>3, ConcatProperties
      <4>. QED
        BY <3>4, <4>1
    <3>6. q \in pending
      <4>1. ASSUME q \notin pending PROVE FALSE
        <5>1. CASE pc[q] = "new"
          <6>1. got[q] = sent[q] /\ answer[q] = "none"
            BY <2>1, <5>1 DEF Ordered
          <6>. QED
            BY <1>0, <2>1, <2>5, <3>5, <6>1, Finds
        <5>2. CASE Outstanding(q)
          <6>1. Len(chan[q]) > 0 /\ chan[q][Len(chan[q])].what # "event"
            BY <1>2, <4>1, <5>2 DEF IInv, Ending
          <6>. QED
            BY <1>0, <2>1, <2>5, <3>5, <6>1, Finds
        <5>. QED
          BY <2>5, <5>1, <5>2 DEF Live, Outstanding
      <4>. QED
        BY <4>1
    <3>7. chan'[q] = Append(c, x)
      BY <1>0, <1>2, <2>5, <3>3, <3>6 DEF TypeOK
    <3>8. Joined(Append(c, x), o) = Joined(c, <<x>> \o o)
      BY <1>3, <3>2, <3>3, JoinedMoves
    <3>9. Joined(chan'[q], LinesFor(out', q)) = Joined(chan[q], LinesFor(out, q))
      BY <3>2, <3>3, <3>4, <3>7, <3>8
    <3>. QED
      BY <1>2, <2>1, <3>9 DEF Ordered, Live, OutFor
  <2>. QED
    BY <2>3, <2>4, <2>5
<1>. QED
  BY <1>4, <1>5 DEF OInv

\* A line that is none of a request's is not missed by one.
LEMMA EndOfOutputOrder ==
  ASSUME IInv, OInv, EndOfOutput
  PROVE  OInv'
<1>0. TypeOK
  BY DEF IInv
<1>1. UNCHANGED <<pc, chan, got, sent, answer, asked, proc, broke>>
  BY DEF EndOfOutput, caller, hostside
<1>2. CASE out = <<>> /\ proc = "dead" /\ UNCHANGED out
  <2>1. Drained'
    BY <1>1, <1>2 DEF Drained, CanWrite
  <2>. QED
    BY <1>1, <1>2, <2>1, Untouched DEF OInv
<1>3. CASE out # <<>> /\ Head(out) = Bad /\ out' = Tail(out)
  <2>1. out' = <<>> /\ ~CanWrite
    BY <1>0, <1>3, Taking DEF OInv
  <2>2. Drained'
    BY <1>1, <2>1 DEF Drained, CanWrite
  <2>3. ASSUME NEW q \in Requests PROVE Ordered(q)'
    <3>1. Bad.id # q
      BY DEF Bad
    <3>2. out \in Seq(Written)
      BY <1>0, Typed
    <3>3. LinesFor(out, q) = LinesFor(out', q)
      BY <1>3, <3>1, <3>2, LinesForTail
    <3>. QED
      BY <1>1, <3>3, Untouched DEF OInv
  <2>. QED
    BY <2>2, <2>3 DEF OInv
<1>. QED
  BY <1>2, <1>3 DEF EndOfOutput

\* Behind a line that ends the reading, nothing is written.
LEMMA Appending ==
  ASSUME TypeOK, Drained, CanWrite, NEW x \in Written, out' = Append(out, x),
         x = Bad => ~CanWrite', reader' = reader
  PROVE  Drained'
<1>1. reader = "reading"
  BY DEF Drained
<1>2. PICK s \in Seq(Written) : s = out
  BY DEF TypeOK, Written
<1>3. Len(Append(s, x)) = Len(s) + 1 /\ Append(s, x)[Len(s) + 1] = x
      /\ (\A i \in 1 .. Len(s) : Append(s, x)[i] = s[i]) /\ Len(s) \in Nat
  BY AppendProperties
<1>4. \A i \in 1 .. Len(s) : s[i] # Bad
  BY <1>2 DEF Drained
<1>5. \A i \in 1 .. Len(out') : out'[i] = Bad => i = Len(out') /\ x = Bad
  BY <1>2, <1>3, <1>4
<1>. QED
  BY <1>1, <1>5 DEF Drained

\* A request no line is written for.
LEMMA NotMine ==
  ASSUME TypeOK, NEW q \in Requests, NEW x \in Written, x.id # q
  PROVE  LinesFor(Append(out, x), q) = LinesFor(out, q)
BY Typed, LinesForAppend

\* The request a line is written for.
LEMMA Mine ==
  ASSUME TypeOK, NEW q \in Requests, NEW x \in Written, x.id = q
  PROVE  Joined(chan[q], LinesFor(Append(out, x), q)) =
           Append(Joined(chan[q], LinesFor(out, q)), x)
<1>1. PICK c \in Seq(Written) : c = chan[q]
  BY Typed
<1>2. PICK o \in Seq(Written) : o = LinesFor(out, q)
  BY Typed
<1>3. LinesFor(Append(out, x), q) = Append(o, x)
  BY <1>2, Typed, LinesForAppend
<1>4. Joined(c, Append(o, x)) = Append(Joined(c, o), x)
  BY JoinedMoves
<1>. QED
  BY <1>1, <1>2, <1>3, <1>4

\* What the host writes for a request comes last in what it is owed.
LEMMA HostEventOrder ==
  ASSUME TypeOK, OInv, NEW r \in Requests, HostEvent(r)
  PROVE  OInv'
<1>1. /\ CanWrite /\ r \in asked /\ answer[r] = "none" /\ sent[r] < MaxEvents
      /\ sent' = [sent EXCEPT ![r] = sent[r] + 1] /\ sent'[r] = sent[r] + 1
      /\ out' = Append(out, Event(r, sent'[r]))
      /\ UNCHANGED <<pc, got, chan, reader, proc, asked, answer, broke>>
  BY DEF HostEvent, Unanswered, TypeOK, caller
<1>2. sent[r] \in 0 .. MaxEvents
  BY Typed
<1>3. PICK x \in Written : x = Event(r, sent[r] + 1) /\ x.id = r
  <2>1. sent[r] + 1 \in 1 .. MaxEvents
    BY <1>1, <1>2
  <2>. QED
    BY <2>1, WrittenLines
<1>4. out' = Append(out, x) /\ x # Bad
  BY <1>1, <1>3 DEF Bad
<1>5. Drained'
  BY <1>1, <1>4, Appending DEF OInv
<1>6. ASSUME NEW q \in Requests PROVE Ordered(q)'
  <2>1. Ordered(q)
    BY DEF OInv
  <2>2. CASE q # r
    <3>1. LinesFor(out', q) = LinesFor(out, q) /\ sent'[q] = sent[q]
      BY <1>1, <1>3, <1>4, <2>2, NotMine DEF TypeOK
    <3>. QED
      BY <1>1, <2>1, <3>1, Untouched
  <2>3. CASE q = r
    <3>1. pc[r] \notin {"new", "registered", "ok", "refused", "failed"}
      BY <1>1, <2>1, <2>3 DEF Ordered, CanWrite
    <3>2. CASE ~Live(r)
      BY <1>1, <2>1, <2>3, <3>1, <3>2 DEF Ordered, Live
    <3>3. CASE Live(r)
      <4>1. /\ got[r] <= sent[r]
            /\ Owes(Joined(chan[r], LinesFor(out, r)), r, got[r], sent[r], "none")
        BY <1>1, <2>1, <2>3, <3>3 DEF Ordered, OutFor
      <4>2. PICK s \in Seq(Written) : s = Joined(chan[r], LinesFor(out, r))
        BY Typed
      <4>3. got[r] \in 0 .. MaxEvents
        BY <1>2, <4>1, Typed
      <4>4. Owes(Append(s, x), r, got[r], sent[r] + 1, "none")
        BY <1>1, <1>2, <1>3, <4>1, <4>2, <4>3, OwesAppend
      <4>5. Joined(chan'[r], LinesFor(out', r)) = Append(s, x)
        BY <1>1, <1>3, <1>4, <4>2, Mine
      <4>6. got'[r] <= sent'[r]
        BY <1>1, <1>2, <4>1, <4>3
      <4>7. Owes(Joined(chan'[r], LinesFor(out', r)), r, got'[r], sent'[r], answer'[r])
        BY <1>1, <4>4, <4>5
      <4>. QED
        BY <1>1, <2>1, <2>3, <3>1, <4>6, <4>7 DEF Ordered, OutFor, Live
    <3>. QED
      BY <3>2, <3>3
  <2>. QED
    BY <2>2, <2>3
<1>. QED
  BY <1>5, <1>6 DEF OInv

LEMMA HostReplyOrder ==
  ASSUME TypeOK, OInv, NEW r \in Requests, HostReply(r)
  PROVE  OInv'
<1>1. PICK w \in {"ok", "refused"} :
        /\ answer' = [answer EXCEPT ![r] = w] /\ answer'[r] = w
        /\ out' = Append(out, Reply(r, w))
  BY DEF HostReply, TypeOK
<1>2. /\ CanWrite /\ r \in asked /\ answer[r] = "none"
      /\ UNCHANGED <<pc, got, chan, reader, proc, asked, sent, broke>>
  BY DEF HostReply, Unanswered, caller
<1>3. PICK x \in Written : x = Reply(r, w) /\ x.id = r
  BY WrittenLines
<1>4. out' = Append(out, x) /\ x # Bad
  BY <1>1, <1>3 DEF Bad
<1>5. Drained'
  BY <1>2, <1>4, Appending DEF OInv
<1>6. ASSUME NEW q \in Requests PROVE Ordered(q)'
  <2>1. Ordered(q)
    BY DEF OInv
  <2>2. CASE q # r
    <3>1. LinesFor(out', q) = LinesFor(out, q) /\ answer'[q] = answer[q]
      BY <1>1, <1>3, <1>4, <2>2, NotMine DEF TypeOK
    <3>. QED
      BY <1>2, <2>1, <3>1, Untouched
  <2>3. CASE q = r
    <3>1. pc[r] \notin {"new", "registered", "ok", "refused", "failed"}
      BY <1>2, <2>1, <2>3 DEF Ordered, CanWrite
    <3>2. CASE ~Live(r)
      BY <1>2, <2>1, <2>3, <3>1, <3>2 DEF Ordered, Live
    <3>3. CASE Live(r)
      <4>1. /\ got[r] <= sent[r]
            /\ Owes(Joined(chan[r], LinesFor(out, r)), r, got[r], sent[r], "none")
        BY <1>2, <2>1, <2>3, <3>3 DEF Ordered, OutFor
      <4>2. PICK s \in Seq(Written) : s = Joined(chan[r], LinesFor(out, r))
        BY Typed
      <4>3. got[r] \in 0 .. MaxEvents /\ sent[r] \in 0 .. MaxEvents
        BY <4>1, Typed
      <4>4. w \in Answers \ {"none"}
        BY DEF Answers
      <4>5. Owes(Append(s, x), r, got[r], sent[r], w)
        BY <1>3, <4>1, <4>2, <4>3, <4>4, OwesAppend
      <4>6. Joined(chan'[r], LinesFor(out', r)) = Append(s, x)
        BY <1>2, <1>3, <1>4, <4>2, Mine
      <4>7. Owes(Joined(chan'[r], LinesFor(out', r)), r, got'[r], sent'[r], answer'[r])
        BY <1>1, <1>2, <4>5, <4>6
      <4>. QED
        BY <1>2, <2>1, <2>3, <3>1, <4>1, <4>7 DEF Ordered, OutFor, Live
    <3>. QED
      BY <3>2, <3>3
  <2>. QED
    BY <2>2, <2>3
<1>. QED
  BY <1>5, <1>6 DEF OInv

\* What breaks the protocol is nobody's line, and the last that is written.
LEMMA HostBreaksOrder ==
  ASSUME TypeOK, OInv, HostBreaks
  PROVE  OInv'
<1>1. Bad \in Written /\ Bad.id = -1
  BY DEF Written, Bad
<1>2. /\ CanWrite /\ broke' = TRUE /\ out' = Append(out, Bad)
      /\ UNCHANGED <<pc, got, chan, reader, proc, asked, sent, answer>>
  BY DEF HostBreaks, caller
<1>3. ~CanWrite'
  BY <1>2 DEF CanWrite
<1>4. Drained'
  BY <1>1, <1>2, <1>3, Appending DEF OInv
<1>5. ASSUME NEW q \in Requests PROVE Ordered(q)'
  <2>1. Bad.id # q
    BY <1>1
  <2>2. LinesFor(out', q) = LinesFor(out, q)
    BY <1>1, <1>2, <2>1, NotMine
  <2>. QED
    BY <1>2, <2>2, Untouched DEF OInv
<1>. QED
  BY <1>4, <1>5 DEF OInv

\* Every step keeps the order.
LEMMA NextOrder == IInv /\ OInv /\ [Next]_vars => OInv'
<1>. SUFFICES ASSUME IInv, OInv, [Next]_vars PROVE OInv'
  OBVIOUS
<1>0. TypeOK
  BY DEF IInv
<1>1. ASSUME NEW r \in Requests,
             Begin(r) \/ Write(r) \/ WriteFails(r) \/ Receive(r) \/ HostEvent(r) \/ HostReply(r)
      PROVE  OInv'
  BY <1>0, <1>1, BeginOrder, WriteOrder, WriteFailsOrder, OnEventOrder, AbandonOrder,
     OnReplyOrder, OnClosedOrder, HostEventOrder, HostReplyOrder, Zenon DEF Receive
<1>2. CASE Drop \/ Read \/ HostBreaks \/ HostExits
  BY <1>0, <1>2, DropOrder, DeliverOrder, EndOfOutputOrder, ClearOrder, HostBreaksOrder,
     HostExitsOrder, Zenon DEF Read
<1>3. CASE UNCHANGED vars
  <2>1. Drained'
    BY <1>3 DEF vars, hostside, OInv, Drained, CanWrite
  <2>2. ASSUME NEW q \in Requests PROVE Ordered(q)'
    BY <1>3, Untouched DEF vars, caller, hostside, OInv
  <2>. QED
    BY <2>1, <2>2 DEF OInv
<1>. QED
  BY <1>1, <1>2, <1>3 DEF Next

(* What the theorems below rest on: for each request, its channel and what *)
(* the host has written for it behind that are exactly what it is owed.    *)
THEOREM OrderInductive == Spec => [](IInv /\ OInv)
<1>1. Init => IInv /\ OInv
  BY InitIInv, InitOInv
<1>2. (IInv /\ OInv) /\ [Next]_vars => (IInv /\ OInv)'
  BY NextKeeps, NextOrder
<1>. QED
  BY <1>1, <1>2, PTL DEF Spec

(* host.rs, "which that request's caller receives in order": whatever the  *)
(* callers, the reader and the host interleave, no line of a waiting       *)
(* request is lost, repeated, reordered or given to another.               *)
THEOREM KeepsOrder == Spec => []InOrder
<1>1. IInv /\ OInv => InOrder
  <2>. SUFFICES ASSUME IInv, OInv, NEW r \in Requests, pc[r] = "waiting"
                PROVE  chan[r] \o OutFor(r) = Owed(r)
    BY DEF InOrder
  <2>1. TypeOK /\ Ordered(r) /\ Live(r)
    BY DEF IInv, OInv, Live
  <2>2. PICK s \in Seq(Written) : s = Joined(chan[r], LinesFor(out, r))
    BY <2>1, Typed
  <2>3. got[r] <= sent[r] /\ Owes(s, r, got[r], sent[r], answer[r])
    BY <2>1, <2>2 DEF Ordered, OutFor
  <2>4. got[r] \in 0 .. MaxEvents /\ sent[r] \in 0 .. MaxEvents /\ answer[r] \in Answers
    BY <2>1, <2>3, Typed
  <2>5. s = Owing(r, got[r], sent[r], answer[r])
    BY <2>3, <2>4, OwesOne
  <2>. QED
    BY <2>2, <2>5, Zenon DEF Joined, OutFor, Owing, Owed
<1>. QED
  BY <1>1, OrderInductive, PTL

(* A request ends as the host answered it, behind all of its events; one   *)
(* the host has answered never ends as the host's failure, even when the   *)
(* host exits or breaks the protocol right after: exited() in host.rs is   *)
(* reached by a request that was not written, or one with nothing left to  *)
(* receive.                                                                *)
THEOREM AnsweredEnds == Spec => []EndsAsAnswered
<1>1. OInv => EndsAsAnswered
  BY DEF OInv, Ordered, EndsAsAnswered
<1>. QED
  BY <1>1, OrderInductive, PTL
=============================================================================
