---------------------------- MODULE RuntimeHost ----------------------------
(***************************************************************************)
(* One runtime host and its protocol: RuntimeHost in                       *)
(* praecise-host/src/host.rs.                                              *)
(*                                                                         *)
(* Caller threads each run call_streaming: register a channel under the    *)
(* request's id, write the request, then receive until a reply, an error   *)
(* of their own, or the channel's end.  One reader thread takes the host's *)
(* lines in order and sends each to the channel its id names; when the     *)
(* output ends or breaks the protocol it clears the map, which ends every  *)
(* channel still in it, and is gone.  The host process is an environment:  *)
(* it answers what it was asked in any order, breaks the protocol or       *)
(* exits whenever it likes.                                                *)
(*                                                                         *)
(* A request is named by its id.  Id 0 is the load inside start(): no      *)
(* other request exists before it succeeded.                               *)
(***************************************************************************)
EXTENDS Integers, Sequences

CONSTANTS
  Calls,     \* ids of the requests after the load
  MaxEvents  \* bound: events the host writes for one request

ASSUME CallsAssumption == Calls \subseteq Nat \ {0}
ASSUME MaxEventsAssumption == MaxEvents \in Nat

Load == 0
Requests == Calls \cup {Load}

VARIABLES
  pc,       \* where each request is in call_streaming
  pending,  \* ids in the Pending map: the reader holds their senders
  chan,     \* what is in each request's channel
  reader,   \* the reader thread
  out,      \* lines the host has written and the reader has not read
  proc,     \* the child process
  dropped,  \* Drop for RuntimeHost has run
  asked,    \* requests written to the host
  sent,     \* events the host has written for each request
  answer,   \* how the host has ended each request
  broke,    \* the host wrote a line that breaks the protocol
  exited,   \* the process exited by itself
  got,      \* events each caller's on_event has been passed
  late      \* requests registered after the reader cleared the map

caller == <<pc, got, late>>
hostside == <<proc, asked, sent, answer, broke, exited>>
vars == <<caller, pending, chan, reader, out, dropped, hostside>>

Line ==
  [id : Requests, what : {"event"}, n : 1 .. MaxEvents]
    \cup [id : Requests, what : {"ok", "refused"}, n : {0}]
Bad == [id |-> -1, what |-> "bad", n |-> 0]
Event(r, i) == [id |-> r, what |-> "event", n |-> i]
Reply(r, w) == [id |-> r, what |-> w, n |-> 0]

Outstanding(r) == pc[r] \in {"registered", "waiting"}

TypeOK ==
  /\ pc \in [Requests -> {"new", "registered", "waiting",
                          "ok", "refused", "failed", "abandoned"}]
  /\ pending \subseteq Requests
  /\ chan \in [Requests -> Seq(Line)]
  /\ reader \in {"reading", "ended", "gone"}
  /\ out \in Seq(Line \cup {Bad})
  /\ proc \in {"up", "dead"}
  /\ dropped \in BOOLEAN
  /\ asked \subseteq Requests
  /\ sent \in [Requests -> 0 .. MaxEvents]
  /\ answer \in [Requests -> {"none", "ok", "refused"}]
  /\ broke \in BOOLEAN
  /\ exited \in BOOLEAN
  /\ got \in [Requests -> Nat]
  /\ late \subseteq Requests
  /\ \A r \in Requests : ~Outstanding(r) => chan[r] = <<>> /\ r \notin pending

Init ==
  /\ pc = [r \in Requests |-> "new"]
  /\ pending = {}
  /\ chan = [r \in Requests |-> <<>>]
  /\ reader = "reading"
  /\ out = <<>>
  /\ proc = "up"
  /\ dropped = FALSE
  /\ asked = {}
  /\ sent = [r \in Requests |-> 0]
  /\ answer = [r \in Requests |-> "none"]
  /\ broke = FALSE
  /\ exited = FALSE
  /\ got = [r \in Requests |-> 0]
  /\ late = {}

\* The call returns: its receiver goes, and with it what is in the channel.
Return(r, outcome) ==
  /\ pc' = [pc EXCEPT ![r] = outcome]
  /\ chan' = [chan EXCEPT ![r] = <<>>]

-----------------------------------------------------------------------------
(* call_streaming(request r)                                               *)

\* The id is drawn and the sender goes into the map.
Begin(r) ==
  /\ pc[r] = "new" /\ ~dropped
  /\ r = Load \/ pc[Load] = "ok"
  /\ pc' = [pc EXCEPT ![r] = "registered"]
  /\ pending' = pending \cup {r}
  /\ late' = IF reader = "gone" THEN late \cup {r} ELSE late
  /\ UNCHANGED <<chan, reader, out, dropped, hostside, got>>

\* The line is written and flushed.
Write(r) ==
  /\ pc[r] = "registered" /\ proc = "up"
  /\ asked' = asked \cup {r}
  /\ pc' = [pc EXCEPT ![r] = "waiting"]
  /\ UNCHANGED <<pending, chan, reader, out, dropped, got, late>>
  /\ UNCHANGED <<proc, sent, answer, broke, exited>>

\* Nothing reads the pipe any more: unregister, then exited().
WriteFails(r) ==
  /\ pc[r] = "registered" /\ proc = "dead"
  /\ pending' = pending \ {r}
  /\ Return(r, "failed")
  /\ UNCHANGED <<reader, out, dropped, hostside, got, late>>

\* An event: on_event takes it.
OnEvent(r) ==
  /\ pc[r] = "waiting" /\ chan[r] # <<>> /\ Head(chan[r]).what = "event"
  /\ got' = [got EXCEPT ![r] = @ + 1]
  /\ chan' = [chan EXCEPT ![r] = Tail(@)]
  /\ UNCHANGED <<pc, late, pending, reader, out, dropped, hostside>>

\* Mutant: a caller that goes away stops the host.
AbandonExits(r) ==
  /\ pc[r] = "waiting" /\ chan[r] # <<>> /\ Head(chan[r]).what = "event"
  /\ r # Load
  /\ pending' = pending \ {r}
  /\ proc' = "dead"
  /\ Return(r, "abandoned")
  /\ UNCHANGED <<got, late, reader, out, dropped, asked, sent, answer, broke, exited>>

\* on_event errs (the caller went away): unregister and return.  The load
\* has no on_event of its own.
Abandon(r) ==
  /\ pc[r] = "waiting" /\ chan[r] # <<>> /\ Head(chan[r]).what = "event"
  /\ r # Load
  /\ pending' = pending \ {r}
  /\ Return(r, "abandoned")
  /\ UNCHANGED <<got, late, reader, out, dropped, hostside>>

\* The reply: Ok, or Refused.
OnReply(r) ==
  /\ pc[r] = "waiting" /\ chan[r] # <<>> /\ Head(chan[r]).what # "event"
  /\ Return(r, Head(chan[r]).what)
  /\ UNCHANGED <<pending, got, late, reader, out, dropped, hostside>>

\* recv fails: the sender is gone and the channel is empty.  exited() kills
\* what is left of the process.
OnClosed(r) ==
  /\ pc[r] = "waiting" /\ chan[r] = <<>> /\ r \notin pending
  /\ proc' = "dead"
  /\ Return(r, "failed")
  /\ UNCHANGED <<pending, got, late, reader, out, dropped>>
  /\ UNCHANGED <<asked, sent, answer, broke, exited>>

\* Drop for RuntimeHost, once no call borrows it: the load failed, or the
\* last Arc to it went.
Drop ==
  /\ ~dropped /\ pc[Load] # "new"
  /\ \A r \in Requests : ~Outstanding(r)
  /\ dropped' = TRUE
  /\ proc' = "dead"
  /\ UNCHANGED <<caller, pending, chan, reader, out>>
  /\ UNCHANGED <<asked, sent, answer, broke, exited>>

-----------------------------------------------------------------------------
(* The reader thread: spawn_reader                                         *)

\* Mutant: a line is sent whether or not its request is still in the map.
DeliverAny ==
  LET line == Head(out) IN
  /\ reader = "reading" /\ out # <<>> /\ line # Bad
  /\ out' = Tail(out)
  /\ chan' = [chan EXCEPT ![line.id] = Append(@, line)]
  /\ pending' = IF line.what = "event" THEN pending ELSE pending \ {line.id}
  /\ UNCHANGED <<caller, reader, dropped, hostside>>

\* Mutant: the sender is removed after an event too.
DeliverOnce ==
  LET line == Head(out) IN
  /\ reader = "reading" /\ out # <<>> /\ line # Bad
  /\ out' = Tail(out)
  /\ chan' = IF line.id \in pending
             THEN [chan EXCEPT ![line.id] = Append(@, line)]
             ELSE chan
  /\ pending' = pending \ {line.id}
  /\ UNCHANGED <<caller, reader, dropped, hostside>>

\* A line that parses goes to the request it names; a reply is its last.
\* A request that is not in the map (abandoned) has its line dropped.
Deliver ==
  LET line == Head(out) IN
  /\ reader = "reading" /\ out # <<>> /\ line # Bad
  /\ out' = Tail(out)
  /\ chan' = IF line.id \in pending
             THEN [chan EXCEPT ![line.id] = Append(@, line)]
             ELSE chan
  /\ pending' = IF line.what = "event" THEN pending ELSE pending \ {line.id}
  /\ UNCHANGED <<caller, reader, dropped, hostside>>

\* Mutant: the reader leaves as soon as the process is gone.
EndUndrained ==
  /\ reader = "reading"
  /\ \/ out # <<>> /\ Head(out) = Bad /\ out' = Tail(out)
     \/ proc = "dead" /\ UNCHANGED out
  /\ reader' = "ended"
  /\ UNCHANGED <<caller, pending, chan, dropped, hostside>>

\* A line that does not parse, or the end of the output: out of the loop.
EndOfOutput ==
  /\ reader = "reading"
  /\ \/ out # <<>> /\ Head(out) = Bad /\ out' = Tail(out)
     \/ out = <<>> /\ proc = "dead" /\ UNCHANGED out
  /\ reader' = "ended"
  /\ UNCHANGED <<caller, pending, chan, dropped, hostside>>

\* Mutant: the reader just ends.
ClearNothing ==
  /\ reader = "ended"
  /\ reader' = "gone"
  /\ UNCHANGED <<caller, pending, chan, out, dropped, hostside>>

\* pending.lock().clear()
Clear ==
  /\ reader = "ended"
  /\ pending' = {}
  /\ reader' = "gone"
  /\ UNCHANGED <<caller, chan, out, dropped, hostside>>

-----------------------------------------------------------------------------
(* The host process.  What it writes after a line that breaks the protocol *)
(* is never read, and is left out.                                         *)

CanWrite == proc = "up" /\ ~broke
Unanswered(r) == r \in asked /\ answer[r] = "none"

HostEvent(r) ==
  /\ CanWrite /\ Unanswered(r) /\ sent[r] < MaxEvents
  /\ sent' = [sent EXCEPT ![r] = @ + 1]
  /\ out' = Append(out, Event(r, sent'[r]))
  /\ UNCHANGED <<caller, pending, chan, reader, dropped>>
  /\ UNCHANGED <<proc, asked, answer, broke, exited>>

HostReply(r) ==
  /\ CanWrite /\ Unanswered(r)
  /\ \E w \in {"ok", "refused"} :
       /\ answer' = [answer EXCEPT ![r] = w]
       /\ out' = Append(out, Reply(r, w))
  /\ UNCHANGED <<caller, pending, chan, reader, dropped>>
  /\ UNCHANGED <<proc, asked, sent, broke, exited>>

HostBreaks ==
  /\ CanWrite
  /\ broke' = TRUE
  /\ out' = Append(out, Bad)
  /\ UNCHANGED <<caller, pending, chan, reader, dropped>>
  /\ UNCHANGED <<proc, asked, sent, answer, exited>>

HostExits ==
  /\ proc = "up"
  /\ proc' = "dead" /\ exited' = TRUE
  /\ UNCHANGED <<caller, pending, chan, reader, out, dropped>>
  /\ UNCHANGED <<asked, sent, answer, broke>>

Receive(r) == OnEvent(r) \/ Abandon(r) \/ OnReply(r) \/ OnClosed(r)
Read == Deliver \/ EndOfOutput \/ Clear

Next ==
  \/ \E r \in Requests :
       Begin(r) \/ Write(r) \/ WriteFails(r) \/ Receive(r)
         \/ HostEvent(r) \/ HostReply(r)
  \/ Drop \/ Read \/ HostBreaks \/ HostExits

(***************************************************************************)
(* The reader and the callers run; the host takes what is written to its   *)
(* input.  Nothing makes the host answer, nor a request come.              *)
(***************************************************************************)
Fairness ==
  /\ WF_vars(Read)
  /\ \A r \in Requests : WF_vars(Write(r) \/ WriteFails(r)) /\ WF_vars(Receive(r))

Spec == Init /\ [][Next]_vars
FairSpec == Spec /\ Fairness

-----------------------------------------------------------------------------
\* The lines of s for request r, in their order.
LinesFor(s, r) ==
  LET upTo[i \in 0 .. Len(s)] ==
        IF i = 0 THEN <<>>
        ELSE IF s[i].id = r THEN Append(upTo[i - 1], s[i]) ELSE upTo[i - 1]
  IN  upTo[Len(s)]

\* Those on their way to the reader.
OutFor(r) == LinesFor(out, r)

\* What the host has written for request r and its caller has not taken yet.
Owed(r) ==
  [i \in 1 .. sent[r] - got[r] |-> Event(r, got[r] + i)]
    \o (IF answer[r] = "none" THEN <<>> ELSE <<Reply(r, answer[r])>>)

(* host.rs, "which that request's caller receives in order": nothing the   *)
(* host wrote for a waiting request is lost, repeated, reordered or given  *)
(* to another one, whatever the other requests do.                         *)
InOrder ==
  \A r \in Requests : pc[r] = "waiting" => chan[r] \o OutFor(r) = Owed(r)

(* A request ends as the host answered it, after every one of its events,  *)
(* and a request the host has answered never ends as the host's failure,   *)
(* not even when the host exits or breaks the protocol right after.        *)
EndsAsAnswered ==
  \A r \in Requests :
    /\ pc[r] \in {"ok", "refused"} => answer[r] = pc[r] /\ got[r] = sent[r]
    /\ pc[r] = "failed" => answer[r] = "none"

(* host.rs, "other requests are unaffected": a request fails only because  *)
(* the host itself exited or broke the protocol, never because another     *)
(* caller went away.                                                       *)
FailedOnlyByHost ==
  \A r \in Requests : pc[r] = "failed" => broke \/ exited

(* Every request is settled once the host has answered it, exited or       *)
(* broken the protocol, unless it was registered after the reader cleared  *)
(* the map: nobody is left to end that one.                                *)
Settled ==
  \A r \in Requests :
    Outstanding(r) /\ (answer[r] # "none" \/ broke \/ proc = "dead")
      ~> ~Outstanding(r) \/ r \in late

(* What the documentation says without the exception: "A host that exits   *)
(* fails every outstanding request".  Violated: a host that broke the      *)
(* protocol while no request was outstanding is not stopped, takes the     *)
(* next request, and exits with nobody to tell its caller.                 *)
ExitFailsOutstanding ==
  \A r \in Requests : Outstanding(r) /\ proc = "dead" ~> ~Outstanding(r)
=============================================================================
