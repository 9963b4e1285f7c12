------------------------------ MODULE Pipeline ------------------------------
(***************************************************************************)
(* One pipeline session: the driver (Pipeline in pipeline/driver.rs) and   *)
(* the stages after it (serve_session in pipeline/stage.rs), in            *)
(* praecise-runtime/src.                                                   *)
(*                                                                         *)
(* The driver's caller generates: it clears the sequence, submits a prompt *)
(* in micro-batches, waits for each, then decodes token by token.  Stages  *)
(* are chained by links that keep order and lose nothing until they close. *)
(* Every thread of the code is an action or two: the compute loop, the     *)
(* writer to the next stage, the relay of what comes back up, the driver's *)
(* reader and writer.  A stage may fail a micro-batch, give up or die; an  *)
(* answer may be late.                                                     *)
(*                                                                         *)
(* A link's down queue stands for the writer's channel and the socket; its *)
(* up queue for the socket alone, which holds Socket frames.  Hidden       *)
(* states are left out but for what they were computed over: a frame is    *)
(* whole when every stage so far held all the rows before it.              *)
(***************************************************************************)
EXTENDS Integers, Sequences, FiniteSets

CONSTANTS
  Last,        \* index of the last stage (stage 0 is the driver)
  MaxInFlight, \* DriverOptions::max_in_flight
  Chunks,      \* micro-batches of a prompt
  Steps,       \* tokens decoded after it
  Runs,        \* bound: calls of generate
  Socket       \* bound: frames a socket holds on the way up

ASSUME PipelineAssumption ==
  /\ Last \in Nat \ {0} /\ MaxInFlight \in Nat \ {0} /\ Chunks \in Nat \ {0}
  /\ Steps \in Nat /\ Runs \in Nat /\ Socket \in Nat \ {0}

VARIABLES
  down,    \* the driver's down is Some
  pending, \* tickets in flight
  done,    \* answers not yet collected
  failed,  \* the stage the driver blames, 0 while it blames none
  next_ticket,
  inbox,   \* the driver's `up` channel
  call,    \* the caller: where it is in generate
  q,       \* per stage: frames on their way to it
  up,      \* per stage: frames it sent up its link
  link,    \* per stage: its link to the stage before it is open
  serving, \* per stage: its compute loop runs
  lost,    \* per stage: DownstreamFailed is queued
  writer,  \* per stage: its thread writing to the next stage runs
  relay,   \* per stage: its thread reading from the next stage runs
  cache,   \* per stage: the tickets whose rows its cache holds
  starts,  \* ghost: the first ticket of each call of generate
  culprit, \* ghost: the stage that failed, 0 while none has
  astray   \* ghost: a report named another stage, as Astray allows

driverVars == << down, pending, done, failed, next_ticket, call, starts >>
vars == << down, pending, done, failed, next_ticket, inbox, call, q, up, link,
           serving, lost, writer, relay, cache, starts, culprit, astray >>

Stages == 1 .. Last
All == -1 \* ALL_TICKETS
Tickets == 0 .. Runs * (Chunks + Steps) - 1

Forward(t, whole) == [kind |-> "forward", ticket |-> t, whole |-> whole]
Truncate == [kind |-> "truncate"]
Logits(t, whole) == [kind |-> "logits", ticket |-> t, whole |-> whole]
Failure(t, i) == [kind |-> "failure", ticket |-> t, stage |-> i]
Closed == [kind |-> "closed"]

DownFrames == {Forward(t, w) : t \in Tickets, w \in BOOLEAN} \cup {Truncate}
Answers ==
  {Logits(t, w) : t \in Tickets, w \in BOOLEAN} \cup
  {Failure(t, i) : t \in Tickets, i \in Stages}
UpFrames == Answers \cup {Failure(All, i) : i \in Stages}

Idle == [at |-> "idle", sent |-> 0, got |-> 0]

TypeOK ==
  /\ down \in BOOLEAN /\ failed \in 0 .. Last
  /\ culprit \in 0 .. Last /\ astray \in BOOLEAN
  /\ pending \subseteq Tickets /\ done \subseteq Answers
  /\ \A a \in done : a.ticket < next_ticket /\ a.ticket \notin pending
  /\ next_ticket \in Nat /\ starts \in Seq(0 .. next_ticket)
  /\ inbox \in Seq(UpFrames \cup {Closed})
  /\ call \in [at : {"idle", "run", "refused", "drain", "dropped"},
               sent : 0 .. Chunks + Steps, got : 0 .. Chunks + Steps]
  /\ q \in [Stages -> Seq(DownFrames)] /\ up \in [Stages -> Seq(UpFrames)]
  /\ \A i \in Stages : Len(up[i]) <= Socket
  /\ link \in [Stages -> BOOLEAN] /\ serving \in [Stages -> BOOLEAN]
  /\ lost \in [Stages -> BOOLEAN]
  /\ writer \in [0 .. Last - 1 -> BOOLEAN] /\ relay \in [0 .. Last - 1 -> BOOLEAN]
  /\ cache \in [0 .. Last -> SUBSET Tickets]

Init ==
  /\ down = TRUE /\ failed = 0 /\ culprit = 0 /\ astray = FALSE
  /\ pending = {} /\ done = {} /\ next_ticket = 0 /\ starts = << >>
  /\ inbox = << >> /\ call = Idle
  /\ q = [i \in Stages |-> << >>] /\ up = [i \in Stages |-> << >>]
  /\ link = [i \in Stages |-> TRUE] /\ serving = [i \in Stages |-> TRUE]
  /\ lost = [i \in Stages |-> FALSE]
  /\ writer = [i \in 0 .. Last - 1 |-> TRUE] /\ relay = [i \in 0 .. Last - 1 |-> TRUE]
  /\ cache = [i \in 0 .. Last |-> {}]

-----------------------------------------------------------------------------
(* Positions and caches. *)

Starts == {starts[i] : i \in DOMAIN starts}

StartOf(t) == CHOOSE s \in Starts : s <= t /\ \A k \in Starts : k <= t => k <= s

Position(t) == t - StartOf(t)

\* The engine takes rows at the position after the last one it holds, or at
\* any position while it holds none.
Fits(i, t) ==
  \/ cache[i] = {}
  \/ /\ \E k \in cache[i] : Position(k) = Position(t) - 1
     /\ \A k \in cache[i] : Position(k) < Position(t)

Whole(i, t) == cache[i] \cup {t} = StartOf(t) .. t

-----------------------------------------------------------------------------
(* The driver and its caller. *)

Sendable == down /\ writer[0]

\* A frame goes to the writer, or the call looks for a failure to return.
Send(frame, after) ==
  /\ q' = IF Sendable THEN [q EXCEPT ![1] = Append(@, frame)] ELSE q
  /\ call' = IF Sendable THEN after ELSE [Idle EXCEPT !.at = "refused"]

\* submit, before and between the waits of prefill and step.
Submits ==
  /\ call.at = "run"
  /\ \/ call.sent < Chunks
     \/ call.sent < Chunks + Steps /\ call.got = call.sent

Waits == call.at = "run" /\ ~Submits /\ call.got < call.sent

Awaited == next_ticket - call.sent + call.got

Returned == call' = Idle

\* generate clears the sequence on every stage first.
Begin ==
  /\ call.at = "idle" /\ failed = 0
  /\ Len(starts) < Runs
  /\ cache' = [cache EXCEPT ![0] = {}]
  /\ Send(Truncate, [Idle EXCEPT !.at = "run"])
  /\ starts' = Append(starts, next_ticket)
  /\ UNCHANGED << down, pending, done, failed, next_ticket, inbox, up, link,
                  serving, lost, writer, relay, culprit, astray >>

Submit ==
  /\ Submits /\ failed = 0
  /\ Cardinality(pending) < MaxInFlight
  /\ Fits(0, next_ticket)
  /\ cache' = [cache EXCEPT ![0] = @ \cup {next_ticket}]
  /\ Send(Forward(next_ticket, Whole(0, next_ticket)), [call EXCEPT !.sent = @ + 1])
  /\ pending' = IF Sendable THEN pending \cup {next_ticket} ELSE pending
  /\ next_ticket' = next_ticket + 1
  /\ UNCHANGED << down, done, failed, inbox, up, link, serving, lost, writer,
                  relay, starts, culprit, astray >>

\* The local blocks refuse the micro-batch: an engine error.
SubmitFails ==
  /\ Submits /\ failed = 0
  /\ Cardinality(pending) < MaxInFlight
  /\ Returned
  /\ UNCHANGED << down, pending, done, failed, next_ticket, inbox, q, up, link,
                  serving, lost, writer, relay, cache, starts, culprit, astray >>

\* fail(): the first failure stays; the link closes.
Fail(i) ==
  /\ failed' = i
  /\ down' = FALSE
  /\ link' = [link EXCEPT ![1] = FALSE]

Ended(t) == {a \in done : a.ticket = t}

Blocked ==
  \/ Submits /\ Cardinality(pending) >= MaxInFlight
  \/ Waits /\ Ended(Awaited) = {}
  \/ call.at = "refused"

Settled_StillPending(a) ==
  /\ done' = IF a.ticket \in pending THEN done \cup {a} ELSE done
  /\ UNCHANGED << down, pending, failed, link >>

Settled(a) ==
  /\ pending' = pending \ {a.ticket}
  /\ done' = IF a.ticket \in pending THEN done \cup {a} ELSE done
  /\ UNCHANGED << down, failed, link >>

\* A report that a stage further down failed the chain.
Report(item) == item.kind = "failure" /\ item.ticket = All

Reported(items) == \E k \in DOMAIN items : Report(items[k])

\* One item of the channel; a failed send takes one too before it returns.
Pump ==
  /\ Blocked /\ failed = 0
  /\ inbox # << >>
  /\ LET item == Head(inbox) IN
     \/ item.kind = "closed" /\ call' = [call EXCEPT !.at = "drain"]
        /\ UNCHANGED << down, pending, done, failed, link >>
     \/ Report(item)
        /\ Fail(item.stage) /\ Returned /\ UNCHANGED << pending, done >>
     \/ item.kind # "closed" /\ item.ticket # All
        /\ Settled(item)
        /\ call' = IF call.at = "refused" THEN Idle ELSE call
  /\ inbox' = Tail(inbox)
  /\ UNCHANGED << next_ticket, q, up, serving, lost, writer, relay, cache,
                  starts, culprit, astray >>

Drain_FirstStage ==
  /\ call.at = "drain"
  /\ Fail(1) /\ Returned
  /\ UNCHANGED << pending, done, next_ticket, inbox, q, up, serving, lost, writer,
                  relay, cache, starts, culprit, astray >>

\* A closed link: what is still queued may hold the report of a stage further
\* down.  The wait for it ends with a pause of 200 ms.
Drain ==
  /\ call.at = "drain"
  /\ \/ /\ inbox = << >>
        /\ Fail(1) /\ Returned
        /\ astray' = (astray \/ Reported(up[1]))
        /\ UNCHANGED inbox
     \/ /\ inbox # << >>
        /\ inbox' = Tail(inbox)
        /\ IF Report(Head(inbox)) THEN Fail(Head(inbox).stage) /\ Returned
           ELSE UNCHANGED << down, failed, link, call >>
        /\ UNCHANGED astray
  /\ UNCHANGED << pending, done, next_ticket, q, up, serving, lost, writer,
                  relay, cache, starts, culprit >>

TimeOut_Forgets ==
  /\ Blocked /\ failed = 0 /\ inbox = << >>
  /\ pending' = {} /\ Returned
  /\ UNCHANGED << down, done, failed, next_ticket, inbox, q, up, link, serving,
                  lost, writer, relay, cache, starts, culprit, astray >>

\* No answer within answer_timeout, or a send on a closed link that found
\* nothing to report: the call fails and nothing else changes.
TimeOut ==
  /\ Blocked /\ failed = 0 /\ inbox = << >>
  /\ Returned
  /\ UNCHANGED << down, pending, done, failed, next_ticket, inbox, q, up, link,
                  serving, lost, writer, relay, cache, starts, culprit, astray >>

Collect_IgnoresFailures ==
  /\ Waits
  /\ \E a \in Ended(Awaited) :
       /\ done' = done \ {a}
       /\ call' = IF call.got + 1 = Chunks + Steps THEN Idle
                  ELSE [call EXCEPT !.got = @ + 1]
  /\ UNCHANGED << down, pending, failed, next_ticket, inbox, q, up, link, serving,
                  lost, writer, relay, cache, starts, culprit, astray >>

\* wait() finds its ticket's answer.
Collect ==
  /\ Waits
  /\ \E a \in Ended(Awaited) :
       /\ done' = done \ {a}
       /\ call' = IF a.kind = "failure" \/ call.got + 1 = Chunks + Steps THEN Idle
                  ELSE [call EXCEPT !.got = @ + 1]
  /\ UNCHANGED << down, pending, failed, next_ticket, inbox, q, up, link, serving,
                  lost, writer, relay, cache, starts, culprit, astray >>

\* The Pipeline is dropped between two calls.
Drop ==
  /\ call.at = "idle"
  /\ call' = [Idle EXCEPT !.at = "dropped"]
  /\ down' = FALSE
  /\ link' = [link EXCEPT ![1] = FALSE]
  /\ UNCHANGED << pending, done, failed, next_ticket, inbox, q, up, serving, lost,
                  writer, relay, cache, starts, culprit, astray >>

\* The driver's reader thread.
Read ==
  /\ relay[0]
  /\ \/ /\ up[1] # << >>
        /\ inbox' = Append(inbox, Head(up[1]))
        /\ up' = [up EXCEPT ![1] = Tail(@)]
        /\ UNCHANGED relay
     \/ /\ up[1] = << >> /\ ~link[1]
        /\ inbox' = Append(inbox, Closed)
        /\ relay' = [relay EXCEPT ![0] = FALSE]
        /\ UNCHANGED up
  /\ UNCHANGED << driverVars, q, link, serving, lost, writer, cache, culprit, astray >>

\* The driver's writer thread finds the link closed.
WriteFails ==
  /\ writer[0] /\ ~link[1] /\ q[1] # << >>
  /\ writer' = [writer EXCEPT ![0] = FALSE]
  /\ inbox' = Append(inbox, Closed)
  /\ UNCHANGED << driverVars, q, up, link, serving, lost, relay, cache, culprit, astray >>

-----------------------------------------------------------------------------
(* A stage. *)

Room(i) == link[i] /\ Len(up[i]) < Socket

SendUp(i, frame) == up' = [up EXCEPT ![i] = Append(@, frame)]

Frame(i) == Head(q[i])

Took(i) == [q EXCEPT ![i] = Tail(@)]

Passed(i, frame) == [Took(i) EXCEPT ![i + 1] = Append(@, frame)]

StageDecodes(i) ==
  /\ serving[i] /\ q[i] # << >> /\ Frame(i).kind = "forward"
  /\ Fits(i, Frame(i).ticket)
  /\ cache' = [cache EXCEPT ![i] = @ \cup {Frame(i).ticket}]
  /\ LET whole == Frame(i).whole /\ Whole(i, Frame(i).ticket) IN
     \/ /\ i < Last /\ writer[i]
        /\ q' = Passed(i, Forward(Frame(i).ticket, whole))
        /\ UNCHANGED up
     \/ /\ i = Last /\ Room(i)
        /\ SendUp(i, Logits(Frame(i).ticket, whole))
        /\ q' = Took(i)
  /\ UNCHANGED << driverVars, inbox, link, serving, lost, writer, relay, culprit, astray >>

\* The stage goes on with the next micro-batch.
StageFails(i) ==
  /\ serving[i] /\ q[i] # << >> /\ Frame(i).kind = "forward" /\ Room(i)
  /\ SendUp(i, Failure(Frame(i).ticket, i))
  /\ q' = Took(i)
  /\ UNCHANGED << driverVars, inbox, link, serving, lost, writer, relay, cache, culprit, astray >>

StageTruncates(i) ==
  /\ serving[i] /\ q[i] # << >> /\ Frame(i).kind = "truncate"
  /\ cache' = [cache EXCEPT ![i] = {}]
  /\ q' = IF i < Last /\ writer[i] THEN Passed(i, Truncate) ELSE Took(i)
  /\ UNCHANGED << driverVars, inbox, up, link, serving, lost, writer, relay, culprit, astray >>

\* The compute loop ends and the link after it closes first.
Ends(i) ==
  /\ serving[i]
  /\ serving' = [serving EXCEPT ![i] = FALSE]
  /\ link' = [k \in Stages |-> link[k] /\ k # i + 1]
  /\ UNCHANGED << driverVars, inbox, q, up, lost, writer, relay, cache, astray >>

\* The link before it closed, the one after it failed, or the thread writing to
\* the next stage is gone.
SessionEnds(i) ==
  /\ ~link[i] \/ lost[i]
  /\ Ends(i)
  /\ UNCHANGED culprit

\* An error of its own over a frame, reported to nobody: the frame does not open
\* or decode, its truncate is refused, its message is not one for a stage.
GivesUp(i) ==
  /\ q[i] # << >> /\ culprit = 0
  /\ culprit' = i
  /\ Ends(i)

\* What the stage had not taken is lost with the link, or some of it is still
\* with the writer before it, to whom only that there is some matters.
LosesSome(i) == q' \in {q, [q EXCEPT ![i] = << >>]}

\* Then the link before it closes.
UpCloses(i) ==
  /\ ~serving[i] /\ link[i]
  /\ link' = [link EXCEPT ![i] = FALSE]
  /\ LosesSome(i)
  /\ UNCHANGED << driverVars, inbox, up, serving, lost, writer, relay, cache,
                  culprit, astray >>

\* Until then the threads that write to the next stage and read from it may
\* take the closing of their own session for a failure of that stage; and the
\* writer may find the link closed with a report still to be read from it.
Astray(i) == culprit = i \/ Reported(up[i + 1])

\* fail_all, then DownstreamFailed.
Reports(i) ==
  /\ Room(i) \/ ~link[i]
  /\ up' = IF link[i] THEN [up EXCEPT ![i] = Append(@, Failure(All, i + 1))] ELSE up
  /\ lost' = [lost EXCEPT ![i] = TRUE]
  /\ astray' = (astray \/ Astray(i))

\* The thread writing to the next stage finds the link closed.
StageWriteFails(i) ==
  /\ i < Last /\ writer[i] /\ ~link[i + 1] /\ q[i + 1] # << >>
  /\ writer' = [writer EXCEPT ![i] = FALSE]
  /\ Reports(i)
  /\ UNCHANGED << driverVars, inbox, q, link, serving, relay, cache, culprit >>

StageRelays_Silent(i) ==
  /\ i < Last /\ relay[i]
  /\ IF up[i + 1] # << >>
     THEN /\ Room(i)
          /\ up' = [up EXCEPT ![i] = Append(@, Head(up[i + 1])), ![i + 1] = Tail(@)]
          /\ UNCHANGED relay
     ELSE ~link[i + 1] /\ relay' = [relay EXCEPT ![i] = FALSE] /\ UNCHANGED up
  /\ UNCHANGED << driverVars, inbox, q, link, serving, lost, writer, cache, culprit, astray >>

\* What comes back up is passed on as it is.
StageRelays(i) ==
  /\ i < Last /\ relay[i]
  /\ \/ /\ up[i + 1] # << >> /\ Room(i)
        /\ up' = [up EXCEPT ![i] = Append(@, Head(up[i + 1])), ![i + 1] = Tail(@)]
        /\ UNCHANGED << lost, relay, astray >>
     \/ /\ up[i + 1] # << >> /\ ~link[i]
        /\ relay' = [relay EXCEPT ![i] = FALSE]
        /\ UNCHANGED << up, lost, astray >>
     \/ /\ up[i + 1] = << >> /\ ~link[i + 1]
        /\ relay' = [relay EXCEPT ![i] = FALSE]
        /\ Reports(i)
  /\ UNCHANGED << driverVars, inbox, q, link, serving, writer, cache, culprit >>

Others(i, running) == [k \in 0 .. Last - 1 |-> running[k] /\ k # i]

\* The stage's process dies, or the link to it is cut: its threads are gone and
\* both its links close.  A session that fails as it opens, before the first
\* call, reports it.
Dies(i) ==
  /\ serving[i] /\ culprit = 0
  /\ culprit' = i
  /\ serving' = [serving EXCEPT ![i] = FALSE]
  /\ writer' = Others(i, writer) /\ relay' = Others(i, relay)
  /\ link' = [k \in Stages |-> link[k] /\ k \notin {i, i + 1}]
  /\ LosesSome(i)
  /\ \/ UNCHANGED up
     \/ starts = << >> /\ Room(i) /\ SendUp(i, Failure(All, i))
  /\ UNCHANGED << driverVars, inbox, lost, cache, astray >>

Threads(i) ==
  \/ StageDecodes(i) \/ StageTruncates(i) \/ SessionEnds(i) \/ UpCloses(i)
  \/ StageWriteFails(i) \/ StageRelays(i)

Caller == Submit \/ Pump \/ Drain \/ Collect

Next ==
  \/ Begin \/ Caller \/ SubmitFails \/ TimeOut \/ Drop
  \/ Read \/ WriteFails
  \/ \E i \in Stages : Threads(i) \/ StageFails(i) \/ GivesUp(i) \/ Dies(i)

\* Threads run; nothing need ever fail, time out, begin or be dropped.
Fairness ==
  /\ WF_vars(Caller) /\ WF_vars(Read) /\ WF_vars(WriteFails)
  /\ \A i \in Stages :
       /\ WF_vars(StageDecodes(i) \/ StageTruncates(i) \/ StageFails(i))
       /\ WF_vars(SessionEnds(i)) /\ WF_vars(UpCloses(i))
       /\ WF_vars(StageWriteFails(i)) /\ WF_vars(StageRelays(i))

Spec == Init /\ [][Next]_vars /\ Fairness

-----------------------------------------------------------------------------
(* Properties. *)

\* Nothing is sampled from a part of the sequence.
SampledFrom ==
  {a \in done : Waits /\ a.ticket = Awaited /\ a.kind = "logits" /\ call.got + 1 >= Chunks}

\* A reply is sampled only from logits that every stage computed over exactly
\* the rows this call has submitted so far: none missing after a micro-batch
\* that one stage refused while others took the next ones, none left over from
\* a call that failed or timed out with answers still on their way.
SampledWhole == \A a \in SampledFrom : a.whole

Places(t) ==
  Cardinality({i \in Stages : \E k \in DOMAIN q[i] : q[i][k].kind = "forward" /\ q[i][k].ticket = t})
  + Cardinality({i \in Stages : \E k \in DOMAIN up[i] : up[i][k].ticket = t})
  + Cardinality({k \in DOMAIN inbox : inbox[k].kind # "closed" /\ inbox[k].ticket = t})

\* While no stage has failed, every ticket in flight is in exactly one place on
\* its way down or up: it is never dropped, answered twice or left in a stage,
\* so submit's wait at max_in_flight always ends and a late answer frees its
\* place for the calls after the one that gave up.
InFlightOnce ==
  (culprit = 0 /\ link[1]) => \A t \in Tickets : Places(t) = IF t \in pending THEN 1 ELSE 0

\* The stage the driver blames for a failed chain is the one that failed, however
\* many links close in its wake and in whatever order their ends see it, and a
\* chain in which nothing failed is never blamed.  But for the cases the ghost
\* names: a writer, or the driver's pause, ahead of a report that is still to be
\* read from a closed link, and the threads of a stage that gave up by itself.
BlamesTheFailed == failed # 0 => culprit # 0 /\ (failed = culprit \/ astray)

\* No call hangs, with no time limit needed: however full the links, however
\* many micro-batches fail and whichever stage dies, the caller gets its answer
\* or its error.
CallReturns == call.at \in {"run", "refused", "drain"} ~> call.at = "idle"
=============================================================================
