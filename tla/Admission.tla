----------------------------- MODULE Admission -----------------------------
(***************************************************************************)
(* Slot accounting and the fair queue of one model: Scheduler in           *)
(* praecise-runtime/src/admission.rs.                                      *)
(*                                                                         *)
(* The scheduler is pure state; the host that owns it holds the lock, so a *)
(* host's decide, leave and start are one action.  A request whose caller  *)
(* is known joins the fair queue and is decided by rank; one that names    *)
(* nobody only counts itself in and out and is decided by what is free.    *)
(*                                                                         *)
(* The cost model is left out but for what it decides: the output it       *)
(* expects is any share of the budget the arithmetic can return, and the   *)
(* wait it estimates may or may not exceed the class's budget.             *)
(***************************************************************************)
EXTENDS Integers, FiniteSets, FiniteSetsExt, SequencesExt

CONSTANTS
  Clients,    \* caller identities
  Requests,   \* bound: the requests that ever arrive
  Anonymous,  \* the requests that name no caller
  ClientOf,   \* the caller of each request (any, for an anonymous one)
  ClassOf,    \* "interactive" or "batch"
  Prompt,     \* Shape::prompt_tokens
  Budget,     \* Shape::max_output_tokens
  Weight,     \* Client::weight
  SlotCounts, \* the slot counts a reload may set
  MaxDepth,   \* Policy::max_queue_depth
  MinOutput,  \* CostModel::MIN_EXPECTED_OUTPUT_TOKENS
  Scale,      \* SCALE
  InputCost,  \* W_INPUT
  OutputCost  \* W_OUTPUT

ASSUME RequestsAssumption ==
  /\ Anonymous \subseteq Requests
  /\ ClientOf \in [Requests -> Clients]
  /\ ClassOf \in [Requests -> {"interactive", "batch"}]
  /\ Prompt \in [Requests -> Nat]
  /\ Budget \in [Requests -> Nat]
ASSUME FiniteAssumption == IsFiniteSet(Requests)
ASSUME WeightAssumption == Weight \in [Clients -> Nat \ {0}]
ASSUME SlotsAssumption ==
  SlotCounts \subseteq Nat \ {0} /\ SlotCounts # {} /\ IsFiniteSet(SlotCounts)
ASSUME CostAssumption ==
  /\ MaxDepth \in Nat /\ MinOutput \in Nat
  /\ Scale \in Nat /\ InputCost \in Nat /\ OutputCost \in Nat

VARIABLES
  slots,         \* Scheduler::slots
  fair,          \* the requests in the fair queue, in the order they joined
  waiting,       \* how many anonymous requests are queued
  running,       \* the requests being served
  charged,       \* Running::charged_output, of the requests that have a caller
  counters,      \* service received per caller
  last_departed, \* counter of the last caller to leave
  phase,         \* where each request is in its host
  produced,      \* ghost: the output a finished request was accounted for
  passed         \* ghost: callers last admitted while the waiter had no slot due

vars == << slots, fair, waiting, running, charged, counters, last_departed,
           phase, produced, passed >>

Known == Requests \ Anonymous
Waiters == Range(fair)

TypeOK ==
  /\ slots \in SlotCounts
  /\ fair \in Seq(Known)
  /\ waiting = Cardinality({r \in Anonymous : phase[r] = "queued"})
  /\ running = {r \in Requests : phase[r] = "running"}
  /\ Waiters = {r \in Known : phase[r] = "waiting"}
  /\ charged \in [Requests -> Nat]
  /\ counters \in [Clients -> Nat]
  /\ last_departed \in Nat
  /\ phase \in [Requests -> {"new", "waiting", "queued", "running", "gone",
                             "finished"}]
  /\ produced \in [Requests -> Nat]
  /\ passed \in [Requests -> SUBSET Clients]

-----------------------------------------------------------------------------
(* The arithmetic of a charge. *)

Less(a, b) == IF a >= b THEN a - b ELSE 0

Larger(a, b) == IF a >= b THEN a ELSE b

Smaller(a, b) == IF a >= b THEN b ELSE a

Units(tokens, per_token, weight) == (tokens * per_token * Scale) \div weight

WeightOf(r) == Weight[ClientOf[r]]

InputCharge(r) == Units(Prompt[r], InputCost, WeightOf(r))

OutputCharge(r, tokens) == Units(tokens, OutputCost, WeightOf(r))

\* The learned share of the budget lies between one percent of it and all of
\* it, and is never priced below MinOutput while the budget allows that much.
ExpectedOutputs(r) == Smaller(MinOutput, Budget[r]) .. Budget[r]

-----------------------------------------------------------------------------
(* Who is active, and in what order the queue is served. *)

Active(queue, serving) == {ClientOf[r] : r \in Range(queue) \cup (serving \ Anonymous)}

ActiveMin(active, counts) ==
  CHOOSE n \in {counts[c] : c \in active} : \A c \in active : n <= counts[c]

Floor ==
  IF Active(fair, running) = {} THEN last_departed
  ELSE ActiveMin(Active(fair, running), counters)

\* note_departure, after the step: `serving` and `counts` are what it left.
NoteDeparture(c, serving, counts) ==
  last_departed' = IF c \in Active(fair, serving) THEN last_departed ELSE counts[c]

ClassRank(r) == IF ClassOf[r] = "interactive" THEN 0 ELSE 1

Joined(r) == CHOOSE i \in DOMAIN fair : fair[i] = r

Before_Arrival(v, w) ==
  \/ ClassRank(v) < ClassRank(w)
  \/ ClassRank(v) = ClassRank(w) /\ Joined(v) < Joined(w)

Before(v, w) ==
  \/ ClassRank(v) < ClassRank(w)
  \/ /\ ClassRank(v) = ClassRank(w)
     /\ \/ counters[ClientOf[v]] < counters[ClientOf[w]]
        \/ /\ counters[ClientOf[v]] = counters[ClientOf[w]]
           /\ Joined(v) < Joined(w)

Rank(w) == Cardinality({v \in Waiters : Before(v, w)})

Free == Less(slots, Cardinality(running))

Due(w) == Rank(w) < Free

DecideWaiter_AnyFree(w) ==
  IF Free > 0 THEN {"admit"} ELSE {"wait too long", "wait"}

\* What decide_waiter may answer; which of the last two depends on the clock.
DecideWaiter(w) ==
  CASE Due(w) -> {"admit"}
    [] ~Due(w) /\ Rank(w) >= MaxDepth -> {"queue full"}
    [] OTHER -> {"wait too long", "wait"}

Decide ==
  CASE Cardinality(running) < slots -> {"admit"}
    [] Cardinality(running) >= slots /\ waiting >= MaxDepth -> {"queue full"}
    [] OTHER -> {"wait too long", "wait"}

Refusals == {"queue full", "wait too long"}

-----------------------------------------------------------------------------
Init ==
  /\ slots \in SlotCounts
  /\ fair = << >>
  /\ waiting = 0
  /\ running = {}
  /\ charged = [r \in Requests |-> 0]
  /\ counters = [c \in Clients |-> 0]
  /\ last_departed = 0
  /\ phase = [r \in Requests |-> "new"]
  /\ produced = [r \in Requests |-> 0]
  /\ passed = [r \in Requests |-> {}]

Lifted_Never(c) == counters

Lifted(c) ==
  IF c \in Active(fair, running) THEN counters
  ELSE [counters EXCEPT ![c] = Larger(@, Floor)]

Join(r) ==
  /\ r \in Known /\ phase[r] = "new"
  /\ counters' = Lifted(ClientOf[r])
  /\ fair' = Append(fair, r)
  /\ phase' = [phase EXCEPT ![r] = "waiting"]
  /\ UNCHANGED << slots, waiting, running, charged, last_departed, produced, passed >>

\* Refused, or the caller is gone.
Leave(r, why) ==
  /\ r \in Waiters
  /\ why \in DecideWaiter(r) \cap Refusals \/ why = "gone"
  /\ fair' = RemoveAt(fair, Joined(r))
  /\ phase' = [phase EXCEPT ![r] = "gone"]
  /\ passed' = [passed EXCEPT ![r] = {}]
  /\ UNCHANGED << slots, waiting, running, charged, counters, last_departed, produced >>

\* start_for charges the prompt, and the output in advance.
StartFor(r, expected) ==
  /\ running' = running \cup {r}
  /\ charged' = [charged EXCEPT ![r] = expected]
  /\ counters' = [counters EXCEPT ![ClientOf[r]] =
                    @ + InputCharge(r) + OutputCharge(r, expected)]

Passing(r) ==
  [w \in Requests |->
     IF w \notin Waiters \ {r} THEN {}
     ELSE IF Due(w) THEN passed[w] \ {ClientOf[r]}
     ELSE passed[w] \cup {ClientOf[r]}]

Admit(r, expected) ==
  /\ r \in Waiters
  /\ "admit" \in DecideWaiter(r)
  /\ fair' = RemoveAt(fair, Joined(r))
  /\ StartFor(r, expected)
  /\ phase' = [phase EXCEPT ![r] = "running"]
  /\ passed' = Passing(r)
  /\ UNCHANGED << slots, waiting, last_departed, produced >>

\* Requests that name no caller: decide, enqueue and dequeue, start.
Enqueue(r) ==
  /\ r \in Anonymous /\ phase[r] = "new" /\ "wait" \in Decide
  /\ waiting' = waiting + 1
  /\ phase' = [phase EXCEPT ![r] = "queued"]
  /\ UNCHANGED << slots, fair, running, charged, counters, last_departed, produced, passed >>

Dequeued_Never(r) == waiting

Dequeued(r) == IF phase[r] = "queued" THEN Less(waiting, 1) ELSE waiting

\* Charged to nobody.
Start(r) ==
  /\ r \in Anonymous /\ phase[r] \in {"new", "queued"} /\ "admit" \in Decide
  /\ waiting' = Dequeued(r)
  /\ running' = running \cup {r}
  /\ phase' = [phase EXCEPT ![r] = "running"]
  /\ UNCHANGED << slots, fair, charged, counters, last_departed, produced, passed >>

\* The class this caller waits in only sets the budget of its wait.
TurnAway(r, why) ==
  /\ r \in Anonymous
  /\ \/ phase[r] \in {"new", "queued"} /\ why \in Decide \cap Refusals
     \/ phase[r] = "queued" /\ why = "gone"
  /\ waiting' = Dequeued(r)
  /\ phase' = [phase EXCEPT ![r] = "gone"]
  /\ UNCHANGED << slots, fair, running, charged, counters, last_departed, produced, passed >>

Settle(r, counts) ==
  /\ running' = running \ {r}
  /\ charged' = [charged EXCEPT ![r] = 0]
  /\ IF r \in Known
     THEN /\ counters' = counts
          /\ NoteDeparture(ClientOf[r], running \ {r}, counts)
     ELSE UNCHANGED << counters, last_departed >>

Refunded_Ceiling(r) ==
  [counters EXCEPT ![ClientOf[r]] =
     Less(@, InputCharge(r) + OutputCharge(r, Budget[r]))]

Refunded(r) ==
  [counters EXCEPT ![ClientOf[r]] =
     Less(@, InputCharge(r) + OutputCharge(r, charged[r]))]

Abort(r) ==
  /\ r \in running
  /\ Settle(r, Refunded(r))
  /\ phase' = [phase EXCEPT ![r] = "gone"]
  /\ UNCHANGED << slots, fair, waiting, produced, passed >>

Reconciled(r, generated) ==
  [counters EXCEPT ![ClientOf[r]] =
     IF generated = 0 THEN @
     ELSE IF generated >= charged[r] THEN @ + OutputCharge(r, generated - charged[r])
     ELSE Less(@, OutputCharge(r, charged[r] - generated))]

Finish(r, generated) ==
  /\ r \in running
  /\ Settle(r, Reconciled(r, generated))
  /\ phase' = [phase EXCEPT ![r] = "finished"]
  /\ produced' = [produced EXCEPT ![r] =
                    IF generated = 0 \/ r \in Anonymous THEN charged[r] ELSE generated]
  /\ UNCHANGED << slots, fair, waiting, passed >>

SetSlots(n) ==
  /\ n # slots
  /\ slots' = n
  /\ UNCHANGED << fair, waiting, running, charged, counters, last_departed,
                  phase, produced, passed >>

Next ==
  \/ \E r \in Requests : Join(r) \/ Enqueue(r) \/ Start(r) \/ Abort(r)
  \/ \E r \in Requests, why \in Refusals \cup {"gone"} : Leave(r, why) \/ TurnAway(r, why)
  \/ \E r \in Requests : \E n \in ExpectedOutputs(r) : Admit(r, n)
  \/ \E r \in Requests : \E n \in 0 .. Budget[r] : Finish(r, n)
  \/ \E n \in SlotCounts : SetSlots(n)

Spec == Init /\ [][Next]_vars

-----------------------------------------------------------------------------
(* Properties. *)

Of(c, outcome) == {r \in Known : ClientOf[r] = c /\ phase[r] = outcome}

\* What each request obliges its caller to: the service it had, if it finished,
\* or what it was charged in advance, if it runs.
Owed(c) ==
  [r \in Known |->
     IF ClientOf[r] # c THEN 0
     ELSE IF phase[r] = "finished" THEN InputCharge(r) + OutputCharge(r, produced[r])
     ELSE IF phase[r] = "running" THEN InputCharge(r) + OutputCharge(r, charged[r])
     ELSE 0]

\* A caller's counter never falls below what it owes: the service its finished
\* requests really had, and what its running ones were charged in advance, but
\* for what rounding loses, a unit per finished request.  So no refund is ever
\* cut short by the subtraction's floor at zero and none gives back more than
\* was taken, whatever came between the charge and the refund.
ServicePaid ==
  \A c \in Clients :
    counters[c] + Cardinality(Of(c, "finished")) >= FoldFunction(+, 0, Owed(c))

MaxSlots == CHOOSE n \in SlotCounts : \A k \in SlotCounts : k <= n

FullCharge ==
  LET full == {InputCharge(r) + OutputCharge(r, Budget[r]) : r \in Known}
  IN CHOOSE n \in full : \A k \in full : k <= n

\* No caller runs away from one that waits: while an interactive request has no
\* slot due to it, whoever is served ahead of it ends at most one slot set of
\* full requests beyond its caller, "however long the heavy one has been
\* queued" (decide_waiter) and whatever the refunds and slot changes between.
NoRunaway ==
  \A w \in Waiters : ClassOf[w] = "interactive" =>
    \A c \in passed[w] \ {ClientOf[w]} :
      counters[c] <= counters[ClientOf[w]] + MaxSlots * FullCharge

\* A free slot that is due to a waiter stays due to it while the queue admits
\* other callers: the admission of one ranked behind it only ever takes a slot
\* beyond those that the waiters before it need.  (Anonymous requests are not
\* ranked: decide gives them any free slot, this one included.)
PlaceKept ==
  [][\A r \in Known, w \in Known :
       r \in running' \ running /\ r # w /\ ClientOf[r] # ClientOf[w]
         /\ w \in Waiters /\ Due(w)
       => Due(w)']_vars

Refund(c) == counters[c] - counters'[c]

\* The line newcomers are lifted to does not go back, so credit cannot be
\* hoarded by being away: it falls only by what a request refunds, or when
\* waiters that were never served are the last to go (leave notes no
\* departure, so last_departed is then that of an earlier caller).
FloorForward ==
  [][ \/ Floor' >= Floor
      \/ \E c \in Clients : Refund(c) > 0 /\ Floor' + Refund(c) >= Floor
      \/ Waiters' # Waiters /\ Active(fair', running') = {} ]_vars
=============================================================================
