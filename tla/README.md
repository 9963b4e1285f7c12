# Formal models of Praecise Engine

TLA+ modules that model the concurrent core of Praecise Engine, TLC
configurations that check them on small instances, and TLAPS proofs of their
central invariants for every value of the constants. Everything is written from
the source; line numbers refer to it.

    tlc -workers 2 -config MCBatch.cfg MCBatch.tla     # one run
    tlapm Engines_proof.tla                            # one proof module

`PROJECT.json` lists the components, the runs, the source lines every
definition stands for, the hazards and the properties that cover them, and for
every property a small change of the model, the kind of slip a change to the
code could make, that the property catches.

## 1. The system

Praecise Engine puts an acceleration layer between an application and its
inference backends. The core logic, leaving numeric code aside, is about who
may use a scarce thing (a host process, the GPU's memory, a sequence slot, a
cached prefix) and what is promised to whoever waits for it.

| Component (source) | State | Operations | Interacts with |
|---|---|---|---|
| **Runtime host protocol** (`praecise-host/src/host.rs`) | map of outstanding requests, one channel each, the child process, its pipes | `start`, `call_streaming`, reader thread, `Drop` | child process over pipes; called by the supervisor |
| **Hosted model supervisor** (`engines.rs` 347-522, `generation.rs`) | current host, failure count, starting/stopped flags, condition variable | `generate`/`call`, `running`, `start`, `exited`, `restart_locked`, `stop` | owns runtime hosts, published by `Engines::serve` |
| **Engine claims and memory budget** (`engines.rs` 50-321) | table of held models, table of reserved bytes, each under its own lock | `claim`, `serve`, `release`, `Claim::commit`, drop | starts and stops hosted models |
| **Batching scheduler** (`praecise-runtime/src/batching.rs`, `stream.rs`) | submission channel, sequence slots, cache record per slot, draining results, the decoder's memory | `submit`, the loop (sweep, admit, decode), shutdown | clients over channels, stream readers, the decoder |
| **Prefix reuse** (`prefix_cache.rs`) | token identities, namespace and checkpoints of a slot's memory | `shared_prefix`, `plan_rewind`, `checkpoint_cuts`, checkpoint store | called by the scheduler |
| **Admission and queueing** (`admission.rs`) | running tickets, waiters, service counter per caller | `join`, `decide_waiter`, `start_for`, `finish`, `abort`, `leave` | in front of a scheduler |
| **Sequence migration** (`kv_migration.rs`, `batching.rs` 2229-2370) | per-sequence exporter, blob chain | export (full, delta, hand-off), resume | scheduler, another engine |
| **Pipeline of stages** (`pipeline/`) | tickets in flight, per-stage caches, links | `submit`, `wait`, `prefill`, `truncate`, stage session | driver and stages over links |
| Job engines (`job.rs`) | one child, its process tree, a time limit | `run_job` | child process |
| **Expert residency** (`praecise-moe/src/exec.rs` 1240-1672, 1986-2003) | memory tier, disk tier, byte total, LRU ticks | `load_expert`, `resolve`, eviction, `unload_expert` | concurrent callers, file system |
| Diffusion-style text engine (`denoise_engine.rs`) | slots, canvases | a second scheduler loop | shares `drain_streams` with the first |
| Everything else | - | numeric kernels, codecs, file formats, training arithmetic, bindings | see section 8 |

What makes each of them hard, and correct:

* *Runtime host.* One reader thread, any number of callers, a process that may
  break the protocol or exit between any two lines. Correct: each event and
  reply reaches its own request, in order; a request ends as the host answered
  it; nobody waits for ever.
* *Supervisor.* Several requests may see one exit; a start runs in a thread of
  its own while callers sleep; failures are counted and limited. Correct: starts
  exclude each other, no sleeper is forgotten, a spent supervisor stays stopped.
* *Claims.* Two tables under two locks, slow loads outside both. Correct: one
  copy of a model, bytes reserved exactly while it is held, no orphaned host.
* *Scheduler.* A step moves every sequence before the decoder is asked whether
  it has room; slots keep the memory of old requests for new ones; clients leave
  and readers stall between any two steps. Correct: no accepted request is lost,
  the records of a slot say what its memory holds, a sequence generates from its
  own whole prompt and nothing else.
* *Admission.* Charges are taken in advance and settled later, while callers join,
  leave and are re-ranked by every charge. Correct: nobody is refunded more than
  was taken, a waiter's due slot stays due, being away earns no credit.
* *Migration.* A sequence is copied while it decodes, in pieces a client has to
  collect and put together again, over channels it may drop. Correct: a request is
  in one place, and what is resumed is exactly what was exported.
* *Pipeline.* Micro-batches are in flight through several machines at once; one may
  fail, come late or lose its stage. Correct: nothing is sampled from a part of the
  sequence, every call ends, the stage that failed is the one named.
* *Expert residency.* Two tiers, a byte count and files are changed in separate
  steps by several threads, and only eviction takes a lock. Correct: at rest the
  memory fits its budget and every expert can be served.

## 2. Plan

| # | Module | Subject | Status |
|---|---|---|---|
| 1 | `RuntimeHost` | host protocol | checked, safety and order of lines proved |
| 2 | `HostedModel` | supervisor; a host abstracted to its process state | checked, safety proved |
| 3 | `Engines`, `ModelResidency` | claims and budget, and their abstract promise | checked; safety and refinement proved |
| 4 | `Batch` | scheduler loop and prefix cache | checked, safety proved |
| 5 | `Admission` | fair queue and slot accounting of one model | checked, safety proved |
| 6 | `Migration` | export chains, hand-off and resume between engines | checked, safety proved |
| 7 | `Pipeline` | driver and stages as a chain of links, failure reports | checked, liveness included; safety proved |
| 8 | `Experts` | two tiers under concurrent load, resolve, evict, unload | checked, safety proved |
| - | `Job` | one child, its tree and its time limit | not modelled |

Every invariant and every action property of the runs is proved (section 5). Sums, folds
and filtered sequences are reasoned about by induction over a set of numbers
(`NatFacts`), which needs no operator as a parameter.

How the modules compose: `Engines` decides which hosts exist, `HostedModel` runs
one of them, `RuntimeHost` is the protocol of one process. Each takes the one
below at the granularity its own lock sections see: `Engines` knows a hosted
model as loading or up, `HostedModel` knows a host as a process that is up,
broken or dead and answers, fails or is hung up on. What it assumes of the layer
below is what that layer's run shows: a call ends as the host answered it or, if
the host failed, with `Error::Failed`; or, if the host stays up and silent, it does
not end. The same error also comes from a caller's own `on_event`, and `HostedModel`
keeps both (`Failed`, `HangUp`). `Batch`
composes the scheduler, the prefix cache and the decoder's memory in one module,
because the properties relate them; clients and stream readers are its
environment. `Migration` takes the same scheduler at a coarser grain, a sequence
that decodes and at some step boundaries may be copied, and composes several
engines with the clients that carry blobs between them. `Admission` stands in front
of a scheduler and shares nothing with it but the slot count; `Pipeline` and
`Experts` are of other processes.

## 3. The modules

### RuntimeHost

A request is its id; id 0 is the load inside `start`. `pc[r]` follows a caller
through `call_streaming`: `Begin` (insert the sender, 186-192), `Write` or
`WriteFails` (193-202), then `OnEvent`, `Abandon`, `OnReply`, `OnClosed` for what
`rx.recv` brings. `pending` is the map, `chan` the channels. The reader thread is
`Deliver` (257-270), `EndOfOutput` (the first line that does not parse, or end of
file, 271-276) and `Clear` (277). `HostEvent`, `HostReply`, `HostBreaks` and
`HostExits` are the process; `Drop` is `Drop for RuntimeHost`. A parsed line is a
record of id, kind and event number; parsing itself is abstract.

### HostedModel

`thread[t]` is the start with number t (0 is the one inside `serve`), `proc[h]`
the process it made, `caller[c]` and `with[c]` a caller and the host it took. One
action per lock section of `engines.rs` 404-522. The sleep on the condition
variable is a state (`asleep`), left only by `Notified`. Back-off sleeps before a
retry are the time between `StartFail` and `Retry`. The load's answer may never come:
`host.rs` (141, 204) waits for it without a limit, so a start whose host stays up stays
in `loading` for as long as the host is silent. `lateOk` and `hungUp` are
history: the reply of a host no longer current cleared the failure count; a
caller's own error was taken for an exit. Its specification and type invariant carry the
prefix `HM`, because `Engines_proof` extends this module and `Engines` together.

### Engines and ModelResidency

`held` and `reserved` are the two tables; `claim[t]`, `released[t]` and `pc[t]` what
thread t has between two lock sections. `take` is one action (`TakeFresh` or
`TakeReuse`: `FixedBudget::reserve` is called under the state lock), `release` is
three (`Remove`, `GiveBack`, `StopHost`), because the code gives back after it has
unlocked. `StopHost` is the end of `release` and not of the host: `stop()` and the
dropped entry give up one `Arc` each (516-522), and the process goes on for the requests
that hold another until the last of them ends (`HostEnds`; `host.rs` 87-93). So `mem[h]`
passes through `ending` before it is `none`, and meanwhile a claim of the same model may
be admitted and its host started: two copies, one of them on its way out.

`overlap` and `stray` are history. `overlap` holds models for which a release or a reuse ran
while another claim was unsettled or a release had still to give back; `stray` the
copies whose entry was taken from them then: a host that `serve` had not recorded yet
when a release removed its entry, one that a second `serve` overwrote in the entry, an
in-process copy released under its user's feet. `engines.rs` says "no model is ever in
memory twice" (5) and means claims to overlap (250-252); it does not keep this. The
properties say precisely how far it does: of two copies one is stray or `Leaving`, and
no host is forgotten but a stray one. Budget and refinement except the models in
`overlap`. `ModelResidency` is the abstract promise, a status, a
holder and a size per model; `Engines` implements it with the mapping at its end.

### Batch

`pc` is where the loop is: `Sweep` (1757-1796 with `drain_streams`), `Admit` (one
request per step, until no slot or no request is left; 1852-1867, 2585-2657) or
`Idle`, then one of `Decode`, `DecodeFull`, `DecodeFails`. `slot[s]` is the
`Sequence`, `cached[s]` the `CachedPrefix`, and `memory[s]` what the decoder really
holds: attention cells, and for recurrent models the prefix the state has
absorbed. A cell carries its token and the namespace it was computed under.
Keeping the real memory beside the records is the point: every property that
matters compares the two.

The three kinds of memory of `Reuse` a text model can have (trimmable,
recurrent with checkpoints, none kept) are a variable chosen in `Init`. `Batches`
is the batch as the code lays it out: a row per generating sequence with its
drafts, then prompts in slot order (`PromptRows`), each stopped by the room left,
its chunk or a checkpoint cut. What sampling answers is open: any agreement with the drafts,
any next token, or the end. Clients `Submit` and `Leave`; readers fall behind,
stall or catch up.

The batch has a fixed number of rows (`BatchSize`), and nothing in the code keeps it
above what the slots may add (`physical_batch` 127-136 and `max_slots` 110-119 are
independent). So a generating sequence's token may find the batch full and be put back
for the next step (`Takes`; 1951-1954), and so may the rest of its drafts (1968-1973);
prompts get the rows that are left (`RoomFor`).

A drafter that cannot follow a decode is given up for good (`lost` in `Decode`;
`speculating`). The code then clears the drafts that the target has decoded already
(2073-2090), and the trim of rejected drafts (2140) finds none to take out: their rows
stay in the memory (`LeftOver`, cells marked `left`) behind everything the records tell
of. The properties say that no row is left over while the drafter follows, and that
everything else is as recorded afterwards too.

`Shutdown` answers what runs and what drains (2155-2174); requests still in the channel
are dropped with it, unanswered (`dropped`), and their clients see their sender gone.

Assumptions about the decoder, an external library:
* it takes a sequence's rows only where that sequence's memory ends
  (`Consecutive`, as the comment in `apply_prefix_reuse`, 2399-2404, says);
* trimming may be refused (`honoured`), and the code then starts over;
* after a block of drafts, a recurrent state returns to the snapshot taken at
  the last accepted token, at once;
* copying out a checkpoint succeeds (the code only loses the checkpoint if not);
* a full memory may be reported at any step. The streams are separate
  (`with_kv_unified(false)`, 1621), while the comments around line 2044 speak of
  one shared pool; the model takes the wider view and lets it happen always.

### Admission

The scheduler is plain state behind its host's lock, so an action is what a host
does in one lock section: `Join`, `Leave` (refused, or the caller is gone), `Admit`
(`decide_waiter`, `leave`, `start_for`), `Finish`, `Abort`, and for requests that name
no caller `Enqueue`, `Start`, `TurnAway` (`decide`, `enqueue`, `dequeue`, `start`).
`fair` is the queue in the order of joining, which is `arrived_ms` and then the id;
`Rank` counts the waiters whose key is smaller. The cost model is open where it
decides anything: `ExpectedOutputs` is the range its clamps allow, and a wait may or
may not exceed its budget. `phase` says where a request is in its host; `produced`
and `passed` are history.

### Pipeline

`call` is the driver's caller inside `generate`: `run`, `refused` (a send on a closed
link looks for a report before it returns), `drain` (the 200 ms after a closed
link), `idle`. `q[i]` holds the frames on their way to stage i, through the writer
thread's channel and the socket; `up[i]` the frames it sent back, of which a socket
holds `Socket`. One action per thread: `Read` and `WriteFails` are the driver's,
`StageDecodes`, `StageFails`, `StageTruncates`, `SessionEnds` and `GivesUp` a compute loop,
`StageWriteFails` and `StageRelays` a stage's other two. `GivesUp` are the errors of its own
with which a compute loop ends and tells nobody (276, 297, 302); when it ends the link
after it closes first and the link before it in a step of its own (`UpCloses`; 246-250), so
that the stage's other threads may report in between. A session whose next stage is gone
ends with `lost` (277, 285). `Dies` is a process that ends or a link that is cut. One stage
may fail in a session, in either way (`culprit`). A frame carries only whether every stage so far
computed it over all the rows before it (`whole`), because that is what can go
wrong; `Fits` is the engine's refusal of rows that do not follow its cells.

### Experts

Each access to the memory tier (`mem`), the disk tier's index (`disk`), the byte count, or
a file is a step of its own, as in the code, where only `evict_to_budget` holds a lock.
`at[t]` is the step thread t is about to take: `create`..`add` of `load_expert`,
`evict`..`index` of eviction (which reads the count, the number in memory and the ticks
in three steps: `Pick`, `Several`, `Choose`), `get`..`promoted` of `resolve`,
`unload`..`delete` of `unload_expert`. The access ticks are abstract: a victim is any expert
in memory when the least tick is looked for. The two calls that visit a whole
`DashMap`, `len` and `iter`, are one access each, though they go through its shards one
after the other. Files are apart from their names (`path`, `tmp`), so a rename moves whatever
has the temporary name by then. Weights are the number of their load.

`raced` is history: the experts on which a step of one call came between two of another's
in one of the four ways `Clashes` lists. They are the interleavings that do harm;
every other overlap of two calls on one expert is left to the property.

### Migration

`seq[t]` is the sequence of ticket t with what its engine keeps of it: the tokens
in the slot (`resident`), the next one (`next`), whether this step boundary is one
where it can be copied (`ready`, `exportable_now`) and its exporter (`exported_to`,
`last`). `exports[e]` and `resumes[e]` are the loop's two lists. `kept[t]` is what the
client received, `handoff[t]` whether it holds the hand-off, which it may resume as often
as it likes (`resume` looks at nothing, 614-618). An answer is sent to a
receiver that may be dropped between the check and the send (`heard`). `Chains` lets
the client offer all it received of the sequence or any few blobs it has, in any
order: other sequences', repeated, or with one missing. A digest is modelled by the
blob it was taken of, so a chain cannot be forged, which is the assumption SHA-256
stands for.

`Copyable` is `check_context` (347-373): under `with_kv_unified(false)` (`batching.rs` 1621) a
context of an attention model has a stream per sequence, so its exports and imports
are refused, always; only sequences of purely recurrent models move. The instance has
engines of both. A blob that passes every check may still be rejected by the backend
(`ServeFails`, and `rejected` in `AdmitResume`; 495-517).

## 4. What the runs check

| Run | Instance | States | Shows |
|---|---|---|---|
| `runtime_host` | load + 2 requests, 2 events each | 128,582 | `InOrder`, `EndsAsAnswered`, `FailedOnlyByHost`, `Settled` |
| `hosted_model` | 2 callers, 3 failures, 3 restarts | 72,968 | `OneStart`, `SecondHostOnlyAfterHangUp`, `NoLostWakeup`, `LeftStopped`, `WaiterAnswered` |
| `engines` | 2 threads, 2 models, 2 hosts, sizes 0/2/3 of 4 (up to symmetry) | 2,007,640 | `OneCopy`, `EveryHostAccounted`, `ReservedWhileHeld`, `NoReservationLeak`, refines `ModelResidency` |
| `batch` | 3 requests, 2 slots, 3 kinds of memory | 488,209 | `NobodyLost`, `RecordsTrue`, `GeneratesFromWhole`, `Isolated`, `FitsContext`, `UndoneExactly`, `EveryRequestAnswered` |
| `admission` | 4 requests of 2 callers, 1 anonymous, 1 or 2 slots (up to symmetry) | 305,216 | `ServicePaid`, `NoRunaway`, `PlaceKept`, `FloorForward` |
| `pipeline` | 2 stages after the driver, 2 calls of 2 micro-batches and 1 token | 1,454,498 | `SampledWhole`, `InFlightOnce`, `BlamesTheFailed`, `CallReturns` |
| `experts` | 2 threads, 3 experts, 3 calls (up to symmetry) | 2,209,577 | `RestWithinBudget`, `ServableAtRest` |
| `migration` | 2 requests, 3 engines, 3 sequences, 3 exports (up to symmetry) | 2,498,924 | `OnePlace`, `AcceptsWhole` |

Each but `migration` also checks one type invariant, `TypeOK` (`HMTypeOK` in `HostedModel`). Four more runs end in a violation:
they check a sentence of the documentation that the code does not keep.

| Run | Sentence | What TLC finds |
|---|---|---|
| `runtime_host_doc` | `host.rs` 18: a host that exits fails every outstanding request | a request registered after the reader has gone waits for ever |
| `hosted_model_doc` | `engines.rs` 15: a host is never started twice for one model | a caller that goes away makes the supervisor start a second host beside a healthy one |
| `engines_doc` | `engines.rs` 5: each claim reserves the model's memory | a release gives back what a new claim of the model has just reserved |
| `batch_doc` | `batching.rs` 2056: a decode failure is fatal to every sequence in the step | a sequence reading its prompt survives it with positions that were never decoded |

The passing runs state what does hold instead, with the exception named
(`late`, `hungUp`, `overlap`) or, in `batch`, that the survivor never generates:
`GeneratesFromWhole` holds because the decoder refuses its next rows, and
`EveryRequestAnswered` because a failing step ends it at last.

Other behaviours met while modelling are exceptions a property names. Most go against a
comment of the code, which is quoted:

* Hosted model: a host that stays up and never answers its load keeps every caller of
  its model asleep (`WaiterAnswered`). A late reply of a superseded host clears the failure
  count (434), past which a stopped model is started again (`LeftStopped`, `lateOk`).
* Engines: "no model is ever in memory twice" (5). It is, when a claim follows a
  release whose host still runs its last requests, when a release comes between the start
  of a host and its entry (230-233), or when a claim is dropped whose entry another
  claim has committed (315). `OneCopy` and `EveryHostAccounted` name these (`Leaving`,
  `stray`) and say that there is no other way.
* Batch: "Rejected drafts were written into both caches; take them out." (2139). In the
  step in which the drafter is lost they are not taken out, and those sequences go on over
  rows no record tells of (`RecordsTrue`, `GeneratesFromWhole`).
* Pipeline: a stage that fails "fails every request in flight with `StageFailed` naming
  that stage" (`mod.rs` 19-21). Another one may be named: when a stage's writer, or the
  driver after its 200 ms pause, finds a link closed with a report still to be read from
  it, and when a stage gave up by itself and its own threads report the link after it,
  which the ending session has just closed. `BlamesTheFailed` says that nothing else misleads
  the driver (`astray`). A stage that is silent is named by nobody: the call ends with
  `Timeout`. The error of a refused send may name stage 1 before any report has come
  (`driver.rs` 229-230); the property is about the failure the driver keeps.
* Experts: `write_blob_atomic` writes "atomically (temp file + rename)" (1986), but two loads of
  one expert share the temporary file (1993): the earlier one's rename may fail or publish
  the other's half-written blob. A promotion removes the index entry an eviction has just
  made (1606), after which the expert is on neither tier, against "Evicted experts move to
  the disk tier" (1538); an unload during a promotion or an eviction is undone. `Clashes` names
  the steps; `ServableAtRest` says that no other overlap does harm.
* Experts: the byte count, "Sum of `MemEntry::bytes` over `mem`" (1337), grows for good when
  two threads promote one expert (1605), and wraps below zero for a moment when an unload
  comes between an insert and its addition. `RestWithinBudget` holds all the same: the
  count is never less than what is there.
* Migration: an export asked for while its sequence waits for a slot is refused
  with "it finished, failed or was handed off" (2250). `OnePlace` names what makes a
  request be nowhere, a hand-off whose receiver was dropped as it was sent (2282), and
  what makes it be in two places, a hand-off resumed twice.
* Migration: a chain that stops before the last blob is accepted, with the
  hand-off's next token after it; nothing in it tells that it is short. So
  `AcceptsWhole` promises the whole sequence only for the whole chain.
* Admission: `decide` does not look at the fair queue, so requests that name nobody
  take slots due to waiters (`PlaceKept` is about ranked callers), and interactive
  waiters outrank batch ones for as long as they come (`NoRunaway` is about
  interactive ones). `leave` notes no departure (618), the exception of
  `FloorForward`.

These have no violation run of their own: the properties above hold with the exception
named. Two divergences are of the words alone: `slots()` (667) says requests beyond the slots are
refused as a full queue, while the channel buffers as many again; and the migration
documents (`kv_migration.rs` 31-35, `batching.rs` 30-45) speak of moving any running
sequence and of a unified buffer, which line 1621 turns off.

### Bounds, and why they are enough

* `runtime_host`: two requests that overlap plus the load are needed for one to
  disturb another; two events for an order among them. A third request repeats
  the second, since they only share the map and the pipe.
* `hosted_model`: `MaxFailures` is the code's own 3. With 2 a failed restart is
  never tried again, so the retry would not be exercised. `MaxRestarts` bounds
  the behaviour: four processes are enough to spend the limit and have a superseded
  host with a late reply; `hosted_model_doc` allows one more. Faults of hosts are offered by `MayFault` only
  while another restart fits under the bound.
* `engines`: two threads give every pair of overlapping lock sections. Of the
  sizes, 2 and 2 fit the budget together, 3 and 2 do not, and 0 is the size the
  budget always admits. Two hosts are a host that leaves, or has lost its entry, beside a
  new one of the same model or of the other.
* `batch`: two slots and a queue of two make a third request wait and a fourth
  place unnecessary; prompts of 3 to 6 tokens against a chunk of 2 take several
  steps, a batch of 2 rows (5 in `batch_doc`) makes them compete, has tokens put back and
  refuses drafts, and a context of 7 and `MaxNew` of 4 are
  both reached. The prompts are two turns of one conversation (the second
  extends the first, with a turn end inside, so trims, checkpoints and restores
  happen) and another namespace's caller with the same opening. One drafted token
  that may or may not be what the model emits covers acceptance and rejection.
  Two checkpoints per slot make the third drop the shallowest.

* `admission`: a heavy and a light caller of different weights, one of them with a
  second request; batch and interactive; a slot count that changes while requests
  run; queue depth 2 so that a third waiter is refused. Scale 1 makes divisions
  round, which is where refunds could lose or gain.
* `pipeline`: two stages give an inner link beside the driver's own; two tickets in
  flight with two micro-batches fill it; the second call meets what the first left
  behind; one frame in a socket makes it full at once.
* `experts`: two threads, three calls: one call to overlap with another and a third
  to meet the result. Two experts that fit together and one larger than the budget
  give eviction of one, of both, and the oversized expert that stays. A fourth call
  adds none of these; every step of a clash, and every overlap that is none, is one of two
  calls. `Word` is above the bytes that the calls and the start can ever
  bring (12 of 16; `WordAssumption`), as 2^64 is in the code, so a wrap below zero is seen
  and a wrap above never happens.
* `migration`: an engine of a recurrent model, one of the same weights that refuses for
  want of context, and one of an attention model of other weights; three sequences let
  a resumed one be exported again or a hand-off be resumed twice; three exports give a
  delta, another, and the hand-off. Two blobs are enough to mix,
  swap and repeat.

### Fairness

* `runtime_host`: the reader thread and callers inside `call_streaming` keep
  running; the host's own steps carry no fairness, so it may be silent for ever,
  and `Settled` asks only for requests the host answered or left.
* `hosted_model`: start threads run on, and so do callers that were woken or whose
  call has returned. Replies carry none, the load's included: a start whose process is
  gone or broken fails at last, one whose process is up may wait for ever
  (`LoadFails`), which `WaiterAnswered` excepts by name.
* `batch`: the loop thread keeps turning (`Scheduled`: until it stops, it is at its
  sweep and at its admission again and again, which is weak fairness of the loop,
  since some step of it is enabled until it has stopped), and the deadline of a
  draining stream passes. Clients and readers carry none. Nothing is assumed about
  the decoder: it may fail or report a full memory at every step, since each such
  step ends or evicts something.

* `pipeline`: every thread of the driver and the stages keeps running, the caller
  too once it is inside a call. Nothing need fail, die, time out, begin or be
  dropped: `CallReturns` needs no time limit. A compute loop with a micro-batch takes
  it or fails it.
* `admission`, `experts` and `migration` state safety only and assume no fairness.

The runs with `CHECK_DEADLOCK FALSE` are those of systems that really end: every
request returned, the supervisor stopped, the engine shut down, the bounded
requests, calls or sequences used up. `engines` runs with deadlock checking on.

## 5. What is proved

For every value of the constants, from the assumptions named in each module.

| Module | Theorem | Says |
|---|---|---|
| `RuntimeHost_proof` | `TypeCorrect`, `Isolated` | types; a request fails only by the host's own exit or protocol break |
| | `KeepsOrder`, `AnsweredEnds` | `InOrder`, `EndsAsAnswered` |
| `Engines_proof` (`HostedModel`) | `HMTypeCorrect`, `StartsExclusive`, `SecondHost`, `Woken`, `GivesUp` | `HMTypeOK`, `OneStart`, `SecondHostOnlyAfterHangUp`, `NoLostWakeup`, `LeftStopped` |
| `Engines_proof` (`Engines`) | `TypeCorrect`, `Reserved`, `NothingLeaks` | `TypeOK`, `ReservedWhileHeld`, `NoReservationLeak` |
| | `NeverTwice`, `NoHostForgotten` | `OneCopy`, `EveryHostAccounted` |
| | `Implements` | `ResidencySpec`: `Engines` implements `ModelResidency` |
| `Batch_proof` | `NamespaceIsolated` | `Isolated` |
| | `TypesKept`, `RecordsAreTrue`, `GeneratesWhole`, `FitsTheContext`, `UndoesExactly` | `TypeOK`, `RecordsTrue`, `GeneratesFromWhole`, `FitsContext`, `UndoneExactly` |
| | `InOnePlace` | `NobodyLost` |
| `Admission_proof` | `TypeCorrect`, `PlaceIsKept` | `TypeOK`, `PlaceKept` |
| | `Covers`, `NobodyRunsAway`, `FloorOnlyForward` | `ServicePaid`, `NoRunaway`, `FloorForward` |
| `Migration_proof` | `InOnePlace`, `Continued` | `OnePlace`, `AcceptsWhole` |
| `Pipeline_proof` | `TypesKept`, `BlamesTheStage`, `EachInOnePlace`, `FromTheWhole` | `TypeOK`, `BlamesTheFailed`, `InFlightOnce`, `SampledWhole` |
| `Experts_proof` | `TypeCorrect` | `TypeOK` |
| | `CountsRight`, `FitsAtRest` | the byte count in every state; `RestWithinBudget` |
| | `ServesThroughout`, `ServesAtRest` | what each expert has in every state; `ServableAtRest` |
| `NatFacts` | (lemmas) | least and greatest elements, `Min` and `Max`, sums, equal sequences; from the well-foundedness of `<` |

*RuntimeHost.* `FailedOnlyByHost` is not inductive: a caller fails when its channel
ends, so the invariant must say who ends channels. `IInv` adds `Blame` (a reader
that stopped did so for a reason that is recorded), `Ending` (a channel out of the map
has a reply in it or the reader is gone) and `Streaming` (one still in the map has no
reply in it).

*RuntimeHost, order.* `InOrder` compares two filtered sequences. `Ordered`, the invariant
behind it, says place by place what a live request's channel and its lines in the
output hold together: the events from the first one its caller has not seen to the
last one the host wrote, then its reply if there is one (`Owes`). Each action of the
host appends to the second part, `Deliver` moves its first line to the end of the
first part, `OnEvent` takes from the front; that a filter of an append is an append,
and of a tail a tail, are lemmas (`LinesForAppend`, `LinesForTail`). `Drained` says that the
line that makes the reader leave is the last one written, so that nothing of a
request's is behind it.

*HostedModel.* Everything follows from one fact, `Newest`: at most one start, the one
numbered `restarts`, is under way, waiting to be retried or current. `Serving`,
`Stopping`, `Holding`, `Processes`, `Bounded`, `Owed` and `Sleepers` tie the flags, the
callers and the condition variable to it. Each action is a lemma (`...Keeps`).

*Engines.* `Calling` gives each thread's claim the entry it speaks of, `Unheld` says that
a model held again while a release has not finished with it is in `overlap`, and
`Owed` that bytes reserved are those of an entry or owed back by a release.
`GiveBack` is the step that needs all three: it removes
bytes by model id, and may do so only for a model nobody holds or one in `overlap`.

*Engines, copies.* A copy in memory has one owner at a time: the claim that starts it, the
entry it is published in, the release that stops it; or its entry was taken from it, and it is
stray. `CInv` says that whoever refers to a host refers to one that serves its model and was
not told to stop (`Hosting`), no two to the same (`OneRef`), that a host which kept its
entry is in it or will be (`HostOwned`), that one serve of a model at most still has the
entry it made (`OneServe`), that a copy in the process keeps an engine with a host out of the
entry (`Copied`), and that strays are in `overlap` (`Strays`). A host that ends is
referred to by nobody any more, so its end disturbs none of these. No assumption keeps
claims and releases of one model apart.

*Engines, refinement.* `Status`, `Holder` and `Size` are the mapping. Publishing, reuse and
release map to the abstract steps of their names, all others to a stutter; admission
within the budget is about the sum of what is reserved, so the proof needs what
adding, replacing and removing one reservation does to the sum (`SumUnfolds` and the
lemmas of `NatFacts`), and the invariant above.

*Batch, isolation.* `Isolated` speaks of running slots only; what a request finds in a
slot was left by another. `Sealed` says of every slot that its cells, its recurrent
state and its checkpoints are of one namespace, `Owner`: the running request's or,
in an idle slot, the one the cache record names. Admission into a slot of another
namespace reuses nothing (`ReachType`), so it empties the slot; a finished request
renames the record to its own namespace, unless nothing is kept (`KeptType`). The
proof needs the slot chosen to be a free one (`ChosenFree`), hence `NatFacts`, and
positions to be numbers within the prompt (`Typed`).

*Batch, records.* `Recorded` says of every slot that what is written down of it is what the
decoder holds for it, token for token: the cells that can be trimmed, the token count
of a state that cannot, each checkpoint. Rows left over by the drafter's last step are
passed over (`Hold`), and as long as the drafter follows there are none (`Clean`). `Stands` says that a sequence's counters
agree: its position is the length of `resident`, which begins with what was read of
its prompt. A decode that fails leaves the memory of a sequence that was reading its
prompt behind its records (the finding `ResidentIsCommitted`), so `Recorded` asks of
such a sequence only that its memory is a beginning of them. `Capped` and `Control` keep the
checkpoints few and the flags in step. Every step is a slice of a sequence or an
append to one, and the lemmas are about slices. `UndoneExactly` is an action property:
it follows from the shape of an undone decode and these invariants.

*Batch, nobody lost.* The places of a request share nothing (`Apart`), hold no answered
request (`Unanswered`), and a waiting client's request is in one (`Somewhere`). Every
step of the loop that does not admit is an instance of one lemma, `Settled`: what left
its place is answered or drains, what stayed is not. That the sequence dropped for
want of room is a running one (`LargestRuns`) is what makes `DecodeFull` answer somebody.

*Admission.* `PlaceKept` compares the rank of a waiter before and after another's
admission. The invariant is `TypeOK` with `Distinct` (no request is in the queue
twice), so that leaving it removes exactly one. An admission only raises the
counter of the admitted caller (`Units` is a natural number), so a waiter of another
caller is outranked afterwards by a subset of those that outranked it, and by one
fewer if the admitted request did (`AheadShrinks`). One slot fewer is free: if the
admitted request ranked before the waiter its rank falls by one as well, and if it
ranked behind it, being due itself, there was a slot to spare (`DueKept`). Counting is by the
cardinality lemmas of the library and of `NatFacts`.

*Admission, counters.* A step moves at most one request that has a caller
(`KnownSteps`), so a sum over the requests changes by one term (`SumReplaced`).
`ServicePaid` is inductive with the types: a charge and its refund divide by the same
weight, and `DivSum` says what two rounded quotients lose against their sum, the
unit per finished request. `NoRunaway` is not inductive: what a request is charged on
admission is an estimate, settled long after, so two callers that are close now may
drift by what is still open. `Near` says that they are close though the one ahead be
charged the whole of what its running requests may still cost, and the other be
given back all that its own were charged (`Stake`). It starts as level counters when an
admission passes the waiter, who would have gone first were its caller behind
(`Before`); each running request adds a full charge at most, and no more run
than the largest slot count (`FewRun`). Afterwards a charge moves from the stake to the
counter, or a refund out of it. A reload may lower the slots below what runs, and
may not raise them beyond `SlotCounts`: a bound over all reloads asks for finitely many
counts (`SlotsAssumption`; the code's is a `u32`). `FloorForward` is about the least counter
of those that wait or run: a newcomer is lifted to it, an admission raises one of
them, and only a refund lowers one or a departure removes the least.

*Migration.* `Rooted` says that the sequences of a request are a tree: one was submitted,
every other continues one that was handed off to its client. `OnePlace` follows by counting
(`IInvPlaces`): a sequence that was refused continues nothing further, each other one that
is in no place was lost or is continued by at least one, so some sequence of the tree is
in a place unless one was lost; and if there are two, two sequences continue the same one. It
needs that only sequences handed off have a hand-off (`Handed`), that tickets are given out in
order (`Allocated`) and that what waits to be rebuilt is in its engine's list, once
(`Listed`).

*Migration, chains.* `AcceptsWhole` compares what a fold over a chain returns with what some
sequence holds, which the chain does not name. `Rebuilds` unrolls the fold into the states
between the blobs, and `Linked` says of a chain what each of its blobs must be for the
fold to stay good. `EInv` adds to the places what exports promise: `Sound` (the blobs made
of a sequence are slices of what it holds, end to end up to `exported_to`, each naming
the one before it by its digest) and `Received` (whatever a client kept or handed over was
exported by someone). A linked chain ends in a blob of some sequence, and a digest
names one blob, so `Traced` goes backwards blob by blob: the chain is a beginning of that
sequence's, and its slices put together are the beginning of what that sequence holds.
`Sound` also says that a sequence handed off has nothing unexported, and `Continues` that the
resumed one goes on with its next token: the last conjunct, for the whole chain. In the
other direction, the first blobs of a sequence that was exported at all are of a recurrent
model (`IsOf`) and linked, so no check refuses them. That
a digest determines the blob is the model's reading of a hash, an assumption of the
theorem as of the code.

*Pipeline.* Four invariants, each on those before. Types need a bound on tickets: `Spent`, a
call takes `Chunks + Steps` at most. Blame: `Chain` says that nothing closes, is reported
or blamed before a stage failed or the driver let go; `Blame`, that as long as no report
went astray the driver meets the report of the failed stage before any other (`Sound`), and
that where the open links end is the failed stage, or its report is ahead of whatever a
stage there will say (`Heard`). One place: tickets ascend from the last stage to the driver (`Ascending`),
so a ticket on its way down is at one place; it is not on its way up as well and what
comes up is in flight (`Alone`); while no stage has died every thread runs (`Alive`) and
nothing is lost (`Kept`); `Places` then counts one.

`SampledWhole` needs what a stage *will* hold when a frame comes, which nothing in the
stage tells yet: it is said of the places between. Take a frame of the running call,
on its way (`Ahead`), and a row, in a cache or on its way in front of the frame (`Held`).
If the row is of an earlier call, a truncate is between them (`Parted`); behind a
truncate are only rows of earlier calls (`Cleared`); and every earlier ticket of the
call is in front of the frame, or a stage refused it (`Accounted`). So a stage that
computes over other rows than all those before lacks one that was refused: `Flags`
carries this with the frame and its answer to the driver. Tickets are collected in
order, and a failure ends the call when it is collected (`Taken`), so an answer over a
part is never the one the call waits for. A stage whose thread is gone passes
nothing on: `Open` keeps the claims to stages a frame can still reach.

*Experts, types.* `Guarded` says that the guard is held by one evicting thread, `Holding` and
`Writing` what a thread carries from a step to the next. Each action is a lemma
(`...Keeps`), as for `HostedModel`.

*Experts, budget.* `RestWithinBudget` speaks of rest only, and nothing in between is
simple: an expert is moved in one step and counted in another, a promotion may count
what was in memory already, and the counter turns over when a subtraction comes
before its addition. `Balance` says what is kept: there is a number of bytes, at least
those in memory and those still to be subtracted (`Debt`) together, of which the
counter, modulo its width, lacks only what is still to be added (`Credit`). That this
number is the counter's own at rest needs a bound on it. Every call brings one expert
into memory at most, so each has a `Share` of the counter; a call in which it is still
to come (`Coming`) has not used it. `Fitting` is the other half: when no thread is on its
way through an eviction, the memory fits or holds one expert at most. Whoever brings one in
goes on to evict; the evictor that stops has seen the count within the budget or one
expert in memory, and if others are about to evict nothing is claimed yet. What is in memory is
compared with the counter through `Covered`, and `Resident`, a sum over a set, with the sum
of `Mass` through `SumOfPart`. From `WordAssumption`: the bytes ever put in memory, one
expert per call at most, are fewer than the counter's 2^64.

*Experts, serving.* `ServableAtRest` is about experts on which no steps clashed, whatever calls
overlap on them. `Serving` says of such an expert in every state what each thread has made
of it so far (`Stands`: the file under the temporary name is the one it writes, the blob is
the version it holds, nothing is left in memory or in the index), and that when nobody is
half way through changing it (`Late`) it is `Normal`: its blob has the last load, and it is in
memory with it, or in the index, or on its way there (`Moving`) with no promotion yet to
take it off again (`Promised`). A step that clashes with none leaves what other threads
count on (`Leaving`), so each step has to be shown for its own thread only
(`OthersStand`, `Serves`). That it clashes with none is used where two threads meet: one
changing thread at a time, no blob read while another is being put in place, no victim
whose promotion is not over, no unload before a victim is indexed. Steps on other experts
could disturb this only through files, and `Apart` says that they have others: `Create` takes
the expert's own half-written file or one nobody has (`NewFileNew`). Actions are lemmas again
(`...Serves`).

## 6. What is only model-checked

Liveness: `Settled`, `WaiterAnswered`, `EveryRequestAnswered`, `CallReturns`. They hold under
fairness, and TLAPS reaches neither that nor ENABLED. The four sentences of the
documentation that the code does not keep have counterexamples, which are TLC's.

## 7. Hazards

`PROJECT.json` lists what is hard to test in this code, at its line, and which
property would catch it going wrong. Where the code does go wrong, the note says so, and
which property names the case as its exception; two of these are caught by none, for what
the property says is that nothing else does the same (`engines.rs` 434, `admission.rs`
618). The other two without a property are of the job engine, which is not modelled.

## 8. What is not modelled, and why

* Inside the modelled parts: encoder-decoder admission, media chunks, reasoning
  budgets and sliding windows of `batching.rs`; the slot count fitted to memory at
  start-up; the cost model behind admission; the byte encoding of blobs, the
  recurrent state they carry, media positions, drafting and what a refused resume leaves
  in its slot in migration (slots are counted only); the plan, handshake and encryption
  of pipeline links, a stage's second session and a second failure in one session; a holder
  of experts without a disk tier, its access ticks, gates, statistics and combiner; message contents, error texts, logging;
  the launcher's confinement.
* The job engine (`job.rs`): one thread waiting for one child. Its order of writes,
  waits and kills is listed under the hazards.
* Numeric code (`praecise-diffusion`, `praecise-onnx`, `praecise-perception`,
  kernels of `praecise-moe`, `toploc.rs`): floating-point data, no protocol.
* File and byte formats (`praecise-provenance`, `praecise-codec`, `prax.rs`),
  bindings (`llama-cpp-2`, `llama-cpp-sys-2`, `praecise-ffi`), single-call
  functions of the generation surface, tuning policies over measured rates:
  sequential, better tested than model-checked.
* `praecise-train`: sequential, its subject is bit-exact arithmetic.
