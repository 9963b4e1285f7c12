-------------------------------- MODULE Batch --------------------------------
(***************************************************************************)
(* The continuous-batching scheduler of praecise-runtime (batching.rs) and *)
(* the prefix cache it serves slots from (prefix_cache.rs).                *)
(*                                                                         *)
(* One thread runs the loop: sweep the slots whose client is gone or has   *)
(* stopped reading, admit queued requests into free slots (each slot keeps *)
(* the memory its last request left, and a new prompt reuses the part it   *)
(* shares), then decode one batch made of a row per generating sequence    *)
(* and a part of every prompt still to be read.  `pc` says which of the    *)
(* three the loop is at; clients and stream readers act between them.      *)
(*                                                                         *)
(* `memory` is what the decoder really holds for each slot, cell by cell,  *)
(* as opposed to what the scheduler's own records (`resident`, `ids`,      *)
(* checkpoints) say of it.  Text requests only.                            *)
(***************************************************************************)
EXTENDS Integers, Sequences, FiniteSets, SequencesExt, FiniteSetsExt

CONSTANTS
  Requests, Streaming,  \* the requests, those whose text is streamed,
  Impatient,            \* and those whose client may leave before the answer
  Prompt, Space,        \* each request's tokens and its cache namespace
  MaxNew,               \* max_tokens, of every request
  Emitted, Drafted,     \* tokens the model may produce, and the drafter propose
  TurnEnds,             \* tokens closing a turn
  NSlots, QueueSize,    \* sequence slots, places in the submission channel
  Context, BatchSize,   \* positions a slot holds, rows a batch holds
  Chunk, MaxDraft,      \* prompt rows per slot and step, drafts per sequence
  PerSlot, Spacing,     \* checkpoints a slot keeps, and their least distance
  Kinds                 \* the kinds of memory the engine may be spawned with

VARIABLES kind, speculating, pc, queue, slot, cached, memory, draining, client, answer, reader

\* The memory's kind, and whether the drafter still follows the target (spec).
engine == <<kind, speculating>>
vars == <<engine, pc, queue, slot, cached, memory, draining, client, answer, reader>>

Slots == 1 .. NSlots
Tokens == Emitted \union Drafted \union TurnEnds \union UNION {Range(Prompt[r]) : r \in Requests}
Spaces == {"shared"} \union {Space[r] : r \in Requests}

ASSUME SizesAssumption ==
  /\ NSlots \in Nat \ {0} /\ QueueSize \in Nat \ {0}
  /\ Context \in Nat /\ Chunk \in Nat \ {0} /\ MaxDraft \in Nat
  /\ BatchSize \in Nat \ {0}
  /\ PerSlot \in Nat \ {0} /\ Spacing \in Nat /\ MaxNew \in Nat
ASSUME RequestsAssumption ==
  /\ IsFiniteSet(Requests) /\ Streaming \subseteq Requests /\ Impatient \subseteq Requests
  /\ Prompt \in [Requests -> Seq(Tokens) \ {<<>>}]
ASSUME KindsAssumption == Kinds \subseteq {"trim", "recurrent", "none"}

-----------------------------------------------------------------------------
(* A slot's memory: attention cells, and the state of recurrent layers, told *)
(* by the cells it has absorbed (only a "recurrent" memory has one).  A cell *)
(* of a draft that was written and never taken out is left over.             *)

Cell(t, r) == [token |-> t, space |-> Space[r], left |-> FALSE]
Cells(tokens, r) == [i \in DOMAIN tokens |-> Cell(tokens[i], r)]
TokensOf(cells) == [i \in DOMAIN cells |-> cells[i].token]

NoMemory == [attn |-> <<>>, rec |-> <<>>]

Written(m, cells) ==
  [attn |-> m.attn \o cells, rec |-> IF kind = "recurrent" THEN m.rec \o cells ELSE <<>>]

\* llama_memory_seq_rm from a position on.  After a verified block the recurrent
\* part goes back to the snapshot taken there.
Cut(s, n) == SubSeq(s, 1, IF n < Len(s) THEN n ELSE Len(s))
Trimmed(m, n) == [attn |-> Cut(m.attn, n), rec |-> Cut(m.rec, n)]

NothingCached == [ids |-> <<>>, space |-> "shared", checkpoints |-> {}, used |-> 0]

\* Mutant: the record of a dropped memory is kept.
ForgottenKept(c) == [c EXCEPT !.checkpoints = {}]

Forgotten(c) == [c EXCEPT !.ids = <<>>, !.checkpoints = {}]

\* Checkpoints up to a position.
UpTo(checkpoints, n) == {c \in checkpoints : c.at <= n}
Truncated(c, n) == [c EXCEPT !.ids = Cut(@, n), !.checkpoints = UpTo(@, n)]

\* Past the cap the shallowest goes.
Inserted(checkpoints, new) ==
  LET all == {c \in checkpoints : c.at # new.at} \union {new}
  IN  IF Cardinality(all) <= PerSlot THEN all
      ELSE all \ {CHOOSE c \in all : \A d \in all : c.at <= d.at}

KeepsCache == kind \in {"trim", "recurrent"}

-----------------------------------------------------------------------------
(* Prefix reuse. *)

\* Mutant: the last token may be shared too.
SharedWhole(ids, prompt) ==
  LET common == Cardinality({n \in 1 .. Min({Len(ids), Len(prompt)}) : Cut(ids, n) = Cut(prompt, n)})
  IN  IF common < 2 THEN 0 ELSE common

\* Positions of a cache a prompt shares: its last token is always decoded, and
\* an overlap of one is not worth keeping.
SharedPrefix(ids, prompt) ==
  LET common == Cardinality({n \in 1 .. Min({Len(ids), Len(prompt)}) : Cut(ids, n) = Cut(prompt, n)})
  IN  IF common < 2 THEN 0 ELSE Min({common, Len(prompt) - 1})

Reset == [how |-> "reset", to |-> 0]

PlanRewind(held, reuse, positions) ==
  LET below == {c \in positions : 2 <= c /\ c <= reuse}
  IN  CASE reuse = 0 \/ ~KeepsCache -> Reset
        [] reuse # 0 /\ KeepsCache /\ reuse = held -> [how |-> "keep", to |-> reuse]
        [] reuse \notin {0, held} /\ kind = "trim" -> [how |-> "trim", to |-> reuse]
        [] reuse \notin {0, held} /\ kind = "recurrent" ->
             IF below = {} THEN Reset ELSE [how |-> "restore", to |-> Max(below)]

Positions(c) == {p.at : p \in c.checkpoints}

\* Mutant: whose prompt filled the cache is not asked.
SharedWithAny(c, r) == SharedPrefix(c.ids, Prompt[r])

SharedWith(c, r) == IF c.space = Space[r] THEN SharedPrefix(c.ids, Prompt[r]) ELSE 0

Reach(s, r) == PlanRewind(Len(cached[s].ids), SharedWith(cached[s], r), Positions(cached[s])).to

\* `slot` maps the slots in use to their sequences.
Running == DOMAIN slot
FreeSlots == Slots \ Running

\* The lowest of the slots that is least by a key.
Least(S, key(_)) == Min({s \in S : \A t \in S : key(s) <= key(t)})

ChooseSlot(r) ==
  LET best == Least(FreeSlots, LAMBDA s : -Reach(s, r))
      empty == {s \in FreeSlots : cached[s].ids = <<>>}
  IN  IF Reach(best, r) > 0 THEN best
      ELSE IF empty # {} THEN Min(empty)
      ELSE Least(FreeSlots, LAMBDA s : cached[s].used)

\* Where to stop reading a prompt to checkpoint it: before its last token, at
\* its last turn start, then at earlier ones far enough from those chosen.
CheckpointCuts(prompt, from) ==
  LET end == Len(prompt) - 1
      starts == {p \in from + 1 .. end - 1 : prompt[p] \in TurnEnds}
      ending == {e \in {end} : e > from}
      turn == IF starts = {} \/ Cardinality(ending) >= PerSlot THEN {} ELSE {Max(starts)}
      Add(cuts, p) ==
        IF Cardinality(cuts) < PerSlot /\ \A c \in cuts : Max({c - p, p - c}) >= Spacing
          THEN cuts \union {p} ELSE cuts
  IN  IF kind # "recurrent" \/ Len(prompt) < 3 THEN {}
      ELSE FoldLeft(Add, ending \union turn, SetToSortSeq(starts \ turn, >))

-----------------------------------------------------------------------------
(* Sequences. *)

InputOf(q) == Len(Prompt[q.req])
MaxPos(q) == Min({Context, InputOf(q) + MaxNew})

\* Tokens the sequence may still emit.
Left(q) == MaxPos(q) - InputOf(q) - q.emitted

NewSequence(r, reused) ==
  [req |-> r, pending |-> TRUE, cursor |-> reused, past |-> reused,
   resident |-> SubSeq(Prompt[r], 1, reused), token |-> <<>>, emitted |-> 0,
   cuts |-> CheckpointCuts(Prompt[r], reused)]

Extending(s) == s \in Running /\ slot[s].token # <<>>
Prefilling(s) == s \in Running /\ slot[s].pending

\* Drafts that still fit under the ceiling behind the token to feed.
Room(q) == MaxPos(q) - q.past - 1

\* Rows of the generating sequences in the slots before s: each its token, then
\* its drafts.
RowsBefore(s, b) ==
  MapThenSumSet(LAMBDA t : 1 + Len(b[t]), {t \in 1 .. s - 1 : Extending(t)})

\* A token that finds the batch full is put back.
Takes(s, b) == Extending(s) /\ RowsBefore(s, b) < BatchSize

\* The drafts in the batch: of what the drafter proposes, what still finds room.
Blocks ==
  {b \in [Slots -> UNION {[1 .. n -> Drafted] : n \in 0 .. MaxDraft}] :
     \A s \in Slots : b[s] # <<>> =>
       /\ speculating /\ Takes(s, b) /\ Len(b[s]) <= Room(slot[s])
       /\ RowsBefore(s, b) + 1 + Len(b[s]) <= BatchSize}

\* Where the reading of a prompt may stop with `room` rows left in the batch.
Stops(q, room) ==
  {InputOf(q), q.cursor + Min({room, Chunk})} \union {c \in q.cuts : c > q.cursor}

\* Rows left for slot s's prompt: generating sequences go first, then the prompts in
\* slot order.
RoomFor(s, blocks, added) ==
  Max({BatchSize - RowsBefore(NSlots + 1, blocks), 0})
    - MapThenSumSet(LAMBDA t : added[t], 1 .. s - 1)

\* The prompt rows each slot adds: up to the first stop.
PromptRows(blocks) ==
  {added \in [Slots -> 0 .. Chunk] :
     \A s \in Slots :
       LET stops == Stops(slot[s], RoomFor(s, blocks, added))
           end == slot[s].cursor + added[s]
       IN  IF Prefilling(s) THEN end \in stops /\ \A p \in stops : end <= p ELSE added[s] = 0}

\* What a slot adds to the batch, kept so that the step can be undone.
RowOf(s, blocks, added) ==
  [token |-> IF Takes(s, blocks) THEN slot[s].token ELSE <<>>,
   start |-> slot[s].cursor, added |-> added[s]]

\* The batches of a step.
Batches(blocks) ==
  {[s \in Running |-> RowOf(s, blocks, added)] : added \in PromptRows(blocks)}

HasRow(row) == row.token # <<>> \/ row.added > 0

TokensFed(q, row) ==
  row.token \o SubSeq(Prompt[q.req], row.start + 1, row.start + row.added)

ReadsAll(q, row) == q.pending /\ row.start + row.added = InputOf(q)

\* The sequence once its rows are in the batch, before the decode.
Fed(q, row) ==
  LET done == ReadsAll(q, row)
      moved == IF q.pending THEN row.start + row.added ELSE q.cursor
  IN  [q EXCEPT !.resident = @ \o TokensFed(q, row),
                !.past = @ + Len(TokensFed(q, row)),
                !.token = IF row.token = <<>> THEN @ ELSE <<>>,
                !.cursor = IF done THEN 0 ELSE moved,
                !.pending = @ /\ ~done]

\* Mutant: the token taken is not handed back.
UndoneTaken(q, row) ==
  IF row.token # <<>> THEN [q EXCEPT !.resident = Front(@), !.past = @ - 1]
  ELSE [q EXCEPT !.resident = Cut(@, Len(@) - row.added), !.past = @ - row.added,
                 !.cursor = row.start, !.pending = TRUE]

\* rollback_step: the sequence as it was before its rows were added.
Undone(q, row) ==
  IF row.token # <<>>
    THEN [q EXCEPT !.resident = Front(@), !.past = @ - 1, !.token = row.token]
    ELSE [q EXCEPT !.resident = Cut(@, Len(@) - row.added), !.past = @ - row.added,
                   !.cursor = row.start, !.pending = TRUE]

-----------------------------------------------------------------------------
(* Clients and stream readers. *)

InService(r) == \E s \in Running : slot[s].req = r

\* submit: try_send into the bounded channel; one sent while a stopped loop still
\* holds the other end is dropped with it.
Submit(r) ==
  /\ client[r] = "new"
  /\ IF pc # "stopped" /\ Len(queue) < QueueSize
       THEN /\ queue' = Append(queue, r)
            /\ client' = [client EXCEPT ![r] = "open"]
            /\ UNCHANGED answer
       ELSE /\ client' = [client EXCEPT ![r] = "gone"]
            /\ \E a \in {"refused"} \union (IF pc = "stopped" THEN {"dropped"} ELSE {}) :
                 answer' = [answer EXCEPT ![r] = a]
            /\ UNCHANGED queue
  /\ UNCHANGED <<engine, pc, slot, cached, memory, draining, reader>>

\* The client drops its receivers before it is answered.
Leave(r) ==
  /\ client[r] = "open" /\ answer[r] = "none"
  /\ client' = [client EXCEPT ![r] = "gone"]
  /\ UNCHANGED <<engine, pc, queue, slot, cached, memory, draining, answer, reader>>

\* A stream's chunks wait for its reader, up to the backlog limit, past which
\* the reader counts as stalled.
ReaderFallsBehind(r) ==
  /\ \E s \in Running : slot[s].req = r /\ slot[s].emitted > 0
  /\ \/ reader[r] = "current" /\ reader' = [reader EXCEPT ![r] = "behind"]
     \/ reader[r] = "behind" /\ reader' = [reader EXCEPT ![r] = "stalled"]
  /\ UNCHANGED <<engine, pc, queue, slot, cached, memory, draining, client, answer>>

ReaderCatchesUp(r) ==
  /\ reader[r] # "current" /\ answer[r] = "none"
  /\ reader' = [reader EXCEPT ![r] = "current"]
  /\ UNCHANGED <<engine, pc, queue, slot, cached, memory, draining, client, answer>>

\* A finished request's stream has waited for its reader as long as it may.
DrainExpires(r) ==
  /\ r \in draining /\ reader[r] = "behind"
  /\ reader' = [reader EXCEPT ![r] = "expired"]
  /\ UNCHANGED <<engine, pc, queue, slot, cached, memory, draining, client, answer>>

-----------------------------------------------------------------------------
(* The loop: sweep. *)

Answered(rs, what) == [r \in Requests |-> IF r \in rs THEN what[r] ELSE answer[r]]

\* Slots the sweeps free: a reader that stalled, a client that is gone.
Swept == {s \in Running : reader[slot[s].req] = "stalled" \/ client[slot[s].req] = "gone"}

\* Mutant: a stalled reader's request is freed without an error.
StalledNone == {}

StalledReaders == {r \in Requests : reader[r] = "stalled" /\ InService(r)}

Emptied(ss) ==
  /\ memory' = [s \in Slots |-> IF s \in ss THEN NoMemory ELSE memory[s]]
  /\ cached' = [s \in Slots |-> IF s \in ss THEN Forgotten(cached[s]) ELSE cached[s]]

Sweep ==
  /\ pc = "sweep"
  /\ LET settled == {r \in draining : client[r] = "gone" \/ reader[r] \in {"current", "expired"}}
     IN  /\ draining' = draining \ settled
         /\ answer' = Answered(settled \union StalledReaders,
              [r \in Requests |-> IF r \in settled /\ reader[r] # "expired" THEN "text" ELSE "error"])
  /\ slot' = Restrict(slot, Running \ Swept)
  /\ Emptied(Swept)
  /\ pc' = "admit"
  /\ UNCHANGED <<engine, queue, client, reader>>

(* The loop: admission. *)

\* Put the request in a slot and take the slot's memory back to what it shares
\* with the prompt (choose_slot, install, apply_prefix_reuse).  `honoured`: the
\* decoder really dropped what it was asked to drop.
Place(r, s, honoured) ==
  LET shared == SharedWith(cached[s], r)
      planned == PlanRewind(Len(cached[s].ids), shared, Positions(cached[s]))
      rewind == IF honoured \/ planned.how = "keep" THEN planned ELSE Reset
      used == 1 + Max({cached[t].used : t \in Slots})
      cache == [IF rewind = Reset THEN Forgotten(cached[s]) ELSE Truncated(cached[s], rewind.to)
                  EXCEPT !.used = used]
      restored == CHOOSE p \in cached[s].checkpoints : p.at = rewind.to
  IN  /\ slot' = [t \in Running \union {s} |-> IF t = s THEN NewSequence(r, rewind.to) ELSE slot[t]]
      /\ cached' = [cached EXCEPT ![s] = cache]
      /\ memory' = [memory EXCEPT ![s] =
            CASE rewind.how = "keep" -> @
              [] rewind.how = "trim" -> Trimmed(@, rewind.to)
              [] rewind.how = "restore" ->
                   [attn |-> Cut(@.attn, rewind.to), rec |-> restored.state]
              [] rewind.how = "reset" -> NoMemory]

Admissible == queue # <<>> /\ FreeSlots # {}

Admit ==
  /\ pc = "admit" /\ Admissible
  /\ queue' = Tail(queue)
  /\ LET r == Head(queue)
     IN  \/ /\ answer' = [answer EXCEPT ![r] = "error"]  \* does not render, or is too long
            /\ UNCHANGED <<slot, cached, memory>>
         \/ /\ Len(Prompt[r]) < Context
            /\ \E honoured \in BOOLEAN : Place(r, ChooseSlot(r), honoured)
            /\ UNCHANGED answer
  /\ UNCHANGED <<engine, pc, draining, client, reader>>

Idle ==
  /\ pc = "admit" /\ queue = <<>> /\ Running = {}
  /\ pc' = "sweep"
  /\ UNCHANGED <<engine, queue, slot, cached, memory, draining, client, answer, reader>>

-----------------------------------------------------------------------------
(* The loop: one decode. *)

\* The slots whose logits this step computes, which are those it samples.
Sampled(rows) == {s \in Running : rows[s].token # <<>> \/ ReadsAll(slot[s], rows[s])}

\* The decoder takes a sequence's rows only where its memory ends.
Consecutive(rows) ==
  \A s \in Running : HasRow(rows[s]) => Len(memory[s].attn) = slot[s].past

DecodeReady == pc = "admit" /\ ~Admissible /\ Running # {}

\* Mutant: an idle slot counts, whether or not it holds anything.
EvictableAny == FreeSlots

\* Idle slots whose memory may be dropped to make room, and the running one
\* holding the most.
Evictable == {s \in FreeSlots : cached[s].ids # <<>>}
Largest == Max({s \in Running : \A t \in Running : slot[t].past <= slot[s].past})

\* The sequences once a step's rows are taken back.
PutBack(rows) ==
  [s \in Running |->
     IF HasRow(rows[s]) THEN Undone(Fed(slot[s], rows[s]), rows[s]) ELSE slot[s]]

\* NoKvCacheSlot: the step is undone, and something dropped to make room.
DecodeFull ==
  /\ DecodeReady
  /\ \E blocks \in Blocks : \E rows \in Batches(blocks) :
       /\ Consecutive(rows)
       /\ IF Evictable # {}
            THEN /\ slot' = PutBack(rows)
                 /\ Emptied({Least(Evictable, LAMBDA s : cached[s].used)})
                 /\ UNCHANGED answer
            ELSE /\ slot' = Restrict(PutBack(rows), Running \ {Largest})
                 /\ Emptied({Largest})
                 /\ answer' = [answer EXCEPT ![slot[Largest].req] = "error"]
  /\ pc' = "sweep"
  /\ UNCHANGED <<engine, queue, draining, client, reader>>

\* Any other decode error ends the sequences whose logits were asked for; the
\* others keep the positions they were moved to.
DecodeFails ==
  /\ DecodeReady
  /\ \E blocks \in Blocks : \E rows \in Batches(blocks) :
       LET ended == Sampled(rows)
       IN  /\ slot' = [s \in Running \ ended |-> Fed(slot[s], rows[s])]
           /\ Emptied(ended)
           /\ answer' = Answered({slot[s].req : s \in ended}, [r \in Requests |-> "error"])
  /\ pc' = "sweep"
  /\ UNCHANGED <<engine, queue, draining, client, reader>>

\* What sampling makes of a verified block: how many drafts it takes, how many
\* tokens that emits, and the token to feed next (none: the sequence is done, at
\* an end-of-text token, a stop sequence, a closed stream or its ceiling).
Samples(q, block) ==
  LET agreed == {k \in 0 .. Len(block) : \A i \in 1 .. k : block[i] \in Emitted}
      others(k) == {t \in Emitted : k = Len(block) \/ t # block[k + 1]}
      goesOn(k, t) == [taken |-> k, emitted |-> k + 1, next |-> <<t>>]
  IN  {[taken |-> k, emitted |-> k, next |-> <<>>] : k \in agreed}
      \union {[taken |-> k, emitted |-> k + 1, next |-> <<>>] :
                k \in {j \in agreed : j = 0 \/ j < Left(q)}}
      \union UNION {{goesOn(k, t) : t \in others(k)} : k \in {j \in agreed : j + 1 < Left(q)}}

\* Mutant: drafts taken are not counted as emitted.
AfterSampleOne(q, block, o) ==
  [q EXCEPT !.resident = @ \o SubSeq(block, 1, o.taken), !.past = @ + o.taken,
            !.token = o.next, !.emitted = @ + 1]

AfterSample(q, block, o) ==
  [q EXCEPT !.resident = @ \o SubSeq(block, 1, o.taken), !.past = @ + o.taken,
            !.token = o.next, !.emitted = @ + o.emitted]

\* finalize_and_free: the slot's record of what its memory holds.
Kept(c, q) ==
  IF ~KeepsCache THEN Forgotten(c)
  ELSE LET ids == Prompt[q.req] \o SubSeq(q.resident, InputOf(q) + 1, Len(q.resident))
       IN  [c EXCEPT !.ids = ids, !.space = Space[q.req],
                     !.checkpoints = UpTo(@, Len(ids))]

\* A prompt part that stopped at a cut is checkpointed.
Checkpointed(c, q, m) ==
  IF q.pending /\ q.cursor \in q.cuts
    THEN [c EXCEPT !.checkpoints = Inserted(@, [at |-> q.cursor, state |-> m.rec])] ELSE c

\* Mutant: drafts not taken stay in the memory.
DecodedUntrimmed(s, row, block, past) ==
  Written(memory[s], Cells(TokensFed(slot[s], row) \o block, slot[s].req))

\* The memory once the rows are decoded, and trimmed of the drafts not taken.
Decoded(s, row, block, past) ==
  LET all == Written(memory[s], Cells(TokensFed(slot[s], row) \o block, slot[s].req))
  IN  IF block = <<>> THEN all ELSE Trimmed(all, past)

\* The cells of drafts written and not taken out.
LeftOver(block, r) ==
  [i \in DOMAIN block |-> [token |-> block[i], space |-> Space[r], left |-> TRUE]]

\* The memory when the drafter could not follow the decode: the drafts count as
\* never made, and are not trimmed.
DecodedLost(s, row, block) ==
  Written(memory[s], Cells(TokensFed(slot[s], row), slot[s].req) \o LeftOver(block, slot[s].req))

\* What each sampled slot's sampling may come to.
Outcomes(rows, blocks) ==
  LET of(s) == Samples(Fed(slot[s], rows[s]), blocks[s])
  IN  {o \in [Sampled(rows) -> UNION {of(s) : s \in Sampled(rows)}] :
         \A s \in Sampled(rows) : o[s] \in of(s)}

\* The sequences once their rows are decoded and their logits sampled, and the
\* slots of those that are done.
Advanced(rows, blocks, o) ==
  [s \in Running |->
     IF s \in Sampled(rows) THEN AfterSample(Fed(slot[s], rows[s]), blocks[s], o[s])
     ELSE Fed(slot[s], rows[s])]
Done(rows, o) == {s \in Sampled(rows) : o[s].next = <<>>}

\* The memories, checkpoints and cache records that leaves.
Stepped(rows, blocks, lost, after, done) ==
  LET mem == [s \in Running |->
                IF lost THEN DecodedLost(s, rows[s], blocks[s])
                ELSE Decoded(s, rows[s], blocks[s], after[s].past)]
  IN  /\ memory' = [s \in Slots |->
            IF s \notin Running THEN memory[s]
            ELSE IF s \in done /\ ~KeepsCache THEN NoMemory ELSE mem[s]]
      /\ cached' = [s \in Slots |->
            IF s \in done THEN Kept(cached[s], after[s])
            ELSE IF s \in Running /\ HasRow(rows[s])
              THEN Checkpointed(cached[s], after[s], mem[s]) ELSE cached[s]]

\* A finished request is answered, once its stream's reader has caught up.
Finished(done) ==
  LET late == {r \in {slot[s].req : s \in done} : reader[r] = "behind"}
  IN  /\ draining' = draining \union late
      /\ answer' = Answered({slot[s].req : s \in done} \ late,
            [r \in Requests |-> IF reader[r] = "stalled" THEN "error" ELSE "text"])

\* The drafts that are sampled: none once the drafter has lost step.
Verified(blocks, lost) == IF lost THEN [s \in Slots |-> <<>>] ELSE blocks

\* lost: the drafter cannot follow this decode, and is given up for good.
Decode ==
  /\ DecodeReady
  /\ \E blocks \in Blocks : \E rows \in Batches(blocks), lost \in {FALSE, speculating} :
       /\ Consecutive(rows)
       /\ \E o \in Outcomes(rows, Verified(blocks, lost)) :
            LET after == Advanced(rows, Verified(blocks, lost), o)
            IN  /\ slot' = Restrict(after, Running \ Done(rows, o))
                /\ Stepped(rows, blocks, lost, after, Done(rows, o))
                /\ Finished(Done(rows, o))
       /\ speculating' = (speculating /\ ~lost)
  /\ pc' = "sweep"
  /\ UNCHANGED <<kind, queue, client, reader>>

-----------------------------------------------------------------------------
\* Shutdown, seen at the top of the loop: running requests are failed and finished
\* ones answered; those still in the channel are dropped with it, and their
\* clients see no more than their reply's sender gone.
Shutdown ==
  /\ pc = "sweep"
  /\ pc' = "stopped"
  /\ slot' = <<>>
  /\ draining' = {} /\ queue' = <<>>
  /\ memory' = [s \in Slots |-> NoMemory]
  /\ cached' = [s \in Slots |-> NothingCached]
  /\ answer' = Answered(draining \union Range(queue) \union {slot[s].req : s \in Running},
                 [r \in Requests |-> IF r \in draining THEN "text"
                                     ELSE IF r \in Range(queue) THEN "dropped" ELSE "error"])
  /\ UNCHANGED <<engine, client, reader>>

Init ==
  /\ kind \in Kinds /\ speculating = TRUE
  /\ pc = "sweep" /\ queue = <<>> /\ draining = {}
  /\ slot = <<>>
  /\ cached = [s \in Slots |-> NothingCached]
  /\ memory = [s \in Slots |-> NoMemory]
  /\ client = [r \in Requests |-> "new"]
  /\ answer = [r \in Requests |-> "none"]
  /\ reader = [r \in Requests |-> "current"]

Loop == Sweep \/ Admit \/ Idle \/ Decode \/ DecodeFull \/ DecodeFails

Next ==
  \/ Loop \/ Shutdown
  \/ \E r \in Requests : Submit(r)
  \/ \E r \in Impatient : Leave(r)
  \/ \E r \in Streaming : ReaderFallsBehind(r) \/ ReaderCatchesUp(r) \/ DrainExpires(r)

Spec == Init /\ [][Next]_vars

\* The scheduler thread keeps running, and a drain's deadline passes.  The first is
\* WF_vars(Loop), told by the loop's own turns: a step of it is enabled until it
\* has stopped, and every turn sweeps, then admits and decodes.
Scheduled == []<>(pc = "stopped") \/ ([]<>(pc = "sweep") /\ []<>(pc = "admit"))

FairSpec == Spec /\ Scheduled /\ \A r \in Streaming : WF_vars(DrainExpires(r))

-----------------------------------------------------------------------------
(* Properties. *)

CellType == [token : Tokens, space : Spaces, left : BOOLEAN]

\* Every variable is in its type; a prompt still being read has a token left to
\* read, whatever was reused of it (its logits are what the reply starts from).
TypeOK ==
  /\ kind \in Kinds /\ speculating \in BOOLEAN
  /\ pc \in {"sweep", "admit", "stopped"}
  /\ queue \in Seq(Requests) /\ Len(queue) <= QueueSize
  /\ draining \subseteq Requests
  /\ client \in [Requests -> {"new", "open", "gone"}]
  /\ answer \in [Requests -> {"none", "text", "error", "refused", "dropped"}]
  /\ reader \in [Requests -> {"current", "behind", "stalled", "expired"}]
  /\ Running \subseteq Slots /\ DOMAIN cached = Slots /\ DOMAIN memory = Slots
  /\ \A s \in Slots :
       /\ memory[s].attn \in Seq(CellType) /\ memory[s].rec \in Seq(CellType)
       /\ cached[s].ids \in Seq(Tokens) /\ cached[s].space \in Spaces
       /\ cached[s].used \in Nat /\ Cardinality(cached[s].checkpoints) <= PerSlot
  /\ \A s \in Running :
       /\ slot[s].req \in Requests /\ slot[s].resident \in Seq(Tokens)
       /\ slot[s].cursor \in 0 .. InputOf(slot[s]) - 1
       /\ slot[s].past = Len(slot[s].resident)
       /\ slot[s].token \in {<<>>} \union {<<t>> : t \in Tokens}
       /\ slot[s].pending <=> slot[s].token = <<>>
       /\ Left(slot[s]) \in Nat

\* Where a request is: its place in the channel, its slot, or waiting for its reader.
Places(r) ==
  {<<"queue", i>> : i \in {j \in DOMAIN queue : queue[j] = r}}
    \union {<<"slot", s>> : s \in {t \in Running : slot[t].req = r}}
    \union {<<"draining", 0>> : d \in draining \intersect {r}}

\* A request is in one place at most, from its submission to its answer, and is
\* never dropped between them while its client waits: not by a sweep, a refused
\* prompt, a full memory or a failed decode.  Only a shutdown drops requests, those
\* still in the channel, without a word to their clients.
NobodyLost ==
  \A r \in Requests :
    /\ \A p, q \in Places(r) : p = q
    /\ client[r] = "new" \/ answer[r] # "none" => Places(r) = {}
    /\ client[r] = "open" /\ answer[r] = "none" => Places(r) # {}
    /\ answer[r] = "dropped" => pc = "stopped"

\* Cells hold the tokens, position by position, but for those left over.
Hold(cells, tokens) ==
  \A i \in DOMAIN cells :
    cells[i].left \/ (i \in DOMAIN tokens /\ cells[i].token = tokens[i])

\* What a slot's records say it holds is what its memory holds: the cache record
\* of an idle slot, its checkpoints (the recurrent state as it stood after exactly
\* that prefix), and, of a running one, what of it was decoded.  No row of a draft
\* is left over while the drafter follows the target; the one step it loses leaves
\* those it had drafted, and the records do not tell of them.
RecordsTrue ==
  \A s \in Slots :
    LET held == memory[s].attn
    IN  /\ kind = "recurrent" => memory[s].rec = held
        /\ \A c \in cached[s].checkpoints : c.at <= Len(held) /\ c.state = Cut(held, c.at)
        /\ s \in FreeSlots => Len(cached[s].ids) <= Len(held) /\ Hold(held, cached[s].ids)
        /\ s \in Running => Hold(held, slot[s].resident)
        /\ speculating => \A i \in DOMAIN held : ~held[i].left

\* A sequence that generates stands on its whole prompt and everything it has
\* generated, with no position missing or stale, nor left over from a draft but
\* for what the step the drafter lost left over.
GeneratesFromWhole ==
  \A s \in Running : ~slot[s].pending =>
    /\ Len(slot[s].resident) <= Len(memory[s].attn)
    /\ Hold(memory[s].attn, slot[s].resident)
    /\ speculating => TokensOf(memory[s].attn) = slot[s].resident
    /\ IsPrefix(Prompt[slot[s].req], slot[s].resident)

\* No cell a request attends to was computed under another namespace.
Isolated ==
  \A s \in Running : \A i \in DOMAIN memory[s].attn :
    memory[s].attn[i].space = Space[slot[s].req]

\* Positions (n_past) and emitted tokens (output_tokens) never drift apart, although
\* drafts advance the first without a decode of their own: the ceiling on one is
\* what keeps the rows of the other, drafts included, inside the slot's context.
FitsContext ==
  \A s \in Running : slot[s].token # <<>> =>
    /\ slot[s].past + 1 = InputOf(slot[s]) + slot[s].emitted
    /\ slot[s].past + 1 < MaxPos(slot[s])

\* A step that found no room costs at most one running request; every other is
\* exactly where it was before the step, ready to retry it.  (A full step leaves
\* the memories of running slots alone or drops them; told first, as it is cheap.)
UndoneExactly ==
  [][(\A s \in Running : memory'[s] \in {memory[s], NoMemory}) /\ DecodeFull =>
       /\ \A s \in DOMAIN slot' : slot'[s] = slot[s]
       /\ Cardinality(Running \ DOMAIN slot') <= 1]_vars

\* Every accepted request is answered, unless its client leaves: whatever slots,
\* batch capacity, memory and the other requests' readers do.
EveryRequestAnswered ==
  \A r \in Requests :
    client[r] = "open" /\ answer[r] = "none" ~> answer[r] # "none" \/ client[r] = "gone"

\* What the code's comments say: a failed decode is "fatal to every sequence in
\* this step", and `resident` is "every token committed to this sequence's KV".
ResidentIsCommitted ==
  \A s \in Running : TokensOf(memory[s].attn) = slot[s].resident

=============================================================================
