----------------------------- MODULE Migration -----------------------------
(***************************************************************************)
(* Moving a running sequence from one batch engine to another: exports,    *)
(* hand-offs and resumes of batching.rs over the blob chains of            *)
(* kv_migration.rs.                                                        *)
(*                                                                         *)
(* A client asks an engine to export what a sequence gained (a delta) or   *)
(* to hand the sequence off; answers come through one-shot channels whose  *)
(* receiver the client may drop.  With a hand-off in hand it resumes the   *)
(* sequence on some engine from blobs it has kept, well chosen or not, and *)
(* as often as it likes: nothing uses a hand-off up.                       *)
(*                                                                         *)
(* A ticket names a sequence.  Tokens are told apart by request and        *)
(* position; a blob's cells by the tokens they were computed from; a       *)
(* digest is the blob it was taken of, so a chain of digests is a chain of *)
(* blobs.  Corrupt bytes, media positions and drafting are left out, and   *)
(* the slots are only counted.  The scheduling of decode steps is Batch's. *)
(***************************************************************************)
EXTENDS Integers, FiniteSets, FiniteSetsExt, SequencesExt

CONSTANTS
  Requests, Engines,
  Home,      \* the engines that requests are submitted to
  Weights,   \* the fingerprint of the model each engine serves
  Recurrent, \* the fingerprints of purely recurrent models
  Context,   \* the context size of each engine
  Capacity,  \* slots of an engine
  Prompt,    \* tokens of a prompt
  Longest,   \* bound: tokens a sequence ends at, at the latest
  Tickets,   \* bound: 1 .. the sequences ever submitted or resumed
  Asked,     \* bound: exports ever asked for
  Stops,     \* bound: the engines that may be shut down
  Mixed      \* bound: blobs of a chain that is not simply all that was received

ASSUME MigrationAssumption ==
  /\ Home \subseteq Engines /\ Tickets \in Nat /\ Asked \in Nat /\ Mixed \in Nat
  /\ Context \in [Engines -> Nat] /\ Weights \in [Engines -> STRING]
  /\ Capacity \in Nat \ {0} /\ Prompt \in Nat \ {0} /\ Longest \in Nat

VARIABLES
  seq,     \* per ticket: the sequence, as its engine knows it
  exports, \* per engine: exports not answered yet, in order
  resumes, \* per engine: tickets to rebuild, in order
  kept,    \* per ticket: the blobs its client has received, in order
  handoff, \* per ticket: "none", "held" by the client or "lost"
  stopped, \* engines shut down
  asked,   \* exports asked for so far
  made     \* ghost: per ticket, all blobs its exporter has made, in order

vars == << seq, exports, resumes, kept, handoff, stopped, asked, made >>

Ticket == 1 .. Tickets
Unused == [stage |-> "unused"]
Used == {t \in Ticket : seq[t] # Unused}
Running(e) == {t \in Used : seq[t].engine = e /\ seq[t].stage = "running"}
HasSlot(e) == Cardinality(Running(e)) < Capacity

Sequence(stage, e, r) ==
  [stage |-> stage, engine |-> e, request |-> r, from |-> 0, chain |-> << >>,
   resident |-> << >>, next |-> 0, ready |-> FALSE, exported_to |-> 0, last |-> << >>]

\* check_context: cells can be copied by range in a purely recurrent model, and
\* in no other, whose sequences have a KV stream each.
Copyable(e) == Weights[e] \in Recurrent

-----------------------------------------------------------------------------
(* Decoding, as far as it moves a sequence. *)

NewTicket == Cardinality(Used) + 1

\* submit_tracked
Submit(r, e) ==
  /\ NewTicket \in Ticket /\ e \in Home \ stopped
  /\ \A t \in Used : seq[t].request # r
  /\ seq' = [seq EXCEPT ![NewTicket] = Sequence("waiting", e, r)]
  /\ UNCHANGED << exports, resumes, kept, handoff, stopped, asked, made >>

Start(t) ==
  /\ t \in Used /\ seq[t].stage = "waiting" /\ HasSlot(seq[t].engine)
  /\ seq' = [seq EXCEPT ![t].stage = "running"]
  /\ UNCHANGED << exports, resumes, kept, handoff, stopped, asked, made >>

Token(t, position) == << seq[t].request, position >>

\* The prompt goes in, then each step the token sampled last; `ready` is
\* whether the sequence may be copied at the step boundary that follows.
Decode(t) ==
  /\ t \in Used /\ seq[t].stage = "running"
  /\ Len(seq[t].resident) < Min({Longest, Context[seq[t].engine]})
  /\ \E ready \in BOOLEAN :
       seq' = [seq EXCEPT
         ![t].resident = IF seq[t].next = 0
                         THEN [i \in 1 .. Prompt |-> Token(t, i)]
                         ELSE Append(@, Token(t, seq[t].next)),
         ![t].next = IF @ = 0 THEN Prompt + 1 ELSE @ + 1,
         ![t].ready = ready]
  /\ UNCHANGED << exports, resumes, kept, handoff, stopped, asked, made >>

Finish(t) ==
  /\ t \in Used /\ seq[t].stage = "running" /\ seq[t].next # 0
  /\ seq' = [seq EXCEPT ![t].stage = "finished"]
  /\ UNCHANGED << exports, resumes, kept, handoff, stopped, asked, made >>

\* What was running or still to be rebuilt fails.
Stop(e) ==
  /\ e \in Stops \ stopped
  /\ stopped' = stopped \cup {e}
  /\ seq' = [t \in Ticket |->
       IF t \in Used /\ seq[t].engine = e
       THEN [seq[t] EXCEPT !.stage =
               CASE @ \in {"waiting", "running"} -> "failed"
                 [] @ = "resuming" -> "refused" [] OTHER -> @]
       ELSE seq[t]]
  /\ exports' = [exports EXCEPT ![e] = << >>]
  /\ resumes' = [resumes EXCEPT ![e] = << >>]
  /\ UNCHANGED << kept, handoff, asked, made >>

-----------------------------------------------------------------------------
(* Exports: export_sequence, detach_sequence and serve_exports. *)

Ask(t, kind) ==
  /\ t \in Used /\ seq[t].engine \notin stopped
  /\ asked < Asked /\ asked' = asked + 1
  /\ exports' = [exports EXCEPT ![seq[t].engine] =
       Append(@, [ticket |-> t, kind |-> kind, closed |-> FALSE])]
  /\ UNCHANGED << seq, resumes, kept, handoff, stopped, made >>

\* The client drops the receiver of an export that is not answered yet.
HangUp(e, i) ==
  /\ i \in DOMAIN exports[e] /\ ~exports[e][i].closed
  /\ exports' = [exports EXCEPT ![e][i].closed = TRUE]
  /\ UNCHANGED << seq, resumes, kept, handoff, stopped, asked, made >>

Holder(e, i) == exports[e][i].ticket \in Running(e)

\* One look at one export after another; those whose sequence cannot be copied
\* now are passed over.
Postponed(e, i) ==
  ~exports[e][i].closed /\ Holder(e, i) /\ ~seq[exports[e][i].ticket].ready

Served(e, i) ==
  /\ i \in DOMAIN exports[e] /\ ~Postponed(e, i)
  /\ \A j \in 1 .. i - 1 : Postponed(e, j)
  /\ exports' = [exports EXCEPT ![e] = RemoveAt(@, i)]

\* Its receiver is gone, or no running sequence holds the ticket: it may have
\* ended, but it may also be waiting for its slot.
Refuse(e, i) ==
  /\ Served(e, i)
  /\ exports[e][i].closed \/ ~Holder(e, i)
  /\ UNCHANGED << seq, resumes, kept, handoff, stopped, asked, made >>

Blob(t) ==
  [model |-> Weights[seq[t].engine], prev |-> seq[t].last, base_pos |-> seq[t].exported_to,
   tokens |-> SubSeq(seq[t].resident, seq[t].exported_to + 1, Len(seq[t].resident))]

Digest(blob) == << blob >>

\* SequenceExport::export
Exported(t) ==
  [seq[t] EXCEPT !.exported_to = Len(seq[t].resident), !.last = Digest(Blob(t))]

\* The receiver may be dropped after the check that it is open: the exporter
\* has gone on all the same.
ServeDelta(e, i) ==
  LET t == exports[e][i].ticket IN
  /\ Served(e, i) /\ ~exports[e][i].closed /\ Holder(e, i) /\ Copyable(e)
  /\ exports[e][i].kind = "delta"
  /\ seq' = [seq EXCEPT ![t] = Exported(t)]
  /\ made' = [made EXCEPT ![t] = Append(@, Blob(t))]
  /\ \E heard \in BOOLEAN :
       kept' = [kept EXCEPT ![t] = IF heard THEN Append(@, Blob(t)) ELSE @]
  /\ UNCHANGED << resumes, handoff, stopped, asked >>

HandedOff_KeepsSlot(t) == Exported(t)

HandedOff(t) == [Exported(t) EXCEPT !.stage = "handed off"]

\* The slot is freed before the answer is sent.
ServeHandoff(e, i) ==
  LET t == exports[e][i].ticket IN
  /\ Served(e, i) /\ ~exports[e][i].closed /\ Holder(e, i) /\ Copyable(e)
  /\ exports[e][i].kind = "handoff"
  /\ seq' = [seq EXCEPT ![t] = HandedOff(t)]
  /\ made' = [made EXCEPT ![t] = Append(@, Blob(t))]
  /\ \E heard \in BOOLEAN :
       /\ kept' = [kept EXCEPT ![t] = IF heard THEN Append(@, Blob(t)) ELSE @]
       /\ handoff' = [handoff EXCEPT ![t] = IF heard THEN "held" ELSE "lost"]
  /\ UNCHANGED << resumes, stopped, asked >>

\* check_context refuses, or the backend could not copy the cells: the sequence
\* goes on where it is.
ServeFails(e, i) ==
  /\ Served(e, i) /\ ~exports[e][i].closed /\ Holder(e, i)
  /\ UNCHANGED << seq, resumes, kept, handoff, stopped, asked, made >>

-----------------------------------------------------------------------------
(* Resumes: resume and admit_resume. *)

\* All that was received of the sequence, or any few blobs the client has.
Chains(t) ==
  LET blobs == UNION {ToSet(kept[u]) : u \in Ticket}
  IN {kept[t]} \cup UNION {[1 .. n -> blobs] : n \in 0 .. Mixed}

Resume(t, e) ==
  /\ NewTicket \in Ticket /\ t \in Ticket /\ handoff[t] = "held" /\ e \notin stopped
  /\ \E chain \in Chains(t) :
       seq' = [seq EXCEPT ![NewTicket] =
         [Sequence("resuming", e, seq[t].request) EXCEPT
            !.from = t, !.chain = chain, !.next = seq[t].next]]
  /\ resumes' = [resumes EXCEPT ![e] = Append(@, NewTicket)]
  /\ UNCHANGED << exports, kept, handoff, stopped, asked, made >>

Accepts_ByPosition(so_far, blob, e) ==
  so_far.ok /\ blob.model = Weights[e] /\ blob.base_pos = so_far.next_pos

\* ImportChain::check, check_context, and the slot's own length.
Accepts(so_far, blob, e) ==
  /\ so_far.ok
  /\ blob.model = Weights[e]
  /\ blob.base_pos = so_far.next_pos /\ blob.prev = so_far.last
  /\ Copyable(e)
  /\ blob.base_pos = Len(so_far.resident)

\* SequenceImport::apply; ImportChain::advance.
Apply(so_far, blob, e) ==
  IF Accepts(so_far, blob, e)
  THEN [ok |-> TRUE, next_pos |-> blob.base_pos + Len(blob.tokens),
        last |-> Digest(blob), resident |-> so_far.resident \o blob.tokens]
  ELSE [so_far EXCEPT !.ok = FALSE]

Rebuilt(chain, e) ==
  FoldLeft(LAMBDA so_far, blob : Apply(so_far, blob, e),
           [ok |-> TRUE, next_pos |-> 0, last |-> << >>, resident |-> << >>], chain)

Usable(t) ==
  LET built == Rebuilt(seq[t].chain, seq[t].engine)
  IN built.ok /\ built.resident # << >> /\ Len(built.resident) < Context[seq[t].engine]

\* The backend may reject the payload of a blob that passed every check; what
\* it had written is cleared with the slot.
AdmitResume(e) ==
  /\ resumes[e] # << >> /\ HasSlot(e)
  /\ LET t == Head(resumes[e]) IN
     \/ /\ Usable(t)
        /\ seq' = [seq EXCEPT
             ![t].stage = "running", ![t].ready = TRUE,
             ![t].resident = Rebuilt(seq[t].chain, e).resident]
     \/ /\ ~Usable(t)
        /\ seq' = [seq EXCEPT ![t].stage = "refused"]
     \/ /\ \E i \in DOMAIN seq[t].chain : seq[t].chain[i].tokens # << >>
        /\ seq' = [seq EXCEPT ![t].stage = "rejected"]
  /\ resumes' = [resumes EXCEPT ![e] = Tail(@)]
  /\ UNCHANGED << exports, kept, handoff, stopped, asked, made >>

-----------------------------------------------------------------------------
Init ==
  /\ seq = [t \in Ticket |-> Unused]
  /\ exports = [e \in Engines |-> << >>] /\ resumes = [e \in Engines |-> << >>]
  /\ kept = [t \in Ticket |-> << >>] /\ made = [t \in Ticket |-> << >>]
  /\ handoff = [t \in Ticket |-> "none"]
  /\ stopped = {} /\ asked = 0

Next ==
  \/ \E r \in Requests, e \in Engines : Submit(r, e)
  \/ \E t \in Ticket : Start(t) \/ Decode(t) \/ Finish(t)
  \/ \E t \in Ticket, kind \in {"delta", "handoff"} : Ask(t, kind)
  \/ \E e \in Engines, i \in 1 .. Asked :
       \/ HangUp(e, i) \/ Refuse(e, i)
       \/ ServeDelta(e, i) \/ ServeHandoff(e, i) \/ ServeFails(e, i)
  \/ \E t \in Ticket, e \in Engines : Resume(t, e)
  \/ \E e \in Engines : AdmitResume(e) \/ Stop(e)

Spec == Init /\ [][Next]_vars

-----------------------------------------------------------------------------
(* Properties. *)

\* The first blobs that some sequence of the engine's model has exported.
Exporters(t) ==
  {s \in Used : Weights[seq[s].engine] = Weights[seq[t].engine]
                 /\ IsPrefix(seq[t].chain, made[s])}

Carried(chain) ==
  IF chain = << >> THEN 0 ELSE Last(chain).base_pos + Len(Last(chain).tokens)

\* A resume is accepted only when its chain is the first blobs one sequence of
\* the same weights exported, none skipped, repeated or of another sequence,
\* with positions that leave room to go on, and the checks refuse no such chain
\* (the backend may reject it); the slot then holds the tokens of that sequence,
\* and all of them, with the token to decode next, when the chain is all it
\* exported.
AcceptsWhole ==
  [][\A t \in Used : seq[t].stage = "resuming" /\ UNCHANGED stopped =>
       LET n == Carried(seq[t].chain)
           whole == Exporters(t) # {} /\ n \in 1 .. Context[seq[t].engine] - 1
           resumed == seq'[t].stage = "running"
       IN seq'[t].stage # "resuming" =>
          /\ resumed => whole
          /\ seq'[t].stage = "refused" => ~whole
          /\ resumed => \A s \in Exporters(t) :
               seq'[t].resident = SubSeq(seq[s].resident, 1, n)
          /\ resumed /\ seq[t].chain = made[seq[t].from] =>
               /\ seq'[t].resident = seq[seq[t].from].resident
               /\ seq'[t].next = seq[seq[t].from].next]_vars

Of(r) == {t \in Used : seq[t].request = r}

\* The resumes of a hand-off that were not refused.
Continuations(t) == {u \in Used : seq[u].from = t /\ seq[u].stage \notin {"refused", "rejected"}}

\* Where a request is: with an engine that runs it, has ended it or is to
\* rebuild it, or with a client whose hand-off nothing continues.
Places(r) ==
  {t \in Of(r) : \/ seq[t].stage \in {"waiting", "running", "resuming", "finished", "failed"}
                 \/ handoff[t] = "held" /\ Continuations(t) = {}}

Lost(r) == {t \in Of(r) : handoff[t] = "lost"}

ResumedTwice(r) == \E t \in Of(r) : \E u, v \in Continuations(t) : u # v

\* A request that was submitted is in some place unless a hand-off of it was
\* lost, its receiver dropped as it was sent; and it is in two places, or lost
\* and in a place, only when its client resumed one hand-off twice.
OnePlace ==
  \A r \in Requests : Of(r) # {} =>
    /\ Places(r) = {} => Lost(r) # {}
    /\ \A t, u \in Places(r) \cup Lost(r) : t # u => ResumedTwice(r)
=============================================================================
