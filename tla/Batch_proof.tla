----------------------------- MODULE Batch_proof -----------------------------
(***************************************************************************)
(* Proofs about Batch, for any requests, prompts, namespaces and sizes.    *)
(* Three arguments, each resting on the ones before it.                    *)
(*                                                                         *)
(* Namespaces: everything a slot keeps, its cells, its recurrent state and *)
(* its checkpoints, was computed under one namespace: that of the request  *)
(* in it or, when it is idle, the one its cache record names (Sealed).  A  *)
(* request enters an idle slot of another namespace only with nothing      *)
(* reused, which empties the slot.                                         *)
(*                                                                         *)
(* Records: every cell of a slot's memory is the token its records name at *)
(* that place, or is left over from a draft (Recorded), and is the latter  *)
(* only once the drafter has lost the target (Clean); and a sequence's own *)
(* counters agree (Stands): its position is the length of `resident`,      *)
(* which begins with what was read of the prompt.  Every step is a slice   *)
(* of a sequence or an append to one, so the lemmas are about slices: of a *)
(* slice, of a joined sequence, of cells and the tokens they hold.  A      *)
(* failed decode leaves a prompt's memory behind its records, and a step   *)
(* that lost drafts leaves it ahead of them: only of a sequence that       *)
(* generates, and of an idle slot's record, does Recorded say the memory   *)
(* is at least as long.                                                    *)
(*                                                                         *)
(* Places: a request is in one place, its place in the channel, its slot   *)
(* or waiting for its reader (Apart); it has no answer there (Unanswered), *)
(* and one whose client waits is somewhere (Somewhere).  A step that takes *)
(* a request from its place for no other answers it (Settled), and only a  *)
(* shutdown drops it (DroppedAtStop).                                      *)
(***************************************************************************)
EXTENDS Batch, NatFacts

(* Namespaces.                                                             *)

\* The namespace a slot's memory belongs to.
Owner(s) == IF s \in Running THEN Space[slot[s].req] ELSE cached[s].space

CellOf(sp) == [token : Tokens, space : {sp}, left : BOOLEAN]
Held(sp) == [attn : Seq(CellOf(sp)), rec : Seq(CellOf(sp))]
Checkpoint(sp) == [at : Nat, state : Seq(CellOf(sp))]
Record(sp) ==
  [ids : Seq(Tokens), space : Spaces, checkpoints : SUBSET Checkpoint(sp), used : Nat]
\* The token a sequence has to feed, if any.
AtMostOne == {<<>>} \union {<<t>> : t \in Tokens}
SequenceLike(q) ==
  [req : Requests, pending : BOOLEAN, cursor : Nat, past : Nat, resident : Seq(Tokens),
   token : AtMostOne, emitted : Nat, cuts : {q.cuts}]

Typed ==
  /\ kind \in {"trim", "recurrent", "none"} /\ speculating \in BOOLEAN
  /\ queue \in Seq(Requests)
  /\ Running \subseteq Slots /\ DOMAIN cached = Slots /\ DOMAIN memory = Slots
  /\ \A s \in Running : slot[s] \in SequenceLike(slot[s])

Sealed ==
  \A s \in Slots : memory[s] \in Held(Owner(s)) /\ cached[s] \in Record(Owner(s))

IInv == Typed /\ Sealed

-----------------------------------------------------------------------------
\* Slices stay sequences.
LEMMA CutSeq ==
  ASSUME NEW S, NEW s \in Seq(S), NEW n \in Int
  PROVE  Cut(s, n) \in Seq(S)
<1>. DEFINE m == IF n < Len(s) THEN n ELSE Len(s)
<1>1. m \in Int /\ m <= Len(s)
  OBVIOUS
<1>2. SubSeq(s, 1, m) \in Seq(S)
  BY <1>1
<1>. QED
  BY <1>2 DEF Cut

\* The tokens a request decodes become cells of its namespace.
LEMMA CellsType ==
  ASSUME NEW r \in Requests, NEW tokens \in Seq(Tokens)
  PROVE  Cells(tokens, r) \in Seq(CellOf(Space[r]))
<1>1. \A i \in DOMAIN tokens : Cell(tokens[i], r) \in CellOf(Space[r])
  BY DEF Cell, CellOf
<1>2. Cells(tokens, r) = [i \in 1 .. Len(tokens) |-> Cell(tokens[i], r)]
  BY DEF Cells
<1>. QED
  BY <1>1, <1>2

\* So do the drafts left over.
LEMMA LeftOverType ==
  ASSUME NEW r \in Requests, NEW tokens \in Seq(Tokens)
  PROVE  LeftOver(tokens, r) \in Seq(CellOf(Space[r]))
<1>1. \A i \in DOMAIN tokens :
        [token |-> tokens[i], space |-> Space[r], left |-> TRUE] \in CellOf(Space[r])
  BY DEF CellOf
<1>2. LeftOver(tokens, r) =
        [i \in 1 .. Len(tokens) |-> [token |-> tokens[i], space |-> Space[r], left |-> TRUE]]
  BY DEF LeftOver
<1>. QED
  BY <1>1, <1>2

\* What the decoder does to a memory keeps its namespace.
LEMMA MemoryType ==
  ASSUME NEW sp, NEW m \in Held(sp)
  PROVE  /\ \A n \in Int : Trimmed(m, n) \in Held(sp)
         /\ \A cells \in Seq(CellOf(sp)) : Written(m, cells) \in Held(sp)
<1>1. m.attn \in Seq(CellOf(sp)) /\ m.rec \in Seq(CellOf(sp))
  BY DEF Held
<1>2. ASSUME NEW n \in Int PROVE Trimmed(m, n) \in Held(sp)
  <2>1. Cut(m.attn, n) \in Seq(CellOf(sp)) /\ Cut(m.rec, n) \in Seq(CellOf(sp))
    BY <1>1, CutSeq
  <2>. QED
    BY <2>1 DEF Trimmed, Held
<1>3. ASSUME NEW cells \in Seq(CellOf(sp)) PROVE Written(m, cells) \in Held(sp)
  <2>1. m.attn \o cells \in Seq(CellOf(sp)) /\ m.rec \o cells \in Seq(CellOf(sp))
    BY <1>1
  <2>2. <<>> \in Seq(CellOf(sp))
    OBVIOUS
  <2>. QED
    BY <2>1, <2>2 DEF Written, Held
<1>. QED
  BY <1>2, <1>3

\* An emptied slot belongs to any namespace.
LEMMA EmptyType ==
  ASSUME NEW sp, NEW sq, NEW c \in Record(sq)
  PROVE  NoMemory \in Held(sp) /\ Forgotten(c) \in Record(sp)
<1>1. Forgotten(c) \in [ids : {<<>>}, space : Spaces, checkpoints : {{}}, used : Nat]
  BY DEF Forgotten, Record
<1>2. {<<>>} \subseteq Seq(Tokens) /\ {{}} \subseteq SUBSET Checkpoint(sp)
  OBVIOUS
<1>3. Forgotten(c) \in Record(sp)
  BY <1>1, <1>2 DEF Record
<1>4. NoMemory \in Held(sp)
  BY DEF NoMemory, Held
<1>. QED
  BY <1>3, <1>4

\* So does a slot that was never used.
LEMMA NothingType ==
  ASSUME NEW sp
  PROVE  NoMemory \in Held(sp) /\ NothingCached \in Record(sp)
<1>1. "shared" \in Spaces
  BY DEF Spaces
<1>2. NothingCached \in Record(sp)
  BY <1>1 DEF NothingCached, Record
<1>. QED
  BY <1>2 DEF NoMemory, Held

\* A record cut back keeps its namespace.
LEMMA TruncatedType ==
  ASSUME NEW sp, NEW c \in Record(sp), NEW n \in Int
  PROVE  Truncated(c, n) \in Record(sp)
<1>1. Cut(c.ids, n) \in Seq(Tokens)
  BY CutSeq DEF Record
<1>2. UpTo(c.checkpoints, n) \in SUBSET Checkpoint(sp)
  BY DEF Record, UpTo
<1>. QED
  BY <1>1, <1>2 DEF Truncated, Record

\* What a prompt shares with a cache leaves its last token to be decoded.
LEMMA SharedType ==
  ASSUME NEW r \in Requests, NEW ids \in Seq(Tokens)
  PROVE  SharedPrefix(ids, Prompt[r]) \in 0 .. Len(Prompt[r]) - 1
<1>. DEFINE n == Min({Len(ids), Len(Prompt[r])})
            S == {k \in 1 .. n : Cut(ids, k) = Cut(Prompt[r], k)}
            common == Cardinality(S)
<1>1. Prompt[r] \in Seq(Tokens) /\ Len(Prompt[r]) \in Nat /\ Len(Prompt[r]) > 0
  BY RequestsAssumption
<1>2. n \in Nat
  <2>1. {Len(ids), Len(Prompt[r])} \in SUBSET Nat
    BY <1>1
  <2>. QED
    BY <2>1, MinNat
<1>3. common \in Nat
  <2>1. IsFiniteSet(1 .. n)
    BY <1>2, FS_Interval
  <2>2. S \subseteq 1 .. n
    OBVIOUS
  <2>. HIDE DEF S, n
  <2>. QED
    BY <2>1, <2>2, FS_Subset, FS_CardinalityType
<1>4. /\ Min({common, Len(Prompt[r]) - 1}) \in {common, Len(Prompt[r]) - 1}
      /\ Min({common, Len(Prompt[r]) - 1}) <= Len(Prompt[r]) - 1
  <2>1. {common, Len(Prompt[r]) - 1} \in SUBSET Nat
    BY <1>1, <1>3
  <2>. HIDE DEF common
  <2>. QED
    BY <2>1, MinNat
<1>5. SharedPrefix(ids, Prompt[r]) =
        IF common < 2 THEN 0 ELSE Min({common, Len(Prompt[r]) - 1})
  BY DEF SharedPrefix
<1>. HIDE DEF common
<1>. QED
  BY <1>1, <1>3, <1>4, <1>5

\* A rewind goes back to a position that is shared, and reuses nothing unless
\* something is; it restores only what was checkpointed.
LEMMA RewindType ==
  ASSUME NEW held \in Nat, NEW reuse \in Nat, NEW positions \in SUBSET Nat,
         kind \in {"trim", "recurrent", "none"},
         NEW p, p = PlanRewind(held, reuse, positions)
  PROVE  /\ p = Reset \/ (p.how \in {"keep", "trim", "restore"} /\ reuse # 0)
         /\ p.to \in 0 .. reuse
         /\ p.how = "restore" => p.to \in positions
         /\ p.how = "keep" => p.to = held
         /\ p.how = "trim" => kind = "trim"
<1>. DEFINE below == {c \in positions : 2 <= c /\ c <= reuse}
<1>1. below # {} => Max(below) \in below
  BY MaxNat
<1>2. below # {} => Max(below) \in positions /\ Max(below) \in 0 .. reuse
  <2>1. \A m \in below : m \in positions /\ m \in 0 .. reuse
    OBVIOUS
  <2>. HIDE DEF below
  <2>. QED
    BY <1>1, <2>1
<1>3. CASE reuse = 0 \/ ~KeepsCache
  <2>1. p = Reset
    BY <1>3 DEF PlanRewind, KeepsCache
  <2>2. p.how = "reset" /\ p.to = 0
    BY <2>1 DEF Reset
  <2>3. 0 \in 0 .. reuse
    OBVIOUS
  <2>4. "reset" \notin {"restore", "keep", "trim"}
    OBVIOUS
  <2>. QED
    BY <2>1, <2>2, <2>3, <2>4
<1>4. CASE reuse # 0 /\ KeepsCache /\ reuse = held
  <2>1. p = [how |-> "keep", to |-> reuse]
    BY <1>4 DEF PlanRewind, KeepsCache
  <2>. QED
    BY <2>1, <1>4 DEF Reset
<1>5. CASE reuse \notin {0, held} /\ kind = "trim"
  <2>1. p = [how |-> "trim", to |-> reuse]
    BY <1>5 DEF PlanRewind, KeepsCache
  <2>. QED
    BY <2>1, <1>5 DEF Reset
<1>6. CASE reuse \notin {0, held} /\ kind = "recurrent"
  <2>1. p =
          IF below = {} THEN Reset ELSE [how |-> "restore", to |-> Max(below)]
    BY <1>6 DEF PlanRewind, KeepsCache
  <2>. HIDE DEF below
  <2>. QED
    BY <2>1, <1>2, <1>6 DEF Reset
<1>. QED
  BY <1>3, <1>4, <1>5, <1>6 DEF KeepsCache

-----------------------------------------------------------------------------
\* What an idle slot can give a prompt: nothing, unless its memory is of the
\* prompt's namespace, and never the whole of the prompt.
LEMMA ReachType ==
  ASSUME IInv, NEW r \in Requests, NEW s \in Slots,
         NEW p, p = PlanRewind(Len(cached[s].ids), SharedWith(cached[s], r),
                               Positions(cached[s]))
  PROVE  /\ p = Reset \/ (p.how \in {"keep", "trim", "restore"} /\ cached[s].space = Space[r])
         /\ p.to \in 0 .. Len(Prompt[r]) - 1
         /\ p.how = "restore" => p.to \in Positions(cached[s])
<1>1. cached[s] \in Record(Owner(s)) /\ kind \in {"trim", "recurrent", "none"}
  BY DEF IInv, Sealed, Typed
<1>2. /\ cached[s].ids \in Seq(Tokens) /\ Len(cached[s].ids) \in Nat
      /\ Positions(cached[s]) \in SUBSET Nat
  BY <1>1 DEF Record, Positions, Checkpoint
<1>3. /\ SharedPrefix(cached[s].ids, Prompt[r]) \in 0 .. Len(Prompt[r]) - 1
      /\ Len(Prompt[r]) \in Nat \ {0}
  BY <1>2, SharedType, RequestsAssumption
<1>4. /\ SharedWith(cached[s], r) \in 0 .. Len(Prompt[r]) - 1
      /\ SharedWith(cached[s], r) # 0 => cached[s].space = Space[r]
  BY <1>3 DEF SharedWith
<1>5. /\ p = Reset \/ (p.how \in {"keep", "trim", "restore"} /\ SharedWith(cached[s], r) # 0)
      /\ p.to \in 0 .. SharedWith(cached[s], r)
      /\ p.how = "restore" => p.to \in Positions(cached[s])
  <2>1. SharedWith(cached[s], r) \in Nat
    BY <1>3, <1>4
  <2>. QED
    BY <1>1, <1>2, <2>1, RewindType
<1>. QED
  BY <1>3, <1>4, <1>5

\* A request is put in a slot that is free.
LEMMA ChosenFree ==
  ASSUME IInv, NEW r \in Requests, FreeSlots # {}
  PROVE  ChooseSlot(r) \in FreeSlots
<1>. DEFINE furthest == {s \in FreeSlots : \A t \in FreeSlots : -Reach(s, r) <= -Reach(t, r)}
            oldest == {s \in FreeSlots : \A t \in FreeSlots : cached[s].used <= cached[t].used}
            empty == {s \in FreeSlots : cached[s].ids = <<>>}
<1>1. FreeSlots \in SUBSET Nat /\ FreeSlots \subseteq Slots
  BY SizesAssumption DEF FreeSlots, Slots
<1>2. \A s \in FreeSlots : Reach(s, r) \in 0 .. Len(Prompt[r]) - 1
  BY <1>1, ReachType DEF Reach
<1>3. \A s \in FreeSlots : cached[s].used \in Nat
  BY <1>1 DEF IInv, Sealed, Record
<1>4. Min(furthest) \in FreeSlots
  <2>. DEFINE R == {Reach(s, r) : s \in FreeSlots}
  <2>1. R \in SUBSET Nat /\ R # {} /\ Len(Prompt[r]) \in Nat
    BY <1>2, RequestsAssumption
  <2>2. \A x \in R : x <= Len(Prompt[r])
    BY <1>2, RequestsAssumption
  <2>3. Max(R) \in R /\ \A y \in R : y <= Max(R)
    <3>. HIDE DEF R
    <3>. QED
      BY <2>1, <2>2, MaxNat
  <2>4. PICK s \in FreeSlots : Reach(s, r) = Max(R)
    BY <2>3
  <2>5. \A t \in FreeSlots : Reach(t, r) <= Reach(s, r) /\ Reach(t, r) \in Nat
    BY <2>3, <2>4, <1>2
  <2>6. s \in furthest
    BY <2>5
  <2>7. furthest \in SUBSET Nat /\ furthest \subseteq FreeSlots
    BY <1>1
  <2>. HIDE DEF furthest
  <2>. QED
    BY <2>6, <2>7, MinNat
<1>5. Min(oldest) \in FreeSlots
  <2>. DEFINE U == {cached[s].used : s \in FreeSlots}
  <2>1. U \in SUBSET Nat /\ U # {}
    BY <1>3
  <2>2. PICK u \in U : \A v \in U : u <= v
    <3>. HIDE DEF U
    <3>. QED
      BY <2>1, LeastNat
  <2>3. oldest # {}
    BY <2>2
  <2>4. oldest \in SUBSET Nat /\ oldest \subseteq FreeSlots
    BY <1>1
  <2>. HIDE DEF oldest
  <2>. QED
    BY <2>3, <2>4, MinNat
<1>6. empty # {} => Min(empty) \in FreeSlots
  <2>1. empty \in SUBSET Nat /\ empty \subseteq FreeSlots
    BY <1>1
  <2>. HIDE DEF empty
  <2>. QED
    BY <2>1, MinNat
<1>7. ChooseSlot(r) \in {Min(furthest), Min(oldest)}
        \/ (empty # {} /\ ChooseSlot(r) = Min(empty))
  BY DEF ChooseSlot, Least
<1>. QED
  BY <1>4, <1>5, <1>6, <1>7

\* The number the next use of a slot is given.
LEMMA NextUse ==
  ASSUME IInv
  PROVE  1 + Max({cached[t].used : t \in Slots}) \in Nat
<1>. DEFINE f == [t \in 1 .. NSlots |-> cached[t].used]
            U == {cached[t].used : t \in Slots}
<1>1. f \in [1 .. NSlots -> Nat] /\ NSlots \in Nat \ {0}
  BY SizesAssumption DEF IInv, Sealed, Record, Slots
<1>2. PICK b \in Nat : \A i \in 1 .. NSlots : f[i] <= b
  <2>. HIDE DEF f
  <2>. QED
    BY <1>1, Bounded
<1>3. U \in SUBSET Nat /\ \A u \in U : u <= b
  BY <1>1, <1>2 DEF Slots
<1>4. U # {}
  BY <1>1 DEF Slots
<1>5. Max(U) \in Nat
  <2>. HIDE DEF U
  <2>. QED
    BY <1>3, <1>4, MaxNat
<1>. QED
  BY <1>5

\* A request put in a slot, and the memory taken back to what it shares, leave
\* every slot sealed.
LEMMA PlaceSealed ==
  ASSUME IInv, NEW r \in Requests, NEW s \in FreeSlots, NEW honoured \in BOOLEAN,
         Place(r, s, honoured)
  PROVE  /\ DOMAIN slot' \subseteq Slots /\ DOMAIN cached' = Slots /\ DOMAIN memory' = Slots
         /\ \A t \in DOMAIN slot' : slot'[t] \in SequenceLike(slot'[t])
         /\ Sealed'
<1>. DEFINE planned == PlanRewind(Len(cached[s].ids), SharedWith(cached[s], r),
                                  Positions(cached[s]))
            rewind == IF honoured \/ planned.how = "keep" THEN planned ELSE Reset
            used == 1 + Max({cached[t].used : t \in Slots})
            cut == IF rewind = Reset THEN Forgotten(cached[s]) ELSE Truncated(cached[s], rewind.to)
            restored == CHOOSE p \in cached[s].checkpoints : p.at = rewind.to
            mem == CASE rewind.how = "keep" -> memory[s]
                     [] rewind.how = "trim" -> Trimmed(memory[s], rewind.to)
                     [] rewind.how = "restore" ->
                          [attn |-> Cut(memory[s].attn, rewind.to), rec |-> restored.state]
                     [] rewind.how = "reset" -> NoMemory
<1>1. /\ slot' = [t \in Running \union {s} |->
                    IF t = s THEN NewSequence(r, rewind.to) ELSE slot[t]]
      /\ cached' = [cached EXCEPT ![s] = [cut EXCEPT !.used = used]]
      /\ memory' = [memory EXCEPT ![s] = mem]
  BY DEF Place
<1>2. /\ s \in Slots /\ s \notin Running /\ Running \subseteq Slots
      /\ DOMAIN cached = Slots /\ DOMAIN memory = Slots
      /\ memory[s] \in Held(cached[s].space) /\ cached[s] \in Record(cached[s].space)
  BY DEF IInv, Typed, Sealed, Owner, FreeSlots
<1>3. /\ planned = Reset \/ (planned.how \in {"keep", "trim", "restore"} /\ cached[s].space = Space[r])
      /\ planned.to \in 0 .. Len(Prompt[r]) - 1
      /\ planned.how = "restore" => planned.to \in Positions(cached[s])
  BY <1>2, ReachType
<1>4. /\ rewind = Reset \/ (rewind.how \in {"keep", "trim", "restore"} /\ cached[s].space = Space[r])
      /\ rewind.to \in 0 .. Len(Prompt[r]) - 1
      /\ rewind.how = "restore" => rewind.to \in Positions(cached[s])
  <2>. HIDE DEF planned
  <2>1. Reset.how = "reset" /\ Reset.to = 0
    BY DEF Reset
  <2>2. 0 \in 0 .. Len(Prompt[r]) - 1
    BY RequestsAssumption
  <2>3. rewind = planned \/ rewind = Reset
    OBVIOUS
  <2>. HIDE DEF rewind
  <2>. QED
    BY <1>3, <2>1, <2>2, <2>3
<1>5. rewind.to \in Nat /\ rewind.to \in Int
  BY <1>4
<1>6. [cut EXCEPT !.used = used] \in Record(Space[r])
  <2>1. cut \in Record(Space[r])
    <3>. HIDE DEF rewind
    <3>. QED
      BY <1>2, <1>4, <1>5, EmptyType, TruncatedType
  <2>2. used \in Nat
    BY NextUse
  <2>. HIDE DEF cut, used
  <2>. QED
    BY <2>1, <2>2 DEF Record
<1>7. mem \in Held(Space[r])
  <2>. HIDE DEF rewind
  <2>1. CASE rewind = Reset
    <3>1. mem = NoMemory
      BY <2>1 DEF Reset
    <3>. HIDE DEF mem
    <3>. QED
      BY <3>1, <1>2, EmptyType
  <2>2. CASE cached[s].space = Space[r] /\ rewind.how = "keep"
    BY <2>2, <1>2
  <2>3. CASE cached[s].space = Space[r] /\ rewind.how = "trim"
    <3>1. mem = Trimmed(memory[s], rewind.to)
      BY <2>3
    <3>. HIDE DEF mem
    <3>. QED
      BY <3>1, <2>3, <1>2, <1>5, MemoryType
  <2>4. CASE cached[s].space = Space[r] /\ rewind.how = "restore"
    <3>1. mem = [attn |-> Cut(memory[s].attn, rewind.to), rec |-> restored.state]
      BY <2>4
    <3>2. restored \in cached[s].checkpoints
      BY <1>4, <2>4 DEF Positions
    <3>3. restored.state \in Seq(CellOf(Space[r]))
      <4>. HIDE DEF restored
      <4>. QED
        BY <3>2, <2>4, <1>2 DEF Record, Checkpoint
    <3>4. Cut(memory[s].attn, rewind.to) \in Seq(CellOf(Space[r]))
      BY <2>4, <1>2, <1>5, CutSeq DEF Held
    <3>. HIDE DEF mem, restored
    <3>. QED
      BY <3>1, <3>3, <3>4 DEF Held
  <2>. HIDE DEF mem
  <2>. QED
    BY <1>4, <2>1, <2>2, <2>3, <2>4
<1>8. NewSequence(r, rewind.to) \in SequenceLike(NewSequence(r, rewind.to))
  <2>. HIDE DEF rewind
  <2>1. Prompt[r] \in Seq(Tokens)
    BY RequestsAssumption
  <2>2. SubSeq(Prompt[r], 1, rewind.to) \in Seq(Tokens)
    BY <2>1, <1>4
  <2>. QED
    BY <2>2, <1>5 DEF NewSequence, SequenceLike, AtMostOne
<1>. DEFINE new == NewSequence(r, rewind.to)
            entry == [cut EXCEPT !.used = used]
<1>9. new.req = r
  BY DEF NewSequence
<1>10. new \in SequenceLike(new) /\ entry \in Record(Space[r])
  BY <1>6, <1>8
<1>11. /\ slot' = [t \in Running \union {s} |-> IF t = s THEN new ELSE slot[t]]
       /\ cached' = [cached EXCEPT ![s] = entry]
  BY <1>1
<1>. HIDE DEF mem, new, entry
<1>12. /\ DOMAIN slot' = Running \union {s} /\ slot'[s] = new
       /\ \A t \in Running : slot'[t] = slot[t]
       /\ DOMAIN cached' = Slots /\ DOMAIN memory' = Slots
       /\ cached'[s] = entry /\ memory'[s] = mem
       /\ \A t \in Slots : t # s => cached'[t] = cached[t] /\ memory'[t] = memory[t]
  BY <1>1, <1>2, <1>11
<1>13. ASSUME NEW t \in DOMAIN slot' PROVE slot'[t] \in SequenceLike(slot'[t])
  BY <1>10, <1>12 DEF IInv, Typed
<1>14. ASSUME NEW t \in Slots
       PROVE  memory'[t] \in Held(Owner(t)') /\ cached'[t] \in Record(Owner(t)')
  <2>1. CASE t = s
    <3>1. Owner(t)' = Space[r]
      BY <2>1, <1>9, <1>12 DEF Owner, Running
    <3>. QED
      BY <3>1, <2>1, <1>7, <1>10, <1>12
  <2>2. CASE t # s
    <3>1. Owner(t)' = Owner(t)
      BY <2>2, <1>12 DEF Owner, Running
    <3>. QED
      BY <3>1, <2>2, <1>12 DEF IInv, Sealed
  <2>. QED
    BY <2>1, <2>2
<1>15. Sealed'
  BY <1>14 DEF Sealed
<1>. QED
  BY <1>2, <1>12, <1>13, <1>15

-----------------------------------------------------------------------------
\* A sequence like another is one in its own right.
LEMMA Alike ==
  ASSUME NEW p, NEW q \in SequenceLike(p)
  PROVE  q \in SequenceLike(q)
<1>. q.cuts = p.cuts
  BY DEF SequenceLike
<1>. QED
  BY DEF SequenceLike

\* What is verified of the drafts is a block of its own, and none once the drafter
\* has lost step.
LEMMA VerifiedType ==
  ASSUME NEW blocks \in Blocks, NEW lost \in BOOLEAN
  PROVE  /\ Verified(blocks, lost) \in Blocks
         /\ \A s \in Slots : Verified(blocks, lost)[s] = IF lost THEN <<>> ELSE blocks[s]
<1>. DEFINE none == [s \in Slots |-> <<>>]
<1>1. <<>> \in [1 .. 0 -> Drafted] /\ 0 \in 0 .. MaxDraft
  BY SizesAssumption
<1>2. <<>> \in UNION {[1 .. n -> Drafted] : n \in 0 .. MaxDraft}
  BY <1>1
<1>3. none \in [Slots -> UNION {[1 .. n -> Drafted] : n \in 0 .. MaxDraft}]
  BY <1>2
<1>4. none \in Blocks
  BY <1>3 DEF Blocks
<1>. QED
  BY <1>4 DEF Verified

\* Blocks are sequences of tokens.
LEMMA BlockType ==
  ASSUME NEW blocks \in Blocks, NEW s \in Slots
  PROVE  blocks[s] \in Seq(Tokens)
<1>1. blocks[s] \in UNION {[1 .. n -> Drafted] : n \in 0 .. MaxDraft}
  BY DEF Blocks
<1>2. PICK n \in Nat : blocks[s] \in [1 .. n -> Drafted]
  BY <1>1
<1>3. Drafted \subseteq Tokens
  BY DEF Tokens
<1>4. blocks[s] \in [1 .. n -> Tokens]
  BY <1>2, <1>3
<1>. QED
  BY <1>4

\* A row is a token, or a part of the prompt from the cursor on that ends within it.
LEMMA RowType ==
  ASSUME IInv, NEW blocks \in Blocks, NEW rows \in Batches(blocks), NEW s \in Running
  PROVE  /\ DOMAIN rows = Running
         /\ rows[s].token \in {slot[s].token, <<>>} /\ rows[s].start = slot[s].cursor
         /\ rows[s].added \in Nat
         /\ TokensFed(slot[s], rows[s]) \in Seq(Tokens)
         /\ rows[s].token # <<>> => Len(TokensFed(slot[s], rows[s])) >= 1
         /\ rows[s].token = <<>> => Len(TokensFed(slot[s], rows[s])) = rows[s].added
<1>1. PICK added \in PromptRows(blocks) : rows = [t \in Running |-> RowOf(t, blocks, added)]
  BY DEF Batches
<1>2. s \in Slots /\ slot[s] \in SequenceLike(slot[s])
  BY DEF IInv, Typed
<1>3. /\ slot[s].req \in Requests /\ slot[s].cursor \in Nat /\ slot[s].token \in AtMostOne
      /\ slot[s].pending \in BOOLEAN
  BY <1>2 DEF SequenceLike
<1>4. Prompt[slot[s].req] \in Seq(Tokens) /\ Len(Prompt[slot[s].req]) \in Nat
  BY <1>3, RequestsAssumption
<1>5. added[s] \in Nat
  BY <1>2, SizesAssumption DEF PromptRows
<1>6. added[s] = 0 \/ slot[s].cursor + added[s] <= Len(Prompt[slot[s].req])
  <2>1. CASE Prefilling(s)
    <3>1. \A p \in Stops(slot[s], RoomFor(s, blocks, added)) : slot[s].cursor + added[s] <= p
      BY <2>1, <1>2 DEF PromptRows
    <3>2. InputOf(slot[s]) \in Stops(slot[s], RoomFor(s, blocks, added))
      BY DEF Stops
    <3>. QED
      BY <3>1, <3>2 DEF InputOf
  <2>2. CASE ~Prefilling(s)
    BY <2>2, <1>2 DEF PromptRows
  <2>. QED
    BY <2>1, <2>2
<1>7. /\ DOMAIN rows = Running /\ rows[s].token \in {slot[s].token, <<>>}
      /\ rows[s].start = slot[s].cursor /\ rows[s].added = added[s]
  BY <1>1 DEF RowOf
<1>. DEFINE part == SubSeq(Prompt[slot[s].req], slot[s].cursor + 1, slot[s].cursor + added[s])
<1>8. part \in Seq(Tokens) /\ Len(part) = added[s]
  <2>1. CASE added[s] = 0
    BY <2>1, <1>3, <1>4
  <2>2. CASE slot[s].cursor + added[s] <= Len(Prompt[slot[s].req])
    BY <2>2, <1>3, <1>4, <1>5
  <2>. QED
    BY <1>6, <2>1, <2>2
<1>9. TokensFed(slot[s], rows[s]) = rows[s].token \o part
  BY <1>7 DEF TokensFed
<1>. HIDE DEF part
<1>10. rows[s].token \in Seq(Tokens) /\ (rows[s].token # <<>> => Len(rows[s].token) = 1)
  <2>1. CASE rows[s].token = <<>>
    BY <2>1
  <2>2. CASE \E t \in Tokens : rows[s].token = <<t>>
    <3>1. PICK t \in Tokens : rows[s].token = <<t>>
      BY <2>2
    <3>. QED
      BY <3>1
  <2>. QED
    BY <1>3, <1>7, <2>1, <2>2 DEF AtMostOne
<1>11. TokensFed(slot[s], rows[s]) \in Seq(Tokens)
  BY <1>8, <1>9, <1>10
<1>12. Len(TokensFed(slot[s], rows[s])) = Len(rows[s].token) + added[s]
  <2>1. \A a, b \in Seq(Tokens) : Len(a \o b) = Len(a) + Len(b)
    OBVIOUS
  <2>. QED
    BY <2>1, <1>8, <1>9, <1>10
<1>. QED
  BY <1>5, <1>7, <1>10, <1>11, <1>12

\* A sequence stays the same request's when its rows are added, and when they are
\* taken back.
LEMMA FedType ==
  ASSUME IInv, NEW blocks \in Blocks, NEW rows \in Batches(blocks), NEW s \in Running
  PROVE  /\ Fed(slot[s], rows[s]) \in SequenceLike(slot[s])
         /\ Fed(slot[s], rows[s]).req = slot[s].req
         /\ Undone(Fed(slot[s], rows[s]), rows[s]) \in SequenceLike(slot[s])
         /\ Undone(Fed(slot[s], rows[s]), rows[s]).req = slot[s].req
<1>. DEFINE q == slot[s]
            row == rows[s]
            fed == TokensFed(slot[s], rows[s])
            cursor == IF ReadsAll(q, row) THEN 0
                      ELSE IF q.pending THEN row.start + row.added ELSE q.cursor
            token == IF row.token = <<>> THEN q.token ELSE <<>>
            f == Fed(slot[s], rows[s])
<1>1. q \in SequenceLike(q)
  BY DEF IInv, Typed
<1>2. /\ row.token \in {q.token, <<>>} /\ row.start = q.cursor /\ row.added \in Nat
      /\ fed \in Seq(Tokens) /\ Len(fed) \in Nat
      /\ row.token # <<>> => Len(fed) >= 1
      /\ row.token = <<>> => Len(fed) = row.added
  BY RowType
<1>3. /\ q.req \in Requests /\ q.pending \in BOOLEAN /\ q.cursor \in Nat /\ q.past \in Nat
      /\ q.resident \in Seq(Tokens) /\ q.token \in AtMostOne
  BY <1>1 DEF SequenceLike
<1>4. f = [q EXCEPT !.resident = q.resident \o fed, !.past = q.past + Len(fed),
                    !.token = token, !.cursor = cursor,
                    !.pending = q.pending /\ ~ReadsAll(q, row)]
  BY <1>1 DEF Fed, SequenceLike
<1>5. cursor \in Nat /\ token \in AtMostOne
  BY <1>2, <1>3 DEF AtMostOne
<1>6. q.resident \o fed \in Seq(Tokens) /\ q.past + Len(fed) \in Nat
  BY <1>2, <1>3
<1>. HIDE DEF q, row, fed, cursor, token, f
<1>7. f \in SequenceLike(q)
  BY <1>1, <1>4, <1>5, <1>6 DEF SequenceLike, AtMostOne
<1>8. f.req = q.req /\ f.past = q.past + Len(fed) /\ f.resident \in Seq(Tokens)
  BY <1>1, <1>4, <1>6 DEF SequenceLike
<1>9. CASE row.token # <<>>
  <2>1. Undone(f, row) = [f EXCEPT !.resident = Front(f.resident), !.past = f.past - 1,
                                   !.token = row.token]
    BY <1>7, <1>9 DEF Undone, SequenceLike
  <2>2. Front(f.resident) \in Seq(Tokens)
    BY <1>8 DEF Front
  <2>3. f.past - 1 \in Nat /\ row.token \in AtMostOne
    BY <1>2, <1>3, <1>8, <1>9 DEF AtMostOne
  <2>4. Undone(f, row) \in SequenceLike(q) /\ Undone(f, row).req = f.req
    BY <1>7, <2>1, <2>2, <2>3 DEF SequenceLike
  <2>. QED
    BY <1>7, <1>8, <2>4 DEF q, f, row
<1>10. CASE row.token = <<>>
  <2>1. Undone(f, row) = [f EXCEPT !.resident = Cut(f.resident, Len(f.resident) - row.added),
                                   !.past = f.past - row.added, !.cursor = row.start,
                                   !.pending = TRUE]
    BY <1>7, <1>10 DEF Undone, SequenceLike
  <2>2. Cut(f.resident, Len(f.resident) - row.added) \in Seq(Tokens)
    <3>1. Len(f.resident) - row.added \in Int
      BY <1>2, <1>8
    <3>. QED
      BY <3>1, <1>8, CutSeq
  <2>3. f.past - row.added \in Nat /\ row.start \in Nat
    BY <1>2, <1>3, <1>8, <1>10
  <2>4. Undone(f, row) \in SequenceLike(q) /\ Undone(f, row).req = f.req
    BY <1>7, <2>1, <2>2, <2>3 DEF SequenceLike
  <2>. QED
    BY <1>7, <1>8, <2>4 DEF q, f, row
<1>. QED
  BY <1>9, <1>10

\* What sampling makes of a verified block, and of the sequence.
LEMMA SampleType ==
  ASSUME NEW p, NEW q \in SequenceLike(p), NEW block \in Seq(Tokens),
         NEW o \in Samples(q, block)
  PROVE  /\ AfterSample(q, block, o) \in SequenceLike(p)
         /\ AfterSample(q, block, o).req = q.req
<1>1. o.taken \in 0 .. Len(block) /\ o.emitted \in Nat /\ o.next \in AtMostOne
  <2>. DEFINE agreed == {k \in 0 .. Len(block) : \A i \in 1 .. k : block[i] \in Emitted}
  <2>1. \E k \in agreed : /\ o.taken = k /\ o.emitted \in {k, k + 1}
                          /\ o.next = <<>> \/ \E t \in Emitted : o.next = <<t>>
    BY DEF Samples
  <2>2. Emitted \subseteq Tokens
    BY DEF Tokens
  <2>3. \A k \in agreed : k \in 0 .. Len(block) /\ k \in Nat
    OBVIOUS
  <2>. HIDE DEF agreed
  <2>4. PICK k \in agreed : /\ o.taken = k /\ o.emitted \in {k, k + 1}
                            /\ o.next = <<>> \/ \E t \in Emitted : o.next = <<t>>
    BY <2>1
  <2>5. o.next \in AtMostOne
    BY <2>2, <2>4 DEF AtMostOne
  <2>6. o.taken \in 0 .. Len(block)
    BY <2>3, <2>4
  <2>7. o.emitted \in Nat
    BY <2>3, <2>4
  <2>. QED
    BY <2>5, <2>6, <2>7
<1>2. /\ q.resident \in Seq(Tokens) /\ q.past \in Nat /\ q.emitted \in Nat
  BY DEF SequenceLike
<1>3. SubSeq(block, 1, o.taken) \in Seq(Tokens)
  BY <1>1
<1>4. /\ q.resident \o SubSeq(block, 1, o.taken) \in Seq(Tokens)
      /\ q.past + o.taken \in Nat /\ q.emitted + o.emitted \in Nat
  BY <1>1, <1>2, <1>3
<1>5. AfterSample(q, block, o) =
        [q EXCEPT !.resident = q.resident \o SubSeq(block, 1, o.taken),
                  !.past = q.past + o.taken, !.token = o.next,
                  !.emitted = q.emitted + o.emitted]
  BY DEF AfterSample, SequenceLike
<1>. QED
  BY <1>1, <1>4, <1>5 DEF SequenceLike

\* What a slot's memory holds after a decode is of its request's namespace.
LEMMA DecodedType ==
  ASSUME IInv, NEW blocks \in Blocks, NEW rows \in Batches(blocks), NEW s \in Running,
         NEW past \in Int
  PROVE  Decoded(s, rows[s], blocks[s], past) \in Held(Space[slot[s].req])
<1>1. /\ s \in Slots /\ slot[s].req \in Requests
      /\ memory[s] \in Held(Space[slot[s].req])
  BY DEF IInv, Typed, Sealed, SequenceLike, Owner
<1>2. TokensFed(slot[s], rows[s]) \o blocks[s] \in Seq(Tokens)
  BY <1>1, RowType, BlockType
<1>. DEFINE cells == Cells(TokensFed(slot[s], rows[s]) \o blocks[s], slot[s].req)
            all == Written(memory[s], cells)
<1>3. cells \in Seq(CellOf(Space[slot[s].req]))
  BY <1>1, <1>2, CellsType
<1>4. all \in Held(Space[slot[s].req])
  <2>. HIDE DEF cells
  <2>. QED
    BY <1>1, <1>3, MemoryType
<1>5. Decoded(s, rows[s], blocks[s], past) = IF blocks[s] = <<>> THEN all ELSE Trimmed(all, past)
  BY DEF Decoded
<1>. HIDE DEF all
<1>. QED
  BY <1>4, <1>5, MemoryType

\* So is what it holds when the drafter could not follow.
LEMMA DecodedLostType ==
  ASSUME IInv, NEW blocks \in Blocks, NEW rows \in Batches(blocks), NEW s \in Running
  PROVE  DecodedLost(s, rows[s], blocks[s]) \in Held(Space[slot[s].req])
<1>1. /\ s \in Slots /\ slot[s].req \in Requests
      /\ memory[s] \in Held(Space[slot[s].req])
  BY DEF IInv, Typed, Sealed, SequenceLike, Owner
<1>. DEFINE cells == Cells(TokensFed(slot[s], rows[s]), slot[s].req)
            left == LeftOver(blocks[s], slot[s].req)
<1>2. cells \in Seq(CellOf(Space[slot[s].req])) /\ left \in Seq(CellOf(Space[slot[s].req]))
  BY <1>1, RowType, BlockType, CellsType, LeftOverType
<1>3. DecodedLost(s, rows[s], blocks[s]) = Written(memory[s], cells \o left)
  BY DEF DecodedLost
<1>. HIDE DEF cells, left
<1>4. cells \o left \in Seq(CellOf(Space[slot[s].req]))
  BY <1>2
<1>. QED
  BY <1>1, <1>3, <1>4, MemoryType

\* The record a finished request leaves is of its namespace, or the slot is empty.
LEMMA KeptType ==
  ASSUME NEW p, NEW q \in SequenceLike(p), NEW c \in Record(Space[q.req])
  PROVE  /\ KeepsCache => /\ Kept(c, q) \in Record(Space[q.req])
                          /\ Kept(c, q).space = Space[q.req]
         /\ ~KeepsCache => Kept(c, q) = Forgotten(c)
<1>. DEFINE ids == Prompt[q.req] \o SubSeq(q.resident, InputOf(q) + 1, Len(q.resident))
<1>1. /\ q.req \in Requests /\ q.resident \in Seq(Tokens) /\ Prompt[q.req] \in Seq(Tokens)
      /\ InputOf(q) \in Nat
  BY RequestsAssumption DEF SequenceLike, InputOf
<1>2. SubSeq(q.resident, InputOf(q) + 1, Len(q.resident)) \in Seq(Tokens)
  BY <1>1
<1>3. ids \in Seq(Tokens)
  BY <1>1, <1>2
<1>4. Space[q.req] \in Spaces
  BY <1>1 DEF Spaces
<1>5. UpTo(c.checkpoints, Len(ids)) \in SUBSET Checkpoint(Space[q.req])
  BY DEF UpTo, Record
<1>6. KeepsCache => Kept(c, q) = [c EXCEPT !.ids = ids, !.space = Space[q.req],
                                           !.checkpoints = UpTo(c.checkpoints, Len(ids))]
  BY DEF Kept, Record
<1>. HIDE DEF ids
<1>7. KeepsCache => Kept(c, q) \in Record(Space[q.req]) /\ Kept(c, q).space = Space[q.req]
  BY <1>3, <1>4, <1>5, <1>6 DEF Record
<1>. QED
  BY <1>7 DEF Kept

\* A checkpoint taken is of the memory's namespace.
LEMMA CheckpointedType ==
  ASSUME NEW sp, NEW c \in Record(sp), NEW p, NEW q \in SequenceLike(p), NEW m \in Held(sp)
  PROVE  Checkpointed(c, q, m) \in Record(sp) /\ Checkpointed(c, q, m).space = c.space
<1>. DEFINE new == [at |-> q.cursor, state |-> m.rec]
<1>1. new \in Checkpoint(sp)
  BY DEF SequenceLike, Held, Checkpoint
<1>2. c.checkpoints \subseteq Checkpoint(sp)
  BY DEF Record
<1>. HIDE DEF new
<1>3. Inserted(c.checkpoints, new) \subseteq c.checkpoints \union {new}
  BY DEF Inserted
<1>4. Inserted(c.checkpoints, new) \in SUBSET Checkpoint(sp)
  BY <1>1, <1>2, <1>3
<1>5. Checkpointed(c, q, m) \in {c, [c EXCEPT !.checkpoints = Inserted(c.checkpoints, new)]}
  BY DEF Checkpointed, Record, new
<1>. QED
  BY <1>4, <1>5 DEF Record

-----------------------------------------------------------------------------
\* A step that drops memories, and frees no other slot, leaves every slot sealed.
LEMMA EmptiedSealed ==
  ASSUME IInv, NEW ss, Emptied(ss), DOMAIN slot' \subseteq Running,
         \A s \in Running : s \in DOMAIN slot' \/ s \in ss,
         \A s \in DOMAIN slot' : slot'[s].req = slot[s].req
  PROVE  Sealed' /\ DOMAIN cached' = Slots /\ DOMAIN memory' = Slots
<1>1. ASSUME NEW s \in Slots
      PROVE  memory'[s] \in Held(Owner(s)') /\ cached'[s] \in Record(Owner(s)')
  <2>1. memory[s] \in Held(Owner(s)) /\ cached[s] \in Record(Owner(s))
    BY DEF IInv, Sealed
  <2>2. CASE s \in ss
    <3>1. memory'[s] = NoMemory /\ cached'[s] = Forgotten(cached[s])
      BY <2>2 DEF Emptied
    <3>. QED
      BY <2>1, <3>1, EmptyType
  <2>3. CASE s \notin ss
    <3>1. memory'[s] = memory[s] /\ cached'[s] = cached[s]
      BY <2>3 DEF Emptied
    <3>2. Owner(s)' = Owner(s)
      BY <2>3, <3>1 DEF Owner, Running
    <3>. QED
      BY <2>1, <3>1, <3>2
  <2>. QED
    BY <2>2, <2>3
<1>2. DOMAIN cached' = Slots /\ DOMAIN memory' = Slots
  BY DEF Emptied
<1>. QED
  BY <1>1, <1>2 DEF Sealed

\* A sweep drops the memory of every slot it frees.
LEMMA SweepSealed == IInv /\ Sweep => IInv'
<1>. SUFFICES ASSUME IInv, Sweep PROVE IInv'
  OBVIOUS
<1>1. /\ slot' = Restrict(slot, Running \ Swept) /\ Emptied(Swept)
      /\ UNCHANGED engine /\ queue' = queue
  BY DEF Sweep
<1>2. /\ DOMAIN slot' = Running \ Swept /\ \A s \in DOMAIN slot' : slot'[s] = slot[s]
  BY <1>1 DEF Restrict
<1>3. Sealed' /\ DOMAIN cached' = Slots /\ DOMAIN memory' = Slots
  BY <1>1, <1>2, EmptiedSealed
<1>4. Running' \subseteq Slots /\ \A s \in Running' : slot'[s] \in SequenceLike(slot'[s])
  BY <1>2 DEF IInv, Typed, Running
<1>5. Typed'
  BY <1>1, <1>3, <1>4 DEF IInv, Typed, engine
<1>. QED
  BY <1>3, <1>5 DEF IInv

\* Admission puts the head of the queue in a free slot, or refuses it.
LEMMA AdmitSealed == IInv /\ Admit => IInv'
<1>. SUFFICES ASSUME IInv, Admit PROVE IInv'
  OBVIOUS
<1>1. queue \in Seq(Requests) /\ queue # <<>> /\ queue' = Tail(queue) /\ kind' = kind
      /\ speculating' = speculating
  BY DEF IInv, Typed, Admit, Admissible, engine
<1>2. queue' \in Seq(Requests) /\ Head(queue) \in Requests
  BY <1>1
<1>3. CASE UNCHANGED <<slot, cached, memory>>
  BY <1>1, <1>2, <1>3 DEF IInv, Typed, Sealed, Owner, Running
<1>4. CASE \E honoured \in BOOLEAN : Place(Head(queue), ChooseSlot(Head(queue)), honoured)
  <2>1. PICK honoured \in BOOLEAN : Place(Head(queue), ChooseSlot(Head(queue)), honoured)
    BY <1>4
  <2>2. ChooseSlot(Head(queue)) \in FreeSlots
    BY <1>2, ChosenFree DEF Admit, Admissible
  <2>3. /\ DOMAIN slot' \subseteq Slots /\ DOMAIN cached' = Slots /\ DOMAIN memory' = Slots
        /\ \A t \in DOMAIN slot' : slot'[t] \in SequenceLike(slot'[t])
        /\ Sealed'
    BY <1>2, <2>1, <2>2, PlaceSealed
  <2>4. Typed'
    BY <1>1, <1>2, <2>3 DEF IInv, Typed, Running
  <2>. QED
    BY <2>3, <2>4 DEF IInv
<1>. QED
  BY <1>3, <1>4 DEF Admit

\* A full memory drops one slot's, and puts every other sequence back.
LEMMA FullSealed == IInv /\ DecodeFull => IInv'
<1>. SUFFICES ASSUME IInv, DecodeFull PROVE IInv'
  OBVIOUS
<1>. PICK blocks \in Blocks :
       \E rows \in Batches(blocks) :
         \/ slot' = PutBack(rows) /\ \E ss : Emptied(ss)
         \/ slot' = Restrict(PutBack(rows), Running \ {Largest}) /\ Emptied({Largest})
  BY DEF DecodeFull
<1>1. PICK rows \in Batches(blocks) :
         \/ slot' = PutBack(rows) /\ \E ss : Emptied(ss)
         \/ slot' = Restrict(PutBack(rows), Running \ {Largest}) /\ Emptied({Largest})
  OBVIOUS
<1>2. kind' = kind /\ speculating' = speculating /\ queue' = queue
  BY DEF DecodeFull, engine
<1>. DEFINE undone == PutBack(rows)
<1>3. ASSUME NEW s \in Running
      PROVE  undone[s] \in SequenceLike(undone[s]) /\ undone[s].req = slot[s].req
  <2>1. undone[s] \in SequenceLike(slot[s]) /\ undone[s].req = slot[s].req
    <3>1. slot[s] \in SequenceLike(slot[s])
      BY DEF IInv, Typed
    <3>. QED
      BY <3>1, FedType DEF PutBack
  <2>. HIDE DEF undone
  <2>. QED
    BY <2>1, Alike
<1>4. DOMAIN undone = Running
  BY DEF PutBack
<1>5. \E ss : /\ Emptied(ss) /\ DOMAIN slot' \subseteq Running
              /\ \A s \in Running : s \in DOMAIN slot' \/ s \in ss
              /\ \A s \in DOMAIN slot' : slot'[s] = undone[s]
  <2>1. CASE slot' = undone /\ \E ss : Emptied(ss)
    <3>. HIDE DEF undone
    <3>. QED
      BY <2>1, <1>4
  <2>2. CASE slot' = Restrict(undone, Running \ {Largest}) /\ Emptied({Largest})
    <3>. HIDE DEF undone
    <3>1. DOMAIN slot' = Running \ {Largest} /\ \A s \in DOMAIN slot' : slot'[s] = undone[s]
      BY <2>2 DEF Restrict
    <3>. QED
      BY <2>2, <3>1
  <2>. QED
    BY <1>1, <2>1, <2>2
<1>. HIDE DEF undone
<1>6. PICK ss : /\ Emptied(ss) /\ DOMAIN slot' \subseteq Running
                /\ \A s \in Running : s \in DOMAIN slot' \/ s \in ss
                /\ \A s \in DOMAIN slot' : slot'[s] = undone[s]
  BY <1>5
<1>7. Sealed' /\ DOMAIN cached' = Slots /\ DOMAIN memory' = Slots
  BY <1>3, <1>6, EmptiedSealed
<1>8. Running' \subseteq Slots /\ \A s \in Running' : slot'[s] \in SequenceLike(slot'[s])
  BY <1>3, <1>6 DEF IInv, Typed, Running
<1>9. Typed'
  BY <1>2, <1>7, <1>8 DEF IInv, Typed
<1>. QED
  BY <1>7, <1>9 DEF IInv

\* A failed decode drops the memory of the slots it ends.
LEMMA FailsSealed == IInv /\ DecodeFails => IInv'
<1>. SUFFICES ASSUME IInv, DecodeFails PROVE IInv'
  OBVIOUS
<1>. PICK blocks \in Blocks :
        \E rows \in Batches(blocks) :
          /\ slot' = [s \in Running \ Sampled(rows) |-> Fed(slot[s], rows[s])]
          /\ Emptied(Sampled(rows))
  BY DEF DecodeFails
<1>1. PICK rows \in Batches(blocks) :
        /\ slot' = [s \in Running \ Sampled(rows) |-> Fed(slot[s], rows[s])]
        /\ Emptied(Sampled(rows))
  OBVIOUS
<1>2. kind' = kind /\ speculating' = speculating /\ queue' = queue
  BY DEF DecodeFails, engine
<1>3. ASSUME NEW s \in DOMAIN slot'
      PROVE  s \in Running /\ slot'[s] \in SequenceLike(slot'[s]) /\ slot'[s].req = slot[s].req
  <2>1. s \in Running /\ slot'[s] = Fed(slot[s], rows[s])
    BY <1>1
  <2>2. slot'[s] \in SequenceLike(slot[s]) /\ slot'[s].req = slot[s].req
    BY <2>1, FedType
  <2>. QED
    BY <2>1, <2>2, Alike
<1>4. \A s \in Running : s \in DOMAIN slot' \/ s \in Sampled(rows)
  BY <1>1
<1>5. Sealed' /\ DOMAIN cached' = Slots /\ DOMAIN memory' = Slots
  BY <1>1, <1>3, <1>4, EmptiedSealed
<1>6. Running' \subseteq Slots /\ \A s \in Running' : slot'[s] \in SequenceLike(slot'[s])
  BY <1>3 DEF IInv, Typed, Running
<1>7. Typed'
  BY <1>2, <1>5, <1>6 DEF IInv, Typed
<1>. QED
  BY <1>5, <1>7 DEF IInv

\* A decode keeps a sequence its request's.
LEMMA AdvancedType ==
  ASSUME IInv, NEW blocks \in Blocks, NEW rows \in Batches(blocks),
         NEW verified \in Blocks, NEW o \in Outcomes(rows, verified), NEW s \in Running
  PROVE  /\ Advanced(rows, verified, o)[s] \in SequenceLike(slot[s])
         /\ Advanced(rows, verified, o)[s].req = slot[s].req
<1>. DEFINE after == Advanced(rows, verified, o)
<1>. DEFINE fed == Fed(slot[s], rows[s])
<1>1. fed \in SequenceLike(slot[s]) /\ fed.req = slot[s].req
  BY FedType
<1>2. s \in Slots /\ verified[s] \in Seq(Tokens)
  BY BlockType DEF IInv, Typed
<1>3. s \in Sampled(rows) => o[s] \in Samples(fed, verified[s])
  BY DEF Outcomes
<1>4. after[s] = IF s \in Sampled(rows) THEN AfterSample(fed, verified[s], o[s]) ELSE fed
  BY DEF Advanced
<1>. HIDE DEF fed, after
<1>5. CASE s \in Sampled(rows)
  <2>1. AfterSample(fed, verified[s], o[s]) \in SequenceLike(slot[s])
    BY <1>1, <1>2, <1>3, <1>5, SampleType
  <2>2. AfterSample(fed, verified[s], o[s]).req = fed.req
    BY <1>1, <1>2, <1>3, <1>5, SampleType
  <2>. QED
    BY <1>1, <1>4, <1>5, <2>1, <2>2 DEF after
<1>. QED
  BY <1>1, <1>4, <1>5 DEF after

\* A decode writes each slot's rows in its own memory, and what a finished request
\* leaves is recorded as its own.
LEMMA DecodeSealed == IInv /\ Decode => IInv'
<1>. SUFFICES ASSUME IInv, Decode PROVE IInv'
  OBVIOUS
<1>. PICK blocks \in Blocks :
       \E rows \in Batches(blocks), lost \in {FALSE, speculating} :
         /\ \E o \in Outcomes(rows, Verified(blocks, lost)) :
              LET after == Advanced(rows, Verified(blocks, lost), o)
              IN  /\ slot' = Restrict(after, Running \ Done(rows, o))
                  /\ Stepped(rows, blocks, lost, after, Done(rows, o))
         /\ speculating' = (speculating /\ ~lost)
  BY DEF Decode
<1>. PICK rows \in Batches(blocks), lost \in {FALSE, speculating} :
       /\ \E o \in Outcomes(rows, Verified(blocks, lost)) :
            LET after == Advanced(rows, Verified(blocks, lost), o)
            IN  /\ slot' = Restrict(after, Running \ Done(rows, o))
                /\ Stepped(rows, blocks, lost, after, Done(rows, o))
       /\ speculating' = (speculating /\ ~lost)
  OBVIOUS
<1>. DEFINE verified == Verified(blocks, lost)
<1>1. PICK o \in Outcomes(rows, verified) :
        LET after == Advanced(rows, verified, o)
        IN  /\ slot' = Restrict(after, Running \ Done(rows, o))
            /\ Stepped(rows, blocks, lost, after, Done(rows, o))
  OBVIOUS
<1>2. kind' = kind /\ speculating' \in BOOLEAN /\ queue' = queue
  BY DEF Decode
<1>3. lost \in BOOLEAN /\ verified \in Blocks
  <2>1. lost \in BOOLEAN
    BY DEF IInv, Typed
  <2>. QED
    BY <2>1, VerifiedType
<1>. HIDE DEF verified
<1>. DEFINE after == Advanced(rows, verified, o)
            mem == [s \in Running |->
                      IF lost THEN DecodedLost(s, rows[s], blocks[s])
                      ELSE Decoded(s, rows[s], blocks[s], after[s].past)]
            done == Done(rows, o)
<1>4. /\ slot' = Restrict(after, Running \ done)
      /\ memory' = [s \in Slots |->
            IF s \notin Running THEN memory[s]
            ELSE IF s \in done /\ ~KeepsCache THEN NoMemory ELSE mem[s]]
      /\ cached' = [s \in Slots |->
            IF s \in done THEN Kept(cached[s], after[s])
            ELSE IF s \in Running /\ HasRow(rows[s])
              THEN Checkpointed(cached[s], after[s], mem[s]) ELSE cached[s]]
  BY <1>1 DEF Stepped
<1>5. ASSUME NEW s \in Running
      PROVE  after[s] \in SequenceLike(slot[s]) /\ after[s].req = slot[s].req
  BY <1>3, AdvancedType
<1>6. ASSUME NEW s \in Running PROVE mem[s] \in Held(Space[slot[s].req])
  <2>1. after[s].past \in Int
    <3>. HIDE DEF after
    <3>. QED
      BY <1>5 DEF SequenceLike
  <2>2. mem[s] = IF lost THEN DecodedLost(s, rows[s], blocks[s])
                 ELSE Decoded(s, rows[s], blocks[s], after[s].past)
    OBVIOUS
  <2>. HIDE DEF mem, after
  <2>. QED
    BY <2>1, <2>2, DecodedType, DecodedLostType
<1>7. done \subseteq Running /\ DOMAIN after = Running
  BY DEF Sampled, Advanced, Done
<1>. HIDE DEF after, mem, done
<1>8. /\ DOMAIN slot' = Running \ done /\ \A s \in DOMAIN slot' : slot'[s] = after[s]
      /\ DOMAIN cached' = Slots /\ DOMAIN memory' = Slots
  BY <1>4 DEF Restrict
<1>9. Running' \subseteq Slots /\ \A s \in Running' : slot'[s] \in SequenceLike(slot'[s])
  BY <1>5, <1>8, Alike DEF IInv, Typed, Running
<1>10. ASSUME NEW s \in Slots
       PROVE  memory'[s] \in Held(Owner(s)') /\ cached'[s] \in Record(Owner(s)')
  <2>1. memory[s] \in Held(Owner(s)) /\ cached[s] \in Record(Owner(s))
    BY DEF IInv, Sealed
  <2>2. CASE s \notin Running
    <3>1. memory'[s] = memory[s] /\ cached'[s] = cached[s]
      BY <2>2, <1>4, <1>7
    <3>2. Owner(s)' = Owner(s)
      BY <2>2, <3>1, <1>8 DEF Owner, Running
    <3>. QED
      BY <2>1, <3>1, <3>2
  <2>3. CASE s \in Running \ done
    <3>1. Owner(s) = Space[slot[s].req] /\ Owner(s)' = Space[slot[s].req]
      BY <2>3, <1>5, <1>8 DEF Owner, Running
    <3>2. memory'[s] = mem[s]
      BY <2>3, <1>4
    <3>3. cached'[s] \in {cached[s], Checkpointed(cached[s], after[s], mem[s])}
      BY <2>3, <1>4
    <3>4. Checkpointed(cached[s], after[s], mem[s]) \in Record(Space[slot[s].req])
      BY <2>1, <2>3, <3>1, <1>5, <1>6, CheckpointedType
    <3>. QED
      BY <2>1, <2>3, <3>1, <3>2, <3>3, <3>4, <1>6
  <2>4. CASE s \in done /\ KeepsCache
    <3>1. s \in Running /\ after[s] \in SequenceLike(slot[s]) /\ after[s].req = slot[s].req
      BY <2>4, <1>5, <1>7
    <3>2. cached[s] \in Record(Space[after[s].req])
      BY <2>1, <3>1 DEF Owner
    <3>3. /\ cached'[s] = Kept(cached[s], after[s])
          /\ memory'[s] = mem[s]
      BY <2>4, <3>1, <1>4
    <3>4. cached'[s] \in Record(Space[after[s].req]) /\ cached'[s].space = Space[after[s].req]
      BY <2>4, <3>1, <3>2, <3>3, KeptType
    <3>5. Owner(s)' = Space[slot[s].req]
      BY <2>4, <3>1, <3>4, <1>8 DEF Owner, Running
    <3>. QED
      BY <3>1, <3>3, <3>4, <3>5, <1>6
  <2>5. CASE s \in done /\ ~KeepsCache
    <3>1. s \in Running /\ after[s] \in SequenceLike(slot[s]) /\ after[s].req = slot[s].req
      BY <2>5, <1>5, <1>7
    <3>2. cached[s] \in Record(Space[after[s].req])
      BY <2>1, <3>1 DEF Owner
    <3>3. cached'[s] = Kept(cached[s], after[s]) /\ memory'[s] = NoMemory
      BY <2>5, <3>1, <1>4
    <3>4. cached'[s] = Forgotten(cached[s])
      BY <2>5, <3>1, <3>2, <3>3, KeptType
    <3>. QED
      BY <2>1, <3>3, <3>4, EmptyType
  <2>. QED
    BY <2>2, <2>3, <2>4, <2>5
<1>11. Sealed'
  BY <1>10 DEF Sealed
<1>12. Typed'
  BY <1>2, <1>8, <1>9 DEF IInv, Typed
<1>. QED
  BY <1>11, <1>12 DEF IInv

\* Nothing is left after a shutdown.
LEMMA ShutdownSealed == IInv /\ Shutdown => IInv'
<1>. SUFFICES ASSUME IInv, Shutdown PROVE IInv'
  OBVIOUS
<1>1. /\ kind' = kind /\ speculating' = speculating /\ queue' = <<>> /\ slot' = <<>>
      /\ memory' = [s \in Slots |-> NoMemory] /\ cached' = [s \in Slots |-> NothingCached]
  BY DEF Shutdown, engine
<1>2. DOMAIN slot' = {}
  BY <1>1
<1>3. Typed'
  BY <1>1, <1>2 DEF IInv, Typed, Running
<1>4. Sealed'
  BY <1>1, NothingType DEF Sealed
<1>. QED
  BY <1>3, <1>4 DEF IInv

\* What clients and readers do, and the loop's idle turns, touch no slot; a
\* submitted request joins the queue.
LEMMA OtherSealed ==
  ASSUME IInv, UNCHANGED <<engine, slot, cached, memory>>,
         queue' = queue \/ \E r \in Requests : queue' = Append(queue, r)
  PROVE  IInv'
<1>1. queue' \in Seq(Requests)
  BY DEF IInv, Typed
<1>2. Typed'
  BY <1>1 DEF IInv, Typed, Running, engine
<1>3. Sealed'
  BY DEF IInv, Sealed, Owner, Running
<1>. QED
  BY <1>2, <1>3 DEF IInv

\* The strengthened invariant: every cell, recurrent state and checkpoint of a slot
\* was computed under the namespace of the request in it or, when it is idle, the
\* one its cache record names.
THEOREM Inductive == Spec => []IInv
<1>1. Init => IInv
  <2>. SUFFICES ASSUME Init PROVE IInv
    OBVIOUS
  <2>1. DOMAIN slot = {}
    BY DEF Init
  <2>2. Typed
    BY <2>1, KindsAssumption DEF Init, Typed, Running
  <2>3. Sealed
    BY NothingType DEF Init, Sealed
  <2>. QED
    BY <2>2, <2>3 DEF IInv
<1>2. IInv /\ [Next]_vars => IInv'
  <2>. SUFFICES ASSUME IInv, [Next]_vars PROVE IInv'
    OBVIOUS
  <2>1. CASE Sweep
    BY <2>1, SweepSealed
  <2>2. CASE Admit
    BY <2>2, AdmitSealed
  <2>3. CASE Decode
    BY <2>3, DecodeSealed
  <2>4. CASE DecodeFull
    BY <2>4, FullSealed
  <2>5. CASE DecodeFails
    BY <2>5, FailsSealed
  <2>6. CASE Shutdown
    BY <2>6, ShutdownSealed
  <2>7. ASSUME NEW r \in Requests, Submit(r) PROVE IInv'
    BY <2>7, OtherSealed DEF Submit
  <2>8. CASE \/ Idle
             \/ \E r \in Impatient : Leave(r)
             \/ \E r \in Streaming : ReaderFallsBehind(r) \/ ReaderCatchesUp(r) \/ DrainExpires(r)
             \/ UNCHANGED vars
    <3>1. UNCHANGED <<engine, slot, cached, memory>> /\ queue' = queue
      BY <2>8 DEF Idle, Leave, ReaderFallsBehind, ReaderCatchesUp, DrainExpires, vars
    <3>. QED
      BY <3>1, OtherSealed
  <2>. QED
    BY <2>1, <2>2, <2>3, <2>4, <2>5, <2>6, <2>7, <2>8 DEF Next, Loop
<1>. QED
  BY <1>1, <1>2, PTL DEF Spec

\* No request ever attends to a cell computed under another namespace, however its
\* slot was used before, by whom, and however that ended.
THEOREM NamespaceIsolated == Spec => []Isolated
<1>1. IInv => Isolated
  <2>. SUFFICES ASSUME IInv, NEW s \in Running, NEW i \in DOMAIN memory[s].attn
                PROVE  memory[s].attn[i].space = Space[slot[s].req]
    BY DEF Isolated
  <2>1. s \in Slots /\ Owner(s) = Space[slot[s].req]
    BY DEF IInv, Typed, Owner
  <2>2. memory[s].attn \in Seq(CellOf(Space[slot[s].req]))
    BY <2>1 DEF IInv, Sealed, Held
  <2>3. memory[s].attn[i] \in CellOf(Space[slot[s].req])
    BY <2>2
  <2>. QED
    BY <2>3 DEF CellOf
<1>. QED
  BY <1>1, Inductive, PTL

-----------------------------------------------------------------------------
(* Slices.                                                                 *)

\* Tokens held, given and decoded are joined in either order.
LEMMA JoinedTokens ==
  \A a, b, c \in Seq(Tokens) : (a \o b) \o c = a \o (b \o c)
  BY ConcatAssociative

\* A slice, place by place.
LEMMA CutIs ==
  ASSUME NEW L, NEW s \in Seq(L), NEW n \in Nat
  PROVE  /\ Cut(s, n) \in Seq(L)
         /\ Len(Cut(s, n)) = IF n < Len(s) THEN n ELSE Len(s)
         /\ \A i \in 1 .. Len(Cut(s, n)) : Cut(s, n)[i] = s[i]
<1>. DEFINE m == IF n < Len(s) THEN n ELSE Len(s)
<1>1. m \in 0 .. Len(s) /\ m \in Int /\ 1 \in Int
  BY LenProperties
<1>2. \A i \in 1 .. m : s[i] \in L
  BY <1>1, ElementOfSeq
<1>. HIDE DEF m
<1>3. /\ SubSeq(s, 1, m) \in Seq(L)
      /\ Len(SubSeq(s, 1, m)) = IF 1 <= m THEN m - 1 + 1 ELSE 0
      /\ \A i \in 1 .. m - 1 + 1 : SubSeq(s, 1, m)[i] = s[1 + i - 1]
  BY <1>1, <1>2, SubSeqProperties
<1>4. Len(SubSeq(s, 1, m)) = m /\ \A i \in 1 .. m : SubSeq(s, 1, m)[i] = s[i]
  BY <1>1, <1>3
<1>5. Cut(s, n) = SubSeq(s, 1, m)
  BY DEF Cut, m
<1>. QED
  BY <1>3, <1>4, <1>5 DEF m

\* A slice of all of a sequence, and a slice of a slice.
LEMMA CutAll ==
  ASSUME NEW L, NEW s \in Seq(L), NEW n \in Nat, Len(s) <= n
  PROVE  Cut(s, n) = s
<1>1. PICK t \in Seq(L) : t = Cut(s, n)
  BY CutIs
<1>2. Len(t) = Len(s) /\ \A i \in 1 .. Len(t) : t[i] = s[i]
  BY <1>1, CutIs
<1>. QED
  BY <1>1, <1>2, SameSeq

\* Nothing of a sequence is the empty one.
LEMMA CutNone ==
  ASSUME NEW L, NEW s \in Seq(L)
  PROVE  Cut(s, 0) = <<>>
<1>1. Len(s) \in Nat
  BY LenProperties
<1>2. Cut(s, 0) \in Seq(L) /\ Len(Cut(s, 0)) = IF 0 < Len(s) THEN 0 ELSE Len(s)
  BY CutIs
<1>. QED
  BY <1>1, <1>2, EmptySeq

\* A slice of a slice is a slice.
LEMMA CutCut ==
  ASSUME NEW L, NEW s \in Seq(L), NEW n \in Nat, NEW m \in Nat, m <= n
  PROVE  Cut(Cut(s, n), m) = Cut(s, m)
<1>1. PICK t \in Seq(L) : t = Cut(s, n)
  BY CutIs
<1>2. Len(t) = (IF n < Len(s) THEN n ELSE Len(s)) /\ \A i \in 1 .. Len(t) : t[i] = s[i]
  BY <1>1, CutIs
<1>3. PICK u \in Seq(L) : u = Cut(t, m)
  BY CutIs
<1>4. Len(u) = (IF m < Len(t) THEN m ELSE Len(t)) /\ \A i \in 1 .. Len(u) : u[i] = t[i]
  BY <1>3, CutIs
<1>5. PICK v \in Seq(L) : v = Cut(s, m)
  BY CutIs
<1>6. Len(v) = (IF m < Len(s) THEN m ELSE Len(s)) /\ \A i \in 1 .. Len(v) : v[i] = s[i]
  BY <1>5, CutIs
<1>7. Len(s) \in Nat
  BY LenProperties
<1>8. Len(u) = Len(v) /\ Len(u) <= Len(t)
  BY <1>2, <1>4, <1>6, <1>7
<1>9. \A i \in 1 .. Len(u) : u[i] = v[i]
  <2>1. \A i \in 1 .. Len(u) : i \in 1 .. Len(t) /\ i \in 1 .. Len(v)
    BY <1>2, <1>4, <1>7, <1>8
  <2>. QED
    BY <1>2, <1>4, <1>6, <2>1
<1>10. u = v
  BY <1>8, <1>9, SameSeq
<1>. QED
  BY <1>1, <1>3, <1>5, <1>10

\* A slice of two sequences joined.
LEMMA CutJoined ==
  ASSUME NEW L, NEW a \in Seq(L), NEW b \in Seq(L), NEW n \in Nat
  PROVE  /\ n <= Len(a) => Cut(a \o b, n) = Cut(a, n)
         /\ Cut(a \o b, Len(a) + n) = a \o Cut(b, n)
<1>0. Len(a) \in Nat /\ Len(b) \in Nat
  BY LenProperties
<1>1. PICK s \in Seq(L) : s = a \o b
  BY ConcatProperties
<1>2. Len(s) = Len(a) + Len(b)
      /\ \A i \in 1 .. Len(a) + Len(b) : s[i] = IF i <= Len(a) THEN a[i] ELSE b[i - Len(a)]
  BY <1>1, ConcatProperties
<1>3. ASSUME n <= Len(a) PROVE Cut(s, n) = Cut(a, n)
  <2>1. PICK t \in Seq(L) : t = Cut(s, n)
    BY CutIs
  <2>2. Len(t) = n /\ \A i \in 1 .. n : t[i] = s[i]
    <3>1. ~(n < Len(s)) => n = Len(s)
      BY <1>0, <1>2, <1>3
    <3>. QED
      BY <2>1, <3>1, CutIs
  <2>3. PICK u \in Seq(L) : u = Cut(a, n)
    BY CutIs
  <2>4. Len(u) = n /\ \A i \in 1 .. n : u[i] = a[i]
    <3>1. ~(n < Len(a)) => n = Len(a)
      BY <1>0, <1>3
    <3>2. Len(u) = (IF n < Len(a) THEN n ELSE Len(a)) /\ \A i \in 1 .. Len(u) : u[i] = a[i]
      BY <2>3, CutIs
    <3>. QED
      BY <3>1, <3>2
  <2>5. \A i \in 1 .. n : s[i] = a[i]
    <3>1. \A i \in 1 .. n : i \in 1 .. Len(a) + Len(b) /\ i <= Len(a)
      BY <1>0, <1>3
    <3>. QED
      BY <1>2, <3>1
  <2>6. t = u
    BY <2>2, <2>4, <2>5, SameSeq
  <2>. QED
    BY <2>1, <2>3, <2>6
<1>4. Cut(s, Len(a) + n) = a \o Cut(b, n)
  <2>1. PICK t \in Seq(L) : t = Cut(s, Len(a) + n)
    BY <1>0, CutIs
  <2>2. PICK c \in Seq(L) : c = Cut(b, n)
    BY CutIs
  <2>3. Len(c) = (IF n < Len(b) THEN n ELSE Len(b)) /\ \A i \in 1 .. Len(c) : c[i] = b[i]
    BY <2>2, CutIs
  <2>4. Len(t) = Len(a) + Len(c) /\ \A i \in 1 .. Len(t) : t[i] = s[i]
    <3>1. Len(a) + n \in Nat
      BY <1>0
    <3>2. /\ Len(t) = (IF Len(a) + n < Len(s) THEN Len(a) + n ELSE Len(s))
          /\ \A i \in 1 .. Len(t) : t[i] = s[i]
      BY <2>1, <3>1, CutIs
    <3>. QED
      BY <1>0, <1>2, <2>3, <3>2
  <2>5. PICK u \in Seq(L) : u = a \o c
    BY ConcatProperties
  <2>6. Len(u) = Len(a) + Len(c)
        /\ \A i \in 1 .. Len(a) + Len(c) : u[i] = IF i <= Len(a) THEN a[i] ELSE c[i - Len(a)]
    BY <2>5, ConcatProperties
  <2>7. ASSUME NEW i \in 1 .. Len(t) PROVE t[i] = u[i]
    <3>0. Len(c) \in Nat /\ Len(c) <= Len(b)
      BY <1>0, <2>3
    <3>1. i \in 1 .. Len(a) + Len(c) /\ i \in 1 .. Len(a) + Len(b)
      BY <1>0, <2>4, <3>0
    <3>2. CASE i <= Len(a)
      BY <1>2, <2>4, <2>6, <3>1, <3>2
    <3>3. CASE ~(i <= Len(a))
      <4>1. i - Len(a) \in 1 .. Len(c)
        BY <1>0, <3>0, <3>1, <3>3
      <4>2. t[i] = b[i - Len(a)] /\ u[i] = c[i - Len(a)]
        BY <1>2, <2>4, <2>6, <3>1, <3>3
      <4>. QED
        BY <2>3, <4>1, <4>2
    <3>. QED
      BY <3>2, <3>3
  <2>8. t = u
    BY <2>4, <2>6, <2>7, SameSeq
  <2>. QED
    BY <2>1, <2>2, <2>5, <2>8
<1>. QED
  BY <1>1, <1>3, <1>4

\* The same, for Zenon: what follows a joined sequence is cut in the second part.
LEMMA CutBehind ==
  \A L : \A a, b \in Seq(L) : \A n \in Nat : Cut(a \o b, Len(a) + n) = a \o Cut(b, n)
<1>. SUFFICES ASSUME NEW L, NEW a \in Seq(L), NEW b \in Seq(L), NEW n \in Nat
              PROVE  Cut(a \o b, Len(a) + n) = a \o Cut(b, n)
  OBVIOUS
<1>. QED
  BY CutJoined

\* A slice and what follows it.
LEMMA CutThen ==
  ASSUME NEW L, NEW s \in Seq(L), NEW n \in Nat, NEW m \in Nat, n + m <= Len(s)
  PROVE  Cut(s, n) \o SubSeq(s, n + 1, n + m) = Cut(s, n + m)
<1>0. Len(s) \in Nat
  BY LenProperties
<1>1. Cut(s, n) = SubSeq(s, 1, n) /\ Cut(s, n + m) = SubSeq(s, 1, n + m)
  <2>1. (IF n < Len(s) THEN n ELSE Len(s)) = n
        /\ (IF n + m < Len(s) THEN n + m ELSE Len(s)) = n + m
    BY <1>0
  <2>. QED
    BY <2>1 DEF Cut
<1>2. 1 \in 1 .. Len(s) + 1 /\ n \in 1 - 1 .. Len(s) /\ n + m \in n .. Len(s)
  BY <1>0
<1>3. SubSeq(s, 1, n) \o SubSeq(s, n + 1, n + m) = SubSeq(s, 1, n + m)
  BY <1>2, ConcatAdjacentSubSeq
<1>. QED
  BY <1>1, <1>3

\* The tokens of cells.
LEMMA TokensOfIs ==
  ASSUME NEW a \in Seq(CellType)
  PROVE  /\ TokensOf(a) \in Seq(Tokens) /\ Len(TokensOf(a)) = Len(a)
         /\ \A i \in 1 .. Len(a) : TokensOf(a)[i] = a[i].token
<1>1. DOMAIN a = 1 .. Len(a) /\ Len(a) \in Nat
  BY LenProperties
<1>2. \A i \in 1 .. Len(a) : a[i].token \in Tokens
  <2>1. \A i \in 1 .. Len(a) : a[i] \in CellType
    BY ElementOfSeq
  <2>. QED
    BY <2>1 DEF CellType
<1>3. TokensOf(a) = [i \in 1 .. Len(a) |-> a[i].token]
  BY <1>1 DEF TokensOf
<1>4. TokensOf(a) \in Seq(Tokens)
  BY <1>1, <1>2, <1>3, IsASeq
<1>5. DOMAIN TokensOf(a) = 1 .. Len(a)
  BY <1>3
<1>6. Len(TokensOf(a)) = Len(a)
  BY <1>1, <1>4, <1>5, LenProperties
<1>. QED
  BY <1>3, <1>4, <1>6

-----------------------------------------------------------------------------
(* What cells hold.                                                        *)

\* No cell is left over from a draft.
Clean(cells) == \A i \in DOMAIN cells : ~cells[i].left

\* A cell, place by place.
LEMMA HoldIs ==
  ASSUME NEW a \in Seq(CellType), NEW t \in Seq(Tokens)
  PROVE  /\ Hold(a, t) <=>
              \A i \in 1 .. Len(a) : a[i].left \/ (i \in 1 .. Len(t) /\ a[i].token = t[i])
         /\ Clean(a) <=> \A i \in 1 .. Len(a) : ~a[i].left
<1>1. DOMAIN a = 1 .. Len(a) /\ DOMAIN t = 1 .. Len(t)
  BY LenProperties
<1>. QED
  BY <1>1 DEF Hold, Clean

\* A slice of the cells holds the slice of the tokens.
LEMMA HoldCut ==
  ASSUME NEW a \in Seq(CellType), NEW t \in Seq(Tokens), Hold(a, t), NEW n \in Nat
  PROVE  Hold(Cut(a, n), Cut(t, n)) /\ (Clean(a) => Clean(Cut(a, n)))
<1>1. PICK c \in Seq(CellType) : c = Cut(a, n)
  BY CutIs
<1>2. Len(c) = (IF n < Len(a) THEN n ELSE Len(a)) /\ \A i \in 1 .. Len(c) : c[i] = a[i]
  BY <1>1, CutIs
<1>3. PICK u \in Seq(Tokens) : u = Cut(t, n)
  BY CutIs
<1>4. Len(u) = (IF n < Len(t) THEN n ELSE Len(t)) /\ \A i \in 1 .. Len(u) : u[i] = t[i]
  BY <1>3, CutIs
<1>5. Len(a) \in Nat /\ Len(t) \in Nat
  BY LenProperties
<1>6. ASSUME NEW i \in 1 .. Len(c)
      PROVE  /\ c[i].left \/ (i \in 1 .. Len(u) /\ c[i].token = u[i])
             /\ Clean(a) => ~c[i].left
  <2>1. i \in 1 .. Len(a) /\ i <= n /\ c[i] = a[i]
    BY <1>2, <1>5
  <2>2. a[i].left \/ (i \in 1 .. Len(t) /\ a[i].token = t[i])
    BY <2>1, HoldIs
  <2>3. i \in 1 .. Len(t) => i \in 1 .. Len(u)
    BY <1>4, <1>5, <2>1
  <2>4. i \in 1 .. Len(t) => u[i] = t[i]
    BY <1>4, <2>3
  <2>5. Clean(a) => ~a[i].left
    BY <2>1, HoldIs
  <2>. QED
    BY <2>1, <2>2, <2>3, <2>4, <2>5
<1>7. Hold(c, u) /\ (Clean(a) => Clean(c))
  BY <1>6, HoldIs
<1>. QED
  BY <1>1, <1>3, <1>7

\* Cells that end where the tokens end go on with what goes on.
LEMMA HoldJoined ==
  ASSUME NEW a \in Seq(CellType), NEW c \in Seq(CellType), NEW t \in Seq(Tokens),
         NEW u \in Seq(Tokens), Hold(a, t), Hold(c, u), Len(a) = Len(t)
  PROVE  /\ a \o c \in Seq(CellType) /\ Len(a \o c) = Len(a) + Len(c)
         /\ Hold(a \o c, t \o u)
         /\ Clean(a) /\ Clean(c) => Clean(a \o c)
<1>0. Len(a) \in Nat /\ Len(c) \in Nat /\ Len(u) \in Nat
  BY LenProperties
<1>1. PICK s \in Seq(CellType) : s = a \o c
  BY ConcatProperties
<1>2. Len(s) = Len(a) + Len(c)
      /\ \A i \in 1 .. Len(a) + Len(c) : s[i] = IF i <= Len(a) THEN a[i] ELSE c[i - Len(a)]
  BY <1>1, ConcatProperties
<1>3. PICK v \in Seq(Tokens) : v = t \o u
  BY ConcatProperties
<1>4. Len(v) = Len(a) + Len(u)
      /\ \A i \in 1 .. Len(a) + Len(u) : v[i] = IF i <= Len(a) THEN t[i] ELSE u[i - Len(a)]
  BY <1>3, ConcatProperties
<1>5. ASSUME NEW i \in 1 .. Len(s)
      PROVE  /\ s[i].left \/ (i \in 1 .. Len(v) /\ s[i].token = v[i])
             /\ Clean(a) /\ Clean(c) => ~s[i].left
  <2>1. CASE i <= Len(a)
    <3>1. i \in 1 .. Len(a) /\ i \in 1 .. Len(a) + Len(u) /\ s[i] = a[i]
      BY <1>0, <1>2, <2>1
    <3>2. v[i] = t[i] /\ i \in 1 .. Len(v)
      BY <1>4, <2>1, <3>1
    <3>3. a[i].left \/ a[i].token = t[i]
      BY <3>1, HoldIs
    <3>4. Clean(a) => ~a[i].left
      BY <3>1, HoldIs
    <3>. QED
      BY <3>1, <3>2, <3>3, <3>4
  <2>2. CASE ~(i <= Len(a))
    <3>1. PICK j \in 1 .. Len(c) : j = i - Len(a) /\ i = Len(a) + j
      BY <1>0, <1>2, <2>2
    <3>2. s[i] = c[j]
      BY <1>2, <2>2, <3>1
    <3>3. j \in 1 .. Len(u) => i \in 1 .. Len(v) /\ v[i] = u[j]
      <4>. SUFFICES ASSUME j \in 1 .. Len(u) PROVE i \in 1 .. Len(v) /\ v[i] = u[j]
        OBVIOUS
      <4>1. i \in 1 .. Len(a) + Len(u)
        BY <1>0, <3>1
      <4>2. v[i] = u[i - Len(a)]
        BY <1>4, <2>2, <4>1
      <4>. QED
        BY <1>4, <3>1, <4>1, <4>2
    <3>4. c[j].left \/ (j \in 1 .. Len(u) /\ c[j].token = u[j])
      BY <3>1, HoldIs
    <3>5. Clean(c) => ~c[j].left
      BY <3>1, HoldIs
    <3>. QED
      BY <3>2, <3>3, <3>4, <3>5
  <2>. QED
    BY <2>1, <2>2
<1>6. Hold(s, v) /\ (Clean(a) /\ Clean(c) => Clean(s))
  BY <1>5, HoldIs
<1>. QED
  BY <1>1, <1>2, <1>3, <1>6

\* More tokens behind those held change nothing of what is held.
LEMMA HoldMore ==
  ASSUME NEW a \in Seq(CellType), NEW t \in Seq(Tokens), NEW u \in Seq(Tokens), Hold(a, t)
  PROVE  Hold(a, t \o u)
<1>0. Len(t) \in Nat /\ Len(u) \in Nat
  BY LenProperties
<1>1. PICK v \in Seq(Tokens) : v = t \o u
  BY ConcatProperties
<1>2. Len(v) = Len(t) + Len(u)
      /\ \A i \in 1 .. Len(t) + Len(u) : v[i] = IF i <= Len(t) THEN t[i] ELSE u[i - Len(t)]
  BY <1>1, ConcatProperties
<1>3. ASSUME NEW i \in 1 .. Len(a)
      PROVE  a[i].left \/ (i \in 1 .. Len(v) /\ a[i].token = v[i])
  <2>1. a[i].left \/ (i \in 1 .. Len(t) /\ a[i].token = t[i])
    BY HoldIs
  <2>2. i \in 1 .. Len(t) => i \in 1 .. Len(v) /\ v[i] = t[i]
    BY <1>0, <1>2
  <2>. QED
    BY <2>1, <2>2
<1>4. Hold(a, v)
  BY <1>3, HoldIs
<1>. QED
  BY <1>1, <1>4

\* Clean cells that hold all of the tokens are those tokens.
LEMMA HoldAll ==
  ASSUME NEW a \in Seq(CellType), NEW t \in Seq(Tokens), Hold(a, t), Clean(a),
         Len(t) <= Len(a)
  PROVE  TokensOf(a) = t
<1>1. PICK u \in Seq(Tokens) :
        u = TokensOf(a) /\ Len(u) = Len(a) /\ \A i \in 1 .. Len(a) : u[i] = a[i].token
  BY TokensOfIs
<1>2. Len(a) \in Nat /\ Len(t) \in Nat
  BY LenProperties
<1>3. \A i \in 1 .. Len(a) : i \in 1 .. Len(t) /\ a[i].token = t[i]
  BY HoldIs
<1>4. Len(a) <= Len(t)
  <2>1. CASE Len(a) = 0
    BY <1>2, <2>1
  <2>2. CASE Len(a) # 0
    <3>1. Len(a) \in 1 .. Len(a)
      BY <1>2, <2>2
    <3>. QED
      BY <1>2, <1>3, <3>1
  <2>. QED
    BY <2>1, <2>2
<1>5. Len(u) = Len(t) /\ \A i \in 1 .. Len(u) : u[i] = t[i]
  BY <1>1, <1>2, <1>3, <1>4
<1>. QED
  BY <1>1, <1>5, SameSeq

\* The cells of decoded tokens hold them; those left over hold anything.
LEMMA CellsAre ==
  ASSUME NEW t \in Seq(Tokens), NEW r \in Requests
  PROVE  /\ Cells(t, r) \in Seq(CellType) /\ Len(Cells(t, r)) = Len(t)
         /\ Hold(Cells(t, r), t) /\ Clean(Cells(t, r))
         /\ LeftOver(t, r) \in Seq(CellType) /\ Len(LeftOver(t, r)) = Len(t)
         /\ Hold(LeftOver(t, r), <<>>)
<1>0. Len(t) \in Nat /\ DOMAIN t = 1 .. Len(t) /\ Space[r] \in Spaces
  BY LenProperties DEF Spaces
<1>. DEFINE Over(x) == [token |-> x, space |-> Space[r], left |-> TRUE]
<1>1. \A i \in 1 .. Len(t) : Cell(t[i], r) \in CellType /\ Over(t[i]) \in CellType
  BY <1>0, ElementOfSeq DEF Cell, CellType
<1>2. PICK c \in Seq(CellType) : c = Cells(t, r) /\ c = [i \in 1 .. Len(t) |-> Cell(t[i], r)]
  <2>1. Cells(t, r) = [i \in 1 .. Len(t) |-> Cell(t[i], r)]
    BY <1>0 DEF Cells
  <2>2. \A i \in 1 .. Len(t) : Cell(t[i], r) \in CellType
    BY <1>1
  <2>3. [i \in 1 .. Len(t) |-> Cell(t[i], r)] \in Seq(CellType)
    BY <1>0, <2>2, IsASeq
  <2>. QED
    BY <2>1, <2>3
<1>3. PICK b \in Seq(CellType) : b = LeftOver(t, r) /\ b = [i \in 1 .. Len(t) |-> Over(t[i])]
  <2>1. LeftOver(t, r) = [i \in 1 .. Len(t) |-> Over(t[i])]
    BY <1>0 DEF LeftOver
  <2>2. \A i \in 1 .. Len(t) : Over(t[i]) \in CellType
    BY <1>1
  <2>. HIDE DEF Over
  <2>3. [i \in 1 .. Len(t) |-> Over(t[i])] \in Seq(CellType)
    BY <1>0, <2>2, IsASeq
  <2>. QED
    BY <2>1, <2>3
<1>4. Len(c) = Len(t) /\ \A i \in 1 .. Len(t) : c[i].token = t[i] /\ c[i].left = FALSE
  <2>1. DOMAIN c = 1 .. Len(t)
    BY <1>2
  <2>2. Len(c) = Len(t)
    BY <1>0, <2>1, LenProperties
  <2>. QED
    BY <1>2, <2>2 DEF Cell
<1>5. Len(b) = Len(t) /\ \A i \in 1 .. Len(t) : b[i].left = TRUE
  <2>1. DOMAIN b = 1 .. Len(t)
    BY <1>3
  <2>2. Len(b) = Len(t)
    BY <1>0, <2>1, LenProperties
  <2>. QED
    BY <1>3, <2>2
<1>6. Hold(c, t) /\ Clean(c)
  BY <1>4, HoldIs
<1>7. Hold(b, <<>>)
  <2>1. <<>> \in Seq(Tokens)
    BY EmptySeq
  <2>. QED
    BY <1>5, <2>1, HoldIs
<1>. QED
  BY <1>2, <1>3, <1>4, <1>5, <1>6, <1>7

-----------------------------------------------------------------------------
(* Sequences.                                                              *)

\* What the records of a running sequence say of each other.
Stands(q) ==
  /\ q.past = Len(q.resident) /\ Len(Prompt[q.req]) < Context
  /\ q.cursor < Len(Prompt[q.req])
  /\ kind # "recurrent" => q.cuts = {}
  /\ q.pending =>
       q.token = <<>> /\ q.emitted = 0 /\ q.past = q.cursor
         /\ q.resident = Cut(Prompt[q.req], q.cursor)
  /\ ~q.pending =>
       q.token # <<>> /\ q.past + 1 < MaxPos(q) /\ q.past + 1 = InputOf(q) + q.emitted
         /\ Len(Prompt[q.req]) <= q.past /\ Cut(q.resident, Len(Prompt[q.req])) = Prompt[q.req]

\* Checkpoints describe a memory: each is its state at an earlier position.
Describe(checkpoints, held) ==
  \A c \in checkpoints : c.at <= Len(held) /\ c.state = Cut(held, c.at)

\* What they say of the slot's memory.
Recorded(s) ==
  LET held == memory[s].attn
  IN  /\ kind = "recurrent" => memory[s].rec = held
      /\ Describe(cached[s].checkpoints, held)
      /\ s \notin Running => Len(cached[s].ids) <= Len(held) /\ Hold(held, cached[s].ids)
      /\ s \in Running => Hold(held, slot[s].resident)
      /\ s \in Running /\ ~slot[s].pending => slot[s].past <= Len(held)
      /\ speculating => Clean(held)

\* A slot keeps no more checkpoints than it may.
Few(cps) == IsFiniteSet(cps) /\ Cardinality(cps) <= PerSlot

Capped == \A s \in Slots : Few(cached[s].checkpoints)

RInv == (\A s \in Running : Stands(slot[s])) /\ (\A s \in Slots : Recorded(s)) /\ Capped

\* A row as one of a step's batch is, when it has one.
RowFor(q, row) ==
  /\ row.token = q.token /\ row.start = q.cursor /\ row.added \in Nat
  /\ q.pending => q.cursor + row.added <= Len(Prompt[q.req])
  /\ ~q.pending => row.added = 0

\* The fields of a sequence.
LEMMA Fields ==
  ASSUME NEW q, q \in SequenceLike(q), Stands(q)
  PROVE  /\ q.req \in Requests /\ q.pending \in BOOLEAN /\ q.cursor \in Nat /\ q.past \in Nat
         /\ q.resident \in Seq(Tokens) /\ q.token \in AtMostOne /\ q.emitted \in Nat
         /\ Prompt[q.req] \in Seq(Tokens) /\ Len(Prompt[q.req]) \in Nat \ {0}
         /\ q.past = Len(q.resident) /\ InputOf(q) = Len(Prompt[q.req])
<1>1. /\ q.req \in Requests /\ q.pending \in BOOLEAN /\ q.cursor \in Nat /\ q.past \in Nat
      /\ q.resident \in Seq(Tokens) /\ q.token \in AtMostOne /\ q.emitted \in Nat
  BY DEF SequenceLike
<1>2. Prompt[q.req] \in Seq(Tokens) /\ Prompt[q.req] # <<>>
  BY <1>1, RequestsAssumption
<1>3. Len(Prompt[q.req]) \in Nat \ {0}
  BY <1>2, EmptySeq
<1>. QED
  BY <1>1, <1>2, <1>3 DEF Stands, InputOf

\* What a row adds: the token to feed, or the prompt's next ones.
LEMMA FeedingIs ==
  ASSUME NEW q, q \in SequenceLike(q), Stands(q), NEW row, RowFor(q, row)
  PROVE  /\ TokensFed(q, row) \in Seq(Tokens)
         /\ q.pending =>
              /\ Len(TokensFed(q, row)) = row.added
              /\ q.resident \o TokensFed(q, row) = Cut(Prompt[q.req], q.cursor + row.added)
         /\ ~q.pending => TokensFed(q, row) = q.token /\ Len(TokensFed(q, row)) = 1
<1>1. /\ q.cursor \in Nat /\ q.token \in AtMostOne /\ q.pending \in BOOLEAN
      /\ Prompt[q.req] \in Seq(Tokens) /\ Len(Prompt[q.req]) \in Nat
  BY Fields
<1>2. PICK part \in Seq(Tokens) :
        /\ part = SubSeq(Prompt[q.req], q.cursor + 1, q.cursor + row.added)
        /\ q.pending => Len(part) = row.added
        /\ ~q.pending => part = <<>>
  <2>0. row.added \in Nat
    BY DEF RowFor
  <2>1. CASE ~q.pending
    <3>1. q.cursor + row.added < q.cursor + 1
      BY <1>1, <2>1 DEF RowFor
    <3>2. SubSeq(Prompt[q.req], q.cursor + 1, q.cursor + row.added) = <<>>
      BY <1>1, <2>0, <3>1, SubSeqEmpty
    <3>. QED
      BY <2>1, <3>2, EmptySeq
  <2>2. CASE q.pending
    <3>1. q.cursor + 1 \in Int /\ q.cursor + row.added \in Int
      BY <1>1, <2>0
    <3>2. \A i \in q.cursor + 1 .. q.cursor + row.added : i \in 1 .. Len(Prompt[q.req])
      BY <1>1, <2>0, <2>2 DEF RowFor
    <3>3. \A i \in q.cursor + 1 .. q.cursor + row.added : Prompt[q.req][i] \in Tokens
      BY <1>1, <3>2, ElementOfSeq
    <3>4. PICK first \in Int : first = q.cursor + 1
      BY <3>1
    <3>5. PICK last \in Int : last = q.cursor + row.added
      BY <3>1
    <3>6. /\ SubSeq(Prompt[q.req], first, last) \in Seq(Tokens)
          /\ Len(SubSeq(Prompt[q.req], first, last)) =
               IF first <= last THEN last - first + 1 ELSE 0
      BY <3>3, <3>4, <3>5, SubSeqProperties
    <3>7. Len(SubSeq(Prompt[q.req], first, last)) = row.added
      BY <1>1, <2>0, <3>4, <3>5, <3>6
    <3>. QED
      BY <2>2, <3>4, <3>5, <3>6, <3>7
  <2>. QED
    BY <1>1, <2>1, <2>2
<1>3. TokensFed(q, row) = q.token \o part
  BY <1>2 DEF TokensFed, RowFor
<1>4. CASE q.pending
  <2>1. TokensFed(q, row) = part
    <3>1. q.token = <<>>
      BY <1>4 DEF Stands
    <3>. QED
      BY <1>2, <1>3, <3>1, ConcatEmptySeq
  <2>2. q.cursor + row.added <= Len(Prompt[q.req]) /\ row.added \in Nat
    BY <1>4 DEF RowFor
  <2>3. Cut(Prompt[q.req], q.cursor) \o part = Cut(Prompt[q.req], q.cursor + row.added)
    BY <1>1, <1>2, <2>2, CutThen
  <2>4. q.resident = Cut(Prompt[q.req], q.cursor)
    BY <1>4 DEF Stands
  <2>. QED
    BY <1>2, <1>4, <2>1, <2>3, <2>4
<1>5. CASE ~q.pending
  <2>1. PICK t \in Tokens : q.token = <<t>>
    BY <1>1, <1>5 DEF Stands, AtMostOne
  <2>2. <<t>> \in Seq(Tokens) /\ Len(<<t>>) = 1
    OBVIOUS
  <2>3. part = <<>>
    BY <1>2, <1>5
  <2>4. <<t>> \o <<>> = <<t>>
    BY <2>2, ConcatEmptySeq
  <2>. QED
    BY <1>3, <1>5, <2>1, <2>2, <2>3, <2>4
<1>. QED
  BY <1>1, <1>4, <1>5

\* The sequence once its row is in the batch, field by field.
LEMMA FedFields ==
  ASSUME NEW q, q \in SequenceLike(q), Stands(q), NEW row, RowFor(q, row)
  PROVE  LET f == Fed(q, row)
             fed == TokensFed(q, row)
         IN
         /\ f \in SequenceLike(q) /\ f.req = q.req /\ f.cuts = q.cuts /\ f.emitted = q.emitted
         /\ f.token = <<>> /\ f.resident = q.resident \o fed /\ f.past = q.past + Len(fed)
         /\ f.past = Len(f.resident)
         /\ f.cursor = IF ReadsAll(q, row) THEN 0
                       ELSE IF q.pending THEN q.cursor + row.added ELSE q.cursor
         /\ f.pending = (q.pending /\ ~ReadsAll(q, row))
<1>. DEFINE fed == TokensFed(q, row)
            cursor == IF ReadsAll(q, row) THEN 0
                      ELSE IF q.pending THEN q.cursor + row.added ELSE q.cursor
            f == Fed(q, row)
<1>1. /\ q.pending \in BOOLEAN /\ q.cursor \in Nat /\ q.past \in Nat
      /\ q.resident \in Seq(Tokens) /\ q.past = Len(q.resident)
  BY Fields
<1>2. fed \in Seq(Tokens) /\ Len(fed) \in Nat
  BY FeedingIs, LenProperties
<1>3. row.start = q.cursor /\ row.added \in Nat /\ row.token = q.token
  BY DEF RowFor
<1>4. f = [q EXCEPT !.resident = q.resident \o fed, !.past = q.past + Len(fed),
                    !.token = <<>>, !.cursor = cursor,
                    !.pending = q.pending /\ ~ReadsAll(q, row)]
  <2>1. q.token = <<>> => [q EXCEPT !.token = q.token] = [q EXCEPT !.token = <<>>]
    OBVIOUS
  <2>2. (IF row.token = <<>> THEN q.token ELSE <<>>) = <<>>
    BY <1>3
  <2>3. (IF q.pending THEN row.start + row.added ELSE q.cursor)
          = (IF q.pending THEN q.cursor + row.added ELSE q.cursor)
    BY <1>3
  <2>. HIDE DEF fed
  <2>4. f = [q EXCEPT !.resident = @ \o fed, !.past = @ + Len(fed),
                      !.token = IF row.token = <<>> THEN @ ELSE <<>>,
                      !.cursor = IF ReadsAll(q, row) THEN 0
                                 ELSE IF q.pending THEN row.start + row.added ELSE q.cursor,
                      !.pending = @ /\ ~ReadsAll(q, row)]
    BY DEF Fed, fed
  <2>. QED
    BY <2>2, <2>3, <2>4 DEF SequenceLike
<1>5. cursor \in Nat
  BY <1>1, <1>3
<1>6. PICK resident \in Seq(Tokens) :
        resident = q.resident \o fed /\ Len(resident) = q.past + Len(fed)
  <2>1. /\ q.resident \o fed \in Seq(Tokens)
        /\ Len(q.resident \o fed) = Len(q.resident) + Len(fed)
    BY <1>1, <1>2, ConcatProperties
  <2>. QED
    BY <1>1, <2>1
<1>7. q.past + Len(fed) \in Nat /\ (q.pending /\ ~ReadsAll(q, row)) \in BOOLEAN
  BY <1>1, <1>2
<1>. HIDE DEF fed, cursor, f
<1>8. f = [q EXCEPT !.resident = resident, !.past = q.past + Len(fed),
                    !.token = <<>>, !.cursor = cursor,
                    !.pending = q.pending /\ ~ReadsAll(q, row)]
  BY <1>4, <1>6
<1>9. /\ f \in SequenceLike(q) /\ f.req = q.req /\ f.cuts = q.cuts /\ f.emitted = q.emitted
      /\ f.token = <<>> /\ f.resident = resident /\ f.past = q.past + Len(fed)
      /\ f.cursor = cursor /\ f.pending = (q.pending /\ ~ReadsAll(q, row))
  BY <1>5, <1>7, <1>8 DEF SequenceLike, AtMostOne
<1>. QED
  BY <1>6, <1>9 DEF f, fed, cursor

\* A sequence still reading its prompt stands as it did; one that has read it, or
\* took its token, has every token it was given or has emitted but the next.
LEMMA FedStands ==
  ASSUME NEW q, q \in SequenceLike(q), Stands(q), NEW row, RowFor(q, row)
  PROVE  LET f == Fed(q, row) IN
         /\ f.pending => q.pending /\ Stands(f)
         /\ f.pending <=> ~(row.token # <<>> \/ ReadsAll(q, row))
         /\ ~f.pending =>
              /\ f.past = InputOf(q) + f.emitted /\ Len(Prompt[q.req]) <= f.past
              /\ Cut(f.resident, Len(Prompt[q.req])) = Prompt[q.req]
              /\ f.cursor < Len(Prompt[q.req])
<1>1. /\ q.pending \in BOOLEAN /\ q.cursor \in Nat /\ q.past \in Nat /\ q.emitted \in Nat
      /\ Prompt[q.req] \in Seq(Tokens) /\ Len(Prompt[q.req]) \in Nat \ {0}
      /\ q.resident \in Seq(Tokens) /\ q.past = Len(q.resident)
      /\ InputOf(q) = Len(Prompt[q.req])
  BY Fields
<1>2. PICK f : f = Fed(q, row)
  OBVIOUS
<1>3. PICK fed \in Seq(Tokens) : fed = TokensFed(q, row)
  BY FeedingIs
<1>4. /\ f.req = q.req /\ f.cuts = q.cuts /\ f.emitted = q.emitted
      /\ f.token = <<>> /\ f.resident = q.resident \o fed /\ f.past = q.past + Len(fed)
      /\ f.past = Len(f.resident)
      /\ f.cursor = IF ReadsAll(q, row) THEN 0
                    ELSE IF q.pending THEN q.cursor + row.added ELSE q.cursor
      /\ f.pending = (q.pending /\ ~ReadsAll(q, row))
  BY <1>2, <1>3, FedFields
<1>5. row.added \in Nat /\ row.start = q.cursor /\ row.token = q.token
  BY DEF RowFor
<1>6. ReadsAll(q, row) <=> q.pending /\ q.cursor + row.added = Len(Prompt[q.req])
  BY <1>1, <1>5 DEF ReadsAll
<1>7. CASE q.pending
  <2>1. /\ q.token = <<>> /\ q.emitted = 0 /\ q.past = q.cursor
        /\ Len(Prompt[q.req]) < Context /\ (kind # "recurrent" => q.cuts = {})
    BY <1>7 DEF Stands
  <2>2. /\ Len(fed) = row.added /\ q.cursor + row.added <= Len(Prompt[q.req])
        /\ f.resident = Cut(Prompt[q.req], q.cursor + row.added)
    BY <1>3, <1>4, <1>7, FeedingIs DEF RowFor
  <2>3. CASE ReadsAll(q, row)
    <3>1. f.resident = Prompt[q.req]
      BY <1>1, <1>6, <2>2, <2>3, CutAll
    <3>2. f.past = InputOf(q) + f.emitted /\ f.cursor = 0 /\ ~f.pending
      <4>1. q.cursor + row.added = Len(Prompt[q.req])
        BY <1>6, <2>3
      <4>2. f.past = q.cursor + row.added /\ f.emitted = 0
        BY <1>4, <2>1, <2>2
      <4>3. f.cursor = 0 /\ ~f.pending
        BY <1>4, <2>3
      <4>. QED
        BY <1>1, <4>1, <4>2, <4>3
    <3>3. Cut(f.resident, Len(Prompt[q.req])) = Prompt[q.req]
      BY <1>1, <3>1, CutAll
    <3>. QED
      BY <1>1, <1>2, <1>4, <2>1, <2>3, <3>2, <3>3
  <2>4. CASE ~ReadsAll(q, row)
    <3>1. f.cursor = q.cursor + row.added /\ f.past = f.cursor /\ f.pending
          /\ f.cursor < Len(Prompt[q.req]) /\ f.resident = Cut(Prompt[q.req], f.cursor)
      <4>1. f.cursor = q.cursor + row.added /\ f.pending
        BY <1>4, <1>7, <2>4
      <4>2. f.past = q.cursor + row.added
        BY <1>4, <2>1, <2>2
      <4>3. q.cursor + row.added < Len(Prompt[q.req])
        <5>1. q.cursor + row.added # Len(Prompt[q.req])
          BY <1>6, <1>7, <2>4
        <5>2. q.cursor + row.added <= Len(Prompt[q.req])
          BY <2>2
        <5>3. q.cursor + row.added \in Nat /\ Len(Prompt[q.req]) \in Nat
          BY <1>1, <1>5
        <5>. QED
          BY <5>1, <5>2, <5>3
      <4>. QED
        BY <2>2, <4>1, <4>2, <4>3
    <3>2. Stands(f)
      BY <1>4, <2>1, <3>1 DEF Stands
    <3>. QED
      BY <1>2, <1>5, <1>7, <2>1, <2>4, <3>1, <3>2
  <2>. QED
    BY <2>3, <2>4
<1>8. CASE ~q.pending
  <2>1. /\ q.token # <<>> /\ q.past + 1 = InputOf(q) + q.emitted
        /\ Len(Prompt[q.req]) <= q.past /\ Cut(q.resident, Len(Prompt[q.req])) = Prompt[q.req]
        /\ q.cursor < Len(Prompt[q.req])
    BY <1>8 DEF Stands
  <2>2. Len(fed) = 1
    BY <1>3, <1>8, FeedingIs
  <2>3. Cut(f.resident, Len(Prompt[q.req])) = Prompt[q.req]
    <3>1. Cut(q.resident \o fed, Len(Prompt[q.req])) = Cut(q.resident, Len(Prompt[q.req]))
      BY <1>1, <2>1, CutJoined
    <3>. QED
      BY <1>4, <2>1, <3>1
  <2>4. f.past = InputOf(q) + f.emitted /\ Len(Prompt[q.req]) <= f.past /\ ~f.pending
        /\ f.cursor = q.cursor
    BY <1>1, <1>4, <1>6, <1>8, <2>1, <2>2
  <2>. QED
    BY <1>2, <1>5, <2>1, <2>3, <2>4
<1>. QED
  BY <1>1, <1>7, <1>8

\* Taking a row back leaves the sequence exactly as it was.
LEMMA UndoneFed ==
  ASSUME NEW q, q \in SequenceLike(q), Stands(q), NEW row, RowFor(q, row), HasRow(row)
  PROVE  Undone(Fed(q, row), row) = q
<1>1. /\ q.pending \in BOOLEAN /\ q.cursor \in Nat /\ q.past \in Nat
      /\ q.resident \in Seq(Tokens) /\ q.past = Len(q.resident) /\ q.token \in AtMostOne
  BY Fields
<1>2. PICK f \in SequenceLike(q) : f = Fed(q, row)
  BY FedFields
<1>3. PICK fed \in Seq(Tokens) : fed = TokensFed(q, row)
  BY FeedingIs
<1>4. /\ f.req = q.req /\ f.cuts = q.cuts /\ f.emitted = q.emitted
      /\ f.token = <<>> /\ f.resident = q.resident \o fed /\ f.past = q.past + Len(fed)
      /\ f.past = Len(f.resident)
      /\ f.cursor = IF ReadsAll(q, row) THEN 0
                    ELSE IF q.pending THEN q.cursor + row.added ELSE q.cursor
      /\ f.pending = (q.pending /\ ~ReadsAll(q, row))
  BY <1>2, <1>3, FedFields
<1>5. row.added \in Nat /\ row.start = q.cursor /\ row.token = q.token
  BY DEF RowFor
<1>6. Cut(f.resident, Len(q.resident)) = q.resident
  <2>1. Cut(q.resident \o fed, Len(q.resident)) = Cut(q.resident, Len(q.resident))
    BY <1>1, CutJoined
  <2>2. Cut(q.resident, Len(q.resident)) = q.resident
    BY <1>1, CutAll
  <2>. QED
    BY <1>4, <2>1, <2>2
<1>7. f.resident \in Seq(Tokens)
  BY <1>2 DEF SequenceLike
<1>8. CASE q.pending
  <2>1. q.token = <<>> /\ Len(fed) = row.added
    BY <1>3, <1>8, FeedingIs DEF Stands
  <2>2. Len(f.resident) - row.added = Len(q.resident) /\ f.past - row.added = q.past
    BY <1>1, <1>4, <1>5, <2>1
  <2>3. Undone(f, row) = [f EXCEPT !.resident = q.resident, !.past = q.past,
                                   !.cursor = q.cursor, !.pending = TRUE]
    BY <1>2, <1>5, <1>6, <2>1, <2>2 DEF Undone, SequenceLike
  <2>4. [f EXCEPT !.resident = q.resident, !.past = q.past,
                  !.cursor = q.cursor, !.pending = TRUE] = q
    <3>1. q.pending = TRUE /\ f.token = q.token
      BY <1>1, <1>4, <1>8, <2>1
    <3>. QED
      BY <1>1, <1>2, <1>4, <3>1 DEF SequenceLike
  <2>. QED
    BY <1>2, <2>3, <2>4
<1>9. CASE ~q.pending
  <2>1. q.token # <<>> /\ Len(fed) = 1
    BY <1>3, <1>9, FeedingIs DEF Stands
  <2>2. f.past - 1 = q.past /\ Len(f.resident) - 1 = Len(q.resident)
    BY <1>1, <1>4, <2>1
  <2>3. Front(f.resident) = q.resident
    <3>1. Cut(f.resident, Len(q.resident)) = SubSeq(f.resident, 1, Len(q.resident))
      BY <1>1, <1>4, <2>1 DEF Cut
    <3>. QED
      BY <1>6, <2>2, <3>1 DEF Front
  <2>4. Undone(f, row) = [f EXCEPT !.resident = q.resident, !.past = q.past, !.token = q.token]
    BY <1>2, <1>5, <2>1, <2>2, <2>3 DEF Undone, SequenceLike
  <2>5. f.cursor = q.cursor /\ f.pending = FALSE
    BY <1>4, <1>9 DEF ReadsAll
  <2>6. [f EXCEPT !.resident = q.resident, !.past = q.past, !.token = q.token] = q
    BY <1>1, <1>2, <1>4, <1>9, <2>5 DEF SequenceLike
  <2>. QED
    BY <1>2, <2>4, <2>6
<1>. QED
  BY <1>1, <1>8, <1>9

-----------------------------------------------------------------------------
(* One decode, of one slot.                                                *)

\* A running sequence is of its own kind and stands.
LEMMA Running1 ==
  ASSUME IInv, RInv, NEW s \in Running
  PROVE  s \in Slots /\ slot[s] \in SequenceLike(slot[s]) /\ Stands(slot[s]) /\ Recorded(s)
BY DEF IInv, Typed, RInv

\* A sequence that adds nothing stays as it is.
LEMMA NothingFed ==
  ASSUME NEW q, q \in SequenceLike(q), Stands(q), NEW row, row.token = <<>>,
         row.added = 0, row.start = q.cursor
  PROVE  TokensFed(q, row) = <<>> /\ Fed(q, row) = q
<1>1. /\ q.pending \in BOOLEAN /\ q.cursor \in Nat /\ q.past \in Nat
      /\ q.resident \in Seq(Tokens) /\ Prompt[q.req] \in Seq(Tokens)
      /\ InputOf(q) = Len(Prompt[q.req]) /\ q.cursor < Len(Prompt[q.req])
  BY Fields DEF Stands
<1>2. SubSeq(Prompt[q.req], row.start + 1, row.start + row.added) = <<>>
  <2>1. row.start + row.added < row.start + 1
    BY <1>1
  <2>2. PICK first \in Int : first = row.start + 1
    BY <1>1
  <2>3. PICK last \in Int : last = row.start + row.added
    BY <1>1
  <2>. QED
    BY <1>1, <2>1, <2>2, <2>3, SubSeqEmpty
<1>3. TokensFed(q, row) = <<>>
  <2>1. <<>> \o <<>> = <<>>
    OBVIOUS
  <2>. QED
    BY <1>2, <2>1 DEF TokensFed
<1>4. ~ReadsAll(q, row)
  BY <1>1 DEF ReadsAll
<1>5. q.resident \o <<>> = q.resident /\ q.past + Len(<<>>) = q.past
  <2>1. Len(<<>>) = 0
    BY EmptySeq
  <2>. QED
    BY <1>1, <2>1, ConcatEmptySeq
<1>6. Fed(q, row) = [q EXCEPT !.resident = q.resident, !.past = q.past, !.token = q.token,
                              !.cursor = q.cursor, !.pending = q.pending]
  <2>1. row.start + row.added = q.cursor
    BY <1>1
  <2>2. (q.pending /\ ~ReadsAll(q, row)) = q.pending
    BY <1>1, <1>4
  <2>. QED
    BY <1>3, <1>4, <1>5, <2>1, <2>2 DEF Fed, SequenceLike
<1>7. [q EXCEPT !.resident = q.resident, !.past = q.past, !.token = q.token,
                !.cursor = q.cursor, !.pending = q.pending] = q
  BY DEF SequenceLike
<1>. QED
  BY <1>3, <1>6, <1>7

\* The rows of a step's batch are rows for their sequences, or none.
LEMMA RowsFor ==
  ASSUME IInv, RInv, NEW blocks \in Blocks, NEW rows \in Batches(blocks), NEW s \in Running
  PROVE  /\ HasRow(rows[s]) => RowFor(slot[s], rows[s])
         /\ ~HasRow(rows[s]) =>
              /\ Fed(slot[s], rows[s]) = slot[s] /\ TokensFed(slot[s], rows[s]) = <<>>
              /\ blocks[s] = <<>>
         /\ slot[s].pending => blocks[s] = <<>>
         /\ s \in Sampled(rows) => HasRow(rows[s]) /\ ~Fed(slot[s], rows[s]).pending
         /\ s \notin Sampled(rows) /\ HasRow(rows[s]) =>
              Fed(slot[s], rows[s]).pending /\ slot[s].pending
<1>1. PICK added \in PromptRows(blocks) : rows = [t \in Running |-> RowOf(t, blocks, added)]
  BY DEF Batches
<1>2. s \in Slots /\ slot[s] \in SequenceLike(slot[s]) /\ Stands(slot[s])
  BY Running1
<1>3. /\ rows[s].token = (IF Takes(s, blocks) THEN slot[s].token ELSE <<>>)
      /\ rows[s].start = slot[s].cursor /\ rows[s].added = added[s] /\ added[s] \in Nat
  BY <1>1, <1>2, SizesAssumption DEF RowOf, PromptRows
<1>4. slot[s].pending => slot[s].cursor + added[s] <= Len(Prompt[slot[s].req])
  <2>. SUFFICES ASSUME slot[s].pending
                PROVE  slot[s].cursor + added[s] <= Len(Prompt[slot[s].req])
    OBVIOUS
  <2>1. \A p \in Stops(slot[s], RoomFor(s, blocks, added)) : slot[s].cursor + added[s] <= p
    BY <1>2 DEF PromptRows, Prefilling
  <2>2. InputOf(slot[s]) \in Stops(slot[s], RoomFor(s, blocks, added))
    BY DEF Stops
  <2>. QED
    BY <2>1, <2>2 DEF InputOf
<1>5. ~slot[s].pending => added[s] = 0
  BY <1>2 DEF PromptRows, Prefilling
<1>6. slot[s].pending <=> slot[s].token = <<>>
  BY <1>2 DEF Stands
<1>7. HasRow(rows[s]) => RowFor(slot[s], rows[s])
  <2>. SUFFICES ASSUME HasRow(rows[s]) PROVE RowFor(slot[s], rows[s])
    OBVIOUS
  <2>1. rows[s].token = slot[s].token
    BY <1>3, <1>5, <1>6 DEF HasRow
  <2>. QED
    BY <1>3, <1>4, <1>5, <2>1 DEF RowFor
<1>8. blocks[s] # <<>> => Takes(s, blocks)
  BY <1>2 DEF Blocks
<1>9. Takes(s, blocks) => slot[s].token # <<>>
  BY DEF Takes, Extending
<1>10. slot[s].pending => blocks[s] = <<>>
  BY <1>6, <1>8, <1>9
<1>11. ASSUME ~HasRow(rows[s])
       PROVE  /\ Fed(slot[s], rows[s]) = slot[s] /\ TokensFed(slot[s], rows[s]) = <<>>
              /\ blocks[s] = <<>>
  <2>1. rows[s].token = <<>> /\ rows[s].added = 0
    BY <1>3, <1>11 DEF HasRow
  <2>2. blocks[s] = <<>>
    BY <1>3, <1>8, <1>9, <2>1
  <2>3. PICK q : q = slot[s]
    OBVIOUS
  <2>4. PICK row : row = rows[s]
    OBVIOUS
  <2>5. q \in SequenceLike(q) /\ Stands(q) /\ row.token = <<>> /\ row.added = 0
        /\ row.start = q.cursor
    BY <1>2, <1>3, <2>1, <2>3, <2>4
  <2>6. TokensFed(q, row) = <<>> /\ Fed(q, row) = q
    BY <2>5, NothingFed
  <2>. QED
    BY <2>2, <2>3, <2>4, <2>6
<1>12. s \in Sampled(rows) <=> (rows[s].token # <<>> \/ ReadsAll(slot[s], rows[s]))
  BY DEF Sampled
<1>13. HasRow(rows[s]) =>
         (Fed(slot[s], rows[s]).pending <=> ~(rows[s].token # <<>> \/ ReadsAll(slot[s], rows[s])))
  BY <1>2, <1>7, FedStands
<1>14. s \in Sampled(rows) => HasRow(rows[s])
  <2>1. CASE rows[s].token # <<>>
    BY <2>1 DEF HasRow
  <2>2. CASE ReadsAll(slot[s], rows[s])
    <3>1. slot[s].cursor + added[s] = Len(Prompt[slot[s].req])
      BY <1>3, <2>2 DEF ReadsAll, InputOf
    <3>2. slot[s].cursor \in Nat /\ slot[s].cursor < Len(Prompt[slot[s].req])
      BY <1>2, Fields DEF Stands
    <3>3. added[s] > 0
      BY <1>3, <3>1, <3>2
    <3>. QED
      BY <1>3, <3>3 DEF HasRow
  <2>. QED
    BY <1>12, <2>1, <2>2
<1>15. s \notin Sampled(rows) /\ HasRow(rows[s]) => slot[s].pending
  <2>. SUFFICES ASSUME s \notin Sampled(rows), HasRow(rows[s]), ~slot[s].pending PROVE FALSE
    BY <1>2, Fields
  <2>. QED
    BY <1>3, <1>5, <1>12 DEF HasRow
<1>. QED
  BY <1>7, <1>10, <1>11, <1>12, <1>13, <1>14, <1>15

\* What sampling takes of a block, and where it goes on.
LEMMA SampleIs ==
  ASSUME NEW q, NEW block \in Seq(Tokens), NEW o \in Samples(q, block)
  PROVE  /\ o.taken \in 0 .. Len(block) /\ o.next \in AtMostOne
         /\ o.next # <<>> => o.emitted = o.taken + 1 /\ o.taken + 1 < Left(q)
<1>. DEFINE agreed == {k \in 0 .. Len(block) : \A i \in 1 .. k : block[i] \in Emitted}
<1>1. \E k \in agreed :
        /\ o.taken = k
        /\ \/ o.next = <<>>
           \/ o.emitted = k + 1 /\ k + 1 < Left(q) /\ \E t \in Emitted : o.next = <<t>>
  BY DEF Samples
<1>2. Emitted \subseteq Tokens
  BY DEF Tokens
<1>3. \A k \in agreed : k \in 0 .. Len(block)
  OBVIOUS
<1>. HIDE DEF agreed
<1>4. PICK k \in agreed :
        /\ o.taken = k
        /\ \/ o.next = <<>>
           \/ o.emitted = k + 1 /\ k + 1 < Left(q) /\ \E t \in Emitted : o.next = <<t>>
  BY <1>1
<1>5. o.next \in AtMostOne
  BY <1>2, <1>4 DEF AtMostOne
<1>. QED
  BY <1>3, <1>4, <1>5

\* A sampled sequence: what it holds, and that it stands if it goes on.
LEMMA SampledStands ==
  ASSUME NEW q, q \in SequenceLike(q), Stands(q), NEW row, RowFor(q, row),
         ~Fed(q, row).pending, NEW block \in Seq(Tokens), NEW o \in Samples(Fed(q, row), block)
  PROVE  LET f == Fed(q, row)
             a == AfterSample(f, block, o)
         IN
         /\ a \in SequenceLike(q) /\ a.req = q.req /\ ~a.pending /\ a.past = Len(a.resident)
         /\ o.taken \in 0 .. Len(block) /\ a.past = f.past + o.taken
         /\ a.resident = f.resident \o Cut(block, o.taken)
         /\ Len(Prompt[q.req]) <= a.past /\ Cut(a.resident, Len(Prompt[q.req])) = Prompt[q.req]
         /\ o.next # <<>> => Stands(a)
<1>1. PICK f \in SequenceLike(q) : f = Fed(q, row)
  BY FedFields
<1>2. /\ f.req = q.req /\ f.cuts = q.cuts /\ f.emitted = q.emitted
      /\ f.past = Len(f.resident) /\ f.pending = FALSE
  <2>1. f.pending \in BOOLEAN
    BY <1>1 DEF SequenceLike
  <2>. QED
    BY <1>1, <2>1, FedFields
<1>3. /\ f.past = InputOf(q) + f.emitted /\ Len(Prompt[q.req]) <= f.past
      /\ Cut(f.resident, Len(Prompt[q.req])) = Prompt[q.req]
      /\ f.cursor < Len(Prompt[q.req])
  BY <1>1, FedStands
<1>4. /\ f.resident \in Seq(Tokens) /\ f.past \in Nat /\ f.emitted \in Nat
  BY <1>1 DEF SequenceLike
<1>5. /\ Prompt[q.req] \in Seq(Tokens) /\ Len(Prompt[q.req]) \in Nat
      /\ InputOf(q) = Len(Prompt[q.req])
  BY Fields
<1>6. /\ o.taken \in 0 .. Len(block) /\ o.next \in AtMostOne
      /\ o.next # <<>> => o.emitted = o.taken + 1 /\ o.taken + 1 < Left(f)
  BY <1>1, SampleIs
<1>7. Len(block) \in Nat /\ o.taken \in Nat /\ o.taken <= Len(block)
  BY <1>6, LenProperties
<1>8. SubSeq(block, 1, o.taken) = Cut(block, o.taken)
  BY <1>7 DEF Cut
<1>9. PICK more \in Seq(Tokens) : more = Cut(block, o.taken) /\ Len(more) = o.taken
  <2>1. Cut(block, o.taken) \in Seq(Tokens)
        /\ Len(Cut(block, o.taken)) = IF o.taken < Len(block) THEN o.taken ELSE Len(block)
    BY <1>7, CutIs
  <2>. QED
    BY <1>7, <2>1
<1>10. PICK resident \in Seq(Tokens) : resident = f.resident \o more
         /\ Len(resident) = f.past + o.taken
  <2>1. f.resident \o more \in Seq(Tokens) /\ Len(f.resident \o more) = Len(f.resident) + Len(more)
    BY <1>4, <1>9, ConcatProperties
  <2>. QED
    BY <1>2, <1>9, <2>1
<1>11. PICK a : a = AfterSample(f, block, o)
  OBVIOUS
<1>12. a = [f EXCEPT !.resident = resident, !.past = f.past + o.taken, !.token = o.next,
                     !.emitted = f.emitted + o.emitted]
  BY <1>1, <1>8, <1>9, <1>10, <1>11 DEF AfterSample, SequenceLike
<1>13. a \in SequenceLike(q)
  BY <1>1, <1>11, SampleType
<1>14. /\ a.req = f.req /\ a.cuts = f.cuts /\ a.pending = FALSE /\ a.cursor = f.cursor
       /\ a.resident = resident /\ a.past = f.past + o.taken /\ a.token = o.next
       /\ a.emitted = f.emitted + o.emitted
  BY <1>1, <1>2, <1>12 DEF SequenceLike
<1>15. Cut(resident, Len(Prompt[q.req])) = Prompt[q.req]
  <2>1. Cut(f.resident \o more, Len(Prompt[q.req])) = Cut(f.resident, Len(Prompt[q.req]))
    BY <1>2, <1>3, <1>4, <1>5, <1>9, CutJoined
  <2>. QED
    BY <1>3, <1>10, <2>1
<1>16. Len(Prompt[q.req]) <= a.past
  BY <1>3, <1>4, <1>5, <1>7, <1>14
<1>17. ASSUME o.next # <<>> PROVE Stands(a)
  <2>1. MaxPos(a) = MaxPos(f) /\ InputOf(a) = InputOf(q) /\ InputOf(f) = InputOf(q)
    BY <1>2, <1>14 DEF MaxPos, InputOf
  <2>2. a.past + 1 = InputOf(q) + a.emitted
    <3>1. a.past = (InputOf(q) + f.emitted) + o.taken /\ a.emitted = f.emitted + (o.taken + 1)
      BY <1>3, <1>6, <1>14, <1>17
    <3>2. InputOf(q) \in Nat /\ f.emitted \in Nat /\ o.taken \in Nat
      BY <1>4, <1>5, <1>7
    <3>3. \A i, e, t \in Nat : ((i + e) + t) + 1 = i + (e + (t + 1))
      OBVIOUS
    <3>4. ((InputOf(q) + f.emitted) + o.taken) + 1 = InputOf(q) + (f.emitted + (o.taken + 1))
      BY <3>2, <3>3
    <3>. QED
      BY <3>1, <3>4, Zenon
  <2>3. o.taken + 1 < MaxPos(f) - InputOf(q) - f.emitted
    BY <1>6, <1>17, <2>1 DEF Left
  <2>4. MaxPos(f) \in Nat
    <3>1. {Context, InputOf(f) + MaxNew} \in SUBSET Nat
      BY <1>5, <2>1, SizesAssumption
    <3>. QED
      BY <3>1, MinNat DEF MaxPos
  <2>5. a.past + 1 < MaxPos(a)
    <3>1. a.past = (InputOf(q) + f.emitted) + o.taken
      BY <1>3, <1>14
    <3>2. InputOf(q) \in Nat /\ f.emitted \in Nat /\ o.taken \in Nat
      BY <1>4, <1>5, <1>7
    <3>3. a.past + 1 < MaxPos(f)
      BY <2>3, <2>4, <3>1, <3>2
    <3>. QED
      BY <2>1, <3>3
  <2>6. Len(Prompt[q.req]) < Context /\ (kind # "recurrent" => q.cuts = {})
    BY DEF Stands
  <2>. QED
    BY <1>2, <1>3, <1>10, <1>14, <1>15, <1>16, <1>17, <2>1, <2>2, <2>5, <2>6 DEF Stands
<1>. QED
  BY <1>1, <1>6, <1>9, <1>10, <1>11, <1>13, <1>14, <1>15, <1>16, <1>17, <1>2

\* What a slot holds is cells.
LEMMA HeldIs ==
  ASSUME IInv, RInv, NEW s \in Slots
  PROVE  /\ memory[s].attn \in Seq(CellType)
         /\ Len(TokensOf(memory[s].attn)) = Len(memory[s].attn)
         /\ TokensOf(memory[s].attn) \in Seq(Tokens)
<1>1. memory[s] \in Held(Owner(s)) /\ cached[s] \in Record(Owner(s))
  BY DEF IInv, Sealed
<1>2. Owner(s) \in Spaces
  <2>1. CASE s \in Running
    BY <2>1 DEF Owner, Spaces, IInv, Typed, SequenceLike
  <2>2. CASE s \notin Running
    BY <1>1, <2>2 DEF Owner, Record
  <2>. QED
    BY <2>1, <2>2
<1>3. CellOf(Owner(s)) \subseteq CellType
  BY <1>2 DEF CellOf, CellType
<1>4. memory[s].attn \in Seq(CellOf(Owner(s)))
  BY <1>1 DEF Held
<1>5. memory[s].attn \in Seq(CellType)
  BY <1>3, <1>4, SeqMonotonic
<1>6. /\ Len(TokensOf(memory[s].attn)) = Len(memory[s].attn)
      /\ TokensOf(memory[s].attn) \in Seq(Tokens)
  BY <1>5, TokensOfIs
<1>. QED
  BY <1>5, <1>6

\* What a decode adds behind what a memory holds.
LEMMA WrittenIs ==
  ASSUME IInv, RInv, NEW s \in Running, NEW cells \in Seq(CellType)
  PROVE  LET held == memory[s].attn
             w == Written(memory[s], cells)
         IN  /\ w.attn = held \o cells
             /\ kind = "recurrent" => w.rec = held \o cells
<1>1. kind = "recurrent" => memory[s].rec = memory[s].attn
  BY Running1 DEF Recorded
<1>. QED
  BY <1>1 DEF Written

\* What a decode makes of a memory with a row in it, past the drafts taken: what it
\* held, and behind it what the sequence has gained.
LEMMA Decodes ==
  ASSUME IInv, RInv, NEW blocks \in Blocks, NEW rows \in Batches(blocks), NEW s \in Running,
         HasRow(rows[s]), Len(memory[s].attn) = slot[s].past,
         NEW k \in 0 .. Len(blocks[s]), NEW past, past = Fed(slot[s], rows[s]).past + k
  PROVE  LET held == memory[s].attn
             m == Decoded(s, rows[s], blocks[s], past)
         IN
         /\ m.attn \in Seq(CellType)
         /\ Len(held) <= Len(m.attn) /\ Cut(m.attn, Len(held)) = held
         /\ kind = "recurrent" => m.rec = m.attn
         /\ Len(m.attn) = past
         /\ Hold(m.attn, Fed(slot[s], rows[s]).resident \o Cut(blocks[s], k))
         /\ Clean(held) => Clean(m.attn)
<1>1. s \in Slots /\ slot[s] \in SequenceLike(slot[s]) /\ Stands(slot[s]) /\ Recorded(s)
  BY Running1
<1>2. PICK held \in Seq(CellType) : held = memory[s].attn
  BY <1>1, HeldIs
<1>3. PICK block \in Seq(Tokens) : block = blocks[s]
  BY <1>1, BlockType
<1>4. RowFor(slot[s], rows[s])
  BY RowsFor
<1>5. PICK fed \in Seq(Tokens) : fed = TokensFed(slot[s], rows[s])
  BY <1>1, <1>4, FeedingIs
<1>6. PICK f : f = Fed(slot[s], rows[s])
  OBVIOUS
<1>7. /\ f.resident = slot[s].resident \o fed /\ f.past = slot[s].past + Len(fed)
      /\ f.past = Len(f.resident) /\ f.resident \in Seq(Tokens) /\ f.past \in Nat
  <2>1. f \in SequenceLike(slot[s])
    BY <1>1, <1>4, <1>6, FedFields
  <2>2. f.resident \in Seq(Tokens) /\ f.past \in Nat
    BY <2>1 DEF SequenceLike
  <2>3. /\ Fed(slot[s], rows[s]).resident = slot[s].resident \o TokensFed(slot[s], rows[s])
        /\ Fed(slot[s], rows[s]).past = slot[s].past + Len(TokensFed(slot[s], rows[s]))
        /\ Fed(slot[s], rows[s]).past = Len(Fed(slot[s], rows[s]).resident)
    <3>1. PICK q : q = slot[s]
      OBVIOUS
    <3>2. PICK row : row = rows[s]
      OBVIOUS
    <3>3. q \in SequenceLike(q) /\ Stands(q) /\ RowFor(q, row)
      BY <1>1, <1>4, <3>1, <3>2
    <3>4. /\ Fed(q, row).resident = q.resident \o TokensFed(q, row)
          /\ Fed(q, row).past = q.past + Len(TokensFed(q, row))
          /\ Fed(q, row).past = Len(Fed(q, row).resident)
      BY <3>3, FedFields
    <3>. QED
      BY <3>1, <3>2, <3>4, Zenon
  <2>4. /\ f.resident = slot[s].resident \o fed /\ f.past = slot[s].past + Len(fed)
        /\ f.past = Len(f.resident)
    BY <1>5, <1>6, <2>3, Zenon
  <2>. QED
    BY <2>2, <2>4
<1>8. PICK new \in Seq(Tokens) : new = fed \o block
  BY ConcatProperties
<1>9. slot[s].req \in Requests /\ slot[s].past \in Nat
  BY <1>1, Fields
<1>10. PICK res \in Seq(Tokens) : res = slot[s].resident /\ slot[s].past = Len(res)
  BY <1>1, Fields
<1>11. PICK cells \in Seq(CellType) :
         /\ cells = Cells(new, slot[s].req) /\ Len(cells) = Len(new)
         /\ Hold(cells, new) /\ Clean(cells)
  BY <1>9, CellsAre
<1>12. Hold(held, res) /\ Len(held) = Len(res)
  BY <1>1, <1>2, <1>10 DEF Recorded
<1>13. PICK all \in Seq(CellType) :
         /\ all = held \o cells /\ Len(all) = Len(held) + Len(cells)
         /\ Hold(all, res \o new) /\ (Clean(held) => Clean(all))
  BY <1>11, <1>12, HoldJoined
<1>14. PICK w : w = Written(memory[s], cells)
  OBVIOUS
<1>15. w.attn = all /\ (kind = "recurrent" => w.rec = all)
  BY <1>2, <1>13, <1>14, WrittenIs
<1>16. PICK m : m = Decoded(s, rows[s], blocks[s], past)
  OBVIOUS
<1>17. m = IF block = <<>> THEN w ELSE Trimmed(w, past)
  BY <1>3, <1>5, <1>8, <1>11, <1>14, <1>16 DEF Decoded
<1>18. Len(held) \in Nat /\ Len(fed) \in Nat /\ Len(block) \in Nat /\ k \in Nat
       /\ k <= Len(block) /\ past = f.past + k /\ past \in Nat
  <2>1. Len(held) \in Nat /\ Len(fed) \in Nat /\ Len(block) \in Nat
    BY LenProperties
  <2>2. k \in Nat /\ k <= Len(block)
    BY <1>3, <2>1
  <2>3. past = f.past + k
    BY <1>6
  <2>4. past \in Nat
    <3>1. \A x, y \in Nat : x + y \in Nat
      OBVIOUS
    <3>. QED
      BY <1>7, <2>2, <2>3, <3>1, Zenon
  <2>. QED
    BY <2>1, <2>2, <2>3, <2>4, Zenon
<1>19. Len(all) = (Len(held) + Len(fed)) + Len(block) /\ past = (Len(held) + Len(fed)) + k
  <2>1. Len(new) = Len(fed) + Len(block)
    BY <1>8, ConcatProperties
  <2>2. \A x, y, z \in Nat : x + (y + z) = (x + y) + z
    OBVIOUS
  <2>3. Len(all) = Len(held) + (Len(fed) + Len(block))
    BY <1>11, <1>13, <2>1, Zenon
  <2>4. f.past = Len(held) + Len(fed)
    BY <1>7, <1>10, <1>12, Zenon
  <2>. QED
    BY <1>18, <2>2, <2>3, <2>4
<1>20. Len(held) <= past /\ past <= Len(all) /\ Len(all) \in Nat
  BY <1>18, <1>19
<1>21. m.attn = Cut(all, past) /\ (kind = "recurrent" => m.rec = Cut(all, past))
  <2>1. CASE block = <<>>
    <3>1. Len(block) = 0
      BY <2>1, EmptySeq
    <3>2. k = 0 /\ k = Len(block)
      BY <1>18, <3>1
    <3>4. Len(all) = past
      BY <1>19, <3>2, Zenon
    <3>3. Cut(all, past) = all
      BY <1>18, <1>20, <3>4, CutAll
    <3>. QED
      BY <1>15, <1>17, <2>1, <3>3
  <2>2. CASE block # <<>>
    <3>1. m = [attn |-> Cut(w.attn, past), rec |-> Cut(w.rec, past)]
      BY <1>17, <2>2 DEF Trimmed
    <3>. QED
      BY <1>15, <3>1
  <2>. QED
    BY <2>1, <2>2
<1>22. PICK c \in Seq(CellType) : c = Cut(all, past) /\ Len(c) = past
  <2>1. Cut(all, past) \in Seq(CellType)
        /\ Len(Cut(all, past)) = IF past < Len(all) THEN past ELSE Len(all)
    BY <1>18, CutIs
  <2>. QED
    BY <1>18, <1>20, <2>1
<1>23. Cut(c, Len(held)) = held
  <2>1. Cut(Cut(all, past), Len(held)) = Cut(all, Len(held))
    BY <1>18, <1>20, CutCut
  <2>2. Cut(all, Len(held)) = Cut(held, Len(held))
    <3>1. Len(held) <= Len(held)
      BY <1>18
    <3>. QED
      BY <1>13, <1>18, <3>1, CutJoined
  <2>3. Cut(held, Len(held)) = held
    <3>1. Len(held) <= Len(held)
      BY <1>18
    <3>. QED
      BY <1>18, <3>1, CutAll
  <2>. QED
    BY <1>22, <2>1, <2>2, <2>3
<1>24. PICK gained \in Seq(Tokens) : gained = res \o new
  BY ConcatProperties
<1>25. Hold(c, Cut(gained, past)) /\ (Clean(held) => Clean(c))
  <2>1. Hold(all, gained)
    BY <1>13, <1>24
  <2>2. Hold(Cut(all, past), Cut(gained, past)) /\ (Clean(all) => Clean(Cut(all, past)))
    BY <1>18, <2>1, HoldCut
  <2>. QED
    BY <1>13, <1>22, <2>2
<1>26. Cut(gained, past) = f.resident \o Cut(block, k)
  <2>1. (res \o fed) \o block = res \o (fed \o block)
    BY JoinedTokens
  <2>2. PICK has \in Seq(Tokens) : has = f.resident
    BY <1>7
  <2>3. has = res \o fed
    BY <1>7, <1>10, <2>2
  <2>4. gained = has \o block
    BY <1>8, <1>24, <2>1, <2>3
  <2>5. Cut(has \o block, Len(has) + k) = has \o Cut(block, k)
    <3>1. \A n \in Nat : Cut(has \o block, Len(has) + n) = has \o Cut(block, n)
      BY CutBehind, Zenon
    <3>. QED
      BY <1>18, <3>1
  <2>6. Len(has) + k = past
    BY <1>7, <1>18, <2>2
  <2>. QED
    BY <2>2, <2>4, <2>5, <2>6
<1>. QED
  BY <1>2, <1>3, <1>6, <1>16, <1>20, <1>21, <1>22, <1>23, <1>25, <1>26

\* When the drafter could not follow, the drafts stay behind it, left over.
LEMMA DecodesLost ==
  ASSUME IInv, RInv, NEW blocks \in Blocks, NEW rows \in Batches(blocks), NEW s \in Running,
         HasRow(rows[s]), Len(memory[s].attn) = slot[s].past
  PROVE  LET held == memory[s].attn
             m == DecodedLost(s, rows[s], blocks[s])
         IN
         /\ m.attn \in Seq(CellType)
         /\ Len(held) <= Len(m.attn) /\ Cut(m.attn, Len(held)) = held
         /\ kind = "recurrent" => m.rec = m.attn
         /\ Len(m.attn) = Fed(slot[s], rows[s]).past + Len(blocks[s])
         /\ Hold(m.attn, Fed(slot[s], rows[s]).resident)
<1>1. s \in Slots /\ slot[s] \in SequenceLike(slot[s]) /\ Stands(slot[s]) /\ Recorded(s)
  BY Running1
<1>2. PICK held \in Seq(CellType) : held = memory[s].attn
  BY <1>1, HeldIs
<1>3. PICK block \in Seq(Tokens) : block = blocks[s]
  BY <1>1, BlockType
<1>4. RowFor(slot[s], rows[s])
  BY RowsFor
<1>5. PICK fed \in Seq(Tokens) : fed = TokensFed(slot[s], rows[s])
  BY <1>1, <1>4, FeedingIs
<1>6. PICK f : f = Fed(slot[s], rows[s])
  OBVIOUS
<1>7. /\ f.resident = slot[s].resident \o fed /\ f.past = slot[s].past + Len(fed)
      /\ f.past = Len(f.resident) /\ f.resident \in Seq(Tokens) /\ f.past \in Nat
  <2>1. f \in SequenceLike(slot[s])
    BY <1>1, <1>4, <1>6, FedFields
  <2>2. f.resident \in Seq(Tokens) /\ f.past \in Nat
    BY <2>1 DEF SequenceLike
  <2>3. /\ Fed(slot[s], rows[s]).resident = slot[s].resident \o TokensFed(slot[s], rows[s])
        /\ Fed(slot[s], rows[s]).past = slot[s].past + Len(TokensFed(slot[s], rows[s]))
        /\ Fed(slot[s], rows[s]).past = Len(Fed(slot[s], rows[s]).resident)
    <3>1. PICK q : q = slot[s]
      OBVIOUS
    <3>2. PICK row : row = rows[s]
      OBVIOUS
    <3>3. q \in SequenceLike(q) /\ Stands(q) /\ RowFor(q, row)
      BY <1>1, <1>4, <3>1, <3>2
    <3>4. /\ Fed(q, row).resident = q.resident \o TokensFed(q, row)
          /\ Fed(q, row).past = q.past + Len(TokensFed(q, row))
          /\ Fed(q, row).past = Len(Fed(q, row).resident)
      BY <3>3, FedFields
    <3>. QED
      BY <3>1, <3>2, <3>4, Zenon
  <2>4. /\ f.resident = slot[s].resident \o fed /\ f.past = slot[s].past + Len(fed)
        /\ f.past = Len(f.resident)
    BY <1>5, <1>6, <2>3, Zenon
  <2>. QED
    BY <2>2, <2>4
<1>8. slot[s].req \in Requests /\ slot[s].past \in Nat
  BY <1>1, Fields
<1>9. PICK res \in Seq(Tokens) : res = slot[s].resident /\ slot[s].past = Len(res)
  BY <1>1, Fields
<1>10. PICK cells \in Seq(CellType) :
         cells = Cells(fed, slot[s].req) /\ Len(cells) = Len(fed) /\ Hold(cells, fed)
  BY <1>8, CellsAre
<1>11. PICK left \in Seq(CellType) :
         left = LeftOver(block, slot[s].req) /\ Len(left) = Len(block) /\ Hold(left, <<>>)
  BY <1>8, CellsAre
<1>12. PICK none \in Seq(Tokens) : none = <<>>
  BY EmptySeq
<1>13. Hold(held, res) /\ Len(held) = Len(res)
  BY <1>1, <1>2, <1>9 DEF Recorded
<1>14. PICK new \in Seq(CellType) :
         /\ new = cells \o left /\ Len(new) = Len(cells) + Len(left)
         /\ Hold(new, fed)
  <2>1. Hold(left, none)
    BY <1>11, <1>12
  <2>2. /\ cells \o left \in Seq(CellType) /\ Len(cells \o left) = Len(cells) + Len(left)
        /\ Hold(cells \o left, fed \o none)
    BY <1>10, <2>1, HoldJoined
  <2>3. fed \o none = fed
    BY <1>12, ConcatEmptySeq
  <2>. QED
    BY <2>2, <2>3
<1>15. PICK all \in Seq(CellType) :
         /\ all = held \o new /\ Len(all) = Len(held) + Len(new)
         /\ Hold(all, res \o fed)
  BY <1>13, <1>14, HoldJoined
<1>16. PICK m : m = DecodedLost(s, rows[s], blocks[s])
  OBVIOUS
<1>17. m.attn = all /\ (kind = "recurrent" => m.rec = all)
  <2>1. m = Written(memory[s], new)
    BY <1>3, <1>5, <1>10, <1>11, <1>14, <1>16 DEF DecodedLost
  <2>. QED
    BY <1>2, <1>15, <2>1, WrittenIs
<1>18. Len(held) \in Nat /\ Len(fed) \in Nat /\ Len(block) \in Nat
  BY LenProperties
<1>19. Len(all) = f.past + Len(block) /\ Len(held) <= Len(all)
  <2>1. Len(all) = Len(held) + (Len(fed) + Len(block))
    BY <1>10, <1>11, <1>14, <1>15, Zenon
  <2>2. f.past = Len(held) + Len(fed)
    BY <1>7, <1>9, <1>13, Zenon
  <2>. QED
    BY <1>18, <2>1, <2>2
<1>20. Cut(all, Len(held)) = held
  <2>1. Len(held) <= Len(held)
    BY <1>18
  <2>2. Cut(all, Len(held)) = Cut(held, Len(held))
    BY <1>15, <1>18, <2>1, CutJoined
  <2>3. Cut(held, Len(held)) = held
    BY <1>18, <2>1, CutAll
  <2>. QED
    BY <2>2, <2>3
<1>. QED
  BY <1>2, <1>3, <1>6, <1>7, <1>9, <1>15, <1>16, <1>17, <1>19, <1>20

\* A memory without a row in the step is left as it was.
LEMMA DecodesNone ==
  ASSUME IInv, RInv, NEW blocks \in Blocks, NEW rows \in Batches(blocks), NEW s \in Running,
         ~HasRow(rows[s]), NEW past, NEW m,
         m \in {Decoded(s, rows[s], blocks[s], past), DecodedLost(s, rows[s], blocks[s])}
  PROVE  m.attn = memory[s].attn /\ (kind = "recurrent" => m.rec = m.attn)
<1>1. blocks[s] = <<>> /\ TokensFed(slot[s], rows[s]) = <<>>
  BY RowsFor
<1>2. PICK none \in Seq(CellType) : none = <<>>
  BY EmptySeq
<1>3. Cells(<<>>, slot[s].req) = <<>> /\ LeftOver(<<>>, slot[s].req) = <<>>
      /\ <<>> \o <<>> = <<>>
  BY DEF Cells, LeftOver
<1>4. Decoded(s, rows[s], blocks[s], past) = Written(memory[s], none)
  BY <1>1, <1>2, <1>3 DEF Decoded
<1>5. DecodedLost(s, rows[s], blocks[s]) = Written(memory[s], none)
  BY <1>1, <1>2, <1>3 DEF DecodedLost
<1>6. PICK held \in Seq(CellType) : held = memory[s].attn
  BY Running1, HeldIs
<1>7. held \o none = held
  BY <1>2, ConcatEmptySeq
<1>. QED
  BY <1>4, <1>5, <1>6, <1>7, WrittenIs

\* What one decode makes of a slot: the sequence, and what its memory holds.
LEMMA Advance ==
  ASSUME IInv, RInv, NEW blocks \in Blocks, NEW rows \in Batches(blocks), Consecutive(rows),
         NEW lost \in BOOLEAN, NEW o \in Outcomes(rows, Verified(blocks, lost)),
         NEW s \in Running
  PROVE  LET held == memory[s].attn
             a == Advanced(rows, Verified(blocks, lost), o)[s]
             m == IF lost THEN DecodedLost(s, rows[s], blocks[s])
                  ELSE Decoded(s, rows[s], blocks[s], a.past)
         IN
         /\ a \in SequenceLike(a) /\ a.req = slot[s].req /\ a.past = Len(a.resident)
         /\ s \notin Done(rows, o) => Stands(a)
         /\ s \in Done(rows, o) =>
              /\ HasRow(rows[s]) /\ Len(Prompt[a.req]) <= a.past
              /\ Cut(a.resident, Len(Prompt[a.req])) = Prompt[a.req]
         /\ m.attn \in Seq(CellType)
         /\ Len(held) <= Len(m.attn) /\ Cut(m.attn, Len(held)) = held
         /\ kind = "recurrent" => m.rec = m.attn
         /\ Hold(m.attn, a.resident)
         /\ HasRow(rows[s]) => a.past <= Len(m.attn) /\ (a.pending => Len(m.attn) = a.past)
         /\ ~lost /\ Clean(held) => Clean(m.attn)
         /\ ~HasRow(rows[s]) => m.attn = held /\ a = slot[s]
<1>1. s \in Slots /\ slot[s] \in SequenceLike(slot[s]) /\ Stands(slot[s]) /\ Recorded(s)
  BY Running1
<1>2. PICK verified \in Blocks : verified = Verified(blocks, lost)
  BY VerifiedType
<1>3. PICK block \in Seq(Tokens) : block = verified[s]
  BY <1>1, BlockType
<1>4. block = IF lost THEN <<>> ELSE blocks[s]
  BY <1>1, <1>2, <1>3, VerifiedType
<1>5. PICK f : f = Fed(slot[s], rows[s])
  OBVIOUS
<1>6. PICK a : a = Advanced(rows, verified, o)[s]
  OBVIOUS
<1>7. PICK m : m = IF lost THEN DecodedLost(s, rows[s], blocks[s])
                   ELSE Decoded(s, rows[s], blocks[s], a.past)
  OBVIOUS
<1>8. PICK held \in Seq(CellType) : held = memory[s].attn
  BY <1>1, HeldIs
<1>9. CASE HasRow(rows[s])
  <2>1. RowFor(slot[s], rows[s]) /\ Len(held) = slot[s].past
    BY <1>8, <1>9, RowsFor DEF Consecutive
  <2>2. /\ f \in SequenceLike(slot[s]) /\ f.req = slot[s].req
        /\ f.past = Len(f.resident) /\ f.resident \in Seq(Tokens) /\ f.past \in Nat
    <3>1. f \in SequenceLike(slot[s]) /\ f.req = slot[s].req /\ f.past = Len(f.resident)
      BY <1>1, <1>5, <2>1, FedFields
    <3>. QED
      BY <3>1 DEF SequenceLike
  <2>3. PICK k \in Nat :
          /\ k <= Len(block) /\ a.past = f.past + k
          /\ a.resident = f.resident \o Cut(block, k)
          /\ a \in SequenceLike(slot[s]) /\ a.req = slot[s].req /\ a.past = Len(a.resident)
          /\ s \notin Done(rows, o) => Stands(a)
          /\ s \in Done(rows, o) =>
               /\ Len(Prompt[a.req]) <= a.past
               /\ Cut(a.resident, Len(Prompt[a.req])) = Prompt[a.req]
          /\ a.pending => blocks[s] = <<>>
    <3>1. CASE s \in Sampled(rows)
      <4>1. a = AfterSample(f, block, o[s]) /\ o[s] \in Samples(f, block)
        BY <1>2, <1>3, <1>5, <1>6, <3>1 DEF Advanced, Outcomes
      <4>2. ~f.pending
        BY <1>5, <3>1, RowsFor
      <4>3. PICK q : q = slot[s]
        OBVIOUS
      <4>4. PICK row : row = rows[s]
        OBVIOUS
      <4>5. PICK one \in Samples(Fed(q, row), block) : one = o[s]
        BY <1>5, <4>1, <4>3, <4>4
      <4>6. q \in SequenceLike(q) /\ Stands(q) /\ RowFor(q, row) /\ ~Fed(q, row).pending
        BY <1>1, <1>5, <2>1, <4>2, <4>3, <4>4
      <4>7. LET g == Fed(q, row)
                b == AfterSample(g, block, one)
            IN
            /\ b \in SequenceLike(q) /\ b.req = q.req /\ ~b.pending /\ b.past = Len(b.resident)
            /\ one.taken \in 0 .. Len(block) /\ b.past = g.past + one.taken
            /\ b.resident = g.resident \o Cut(block, one.taken)
            /\ Len(Prompt[q.req]) <= b.past /\ Cut(b.resident, Len(Prompt[q.req])) = Prompt[q.req]
            /\ one.next # <<>> => Stands(b)
        BY <4>6, SampledStands
      <4>8. a = AfterSample(Fed(q, row), block, one) /\ f = Fed(q, row)
        BY <1>5, <4>1, <4>3, <4>4, <4>5
      <4>9. s \in Done(rows, o) <=> one.next = <<>>
        BY <3>1, <4>5 DEF Done
      <4>10. one.taken \in Nat /\ one.taken <= Len(block)
        <5>1. one.taken \in 0 .. Len(block)
          BY <4>7
        <5>. QED
          BY <5>1, LenProperties
      <4>. QED
        BY <4>3, <4>7, <4>8, <4>9, <4>10
    <3>2. CASE s \notin Sampled(rows)
      <4>1. a = f
        BY <1>5, <1>6, <3>2 DEF Advanced
      <4>2. f.pending /\ slot[s].pending
        BY <1>5, <1>9, <3>2, RowsFor
      <4>3. blocks[s] = <<>> /\ block = <<>>
        BY <1>4, <4>2, RowsFor
      <4>4. Stands(f)
        BY <1>1, <1>5, <2>1, <4>2, FedStands
      <4>5. s \notin Done(rows, o)
        BY <3>2 DEF Done
      <4>6. f.resident \o Cut(block, 0) = f.resident
        <5>1. Cut(block, 0) = <<>>
          BY CutNone
        <5>. QED
          BY <2>2, <5>1, ConcatEmptySeq
      <4>7. 0 \in Nat /\ 0 <= Len(block) /\ f.past = f.past + 0
        BY <2>2, LenProperties
      <4>. QED
        BY <2>2, <4>1, <4>3, <4>4, <4>5, <4>6, <4>7
    <3>. QED
      BY <3>1, <3>2
  <2>4. a \in SequenceLike(a)
    BY <2>3, Alike
  <2>5. Len(block) \in Nat /\ a.past \in Nat
    BY <2>2, <2>3, LenProperties
  <2>6. CASE ~lost
    <3>1. k \in 0 .. Len(blocks[s]) /\ block = blocks[s]
      BY <1>4, <2>3, <2>5, <2>6
    <3>2. /\ m.attn \in Seq(CellType)
          /\ Len(held) <= Len(m.attn) /\ Cut(m.attn, Len(held)) = held
          /\ kind = "recurrent" => m.rec = m.attn
          /\ Len(m.attn) = a.past
          /\ Hold(m.attn, f.resident \o Cut(blocks[s], k))
          /\ Clean(held) => Clean(m.attn)
      <4>1. PICK past : past = a.past
        OBVIOUS
      <4>2. m = Decoded(s, rows[s], blocks[s], past)
        BY <1>7, <2>6, <4>1
      <4>3. past = Fed(slot[s], rows[s]).past + k
        BY <1>5, <2>3, <4>1
      <4>4. Len(memory[s].attn) = slot[s].past
        BY <1>8, <2>1
      <4>5. PICK d : d = Decoded(s, rows[s], blocks[s], past)
        OBVIOUS
      <4>6. /\ d.attn \in Seq(CellType)
            /\ Len(memory[s].attn) <= Len(d.attn)
            /\ Cut(d.attn, Len(memory[s].attn)) = memory[s].attn
            /\ kind = "recurrent" => d.rec = d.attn
            /\ Len(d.attn) = past
            /\ Hold(d.attn, Fed(slot[s], rows[s]).resident \o Cut(blocks[s], k))
            /\ Clean(memory[s].attn) => Clean(d.attn)
        BY <1>9, <3>1, <4>3, <4>4, <4>5, Decodes
      <4>. QED
        BY <1>5, <1>8, <4>1, <4>2, <4>5, <4>6
    <3>3. a.past <= Len(m.attn) /\ Len(m.attn) = a.past
      BY <2>5, <3>2
    <3>. QED
      BY <1>2, <1>6, <1>7, <1>8, <1>9, <2>3, <2>4, <2>6, <3>1, <3>2, <3>3
  <2>7. CASE lost
    <3>1. block = <<>> /\ k = 0 /\ a.past = f.past /\ a.resident = f.resident
      <4>1. block = <<>> /\ Len(block) = 0
        BY <1>4, <2>7, EmptySeq
      <4>2. k = 0
        BY <2>3, <4>1
      <4>3. Cut(block, k) = <<>>
        BY <4>2, CutNone
      <4>. QED
        BY <2>2, <2>3, <4>1, <4>2, <4>3, ConcatEmptySeq
    <3>2. /\ m.attn \in Seq(CellType)
          /\ Len(held) <= Len(m.attn) /\ Cut(m.attn, Len(held)) = held
          /\ kind = "recurrent" => m.rec = m.attn
          /\ Len(m.attn) = f.past + Len(blocks[s])
          /\ Hold(m.attn, f.resident)
      <4>1. m = DecodedLost(s, rows[s], blocks[s]) /\ Len(memory[s].attn) = slot[s].past
        BY <1>7, <1>8, <2>1, <2>7
      <4>. QED
        BY <1>5, <1>8, <1>9, <4>1, DecodesLost
    <3>3. a.past <= Len(m.attn) /\ (a.pending => Len(m.attn) = a.past)
      <4>1. PICK left \in Seq(Tokens) : left = blocks[s]
        BY <1>1, BlockType
      <4>2. Len(left) \in Nat /\ (left = <<>> => Len(left) = 0)
        BY LenProperties, EmptySeq
      <4>3. Len(m.attn) = f.past + Len(left)
        BY <3>2, <4>1
      <4>4. a.past <= Len(m.attn)
        BY <2>2, <3>1, <4>2, <4>3
      <4>5. a.pending => Len(m.attn) = a.past
        BY <2>2, <2>3, <3>1, <4>1, <4>2, <4>3
      <4>. QED
        BY <4>4, <4>5
    <3>. QED
      BY <1>2, <1>6, <1>7, <1>8, <1>9, <2>3, <2>4, <2>7, <3>1, <3>2, <3>3
  <2>. QED
    BY <2>6, <2>7
<1>10. CASE ~HasRow(rows[s])
  <2>1. f = slot[s] /\ s \notin Sampled(rows)
    BY <1>5, <1>10, RowsFor
  <2>2. a = slot[s] /\ s \notin Done(rows, o)
    BY <1>5, <1>6, <2>1 DEF Advanced, Done
  <2>3. m.attn = held /\ (kind = "recurrent" => m.rec = m.attn)
    <3>1. PICK past : past = a.past
      OBVIOUS
    <3>2. m \in {Decoded(s, rows[s], blocks[s], past), DecodedLost(s, rows[s], blocks[s])}
      BY <1>7, <3>1
    <3>3. m.attn = memory[s].attn /\ (kind = "recurrent" => m.rec = m.attn)
      BY <1>10, <3>2, DecodesNone
    <3>. QED
      BY <1>8, <3>3
  <2>4. Len(held) \in Nat /\ Len(held) <= Len(held)
    BY LenProperties
  <2>5. Cut(held, Len(held)) = held
    BY <2>4, CutAll
  <2>6. a.past = Len(a.resident) /\ Stands(a) /\ a \in SequenceLike(a)
    BY <1>1, <2>2, Fields
  <2>7. Hold(held, a.resident)
    BY <1>1, <1>8, <2>2 DEF Recorded
  <2>. QED
    BY <1>2, <1>6, <1>7, <1>8, <1>10, <2>2, <2>3, <2>4, <2>5, <2>6, <2>7
<1>. QED
  BY <1>9, <1>10

-----------------------------------------------------------------------------
(* Checkpoints.                                                            *)

CheckpointLike == [at : Nat, state : Seq(CellType)]

\* What describes a memory describes what it grows to.
LEMMA DescribeMore ==
  ASSUME NEW held \in Seq(CellType), NEW more \in Seq(CellType),
         NEW cps \in SUBSET CheckpointLike,
         Len(held) <= Len(more), Cut(more, Len(held)) = held, Describe(cps, held)
  PROVE  Describe(cps, more)
<1>. SUFFICES ASSUME NEW c \in cps PROVE c.at <= Len(more) /\ c.state = Cut(more, c.at)
  BY DEF Describe
<1>1. PICK n \in Nat : n = c.at
  BY DEF CheckpointLike
<1>2. Len(held) \in Nat /\ Len(more) \in Nat
  BY LenProperties
<1>3. n <= Len(held) /\ c.state = Cut(held, n)
  BY <1>1 DEF Describe
<1>4. Cut(Cut(more, Len(held)), n) = Cut(more, n)
  BY <1>2, <1>3, CutCut
<1>. QED
  BY <1>1, <1>2, <1>3, <1>4

\* Those up to a position describe the memory cut there.
LEMMA DescribeLess ==
  ASSUME NEW held \in Seq(CellType), NEW n \in Nat, NEW cps \in SUBSET CheckpointLike,
         n <= Len(held), Describe(cps, held)
  PROVE  Describe(UpTo(cps, n), Cut(held, n)) /\ Describe(UpTo(cps, n), held)
<1>. SUFFICES ASSUME NEW c \in UpTo(cps, n)
              PROVE  /\ c.at <= Len(Cut(held, n)) /\ c.state = Cut(Cut(held, n), c.at)
                     /\ c.at <= Len(held) /\ c.state = Cut(held, c.at)
  BY DEF Describe
<1>1. PICK m \in Nat : m = c.at
  BY DEF CheckpointLike, UpTo
<1>2. Len(held) \in Nat
  BY LenProperties
<1>3. m <= n /\ m <= Len(held) /\ c.state = Cut(held, m)
  BY <1>1 DEF Describe, UpTo
<1>4. Cut(Cut(held, n), m) = Cut(held, m)
  BY <1>3, CutCut
<1>5. Len(Cut(held, n)) = n
  <2>1. Len(Cut(held, n)) = IF n < Len(held) THEN n ELSE Len(held)
    BY CutIs
  <2>. QED
    BY <1>2, <2>1
<1>. QED
  BY <1>1, <1>3, <1>4, <1>5

\* So does the memory's own state, taken as a checkpoint, and no more are kept than
\* a slot keeps.
LEMMA DescribeNew ==
  ASSUME NEW held \in Seq(CellType), NEW cps \in SUBSET CheckpointLike, Describe(cps, held),
         NEW new, new.at = Len(held), new.state = held
  PROVE  Describe(Inserted(cps, new), held)
<1>1. Inserted(cps, new) \subseteq cps \union {new}
  BY DEF Inserted
<1>2. Cut(held, Len(held)) = held /\ Len(held) \in Nat
  <2>1. Len(held) \in Nat
    BY LenProperties
  <2>. QED
    BY <2>1, CutAll
<1>3. ASSUME NEW c \in Inserted(cps, new) PROVE c.at <= Len(held) /\ c.state = Cut(held, c.at)
  <2>1. CASE c \in cps
    BY <2>1 DEF Describe
  <2>2. CASE c = new
    BY <1>2, <2>2
  <2>. QED
    BY <1>1, <2>1, <2>2
<1>. QED
  BY <1>3 DEF Describe

\* Dropping checkpoints keeps them few.
LEMMA FewerFew ==
  ASSUME NEW cps, Few(cps), NEW less \in SUBSET cps
  PROVE  Few(less)
<1>1. IsFiniteSet(less) /\ Cardinality(less) <= Cardinality(cps)
  BY FS_Subset DEF Few
<1>2. Cardinality(less) \in Nat /\ Cardinality(cps) \in Nat /\ PerSlot \in Nat
  BY <1>1, FS_CardinalityType, SizesAssumption DEF Few
<1>. QED
  BY <1>1, <1>2 DEF Few

\* So does inserting one: past the cap another goes.
LEMMA InsertedFew ==
  ASSUME NEW cps \in SUBSET CheckpointLike, Few(cps), NEW new \in CheckpointLike
  PROVE  Few(Inserted(cps, new))
<1>. DEFINE others == {c \in cps : c.at # new.at}
            all == others \union {new}
            least == CHOOSE c \in all : \A d \in all : c.at <= d.at
<1>1. Few(others)
  <2>. HIDE DEF others
  <2>1. others \in SUBSET cps
    BY DEF others
  <2>. QED
    BY <2>1, FewerFew
<1>2. /\ IsFiniteSet(all) /\ Cardinality(all) \in Nat
      /\ Cardinality(all) <= PerSlot + 1
  <2>. HIDE DEF others
  <2>1. IsFiniteSet(others) /\ Cardinality(others) \in Nat /\ Cardinality(others) <= PerSlot
    BY <1>1, FS_CardinalityType DEF Few
  <2>2. IsFiniteSet(others \union {new}) /\ Cardinality(others \union {new}) =
           IF new \in others THEN Cardinality(others) ELSE Cardinality(others) + 1
    BY <2>1, FS_AddElement
  <2>3. PerSlot \in Nat
    BY SizesAssumption
  <2>. QED
    BY <2>1, <2>2, <2>3
<1>3. least \in all
  <2>1. all \in SUBSET CheckpointLike /\ new \in all
    OBVIOUS
  <2>. HIDE DEF all
  <2>2. \E c \in all : \A d \in all : c.at <= d.at
    <3>. DEFINE places == {c.at : c \in all}
    <3>1. places \in SUBSET Nat /\ places # {}
      BY <2>1 DEF CheckpointLike
    <3>2. PICK m \in places : \A k \in places : m <= k
      <4>. HIDE DEF places
      <4>. QED
        BY <3>1, LeastNat
    <3>3. PICK c \in all : c.at = m
      BY <3>2
    <3>4. \A d \in all : c.at <= d.at
      BY <3>2, <3>3
    <3>. QED
      BY <3>4
  <2>. QED
    BY <2>2
<1>4. Inserted(cps, new) = IF Cardinality(all) <= PerSlot THEN all ELSE all \ {least}
  BY DEF Inserted
<1>. HIDE DEF all, least
<1>5. IsFiniteSet(all \ {least}) /\ Cardinality(all \ {least}) = Cardinality(all) - 1
  BY <1>2, <1>3, FS_RemoveElement
<1>6. PerSlot \in Nat
  BY SizesAssumption
<1>. QED
  BY <1>2, <1>4, <1>5, <1>6 DEF Few

-----------------------------------------------------------------------------
(* What a prompt shares with a cache.                                      *)

\* What is shared is where the two agree.
LEMMA SharedAgrees ==
  ASSUME NEW r \in Requests, NEW ids \in Seq(Tokens), NEW n, n = SharedPrefix(ids, Prompt[r])
  PROVE  /\ n \in Nat /\ n <= Len(ids) /\ n < Len(Prompt[r])
         /\ Cut(ids, n) = Cut(Prompt[r], n)
<1>. DEFINE top == Min({Len(ids), Len(Prompt[r])})
            S == {k \in 1 .. top : Cut(ids, k) = Cut(Prompt[r], k)}
            common == Cardinality(S)
<1>1. PICK p \in Seq(Tokens) : p = Prompt[r] /\ Len(p) \in Nat \ {0}
  <2>1. Prompt[r] \in Seq(Tokens) /\ Prompt[r] # <<>>
    BY RequestsAssumption
  <2>2. Len(Prompt[r]) \in Nat \ {0}
    BY <2>1, EmptySeq
  <2>. QED
    BY <2>1, <2>2
<1>2. Len(ids) \in Nat
  BY LenProperties
<1>3. top \in Nat /\ top <= Len(ids)
  <2>1. {Len(ids), Len(p)} \in SUBSET Nat /\ {Len(ids), Len(p)} # {}
    BY <1>1, <1>2
  <2>2. Min({Len(ids), Len(p)}) \in {Len(ids), Len(p)}
        /\ \A k \in {Len(ids), Len(p)} : Min({Len(ids), Len(p)}) <= k
    BY <2>1, MinNat
  <2>. QED
    BY <1>1, <1>2, <2>2
<1>. HIDE DEF top
<1>4. S \in SUBSET Nat /\ \A k \in S : k \in 1 .. top /\ Cut(ids, k) = Cut(p, k)
  BY <1>1, <1>3
<1>5. \A k \in S : \A j \in 1 .. k : j \in S
  <2>. SUFFICES ASSUME NEW k \in S, NEW j \in 1 .. k PROVE j \in S
    OBVIOUS
  <2>1. k \in 1 .. top /\ Cut(ids, k) = Cut(p, k)
    BY <1>4
  <2>2. k \in Nat /\ j \in Nat /\ j <= k /\ j \in 1 .. top
    BY <1>3, <2>1
  <2>3. Cut(Cut(ids, k), j) = Cut(ids, j) /\ Cut(Cut(p, k), j) = Cut(p, j)
    BY <2>2, CutCut
  <2>. QED
    BY <1>1, <2>1, <2>2, <2>3
<1>6. common \in Nat /\ (common = 0 \/ common \in S)
  <2>1. CASE S = {}
    <3>. HIDE DEF S
    <3>. QED
      BY <2>1, FS_EmptySet
  <2>2. CASE S # {}
    <3>1. PICK m \in S : \A k \in S : k <= m
      <4>. HIDE DEF S
      <4>1. top \in Nat /\ \A k \in S : k <= top
        <5>1. \A k \in 1 .. top : k <= top
          BY <1>3
        <5>. QED
          BY <1>3, <1>4, <5>1, Zenon
      <4>2. Max(S) \in S /\ \A k \in S : k <= Max(S)
        BY <1>4, <2>2, <4>1, MaxNat
      <4>. QED
        BY <4>2
    <3>. HIDE DEF S
    <3>2. S = 1 .. m /\ m \in Nat /\ 1 <= m
      <4>1. m \in 1 .. top
        BY <1>4, Zenon
      <4>2. m \in Nat /\ 1 <= m
        BY <1>3, <4>1
      <4>3. \A k \in S : k \in Nat /\ 1 <= k
        <5>1. \A k \in 1 .. top : k \in Nat /\ 1 <= k
          BY <1>3
        <5>. QED
          BY <1>4, <5>1, Zenon
      <4>4. \A k \in S : k \in 1 .. m
        BY <3>1, <4>2, <4>3
      <4>5. \A j \in 1 .. m : j \in S
        BY <1>5, Zenon
      <4>. QED
        BY <4>2, <4>4, <4>5
    <3>3. Cardinality(1 .. m) = m
      <4>1. Cardinality(1 .. m) = IF 1 <= m THEN m - 1 + 1 ELSE 0
        BY <3>2, FS_Interval
      <4>. QED
        BY <3>2, <4>1
    <3>. QED
      BY <3>1, <3>2, <3>3
  <2>. QED
    BY <2>1, <2>2
<1>7. n = IF common < 2 THEN 0 ELSE Min({common, Len(Prompt[r]) - 1})
  BY DEF SharedPrefix, top
<1>. HIDE DEF common
<1>8. n \in Nat /\ n <= common /\ n < Len(p)
  <2>1. CASE common < 2
    BY <1>1, <1>6, <1>7, <2>1
  <2>2. CASE ~(common < 2)
    <3>1. {common, Len(p) - 1} \in SUBSET Nat
      BY <1>1, <1>6
    <3>2. Min({common, Len(p) - 1}) \in {common, Len(p) - 1}
          /\ \A k \in {common, Len(p) - 1} : Min({common, Len(p) - 1}) <= k
      BY <3>1, MinNat
    <3>. QED
      BY <1>1, <1>6, <1>7, <2>2, <3>1, <3>2
  <2>. QED
    BY <2>1, <2>2
<1>9. n <= Len(ids) /\ Cut(ids, n) = Cut(p, n)
  <2>1. CASE common = 0
    <3>1. n = 0
      BY <1>6, <1>8, <2>1
    <3>2. Cut(ids, 0) = <<>> /\ Cut(p, 0) = <<>>
      BY CutNone
    <3>. QED
      BY <1>2, <3>1, <3>2
  <2>2. CASE common \in S
    <3>1. common \in 1 .. top /\ Cut(ids, common) = Cut(p, common)
      BY <1>4, <2>2
    <3>. HIDE DEF S
    <3>2. Cut(Cut(ids, common), n) = Cut(ids, n) /\ Cut(Cut(p, common), n) = Cut(p, n)
      BY <1>6, <1>8, CutCut
    <3>3. n <= Len(ids)
      BY <1>2, <1>3, <1>6, <1>8, <3>1
    <3>. QED
      BY <3>1, <3>2, <3>3
  <2>. QED
    BY <1>6, <2>1, <2>2
<1>. QED
  BY <1>1, <1>8, <1>9

-----------------------------------------------------------------------------
(* Steps that touch no memory, or drop some.                               *)

\* A slot left alone keeps its records true.
LEMMA LeftAlone ==
  ASSUME NEW s, Recorded(s), kind' = kind, speculating' => speculating,
         memory'[s] = memory[s], cached'[s] = cached[s],
         s \in Running <=> s \in Running', s \in Running => slot'[s] = slot[s]
  PROVE  Recorded(s)'
BY DEF Recorded, Describe, Hold, Clean

\* So does an emptied one.
LEMMA EmptyRecorded ==
  ASSUME NEW s, memory'[s] = NoMemory, cached'[s].ids = <<>>, cached'[s].checkpoints = {},
         s \notin Running'
  PROVE  Recorded(s)'
<1>1. Len(<<>>) = 0 /\ DOMAIN <<>> = {}
  BY EmptySeq
<1>2. NoMemory.attn = <<>> /\ NoMemory.rec = <<>>
  BY DEF NoMemory
<1>. QED
  BY <1>1, <1>2 DEF Recorded, Describe, Hold, Clean

\* A step that drops the memory of slots it leaves without a request, and touches
\* no other, keeps every record true.
LEMMA EmptiedTrue ==
  ASSUME IInv, RInv, UNCHANGED engine, NEW ss, Emptied(ss), DOMAIN slot' \subseteq Running,
         \A s \in DOMAIN slot' : s \notin ss /\ slot'[s] = slot[s],
         \A s \in Running : s \in DOMAIN slot' \/ s \in ss
  PROVE  RInv'
<1>0. kind' = kind /\ speculating' = speculating
  BY DEF engine
<1>1. ASSUME NEW s \in Running' PROVE Stands(slot[s])'
  <2>1. s \in Running /\ slot'[s] = slot[s] /\ Stands(slot[s])
    BY DEF Running, RInv
  <2>. QED
    BY <1>0, <2>1 DEF Stands
<1>2. ASSUME NEW s \in Slots, s \in ss
      PROVE  /\ memory'[s] = NoMemory /\ cached'[s].ids = <<>> /\ cached'[s].checkpoints = {}
             /\ s \notin Running'
  <2>1. memory'[s] = NoMemory /\ cached'[s] = Forgotten(cached[s])
    BY <1>2 DEF Emptied
  <2>2. cached[s] \in Record(Owner(s))
    BY DEF IInv, Sealed
  <2>3. Forgotten(cached[s]).ids = <<>> /\ Forgotten(cached[s]).checkpoints = {}
    BY <2>2 DEF Forgotten, Record
  <2>. QED
    BY <1>2, <2>1, <2>3 DEF Running
<1>3. ASSUME NEW s \in Slots, s \notin ss
      PROVE  /\ memory'[s] = memory[s] /\ cached'[s] = cached[s]
             /\ s \in Running <=> s \in Running' /\ (s \in Running => slot'[s] = slot[s])
  BY <1>3 DEF Emptied, Running
<1>4. ASSUME NEW s \in Slots PROVE Recorded(s)'
  <2>1. CASE s \in ss
    BY <1>2, <2>1, EmptyRecorded
  <2>2. CASE s \notin ss
    BY <1>0, <1>3, <2>2, LeftAlone DEF RInv, Running
  <2>. QED
    BY <2>1, <2>2
<1>5. ASSUME NEW s \in Slots PROVE Few(cached'[s].checkpoints)
  <2>1. CASE s \in ss
    <3>1. IsFiniteSet({}) /\ Cardinality({}) = 0 /\ PerSlot \in Nat
      BY FS_EmptySet, SizesAssumption
    <3>2. cached'[s].checkpoints = {}
      BY <1>2, <2>1
    <3>. QED
      BY <3>1, <3>2 DEF Few
  <2>2. CASE s \notin ss
    BY <1>3, <2>2 DEF RInv, Capped, Few
  <2>. QED
    BY <2>1, <2>2
<1>6. Capped'
  BY <1>5 DEF Capped, Few
<1>. QED
  BY <1>1, <1>4, <1>6 DEF RInv

\* A sweep drops the memory of the slots it frees.
LEMMA SweepTrue == IInv /\ RInv /\ Sweep => RInv'
<1>. SUFFICES ASSUME IInv, RInv, Sweep PROVE RInv'
  OBVIOUS
<1>1. slot' = Restrict(slot, Running \ Swept) /\ Emptied(Swept) /\ UNCHANGED engine
  BY DEF Sweep
<1>2. DOMAIN slot' = Running \ Swept /\ \A s \in DOMAIN slot' : slot'[s] = slot[s]
  BY <1>1 DEF Restrict
<1>. QED
  BY <1>1, <1>2, EmptiedTrue

\* A step taken back leaves every sequence as it was.
LEMMA PutBackAll ==
  ASSUME IInv, RInv, NEW blocks \in Blocks, NEW rows \in Batches(blocks)
  PROVE  DOMAIN PutBack(rows) = Running /\ \A s \in Running : PutBack(rows)[s] = slot[s]
<1>1. ASSUME NEW s \in Running PROVE PutBack(rows)[s] = slot[s]
  <2>1. PICK q : q = slot[s]
    OBVIOUS
  <2>2. PICK row : row = rows[s]
    OBVIOUS
  <2>3. q \in SequenceLike(q) /\ Stands(q) /\ (HasRow(row) => RowFor(q, row))
    BY <2>1, <2>2, Running1, RowsFor
  <2>4. HasRow(row) => Undone(Fed(q, row), row) = q
    BY <2>3, UndoneFed
  <2>. QED
    BY <2>1, <2>2, <2>4 DEF PutBack
<1>. QED
  BY <1>1 DEF PutBack

\* The slot whose memory is dropped to make room is an idle one.
LEMMA LeastIn ==
  ASSUME IInv, Evictable # {}
  PROVE  Least(Evictable, LAMBDA s : cached[s].used) \in FreeSlots
<1>. DEFINE oldest == {s \in Evictable : \A t \in Evictable : cached[s].used <= cached[t].used}
            uses == {cached[s].used : s \in Evictable}
<1>1. Evictable \in SUBSET FreeSlots /\ FreeSlots \in SUBSET Nat /\ FreeSlots \subseteq Slots
  BY SizesAssumption DEF Evictable, FreeSlots, Slots
<1>2. \A s \in Evictable : cached[s].used \in Nat
  BY <1>1 DEF IInv, Sealed, Record
<1>3. uses \in SUBSET Nat /\ uses # {}
  BY <1>2
<1>4. PICK m \in uses : \A u \in uses : m <= u
  <2>. HIDE DEF uses
  <2>. QED
    BY <1>3, LeastNat
<1>5. oldest # {} /\ oldest \in SUBSET Nat /\ oldest \subseteq FreeSlots
  <2>1. PICK s \in Evictable : cached[s].used = m
    BY <1>4
  <2>2. \A t \in Evictable : cached[t].used \in uses
    OBVIOUS
  <2>3. \A t \in Evictable : cached[s].used <= cached[t].used
    <3>. HIDE DEF uses
    <3>. QED
      BY <1>4, <2>1, <2>2
  <2>. QED
    BY <1>1, <2>3
<1>6. Min(oldest) \in oldest
  <2>. HIDE DEF oldest
  <2>. QED
    BY <1>5, MinNat
<1>7. Least(Evictable, LAMBDA s : cached[s].used) = Min(oldest)
  BY DEF Least
<1>. QED
  BY <1>5, <1>6, <1>7

\* What a full memory leaves of the slots.
LEMMA FullLeaves ==
  ASSUME IInv, RInv, DecodeFull
  PROVE  \E ss : /\ Emptied(ss) /\ DOMAIN slot' \subseteq Running
                 /\ \A s \in DOMAIN slot' : s \notin ss /\ slot'[s] = slot[s]
                 /\ \A s \in Running : s \in DOMAIN slot' \/ s \in ss
                 /\ Running \ DOMAIN slot' \subseteq {Largest}
<1>. PICK blocks \in Blocks :
       \E rows \in Batches(blocks) :
         IF Evictable # {}
            THEN /\ slot' = PutBack(rows)
                 /\ Emptied({Least(Evictable, LAMBDA s : cached[s].used)})
            ELSE /\ slot' = Restrict(PutBack(rows), Running \ {Largest})
                 /\ Emptied({Largest})
  BY DEF DecodeFull
<1>1. PICK rows \in Batches(blocks) :
         IF Evictable # {}
            THEN /\ slot' = PutBack(rows)
                 /\ Emptied({Least(Evictable, LAMBDA s : cached[s].used)})
            ELSE /\ slot' = Restrict(PutBack(rows), Running \ {Largest})
                 /\ Emptied({Largest})
  OBVIOUS
<1>2. DOMAIN PutBack(rows) = Running /\ \A s \in Running : PutBack(rows)[s] = slot[s]
  BY PutBackAll
<1>3. CASE Evictable # {}
  <2>1. PICK v \in FreeSlots : v = Least(Evictable, LAMBDA s : cached[s].used)
    BY <1>3, LeastIn
  <2>2. slot' = PutBack(rows) /\ Emptied({v})
    BY <1>1, <1>3, <2>1
  <2>3. v \notin Running
    BY DEF FreeSlots
  <2>. QED
    BY <1>2, <2>2, <2>3
<1>4. CASE ~(Evictable # {})
  <2>1. slot' = Restrict(PutBack(rows), Running \ {Largest}) /\ Emptied({Largest})
    BY <1>1, <1>4
  <2>2. DOMAIN slot' = Running \ {Largest} /\ \A s \in DOMAIN slot' : slot'[s] = slot[s]
    BY <1>2, <2>1 DEF Restrict
  <2>. QED
    BY <2>1, <2>2
<1>. QED
  BY <1>3, <1>4

\* A full memory drops one slot's, and moves no other sequence.
LEMMA FullTrue == IInv /\ RInv /\ DecodeFull => RInv'
<1>. SUFFICES ASSUME IInv, RInv, DecodeFull PROVE RInv'
  OBVIOUS
<1>1. UNCHANGED engine
  BY DEF DecodeFull
<1>. QED
  BY <1>1, FullLeaves, EmptiedTrue

\* A shutdown drops everything.
LEMMA ShutdownTrue == IInv /\ RInv /\ Shutdown => RInv'
<1>. SUFFICES ASSUME IInv, RInv, Shutdown PROVE RInv'
  OBVIOUS
<1>1. /\ kind' = kind /\ DOMAIN slot' = {}
      /\ memory' = [s \in Slots |-> NoMemory] /\ cached' = [s \in Slots |-> NothingCached]
  BY DEF Shutdown, engine
<1>2. ASSUME NEW s \in Slots PROVE Recorded(s)'
  <2>1. /\ memory'[s] = NoMemory /\ cached'[s].ids = <<>> /\ cached'[s].checkpoints = {}
        /\ s \notin Running'
    BY <1>1 DEF Running, NothingCached
  <2>. QED
    BY <2>1, EmptyRecorded
<1>3. Capped'
  <2>1. IsFiniteSet({}) /\ Cardinality({}) = 0 /\ PerSlot \in Nat
    BY FS_EmptySet, SizesAssumption
  <2>2. \A s \in Slots : cached'[s].checkpoints = {}
    BY <1>1 DEF NothingCached
  <2>. QED
    BY <2>1, <2>2 DEF Capped, Few
<1>. QED
  BY <1>1, <1>2, <1>3 DEF RInv, Running

\* What touches no slot keeps every record true.
LEMMA OtherTrue == RInv /\ UNCHANGED <<engine, slot, cached, memory>> => RInv'
<1>. SUFFICES ASSUME RInv, UNCHANGED <<engine, slot, cached, memory>> PROVE RInv'
  OBVIOUS
<1>0. kind' = kind /\ speculating' = speculating
  BY DEF engine
<1>1. ASSUME NEW s \in Slots PROVE Recorded(s)'
  BY <1>0, LeftAlone DEF RInv, Running
<1>. QED
  BY <1>0, <1>1 DEF RInv, Running, Stands, Capped

\* A failed decode moves the prompts still being read ahead of their memory, which
\* begins them as before.
LEMMA FailsTrue == IInv /\ RInv /\ DecodeFails => RInv'
<1>. SUFFICES ASSUME IInv, RInv, DecodeFails PROVE RInv'
  OBVIOUS
<1>. PICK blocks \in Blocks :
        \E rows \in Batches(blocks) :
          /\ slot' = [s \in Running \ Sampled(rows) |-> Fed(slot[s], rows[s])]
          /\ Emptied(Sampled(rows))
  BY DEF DecodeFails
<1>1. PICK rows \in Batches(blocks) :
        /\ slot' = [s \in Running \ Sampled(rows) |-> Fed(slot[s], rows[s])]
        /\ Emptied(Sampled(rows))
  OBVIOUS
<1>2. kind' = kind /\ speculating' = speculating
  BY DEF DecodeFails, engine
<1>3. ASSUME NEW s \in Running'
      PROVE  /\ s \in Running /\ s \notin Sampled(rows) /\ Stands(slot'[s])
             /\ slot'[s] = slot[s] \/ slot'[s].pending
             /\ \E more \in Seq(Tokens) : slot'[s].resident = slot[s].resident \o more
  <2>1. s \in Running /\ s \notin Sampled(rows) /\ slot'[s] = Fed(slot[s], rows[s])
    BY <1>1 DEF Running
  <2>2. PICK q : q = slot[s]
    OBVIOUS
  <2>3. PICK row : row = rows[s]
    OBVIOUS
  <2>4. q \in SequenceLike(q) /\ Stands(q)
    BY <2>1, <2>2, Running1
  <2>5. CASE HasRow(row)
    <3>1. RowFor(q, row) /\ Fed(q, row).pending
      BY <2>1, <2>2, <2>3, <2>5, RowsFor
    <3>2. Stands(Fed(q, row))
      BY <2>4, <3>1, FedStands
    <3>3. TokensFed(q, row) \in Seq(Tokens)
      BY <2>4, <3>1, FeedingIs
    <3>4. Fed(q, row).resident = q.resident \o TokensFed(q, row)
      BY <2>4, <3>1, FedFields
    <3>. QED
      BY <2>1, <2>2, <2>3, <3>1, <3>2, <3>3, <3>4
  <2>6. CASE ~HasRow(row)
    <3>1. Fed(q, row) = q
      BY <2>1, <2>2, <2>3, <2>6, RowsFor
    <3>2. PICK none \in Seq(Tokens) : none = <<>>
      BY EmptySeq
    <3>3. q.resident \o none = q.resident
      BY <2>4, <3>2, ConcatEmptySeq, Fields
    <3>. QED
      BY <2>1, <2>2, <2>3, <2>4, <3>1, <3>3
  <2>. QED
    BY <2>5, <2>6
<1>4. ASSUME NEW s \in Running' PROVE Stands(slot[s])'
  BY <1>2, <1>3 DEF Stands
<1>5. ASSUME NEW s \in Slots PROVE Recorded(s)' /\ Few(cached'[s].checkpoints)
  <2>0. Recorded(s) /\ Few(cached[s].checkpoints)
    BY DEF RInv, Capped, Few
  <2>1. CASE s \in Sampled(rows)
    <3>1. memory'[s] = NoMemory /\ cached'[s] = Forgotten(cached[s]) /\ s \notin Running'
      BY <1>1, <2>1 DEF Emptied, Running
    <3>2. cached[s] \in Record(Owner(s))
      BY DEF IInv, Sealed
    <3>3. Forgotten(cached[s]).ids = <<>> /\ Forgotten(cached[s]).checkpoints = {}
      BY <3>2 DEF Forgotten, Record
    <3>4. IsFiniteSet({}) /\ Cardinality({}) = 0 /\ PerSlot \in Nat
      BY FS_EmptySet, SizesAssumption
    <3>5. Few(cached'[s].checkpoints)
      BY <3>1, <3>3, <3>4 DEF Few
    <3>. QED
      BY <3>1, <3>3, <3>5, EmptyRecorded
  <2>2. CASE s \notin Sampled(rows)
    <3>1. memory'[s] = memory[s] /\ cached'[s] = cached[s]
      BY <1>1, <2>2 DEF Emptied
    <3>2. CASE s \notin Running
      <4>1. s \notin Running'
        BY <1>1, <3>2 DEF Running
      <4>. QED
        BY <1>2, <2>0, <3>1, <3>2, <4>1, LeftAlone
    <3>3. CASE s \in Running
      <4>1. s \in Running'
        BY <1>1, <2>2, <3>3 DEF Running
      <4>2. PICK more \in Seq(Tokens) : slot'[s].resident = slot[s].resident \o more
        BY <1>3, <4>1
      <4>3. PICK held \in Seq(CellType) : held = memory[s].attn
        BY HeldIs
      <4>4. PICK res \in Seq(Tokens) : res = slot[s].resident
        BY <3>3, Running1, Fields
      <4>5. Hold(held, res)
        BY <2>0, <3>3, <4>3, <4>4 DEF Recorded
      <4>6. Hold(held, slot'[s].resident)
        BY <4>2, <4>4, <4>5, HoldMore
      <4>7. ~slot'[s].pending => slot'[s].past <= Len(held)
        BY <1>3, <2>0, <3>3, <4>1, <4>3 DEF Recorded
      <4>8. memory'[s].attn = held /\ memory'[s].rec = memory[s].rec
            /\ cached'[s].checkpoints = cached[s].checkpoints
        BY <3>1, <4>3
      <4>9. /\ kind = "recurrent" => memory[s].rec = held
            /\ Describe(cached[s].checkpoints, held)
            /\ speculating => Clean(held)
        BY <2>0, <4>3 DEF Recorded
      <4>10. Recorded(s)'
        BY <1>2, <4>1, <4>3, <4>6, <4>7, <4>8, <4>9 DEF Recorded, Hold, Clean, Describe
      <4>. QED
        BY <2>0, <3>1, <4>10
    <3>. QED
      BY <2>0, <3>1, <3>2, <3>3
  <2>. QED
    BY <2>1, <2>2
<1>6. Capped'
  BY <1>5 DEF Capped, Few
<1>. QED
  BY <1>4, <1>5, <1>6 DEF RInv

-----------------------------------------------------------------------------
(* Admission.                                                              *)

\* Only recurrent memories are checkpointed.
LEMMA NoCuts ==
  ASSUME NEW prompt, NEW from, kind # "recurrent"
  PROVE  CheckpointCuts(prompt, from) = {}
BY DEF CheckpointCuts

\* A slot's cache record, told without its namespace.
LEMMA RecordIs ==
  ASSUME IInv, NEW s \in Slots
  PROVE  /\ cached[s].ids \in Seq(Tokens) /\ cached[s].used \in Nat
         /\ cached[s].checkpoints \in SUBSET CheckpointLike
         /\ cached[s].space \in Spaces
         /\ cached[s] \in [ids : {cached[s].ids}, space : {cached[s].space},
                           checkpoints : {cached[s].checkpoints}, used : {cached[s].used}]
         /\ memory[s].attn \in Seq(CellType) /\ memory[s].rec \in Seq(CellType)
<1>1. memory[s] \in Held(Owner(s)) /\ cached[s] \in Record(Owner(s))
  BY DEF IInv, Sealed
<1>2. Owner(s) \in Spaces
  <2>1. CASE s \in Running
    BY <2>1 DEF Owner, Spaces, IInv, Typed, SequenceLike
  <2>2. CASE s \notin Running
    BY <1>1, <2>2 DEF Owner, Record
  <2>. QED
    BY <2>1, <2>2
<1>3. CellOf(Owner(s)) \subseteq CellType
  BY <1>2 DEF CellOf, CellType
<1>4. memory[s].attn \in Seq(CellType) /\ memory[s].rec \in Seq(CellType)
  <2>1. memory[s].attn \in Seq(CellOf(Owner(s))) /\ memory[s].rec \in Seq(CellOf(Owner(s)))
    BY <1>1 DEF Held
  <2>. QED
    BY <1>3, <2>1, SeqMonotonic
<1>5. ASSUME NEW c \in cached[s].checkpoints PROVE c \in CheckpointLike
  <2>1. c \in Checkpoint(Owner(s))
    BY <1>1 DEF Record
  <2>2. c.state \in Seq(CellOf(Owner(s)))
    BY <2>1 DEF Checkpoint
  <2>3. c.state \in Seq(CellType)
    BY <1>3, <2>2, SeqMonotonic
  <2>. QED
    BY <2>1, <2>3 DEF Checkpoint, CheckpointLike
<1>. QED
  BY <1>1, <1>4, <1>5 DEF Record

\* Where an idle slot's memory is taken back to agrees with the prompt.
LEMMA RewindAgrees ==
  ASSUME IInv, NEW r \in Requests, NEW s \in Slots,
         NEW p, p = PlanRewind(Len(cached[s].ids), SharedWith(cached[s], r),
                               Positions(cached[s]))
  PROVE  /\ p = Reset \/ p.how \in {"keep", "trim", "restore"}
         /\ p.to \in Nat /\ p.to <= Len(cached[s].ids) /\ p.to < Len(Prompt[r])
         /\ Cut(cached[s].ids, p.to) = Cut(Prompt[r], p.to)
         /\ p.how = "keep" => p.to = Len(cached[s].ids)
         /\ p.how = "trim" => kind = "trim"
         /\ p.how = "restore" => p.to \in Positions(cached[s])
<1>1. PICK ids \in Seq(Tokens) : ids = cached[s].ids /\ Len(ids) \in Nat
  BY RecordIs, LenProperties
<1>2. PICK prompt \in Seq(Tokens) : prompt = Prompt[r] /\ Len(prompt) \in Nat \ {0}
  <2>1. Prompt[r] \in Seq(Tokens) /\ Prompt[r] # <<>>
    BY RequestsAssumption
  <2>2. Len(Prompt[r]) \in Nat \ {0}
    BY <2>1, EmptySeq
  <2>. QED
    BY <2>1, <2>2
<1>3. PICK reuse \in Nat :
        /\ reuse = SharedWith(cached[s], r) /\ reuse <= Len(ids) /\ reuse < Len(prompt)
        /\ Cut(ids, reuse) = Cut(prompt, reuse)
  <2>1. CASE cached[s].space = Space[r]
    <3>1. PICK n : n = SharedPrefix(ids, Prompt[r])
      OBVIOUS
    <3>2. n \in Nat /\ n <= Len(ids) /\ n < Len(prompt) /\ Cut(ids, n) = Cut(prompt, n)
      BY <1>2, <3>1, SharedAgrees
    <3>. QED
      BY <1>1, <2>1, <3>1, <3>2 DEF SharedWith
  <2>2. CASE cached[s].space # Space[r]
    <3>1. SharedWith(cached[s], r) = 0
      BY <2>2 DEF SharedWith
    <3>2. Cut(ids, 0) = <<>> /\ Cut(prompt, 0) = <<>>
      BY CutNone
    <3>. QED
      BY <1>1, <1>2, <3>1, <3>2
  <2>. QED
    BY <2>1, <2>2
<1>4. Positions(cached[s]) \in SUBSET Nat
  BY RecordIs DEF Positions, CheckpointLike
<1>5. kind \in {"trim", "recurrent", "none"}
  BY DEF IInv, Typed
<1>6. p = PlanRewind(Len(ids), reuse, Positions(cached[s]))
  BY <1>1, <1>3
<1>7. /\ p = Reset \/ (p.how \in {"keep", "trim", "restore"} /\ reuse # 0)
      /\ p.to \in 0 .. reuse
      /\ p.how = "restore" => p.to \in Positions(cached[s])
      /\ p.how = "keep" => p.to = Len(ids)
      /\ p.how = "trim" => kind = "trim"
  BY <1>1, <1>4, <1>5, <1>6, RewindType
<1>8. PICK n \in Nat : n = p.to /\ n <= reuse
  BY <1>3, <1>7
<1>9. Cut(Cut(ids, reuse), n) = Cut(ids, n) /\ Cut(Cut(prompt, reuse), n) = Cut(prompt, n)
  BY <1>8, CutCut
<1>10. n <= Len(ids) /\ n < Len(prompt)
  BY <1>1, <1>2, <1>3, <1>8
<1>. QED
  BY <1>1, <1>2, <1>3, <1>7, <1>8, <1>9, <1>10

\* A sequence put in a slot stands on what of its prompt is reused.
LEMMA NewStands ==
  ASSUME NEW r \in Requests, NEW n \in Nat, n < Len(Prompt[r]), Len(Prompt[r]) < Context
  PROVE  LET q == NewSequence(r, n) IN
         /\ Stands(q) /\ q.pending /\ q.past = n /\ q.resident = Cut(Prompt[r], n) /\ q.req = r
<1>1. PICK prompt \in Seq(Tokens) : prompt = Prompt[r] /\ Len(prompt) \in Nat
  <2>1. Prompt[r] \in Seq(Tokens)
    BY RequestsAssumption
  <2>. QED
    BY <2>1, LenProperties
<1>2. SubSeq(prompt, 1, n) = Cut(prompt, n)
  BY <1>1 DEF Cut
<1>3. Len(Cut(prompt, n)) = n
  <2>1. Len(Cut(prompt, n)) = IF n < Len(prompt) THEN n ELSE Len(prompt)
    BY CutIs
  <2>. QED
    BY <1>1, <2>1
<1>4. PICK cuts : cuts = CheckpointCuts(Prompt[r], n)
  OBVIOUS
<1>5. kind # "recurrent" => cuts = {}
  BY <1>4, NoCuts
<1>6. PICK q : q = NewSequence(r, n)
  OBVIOUS
<1>7. q = [req |-> r, pending |-> TRUE, cursor |-> n, past |-> n,
           resident |-> Cut(prompt, n), token |-> <<>>, emitted |-> 0, cuts |-> cuts]
  BY <1>1, <1>2, <1>4, <1>6 DEF NewSequence
<1>8. /\ q.req = r /\ q.pending = TRUE /\ q.cursor = n /\ q.past = n
      /\ q.resident = Cut(prompt, n) /\ q.token = <<>> /\ q.emitted = 0 /\ q.cuts = cuts
  BY <1>7
<1>9. Stands(q)
  BY <1>1, <1>3, <1>5, <1>8 DEF Stands
<1>. QED
  BY <1>1, <1>6, <1>8, <1>9

\* What putting a request in a slot leaves: a sequence standing on what it shares with
\* the slot's record, memory that holds it, and the checkpoints up to there.
LEMMA PlaceLeaves ==
  ASSUME IInv, RInv, NEW r \in Requests, NEW s \in FreeSlots, NEW honoured \in BOOLEAN,
         Len(Prompt[r]) < Context, Place(r, s, honoured)
  PROVE  \E n \in Nat :
           /\ n <= Len(cached[s].ids) /\ n < Len(Prompt[r])
           /\ slot' = [t \in Running \union {s} |-> IF t = s THEN NewSequence(r, n) ELSE slot[t]]
           /\ Hold(memory'[s].attn, Cut(Prompt[r], n))
           /\ Clean(memory[s].attn) => Clean(memory'[s].attn)
           /\ kind = "recurrent" => memory'[s].rec = memory'[s].attn
           /\ Describe(cached'[s].checkpoints, memory'[s].attn)
           /\ cached'[s].checkpoints \subseteq cached[s].checkpoints
           /\ \A t \in Slots : t # s => cached'[t] = cached[t] /\ memory'[t] = memory[t]
<1>. DEFINE planned == PlanRewind(Len(cached[s].ids), SharedWith(cached[s], r),
                                  Positions(cached[s]))
            rewind == IF honoured \/ planned.how = "keep" THEN planned ELSE Reset
            used == 1 + Max({cached[t].used : t \in Slots})
            cut == IF rewind = Reset THEN Forgotten(cached[s]) ELSE Truncated(cached[s], rewind.to)
            restored == CHOOSE p \in cached[s].checkpoints : p.at = rewind.to
            mem == CASE rewind.how = "keep" -> memory[s]
                     [] rewind.how = "trim" -> Trimmed(memory[s], rewind.to)
                     [] rewind.how = "restore" ->
                          [attn |-> Cut(memory[s].attn, rewind.to), rec |-> restored.state]
                     [] rewind.how = "reset" -> NoMemory
<1>1. /\ slot' = [t \in Running \union {s} |->
                    IF t = s THEN NewSequence(r, rewind.to) ELSE slot[t]]
      /\ cached' = [cached EXCEPT ![s] = [cut EXCEPT !.used = used]]
      /\ memory' = [memory EXCEPT ![s] = mem]
  BY DEF Place
<1>2. /\ s \in Slots /\ s \notin Running /\ Running \subseteq Slots
      /\ DOMAIN cached = Slots /\ DOMAIN memory = Slots /\ Recorded(s)
  BY DEF IInv, Typed, FreeSlots, RInv
<1>3. PICK c \in [ids : Seq(Tokens), space : Spaces, checkpoints : SUBSET CheckpointLike,
                  used : Nat] : c = cached[s]
  BY <1>2, RecordIs
<1>4. PICK held \in Seq(CellType) : held = memory[s].attn
  BY <1>2, RecordIs
<1>5. /\ c.ids \in Seq(Tokens) /\ Len(c.ids) \in Nat /\ Len(held) \in Nat
      /\ Len(c.ids) <= Len(held) /\ Hold(held, c.ids)
  <2>1. Len(c.ids) <= Len(held) /\ Hold(held, c.ids)
    BY <1>2, <1>3, <1>4 DEF Recorded
  <2>2. c.ids \in Seq(Tokens)
    BY <1>3
  <2>. QED
    BY <2>1, <2>2, LenProperties
<1>6. /\ kind = "recurrent" => memory[s].rec = held
      /\ Describe(c.checkpoints, held)
  BY <1>2, <1>3, <1>4 DEF Recorded
<1>7. /\ planned = Reset \/ planned.how \in {"keep", "trim", "restore"}
      /\ planned.to \in Nat /\ planned.to <= Len(c.ids) /\ planned.to < Len(Prompt[r])
      /\ Cut(c.ids, planned.to) = Cut(Prompt[r], planned.to)
      /\ planned.how = "keep" => planned.to = Len(c.ids)
      /\ planned.how = "trim" => kind = "trim"
      /\ planned.how = "restore" => planned.to \in Positions(c)
  <2>. HIDE DEF planned
  <2>. QED
    BY <1>2, <1>3, RewindAgrees DEF planned
<1>8. /\ rewind = Reset \/ rewind.how \in {"keep", "trim", "restore"}
      /\ rewind.to \in Nat /\ rewind.to <= Len(c.ids) /\ rewind.to < Len(Prompt[r])
      /\ Cut(c.ids, rewind.to) = Cut(Prompt[r], rewind.to)
      /\ rewind.how = "keep" => rewind.to = Len(c.ids)
      /\ rewind.how = "trim" => kind = "trim"
      /\ rewind.how = "restore" => rewind.to \in Positions(c)
  <2>. HIDE DEF planned
  <2>1. CASE rewind = planned
    <3>. HIDE DEF rewind
    <3>. QED
      BY <1>7, <2>1
  <2>2. CASE rewind = Reset
    <3>. HIDE DEF rewind
    <3>1. Prompt[r] \in Seq(Tokens) /\ Prompt[r] # <<>>
      BY RequestsAssumption
    <3>2. Len(Prompt[r]) \in Nat \ {0}
      BY <3>1, EmptySeq
    <3>3. Cut(c.ids, 0) = <<>> /\ Cut(Prompt[r], 0) = <<>>
      BY <1>5, <3>1, CutNone
    <3>4. rewind.how = "reset" /\ rewind.to = 0
      BY <2>2 DEF Reset
    <3>. QED
      BY <1>5, <2>2, <3>2, <3>3, <3>4
  <2>. QED
    BY <2>1, <2>2
<1>. HIDE DEF planned, rewind
<1>9. PICK n \in Nat : n = rewind.to
  BY <1>8
<1>20. PICK less \in Seq(CellType) : less = Cut(held, n)
  BY CutIs
<1>21. n <= Len(held) /\ Hold(less, Cut(c.ids, n)) /\ (Clean(held) => Clean(less))
       /\ Describe(UpTo(c.checkpoints, n), less)
  <2>1. n <= Len(held)
    BY <1>5, <1>8, <1>9
  <2>2. Hold(less, Cut(c.ids, n)) /\ (Clean(held) => Clean(less))
    BY <1>5, <1>20, HoldCut
  <2>3. c.checkpoints \in SUBSET CheckpointLike
    BY <1>3
  <2>4. Describe(UpTo(c.checkpoints, n), less)
    BY <1>6, <1>20, <2>1, <2>3, DescribeLess
  <2>. QED
    BY <2>1, <2>2, <2>4
<1>10. /\ Hold(mem.attn, Cut(c.ids, n)) /\ (Clean(held) => Clean(mem.attn))
       /\ Describe(UpTo(c.checkpoints, n), mem.attn)
       /\ kind = "recurrent" => mem.rec = mem.attn
  <2>1. CASE rewind = Reset
    <3>1. rewind.how = "reset" /\ n = 0
      BY <1>9, <2>1 DEF Reset
    <3>2. mem = NoMemory
      BY <3>1
    <3>3. less = <<>>
      BY <1>20, <3>1, CutNone
    <3>. HIDE DEF mem
    <3>4. mem.attn = less /\ mem.rec = less
      BY <3>2, <3>3 DEF NoMemory
    <3>. QED
      BY <1>21, <3>4
  <2>2. CASE rewind.how = "keep"
    <3>1. mem = memory[s]
      BY <2>2
    <3>2. n = Len(c.ids)
      BY <1>8, <1>9, <2>2
    <3>3. Cut(c.ids, n) = c.ids
      BY <1>5, <3>2, CutAll
    <3>4. Describe(UpTo(c.checkpoints, n), held)
      BY <1>6 DEF Describe, UpTo
    <3>. HIDE DEF mem
    <3>. QED
      BY <1>4, <1>5, <1>6, <3>1, <3>3, <3>4
  <2>3. CASE rewind.how = "trim"
    <3>1. mem = Trimmed(memory[s], n) /\ kind = "trim"
      BY <1>8, <1>9, <2>3
    <3>. HIDE DEF mem
    <3>2. mem.attn = less
      BY <1>4, <1>20, <3>1 DEF Trimmed
    <3>. QED
      BY <1>21, <3>1, <3>2
  <2>4. CASE rewind.how = "restore"
    <3>1. mem = [attn |-> less, rec |-> restored.state]
      BY <1>4, <1>9, <1>20, <2>4
    <3>2. restored \in c.checkpoints /\ restored.at = n
      <4>1. \E p \in c.checkpoints : p.at = n
        BY <1>8, <1>9, <2>4 DEF Positions
      <4>. QED
        BY <1>3, <1>9, <4>1
    <3>3. restored.state = less
      <4>. HIDE DEF restored
      <4>. QED
        BY <1>6, <1>20, <3>2 DEF Describe
    <3>. HIDE DEF mem, restored
    <3>4. mem.attn = less /\ mem.rec = less
      BY <3>1, <3>3
    <3>. QED
      BY <1>21, <3>4
  <2>. QED
    BY <1>8, <2>1, <2>2, <2>3, <2>4
<1>11. [cut EXCEPT !.used = used].checkpoints \subseteq UpTo(c.checkpoints, n)
  <2>1. CASE rewind = Reset
    <3>1. cut = Forgotten(c)
      BY <1>3, <2>1
    <3>. HIDE DEF cut, used
    <3>. QED
      BY <3>1 DEF Forgotten
  <2>2. CASE rewind # Reset
    <3>1. cut = Truncated(c, n)
      BY <1>3, <1>9, <2>2
    <3>. HIDE DEF cut, used
    <3>. QED
      BY <3>1 DEF Truncated
  <2>. QED
    BY <2>1, <2>2
<1>. DEFINE entry == [cut EXCEPT !.used = used]
<1>. HIDE DEF mem, cut, used
<1>12. cached'[s].checkpoints = entry.checkpoints /\ memory'[s] = mem
       /\ \A t \in Slots : t # s => cached'[t] = cached[t] /\ memory'[t] = memory[t]
  BY <1>1, <1>2
<1>13. slot' = [t \in Running \union {s} |-> IF t = s THEN NewSequence(r, n) ELSE slot[t]]
  BY <1>1, <1>9
<1>14. n <= Len(c.ids) /\ n < Len(Prompt[r]) /\ Cut(c.ids, n) = Cut(Prompt[r], n)
  BY <1>8, <1>9
<1>15. UpTo(c.checkpoints, n) \subseteq c.checkpoints
  BY DEF UpTo
<1>. HIDE DEF entry
<1>16. /\ Hold(memory'[s].attn, Cut(Prompt[r], n))
       /\ Clean(memory[s].attn) => Clean(memory'[s].attn)
       /\ kind = "recurrent" => memory'[s].rec = memory'[s].attn
  BY <1>4, <1>10, <1>12, <1>14
<1>17. Describe(cached'[s].checkpoints, memory'[s].attn)
  BY <1>10, <1>11, <1>12 DEF Describe, entry
<1>18. cached'[s].checkpoints \subseteq cached[s].checkpoints
  BY <1>3, <1>11, <1>12, <1>15 DEF entry
<1>. QED
  BY <1>3, <1>12, <1>13, <1>14, <1>16, <1>17, <1>18

\* So admission keeps every record true.
LEMMA PlaceTrue ==
  ASSUME IInv, RInv, NEW r \in Requests, NEW s \in FreeSlots, NEW honoured \in BOOLEAN,
         Len(Prompt[r]) < Context, Place(r, s, honoured), UNCHANGED engine
  PROVE  RInv'
<1>1. PICK n \in Nat :
           /\ n <= Len(cached[s].ids) /\ n < Len(Prompt[r])
           /\ slot' = [t \in Running \union {s} |-> IF t = s THEN NewSequence(r, n) ELSE slot[t]]
           /\ Hold(memory'[s].attn, Cut(Prompt[r], n))
           /\ Clean(memory[s].attn) => Clean(memory'[s].attn)
           /\ kind = "recurrent" => memory'[s].rec = memory'[s].attn
           /\ Describe(cached'[s].checkpoints, memory'[s].attn)
           /\ cached'[s].checkpoints \subseteq cached[s].checkpoints
           /\ \A t \in Slots : t # s => cached'[t] = cached[t] /\ memory'[t] = memory[t]
  BY PlaceLeaves
<1>0. kind' = kind /\ speculating' = speculating
  BY DEF engine
<1>2. s \in Slots /\ s \notin Running /\ Recorded(s) /\ Few(cached[s].checkpoints)
  BY DEF FreeSlots, RInv, Capped, Few
<1>3. PICK q : q = NewSequence(r, n)
  OBVIOUS
<1>4. Stands(q) /\ q.pending /\ q.past = n /\ q.resident = Cut(Prompt[r], n)
  BY <1>1, <1>3, NewStands
<1>5. /\ DOMAIN slot' = Running \union {s} /\ slot'[s] = q
      /\ \A t \in Running : slot'[t] = slot[t]
  BY <1>1, <1>2, <1>3
<1>6. ASSUME NEW t \in Running' PROVE Stands(slot[t])'
  <2>1. CASE t = s
    BY <1>0, <1>4, <1>5, <2>1 DEF Stands
  <2>2. CASE t # s
    <3>1. slot'[t] = slot[t] /\ Stands(slot[t])
      BY <1>5, <2>2 DEF Running, RInv
    <3>. QED
      BY <1>0, <3>1 DEF Stands
  <2>. QED
    BY <2>1, <2>2
<1>18. Recorded(s)'
  <2>1. s \in Running' /\ slot'[s] = q
    BY <1>5 DEF Running
  <2>2. Hold(memory'[s].attn, slot'[s].resident)
    BY <1>1, <1>4, <2>1
  <2>3. speculating => Clean(memory[s].attn)
    BY <1>2 DEF Recorded
  <2>4. speculating' => Clean(memory'[s].attn)
    BY <1>0, <1>1, <2>3
  <2>5. kind' = "recurrent" => memory'[s].rec = memory'[s].attn
    BY <1>0, <1>1
  <2>. QED
    BY <1>1, <1>4, <2>1, <2>2, <2>4, <2>5 DEF Recorded, Describe, Hold, Clean
<1>19. ASSUME NEW t \in Slots, t # s PROVE Recorded(t)' /\ Few(cached'[t].checkpoints)
  <2>1. cached'[t] = cached[t] /\ memory'[t] = memory[t]
    BY <1>1, <1>19
  <2>2. t \in Running <=> t \in Running'
    BY <1>5, <1>19 DEF Running
  <2>3. t \in Running => slot'[t] = slot[t]
    BY <1>5
  <2>4. Recorded(t) /\ Few(cached[t].checkpoints)
    BY DEF RInv, Capped, Few
  <2>. QED
    BY <1>0, <2>1, <2>2, <2>3, <2>4, LeftAlone
<1>20. Few(cached'[s].checkpoints)
  <2>1. cached'[s].checkpoints \in SUBSET cached[s].checkpoints
    BY <1>1
  <2>. QED
    BY <1>2, <2>1, FewerFew
<1>21. Capped'
  BY <1>19, <1>20 DEF Capped, Few
<1>. QED
  BY <1>6, <1>18, <1>19, <1>21 DEF RInv

\* Admission places the head of the queue, or refuses it.
LEMMA AdmitTrue == IInv /\ RInv /\ Admit => RInv'
<1>. SUFFICES ASSUME IInv, RInv, Admit PROVE RInv'
  OBVIOUS
<1>1. UNCHANGED engine /\ Head(queue) \in Requests /\ FreeSlots # {}
  BY DEF IInv, Typed, Admit, Admissible
<1>2. CASE UNCHANGED <<slot, cached, memory>>
  BY <1>1, <1>2, OtherTrue
<1>3. CASE /\ Len(Prompt[Head(queue)]) < Context
           /\ \E honoured \in BOOLEAN : Place(Head(queue), ChooseSlot(Head(queue)), honoured)
  <2>1. PICK honoured \in BOOLEAN : Place(Head(queue), ChooseSlot(Head(queue)), honoured)
    BY <1>3
  <2>2. ChooseSlot(Head(queue)) \in FreeSlots
    BY <1>1, ChosenFree
  <2>. QED
    BY <1>1, <1>3, <2>1, <2>2, PlaceTrue
<1>. QED
  BY <1>2, <1>3 DEF Admit

-----------------------------------------------------------------------------
(* A decode.                                                               *)

\* What a finished request leaves is recorded token for token.
LEMMA KeptIs ==
  ASSUME NEW c, NEW d \in [ids : {c.ids}, space : {c.space}, checkpoints : {c.checkpoints},
                           used : {c.used}], c = d,
         NEW q, q \in SequenceLike(q), q.past = Len(q.resident), Len(Prompt[q.req]) <= q.past,
         Cut(q.resident, Len(Prompt[q.req])) = Prompt[q.req]
  PROVE  /\ KeepsCache => /\ Kept(c, q).ids = q.resident
                          /\ Kept(c, q).checkpoints = UpTo(c.checkpoints, Len(q.resident))
         /\ ~KeepsCache => Kept(c, q).ids = <<>> /\ Kept(c, q).checkpoints = {}
<1>1. PICK res \in Seq(Tokens) : res = q.resident /\ Len(res) \in Nat
  <2>1. q.resident \in Seq(Tokens)
    BY DEF SequenceLike
  <2>. QED
    BY <2>1, LenProperties
<1>2. PICK prompt \in Seq(Tokens) : prompt = Prompt[q.req] /\ Len(prompt) \in Nat
  <2>1. q.req \in Requests
    BY DEF SequenceLike
  <2>2. Prompt[q.req] \in Seq(Tokens)
    BY <2>1, RequestsAssumption
  <2>. QED
    BY <2>2, LenProperties
<1>3. Len(prompt) <= Len(res) /\ Cut(res, Len(prompt)) = prompt
  BY <1>1, <1>2
<1>4. PICK m \in Nat : Len(prompt) + m = Len(res)
  <2>1. Len(res) - Len(prompt) \in Nat /\ Len(prompt) + (Len(res) - Len(prompt)) = Len(res)
    BY <1>1, <1>2, <1>3
  <2>. QED
    BY <2>1
<1>5. prompt \o SubSeq(res, Len(prompt) + 1, Len(res)) = res
  <2>1. Len(prompt) + m <= Len(res)
    BY <1>1, <1>4
  <2>2. Cut(res, Len(prompt)) \o SubSeq(res, Len(prompt) + 1, Len(prompt) + m)
          = Cut(res, Len(prompt) + m)
    BY <1>2, <2>1, CutThen
  <2>3. Cut(res, Len(res)) = res
    BY <1>1, CutAll
  <2>. QED
    BY <1>3, <1>4, <2>2, <2>3
<1>6. CASE KeepsCache
  <2>1. Kept(c, q) = [c EXCEPT !.ids = res, !.space = Space[q.req],
                               !.checkpoints = UpTo(c.checkpoints, Len(res))]
    BY <1>1, <1>2, <1>5, <1>6 DEF Kept, InputOf
  <2>. QED
    BY <1>1, <1>6, <2>1
<1>7. CASE ~KeepsCache
  <2>1. Kept(c, q) = [c EXCEPT !.ids = <<>>, !.checkpoints = {}]
    BY <1>7 DEF Kept, Forgotten
  <2>. QED
    BY <1>7, <2>1
<1>. QED
  BY <1>6, <1>7

\* A prompt part that stopped at a cut is checkpointed as its memory stands.
LEMMA CheckpointTrue ==
  ASSUME NEW c, NEW d \in [ids : {c.ids}, space : {c.space}, checkpoints : {c.checkpoints},
                           used : {c.used}], c = d,
         c.checkpoints \in SUBSET CheckpointLike, Few(c.checkpoints),
         NEW q, Stands(q), q \in SequenceLike(q),
         NEW m, m.attn \in Seq(CellType), kind = "recurrent" => m.rec = m.attn,
         q.pending => Len(m.attn) = q.past, Describe(c.checkpoints, m.attn)
  PROVE  /\ Describe(Checkpointed(c, q, m).checkpoints, m.attn)
         /\ Few(Checkpointed(c, q, m).checkpoints)
<1>1. CASE ~(q.pending /\ q.cursor \in q.cuts)
  BY <1>1 DEF Checkpointed
<1>2. CASE q.pending /\ q.cursor \in q.cuts
  <2>1. PICK held \in Seq(CellType) : held = m.attn
    OBVIOUS
  <2>2. kind = "recurrent" /\ m.rec = held
    BY <1>2, <2>1 DEF Stands
  <2>3. Len(held) = q.cursor
    <3>1. q.past = q.cursor
      BY <1>2 DEF Stands
    <3>. QED
      BY <1>2, <2>1, <3>1
  <2>4. PICK new : new = [at |-> q.cursor, state |-> m.rec]
    OBVIOUS
  <2>5. new.at = Len(held) /\ new.state = held /\ new \in CheckpointLike
    <3>1. Len(held) \in Nat
      BY LenProperties
    <3>. QED
      BY <2>2, <2>3, <2>4, <3>1 DEF CheckpointLike
  <2>6. PICK cps \in SUBSET CheckpointLike : cps = c.checkpoints
    OBVIOUS
  <2>7. Describe(cps, held)
    BY <2>1, <2>6
  <2>8. Describe(Inserted(cps, new), held)
    BY <2>5, <2>7, DescribeNew
  <2>9. Few(Inserted(cps, new))
    BY <2>5, <2>6, InsertedFew
  <2>10. Checkpointed(c, q, m).checkpoints = Inserted(cps, new)
    <3>1. Checkpointed(c, q, m) = [c EXCEPT !.checkpoints = Inserted(c.checkpoints, new)]
      BY <1>2, <2>4 DEF Checkpointed
    <3>. QED
      BY <2>6, <3>1
  <2>. QED
    BY <2>1, <2>8, <2>9, <2>10
<1>. QED
  BY <1>1, <1>2

\* A decode keeps every record true.
LEMMA DecodeTrue == IInv /\ RInv /\ Decode => RInv'
<1>. SUFFICES ASSUME IInv, RInv, Decode PROVE RInv'
  OBVIOUS
<1>. PICK blocks \in Blocks :
       \E rows \in Batches(blocks), lost \in {FALSE, speculating} :
         /\ Consecutive(rows)
         /\ \E o \in Outcomes(rows, Verified(blocks, lost)) :
              LET after == Advanced(rows, Verified(blocks, lost), o)
              IN  /\ slot' = Restrict(after, Running \ Done(rows, o))
                  /\ Stepped(rows, blocks, lost, after, Done(rows, o))
         /\ speculating' = (speculating /\ ~lost)
  BY DEF Decode
<1>. PICK rows \in Batches(blocks), lost \in {FALSE, speculating} :
       /\ Consecutive(rows)
       /\ \E o \in Outcomes(rows, Verified(blocks, lost)) :
            LET after == Advanced(rows, Verified(blocks, lost), o)
            IN  /\ slot' = Restrict(after, Running \ Done(rows, o))
                /\ Stepped(rows, blocks, lost, after, Done(rows, o))
       /\ speculating' = (speculating /\ ~lost)
  OBVIOUS
<1>0. lost \in BOOLEAN
  BY DEF IInv, Typed
<1>. PICK verified : verified = Verified(blocks, lost)
  OBVIOUS
<1>1. PICK o \in Outcomes(rows, Verified(blocks, lost)) :
        /\ slot' = Restrict(Advanced(rows, verified, o), Running \ Done(rows, o))
        /\ Stepped(rows, blocks, lost, Advanced(rows, verified, o), Done(rows, o))
  OBVIOUS
<1>2. kind' = kind /\ speculating' = (speculating /\ ~lost) /\ Consecutive(rows)
  BY DEF Decode
<1>. DEFINE after == Advanced(rows, verified, o)
            mem == [s \in Running |->
                      IF lost THEN DecodedLost(s, rows[s], blocks[s])
                      ELSE Decoded(s, rows[s], blocks[s], after[s].past)]
            done == Done(rows, o)
<1>3. /\ slot' = Restrict(after, Running \ done)
      /\ memory' = [s \in Slots |->
            IF s \notin Running THEN memory[s]
            ELSE IF s \in done /\ ~KeepsCache THEN NoMemory ELSE mem[s]]
      /\ cached' = [s \in Slots |->
            IF s \in done THEN Kept(cached[s], after[s])
            ELSE IF s \in Running /\ HasRow(rows[s])
              THEN Checkpointed(cached[s], after[s], mem[s]) ELSE cached[s]]
  BY <1>1 DEF Stepped
<1>4. done \subseteq Running /\ DOMAIN after = Running
  BY DEF Sampled, Advanced, Done
<1>5. ASSUME NEW s \in Running
      PROVE  /\ after[s] \in SequenceLike(after[s]) /\ after[s].req = slot[s].req
             /\ after[s].past = Len(after[s].resident)
             /\ s \notin done => Stands(after[s])
             /\ s \in done =>
                  /\ HasRow(rows[s]) /\ Len(Prompt[after[s].req]) <= after[s].past
                  /\ Cut(after[s].resident, Len(Prompt[after[s].req])) = Prompt[after[s].req]
             /\ mem[s].attn \in Seq(CellType)
             /\ Len(memory[s].attn) <= Len(mem[s].attn)
             /\ Cut(mem[s].attn, Len(memory[s].attn)) = memory[s].attn
             /\ kind = "recurrent" => mem[s].rec = mem[s].attn
             /\ Hold(mem[s].attn, after[s].resident)
             /\ HasRow(rows[s]) => /\ after[s].past <= Len(mem[s].attn)
                                   /\ after[s].pending => Len(mem[s].attn) = after[s].past
             /\ ~lost /\ Clean(memory[s].attn) => Clean(mem[s].attn)
             /\ ~HasRow(rows[s]) => mem[s].attn = memory[s].attn /\ after[s] = slot[s]
  <2>1. mem[s] = IF lost THEN DecodedLost(s, rows[s], blocks[s])
                 ELSE Decoded(s, rows[s], blocks[s], after[s].past)
    OBVIOUS
  <2>2. after[s] = Advanced(rows, Verified(blocks, lost), o)[s] /\ done = Done(rows, o)
    OBVIOUS
  <2>. HIDE DEF mem, after, done
  <2>. QED
    BY <1>0, <1>2, <2>1, <2>2, Advance
<1>. HIDE DEF after, mem, done
<1>6. DOMAIN slot' = Running \ done /\ \A s \in DOMAIN slot' : slot'[s] = after[s]
  BY <1>3, <1>4 DEF Restrict
<1>7. ASSUME NEW s \in Running' PROVE Stands(slot[s])'
  <2>1. s \in Running /\ s \notin done /\ slot'[s] = after[s]
    BY <1>6 DEF Running
  <2>2. Stands(after[s])
    BY <1>5, <2>1
  <2>. QED
    BY <1>2, <2>1, <2>2 DEF Stands
<1>8. ASSUME NEW s \in Slots PROVE Recorded(s)' /\ Few(cached'[s].checkpoints)
  <2>1. Recorded(s) /\ Few(cached[s].checkpoints)
    BY DEF RInv, Capped, Few
  <2>2. PICK cps \in SUBSET CheckpointLike : cps = cached[s].checkpoints
    BY RecordIs
  <2>3. PICK held \in Seq(CellType) : held = memory[s].attn
    BY RecordIs
  <2>4. Describe(cps, held) /\ Few(cps)
    BY <2>1, <2>2, <2>3 DEF Recorded
  <2>5. CASE s \notin Running
    <3>1. memory'[s] = memory[s] /\ cached'[s] = cached[s] /\ s \notin Running'
      BY <1>3, <1>4, <1>6, <2>5 DEF Running
    <3>. QED
      BY <1>2, <2>1, <2>5, <3>1, LeftAlone
  <2>6. CASE s \in Running
    <3>0. speculating' => ~lost /\ Clean(held)
      BY <1>2, <2>1, <2>3 DEF Recorded
    <3>1. PICK a : a = after[s]
      OBVIOUS
    <3>2. PICK m : m = mem[s]
      OBVIOUS
    <3>3. PICK more \in Seq(CellType) : more = m.attn
      BY <1>5, <2>6, <3>2
    <3>4. Describe(cps, more)
      <4>1. Len(held) <= Len(more) /\ Cut(more, Len(held)) = held
        BY <1>5, <2>3, <2>6, <3>2, <3>3
      <4>. QED
        BY <2>4, <4>1, DescribeMore
    <3>5. kind = "recurrent" => m.rec = more
      BY <1>5, <2>6, <3>2, <3>3
    <3>6. a \in SequenceLike(a) /\ a.past = Len(a.resident)
      BY <1>5, <2>6, <3>1
    <3>7. a.resident \in Seq(Tokens) /\ a.past \in Nat
      BY <3>6 DEF SequenceLike
    <3>8. /\ Hold(more, a.resident) /\ (speculating' => Clean(more))
          /\ HasRow(rows[s]) =>
               a.past <= Len(more) /\ (a.pending => Len(more) = a.past)
      BY <1>5, <2>3, <2>6, <3>0, <3>1, <3>2, <3>3
    <3>9. cached[s] \in [ids : {cached[s].ids}, space : {cached[s].space},
                         checkpoints : {cached[s].checkpoints}, used : {cached[s].used}]
      BY RecordIs
    <3>10. CASE s \in done
      <4>0. s \notin Running'
        BY <1>6, <3>10 DEF Running
      <4>1. HasRow(rows[s]) /\ Len(Prompt[a.req]) <= a.past
            /\ Cut(a.resident, Len(Prompt[a.req])) = Prompt[a.req]
        BY <1>5, <2>6, <3>1, <3>10
      <4>2. /\ KeepsCache => /\ Kept(cached[s], a).ids = a.resident
                             /\ Kept(cached[s], a).checkpoints =
                                  UpTo(cached[s].checkpoints, Len(a.resident))
            /\ ~KeepsCache => Kept(cached[s], a).ids = <<>> /\ Kept(cached[s], a).checkpoints = {}
        BY <3>6, <3>9, <4>1, KeptIs
      <4>3. cached'[s] = Kept(cached[s], a)
        BY <1>3, <3>1, <3>10
      <4>4. CASE KeepsCache
        <5>1. memory'[s].attn = more /\ (kind = "recurrent" => memory'[s].rec = more)
          BY <1>3, <2>6, <3>2, <3>3, <3>5, <4>4
        <5>2. cached'[s].ids = a.resident
          BY <4>2, <4>3, <4>4
        <5>3. a.past \in Nat /\ a.past <= Len(more) /\ Len(a.resident) = a.past
          BY <3>6, <3>7, <3>8, <4>1
        <5>4. Describe(UpTo(cps, a.past), more)
          BY <3>4, <5>3, DescribeLess
        <5>5. cached'[s].checkpoints = UpTo(cps, a.past)
          BY <2>2, <4>2, <4>3, <4>4, <5>3
        <5>6. Few(UpTo(cps, a.past))
          <6>1. UpTo(cps, a.past) \in SUBSET cps
            BY DEF UpTo
          <6>. QED
            BY <2>4, <6>1, FewerFew
        <5>7. Describe(cached'[s].checkpoints, more) /\ Few(cached'[s].checkpoints)
          BY <5>4, <5>5, <5>6
        <5>8. Len(cached'[s].ids) <= Len(more) /\ Hold(more, cached'[s].ids)
          BY <3>8, <5>2, <5>3
        <5>. QED
          BY <1>2, <3>8, <4>0, <5>1, <5>7, <5>8 DEF Recorded, Describe, Hold, Clean
      <4>5. CASE ~KeepsCache
        <5>1. memory'[s] = NoMemory
          BY <1>3, <2>6, <3>10, <4>5
        <5>2. cached'[s].ids = <<>> /\ cached'[s].checkpoints = {}
          BY <4>2, <4>3, <4>5
        <5>3. Few({})
          <6>1. IsFiniteSet({}) /\ Cardinality({}) = 0 /\ PerSlot \in Nat
            BY FS_EmptySet, SizesAssumption
          <6>. QED
            BY <6>1 DEF Few
        <5>. QED
          BY <4>0, <5>1, <5>2, <5>3, EmptyRecorded
      <4>. QED
        BY <4>4, <4>5
    <3>11. CASE s \notin done
      <4>0. s \in Running' /\ slot'[s] = a /\ Stands(a)
        BY <1>5, <1>6, <2>6, <3>1, <3>11 DEF Running
      <4>1. memory'[s] = m
        BY <1>3, <2>6, <3>2, <3>11
      <4>2. Describe(cached'[s].checkpoints, more) /\ Few(cached'[s].checkpoints)
        <5>1. CASE HasRow(rows[s])
          <6>1. cached'[s] = Checkpointed(cached[s], a, m)
            BY <1>3, <2>6, <3>1, <3>2, <3>11, <5>1
          <6>2. (a.pending => Len(m.attn) = a.past) /\ m.attn \in Seq(CellType)
                /\ (kind = "recurrent" => m.rec = m.attn)
                /\ Describe(cached[s].checkpoints, m.attn) /\ Few(cached[s].checkpoints)
                /\ cached[s].checkpoints \in SUBSET CheckpointLike
            BY <2>2, <2>4, <3>3, <3>4, <3>5, <3>8, <5>1
          <6>3. /\ Describe(Checkpointed(cached[s], a, m).checkpoints, m.attn)
                /\ Few(Checkpointed(cached[s], a, m).checkpoints)
            BY <3>6, <3>9, <4>0, <6>2, CheckpointTrue
          <6>. QED
            BY <3>3, <6>1, <6>3
        <5>2. CASE ~HasRow(rows[s])
          <6>1. cached'[s] = cached[s]
            BY <1>3, <3>11, <5>2
          <6>. QED
            BY <2>2, <2>4, <3>4, <6>1
        <5>. QED
          BY <5>1, <5>2
      <4>3. ~a.pending => a.past <= Len(more)
        <5>1. CASE HasRow(rows[s])
          BY <3>8, <5>1
        <5>2. CASE ~HasRow(rows[s])
          <6>1. more = held /\ a = slot[s]
            BY <1>5, <2>3, <2>6, <3>1, <3>2, <3>3, <5>2
          <6>. QED
            BY <2>1, <2>3, <2>6, <6>1 DEF Recorded
        <5>. QED
          BY <5>1, <5>2
      <4>4. memory'[s].attn = more /\ (kind' = "recurrent" => memory'[s].rec = more)
        BY <1>2, <3>3, <3>5, <4>1
      <4>. QED
        BY <3>8, <4>0, <4>2, <4>3, <4>4 DEF Recorded, Describe, Hold, Clean
    <3>. QED
      BY <3>10, <3>11
  <2>. QED
    BY <2>5, <2>6
<1>9. Capped'
  BY <1>8 DEF Capped, Few
<1>. QED
  BY <1>7, <1>8, <1>9 DEF RInv

-----------------------------------------------------------------------------
(* The loop's own state, the clients and the readers.                      *)

Answers == {"none", "text", "error", "refused", "dropped"}

Control ==
  /\ kind \in Kinds /\ pc \in {"sweep", "admit", "stopped"} /\ Len(queue) <= QueueSize
  /\ draining \subseteq Requests
  /\ client \in [Requests -> {"new", "open", "gone"}]
  /\ answer \in [Requests -> Answers]
  /\ reader \in [Requests -> {"current", "behind", "stalled", "expired"}]

\* Answers given are answers.
LEMMA AnsweredType ==
  ASSUME Control, NEW rs, NEW what \in [Requests -> Answers]
  PROVE  Answered(rs, what) \in [Requests -> Answers]
BY DEF Control, Answered

\* A sweep answers what it takes from the drain, and what a stalled reader held.
LEMMA SweepControl == Control /\ Sweep => Control'
<1>. SUFFICES ASSUME Control, Sweep PROVE Control'
  OBVIOUS
<1>. DEFINE settled == {r \in draining : client[r] = "gone" \/ reader[r] \in {"current", "expired"}}
            what == [r \in Requests |-> IF r \in settled /\ reader[r] # "expired" THEN "text" ELSE "error"]
<1>1. draining' = draining \ settled /\ answer' = Answered(settled \union StalledReaders, what)
  BY DEF Sweep
<1>2. what \in [Requests -> Answers]
  BY DEF Answers
<1>. HIDE DEF settled, what
<1>3. answer' \in [Requests -> Answers]
  BY <1>1, <1>2, AnsweredType
<1>. QED
  BY <1>1, <1>3 DEF Control, Sweep, engine

\* Admission shortens the queue by its head, whom it may refuse.
LEMMA AdmitControl == IInv /\ Control /\ Admit => Control'
<1>. SUFFICES ASSUME IInv, Control, Admit PROVE Control'
  OBVIOUS
<1>1. /\ queue \in Seq(Requests) /\ queue # <<>> /\ queue' = Tail(queue)
      /\ UNCHANGED <<kind, pc, draining, client, reader>>
  BY DEF IInv, Typed, Admit, Admissible, engine
<1>2. Len(queue') <= QueueSize
  <2>1. Len(queue') = Len(queue) - 1 /\ Len(queue) \in Nat
    BY <1>1, LenProperties, HeadTailProperties
  <2>. QED
    BY <2>1, SizesAssumption DEF Control
<1>3. answer' = [answer EXCEPT ![Head(queue)] = "error"] \/ answer' = answer
  BY DEF Admit
<1>4. answer' \in [Requests -> Answers]
  BY <1>3 DEF Control, Answers
<1>. QED
  BY <1>1, <1>2, <1>4 DEF Control

\* A full memory ends one request at most.
LEMMA FullControl == Control /\ DecodeFull => Control'
<1>. SUFFICES ASSUME Control, DecodeFull PROVE Control'
  OBVIOUS
<1>1. pc' = "sweep" /\ UNCHANGED <<kind, queue, draining, client, reader>>
  BY DEF DecodeFull, engine
<1>2. answer' = [answer EXCEPT ![slot[Largest].req] = "error"] \/ answer' = answer
  BY DEF DecodeFull
<1>3. answer' \in [Requests -> Answers]
  BY <1>2 DEF Control, Answers
<1>. QED
  BY <1>1, <1>3 DEF Control

\* A failed decode answers those it ends.
LEMMA FailsControl == Control /\ DecodeFails => Control'
<1>. SUFFICES ASSUME Control, DecodeFails PROVE Control'
  OBVIOUS
<1>1. pc' = "sweep" /\ UNCHANGED <<kind, queue, draining, client, reader>>
  BY DEF DecodeFails, engine
<1>. DEFINE what == [r \in Requests |-> "error"]
<1>2. \E rs : answer' = Answered(rs, what)
  BY DEF DecodeFails
<1>3. what \in [Requests -> Answers]
  BY DEF Answers
<1>. HIDE DEF what
<1>4. answer' \in [Requests -> Answers]
  BY <1>2, <1>3, AnsweredType
<1>. QED
  BY <1>1, <1>4 DEF Control

\* A decode answers those that are done, or has them wait for their readers.
LEMMA DecodeControl == IInv /\ Control /\ Decode => Control'
<1>. SUFFICES ASSUME IInv, Control, Decode PROVE Control'
  OBVIOUS
<1>1. pc' = "sweep" /\ UNCHANGED <<kind, queue, client, reader>>
  BY DEF Decode
<1>2. \E rows, o : Finished(Done(rows, o))
  BY DEF Decode
<1>3. PICK done : done \subseteq Running /\ Finished(done)
  <2>1. PICK rows, o : Finished(Done(rows, o))
    BY <1>2
  <2>2. Done(rows, o) \subseteq Running
    BY DEF Done, Sampled
  <2>. QED
    BY <2>1, <2>2
<1>. DEFINE late == {r \in {slot[s].req : s \in done} : reader[r] = "behind"}
            what == [r \in Requests |-> IF reader[r] = "stalled" THEN "error" ELSE "text"]
<1>4. draining' = draining \union late /\ answer' = Answered({slot[s].req : s \in done} \ late, what)
  BY <1>3 DEF Finished
<1>5. what \in [Requests -> Answers]
  BY DEF Answers
<1>6. late \subseteq Requests
  <2>1. \A s \in done : slot[s].req \in Requests
    BY <1>3 DEF IInv, Typed, SequenceLike
  <2>. QED
    BY <2>1
<1>. HIDE DEF late, what
<1>7. answer' \in [Requests -> Answers]
  BY <1>4, <1>5, AnsweredType
<1>. QED
  BY <1>1, <1>4, <1>6, <1>7 DEF Control

\* A shutdown answers whoever is there.
LEMMA ShutdownControl == Control /\ Shutdown => Control'
<1>. SUFFICES ASSUME Control, Shutdown PROVE Control'
  OBVIOUS
<1>. DEFINE what == [r \in Requests |-> IF r \in draining THEN "text"
                                       ELSE IF r \in Range(queue) THEN "dropped" ELSE "error"]
<1>1. \E rs : answer' = Answered(rs, what)
  BY DEF Shutdown
<1>2. what \in [Requests -> Answers]
  BY DEF Answers
<1>. HIDE DEF what
<1>3. answer' \in [Requests -> Answers]
  BY <1>1, <1>2, AnsweredType
<1>4. Len(<<>>) = 0 /\ 0 <= QueueSize
  BY SizesAssumption
<1>. QED
  BY <1>3, <1>4 DEF Control, Shutdown, engine

\* What clients and readers do, and the idle turns; a submission finds room or is refused.
LEMMA OtherControl ==
  ASSUME IInv, Control,
         \/ \E r \in Requests : Submit(r)
         \/ Idle
         \/ \E r \in Impatient : Leave(r)
         \/ \E r \in Streaming : ReaderFallsBehind(r) \/ ReaderCatchesUp(r) \/ DrainExpires(r)
         \/ UNCHANGED vars
  PROVE  Control'
<1>1. ASSUME NEW r \in Requests, Submit(r) PROVE Control'
  <2>1. UNCHANGED <<kind, pc, draining, reader>> /\ queue \in Seq(Requests) /\ Len(queue) \in Nat
    BY <1>1, LenProperties DEF Submit, IInv, Typed, engine
  <2>2. client' \in [Requests -> {"new", "open", "gone"}] /\ answer' \in [Requests -> Answers]
    BY <1>1 DEF Submit, Control, Answers
  <2>3. Len(queue') <= QueueSize
    <3>1. CASE queue' = queue
      BY <3>1 DEF Control
    <3>2. CASE queue' = Append(queue, r) /\ Len(queue) < QueueSize
      <4>1. Len(Append(queue, r)) = Len(queue) + 1
        BY <2>1, AppendProperties
      <4>. QED
        BY <2>1, <3>2, <4>1, SizesAssumption
    <3>. QED
      BY <1>1, <3>1, <3>2 DEF Submit
  <2>. QED
    BY <2>1, <2>2, <2>3 DEF Control
<1>2. CASE Idle
  BY <1>2 DEF Idle, Control, engine
<1>3. ASSUME NEW r \in Requests, Leave(r) PROVE Control'
  BY <1>3 DEF Leave, Control, engine
<1>4. ASSUME NEW r \in Requests, ReaderFallsBehind(r) \/ ReaderCatchesUp(r) \/ DrainExpires(r)
      PROVE  Control'
  BY <1>4 DEF ReaderFallsBehind, ReaderCatchesUp, DrainExpires, Control, engine
<1>5. CASE UNCHANGED vars
  BY <1>5 DEF vars, Control, engine
<1>. QED
  BY <1>1, <1>2, <1>3, <1>4, <1>5, RequestsAssumption

-----------------------------------------------------------------------------
\* The strengthened invariant of the records: every slot's cells are those its
\* records name, in order, and a running sequence's own counters agree.
THEOREM RecordsInductive == Spec => [](IInv /\ RInv /\ Control)
<1>1. Init => RInv /\ Control
  <2>. SUFFICES ASSUME Init PROVE RInv /\ Control
    OBVIOUS
  <2>1. /\ DOMAIN slot = {} /\ kind \in Kinds
        /\ cached = [s \in Slots |-> NothingCached] /\ memory = [s \in Slots |-> NoMemory]
    BY DEF Init
  <2>2. Len(<<>>) = 0 /\ DOMAIN <<>> = {}
    BY EmptySeq
  <2>3. \A s \in Slots : Recorded(s)
    BY <2>1, <2>2 DEF Recorded, Describe, NoMemory, NothingCached, Running, Hold, Clean
  <2>4. Capped
    <3>1. IsFiniteSet({}) /\ Cardinality({}) = 0 /\ PerSlot \in Nat
      BY FS_EmptySet, SizesAssumption
    <3>2. \A s \in Slots : cached[s].checkpoints = {}
      BY <2>1 DEF NothingCached
    <3>. QED
      BY <3>1, <3>2 DEF Capped, Few
  <2>5. Control
    <3>1. Len(<<>>) = 0 /\ 0 <= QueueSize
      BY SizesAssumption
    <3>. QED
      BY <3>1 DEF Init, Control, Answers
  <2>. QED
    BY <2>1, <2>3, <2>4, <2>5 DEF RInv, Running
<1>2. IInv /\ RInv /\ Control /\ [Next]_vars => RInv' /\ Control'
  <2>. SUFFICES ASSUME IInv, RInv, Control, [Next]_vars PROVE RInv' /\ Control'
    OBVIOUS
  <2>1. CASE Sweep
    BY <2>1, SweepTrue, SweepControl
  <2>2. CASE Admit
    BY <2>2, AdmitTrue, AdmitControl
  <2>3. CASE Decode
    BY <2>3, DecodeTrue, DecodeControl
  <2>4. CASE DecodeFull
    BY <2>4, FullTrue, FullControl
  <2>5. CASE DecodeFails
    BY <2>5, FailsTrue, FailsControl
  <2>6. CASE Shutdown
    BY <2>6, ShutdownTrue, ShutdownControl
  <2>7. CASE \/ \E r \in Requests : Submit(r)
             \/ Idle
             \/ \E r \in Impatient : Leave(r)
             \/ \E r \in Streaming : ReaderFallsBehind(r) \/ ReaderCatchesUp(r) \/ DrainExpires(r)
             \/ UNCHANGED vars
    <3>1. UNCHANGED <<engine, slot, cached, memory>>
      BY <2>7 DEF Submit, Idle, Leave, ReaderFallsBehind, ReaderCatchesUp, DrainExpires, vars
    <3>2. RInv'
      BY <3>1, OtherTrue
    <3>3. Control'
      BY <2>7, OtherControl
    <3>. QED
      BY <3>2, <3>3
  <2>. QED
    BY <2>1, <2>2, <2>3, <2>4, <2>5, <2>6, <2>7 DEF Next, Loop
<1>3. Spec => []IInv
  BY Inductive
<1>. QED
  BY <1>1, <1>2, <1>3, PTL DEF Spec

\* What a slot's records say it holds is what the decoder holds for it: the cache
\* record of an idle slot, every checkpoint, and, of a running sequence, what of it was
\* decoded; whatever was reused, drafted, rejected, taken back, cut or dropped before.
\* Only the drafts of the step in which the drafter lost the target may be there too.
THEOREM RecordsAreTrue == Spec => []RecordsTrue
<1>1. IInv /\ RInv => RecordsTrue
  <2>. SUFFICES ASSUME IInv, RInv, NEW s \in Slots
                PROVE  LET held == memory[s].attn
                       IN  /\ kind = "recurrent" => memory[s].rec = held
                           /\ \A c \in cached[s].checkpoints : c.at <= Len(held) /\ c.state = Cut(held, c.at)
                           /\ s \in FreeSlots => Len(cached[s].ids) <= Len(held)
                                               /\ Hold(held, cached[s].ids)
                           /\ s \in Running => Hold(held, slot[s].resident)
                           /\ speculating => \A i \in DOMAIN held : ~held[i].left
    BY DEF RecordsTrue
  <2>1. Recorded(s)
    BY DEF RInv
  <2>. QED
    BY <2>1 DEF Recorded, Describe, FreeSlots, Clean
<1>. QED
  BY <1>1, RecordsInductive, PTL

\* A sequence that generates stands on its whole prompt and on every token it has
\* generated, in order, whatever its slot held before it; and, while the drafter follows
\* the target, on nothing else.
THEOREM GeneratesWhole == Spec => []GeneratesFromWhole
<1>1. IInv /\ RInv => GeneratesFromWhole
  <2>. SUFFICES ASSUME IInv, RInv, NEW s \in Running, ~slot[s].pending
                PROVE  /\ Len(slot[s].resident) <= Len(memory[s].attn)
                       /\ Hold(memory[s].attn, slot[s].resident)
                       /\ speculating => TokensOf(memory[s].attn) = slot[s].resident
                       /\ IsPrefix(Prompt[slot[s].req], slot[s].resident)
    BY DEF GeneratesFromWhole
  <2>1. Recorded(s) /\ Stands(slot[s]) /\ slot[s] \in SequenceLike(slot[s])
    BY Running1
  <2>3. PICK prompt \in Seq(Tokens) : prompt = Prompt[slot[s].req] /\ Len(prompt) \in Nat
    <3>1. Prompt[slot[s].req] \in Seq(Tokens) /\ Len(Prompt[slot[s].req]) \in Nat
      BY <2>1, Fields
    <3>. QED
      BY <3>1
  <2>4. PICK res \in Seq(Tokens) : res = slot[s].resident /\ slot[s].past = Len(res)
          /\ Len(res) \in Nat
    BY <2>1, Fields, LenProperties
  <2>8. PICK held \in Seq(CellType) : held = memory[s].attn
    BY HeldIs DEF IInv, Typed
  <2>9. Len(res) <= Len(held) /\ Hold(held, res) /\ (speculating => Clean(held))
    BY <2>1, <2>4, <2>8 DEF Recorded
  <2>10. speculating => TokensOf(held) = res
    BY <2>9, HoldAll
  <2>5. Len(prompt) <= Len(res) /\ Cut(res, Len(prompt)) = prompt
    BY <2>1, <2>3, <2>4 DEF Stands
  <2>6. SubSeq(prompt, 1, Len(prompt)) = prompt
    <3>1. Cut(prompt, Len(prompt)) = prompt
      BY <2>3, CutAll
    <3>. QED
      BY <3>1 DEF Cut
  <2>7. SubSeq(res, 1, Len(prompt)) = prompt
    <3>1. (IF Len(prompt) < Len(res) THEN Len(prompt) ELSE Len(res)) = Len(prompt)
      BY <2>3, <2>4, <2>5
    <3>. QED
      BY <2>5, <3>1 DEF Cut
  <2>. QED
    BY <2>3, <2>4, <2>5, <2>6, <2>7, <2>8, <2>9, <2>10 DEF IsPrefix
<1>. QED
  BY <1>1, RecordsInductive, PTL

\* Positions and emitted tokens never drift apart, whatever drafts are taken, and
\* the next row of a sequence is inside the slot's context.
THEOREM FitsTheContext == Spec => []FitsContext
<1>1. IInv /\ RInv => FitsContext
  <2>. SUFFICES ASSUME IInv, RInv, NEW s \in Running, slot[s].token # <<>>
                PROVE  /\ slot[s].past + 1 = InputOf(slot[s]) + slot[s].emitted
                       /\ slot[s].past + 1 < MaxPos(slot[s])
    BY DEF FitsContext
  <2>. QED
    BY Running1 DEF Stands
<1>. QED
  BY <1>1, RecordsInductive, PTL

\* A full memory costs at most one running request, and leaves every other exactly
\* where it was before the step.
THEOREM UndoesExactly == Spec => UndoneExactly
<1>1. ASSUME IInv, RInv, DecodeFull
      PROVE  /\ \A s \in DOMAIN slot' : slot'[s] = slot[s]
             /\ Cardinality(Running \ DOMAIN slot') <= 1
  <2>1. /\ \A s \in DOMAIN slot' : slot'[s] = slot[s]
        /\ Running \ DOMAIN slot' \subseteq {Largest}
    BY <1>1, FullLeaves
  <2>2. Running \ DOMAIN slot' = {} \/ Running \ DOMAIN slot' = {Largest}
    BY <2>1
  <2>3. Cardinality({}) = 0 /\ Cardinality({Largest}) = 1
    BY FS_EmptySet, FS_Singleton
  <2>. QED
    BY <2>1, <2>2, <2>3
<1>2. IInv /\ RInv /\ Control /\ [Next]_vars =>
        [(\A s \in Running : memory'[s] \in {memory[s], NoMemory}) /\ DecodeFull =>
           /\ \A s \in DOMAIN slot' : slot'[s] = slot[s]
           /\ Cardinality(Running \ DOMAIN slot') <= 1]_vars
  BY <1>1
<1>. QED
  BY <1>2, RecordsInductive, PTL DEF Spec, UndoneExactly

\* Every variable keeps its type, and a prompt still being read has a token left to
\* read.
THEOREM TypesKept == Spec => []TypeOK
<1>1. IInv /\ RInv /\ Control => TypeOK
  <2>. SUFFICES ASSUME IInv, RInv, Control PROVE TypeOK
    OBVIOUS
  <2>1. ASSUME NEW s \in Slots
        PROVE  /\ memory[s].attn \in Seq(CellType) /\ memory[s].rec \in Seq(CellType)
               /\ cached[s].ids \in Seq(Tokens) /\ cached[s].space \in Spaces
               /\ cached[s].used \in Nat /\ Cardinality(cached[s].checkpoints) <= PerSlot
    BY RecordIs DEF RInv, Capped, Few
  <2>2. ASSUME NEW s \in Running
        PROVE  /\ slot[s].req \in Requests /\ slot[s].resident \in Seq(Tokens)
               /\ slot[s].cursor \in 0 .. InputOf(slot[s]) - 1
               /\ slot[s].past = Len(slot[s].resident)
               /\ slot[s].token \in {<<>>} \union {<<t>> : t \in Tokens}
               /\ slot[s].pending <=> slot[s].token = <<>>
               /\ Left(slot[s]) \in Nat
    <3>1. PICK q : q = slot[s]
      OBVIOUS
    <3>2. q \in SequenceLike(q) /\ Stands(q)
      BY <3>1, Running1
    <3>3. /\ q.req \in Requests /\ q.cursor \in Nat /\ q.resident \in Seq(Tokens)
          /\ q.token \in AtMostOne /\ q.emitted \in Nat /\ q.past \in Nat
          /\ InputOf(q) \in Nat /\ InputOf(q) = Len(Prompt[q.req]) /\ q.pending \in BOOLEAN
          /\ q.past = Len(q.resident)
      BY <3>2, Fields
    <3>4. q.cursor \in 0 .. InputOf(q) - 1
      <4>1. q.cursor < InputOf(q)
        BY <3>2, <3>3 DEF Stands
      <4>. QED
        BY <3>3, <4>1
    <3>5. q.pending <=> q.token = <<>>
      BY <3>2, <3>3 DEF Stands
    <3>6. Left(q) \in Nat
      <4>1. {Context, InputOf(q) + MaxNew} \in SUBSET Nat
        BY <3>3, SizesAssumption
      <4>2. PICK top \in Nat : /\ top = MaxPos(q)
                               /\ top \in {Context, InputOf(q) + MaxNew}
        BY <4>1, MinNat DEF MaxPos
      <4>3. InputOf(q) < Context /\ MaxNew \in Nat
        BY <3>2, <3>3, SizesAssumption DEF Stands
      <4>4. InputOf(q) <= top
        BY <3>3, <4>2, <4>3, SizesAssumption
      <4>5. CASE q.pending
        <5>1. q.emitted = 0
          BY <3>2, <4>5 DEF Stands
        <5>. QED
          BY <3>3, <4>2, <4>4, <5>1 DEF Left
      <4>6. CASE ~q.pending
        <5>1. q.past + 1 = InputOf(q) + q.emitted /\ q.past + 1 < top
          BY <3>2, <4>2, <4>6 DEF Stands
        <5>2. InputOf(q) + q.emitted < top
          BY <5>1
        <5>. QED
          BY <3>3, <4>2, <5>2 DEF Left
      <4>. QED
        BY <3>3, <4>5, <4>6
    <3>. QED
      BY <3>1, <3>3, <3>4, <3>5, <3>6 DEF AtMostOne
  <2>. QED
    BY <2>1, <2>2 DEF TypeOK, Control, Answers, IInv, Typed
<1>. QED
  BY <1>1, RecordsInductive, PTL

-----------------------------------------------------------------------------
(* Places.                                                                 *)

Apart ==
  /\ \A i, j \in DOMAIN queue : queue[i] = queue[j] => i = j
  /\ \A s, t \in Running : slot[s].req = slot[t].req => s = t
  /\ \A i \in DOMAIN queue : queue[i] \notin draining
  /\ \A s \in Running : slot[s].req \notin draining
  /\ \A i \in DOMAIN queue, s \in Running : queue[i] # slot[s].req

Waits(r) == client[r] # "new" /\ answer[r] = "none"

Unanswered ==
  /\ \A i \in DOMAIN queue : Waits(queue[i])
  /\ \A s \in Running : Waits(slot[s].req)
  /\ \A r \in draining : Waits(r)

Somewhere ==
  \A r \in Requests :
    client[r] = "open" /\ answer[r] = "none" =>
      \/ \E i \in DOMAIN queue : queue[i] = r
      \/ \E s \in Running : slot[s].req = r
      \/ r \in draining

NewUnanswered == \A r \in Requests : client[r] = "new" => answer[r] = "none"

Once ==
  /\ draining \subseteq Requests /\ DOMAIN client = Requests /\ DOMAIN answer = Requests
  /\ Apart /\ Unanswered /\ Somewhere /\ NewUnanswered

DroppedAtStop == \A r \in Requests : answer[r] = "dropped" => pc = "stopped"

\* It is what NobodyLost says of places.
LEMMA OncePlaces == IInv /\ Once /\ DroppedAtStop => NobodyLost
<1>. SUFFICES ASSUME IInv, Once, DroppedAtStop, NEW r \in Requests
              PROVE  /\ \A p, q \in Places(r) : p = q
                     /\ client[r] = "new" \/ answer[r] # "none" => Places(r) = {}
                     /\ client[r] = "open" /\ answer[r] = "none" => Places(r) # {}
                     /\ answer[r] = "dropped" => pc = "stopped"
  BY DEF NobodyLost
<1>1. \A p \in Places(r) :
        \/ \E i \in DOMAIN queue : queue[i] = r /\ p = <<"queue", i>>
        \/ \E s \in Running : slot[s].req = r /\ p = <<"slot", s>>
        \/ r \in draining /\ p = <<"draining", 0>>
  BY DEF Places
<1>2. \A p, q \in Places(r) : p = q
  <2>. SUFFICES ASSUME NEW p \in Places(r), NEW q \in Places(r) PROVE p = q
    OBVIOUS
  <2>1. CASE \E i \in DOMAIN queue : queue[i] = r /\ p = <<"queue", i>>
    BY <2>1, <1>1 DEF Once, Apart
  <2>2. CASE \E s \in Running : slot[s].req = r /\ p = <<"slot", s>>
    BY <2>2, <1>1 DEF Once, Apart
  <2>3. CASE r \in draining /\ p = <<"draining", 0>>
    BY <2>3, <1>1 DEF Once, Apart
  <2>. QED
    BY <1>1, <2>1, <2>2, <2>3
<1>3. client[r] = "new" \/ answer[r] # "none" => Places(r) = {}
  BY <1>1 DEF Once, Unanswered, Waits
<1>4. client[r] = "open" /\ answer[r] = "none" => Places(r) # {}
  <2>1. \A i \in DOMAIN queue : queue[i] = r => <<"queue", i>> \in Places(r)
    BY DEF Places
  <2>2. \A s \in Running : slot[s].req = r => <<"slot", s>> \in Places(r)
    BY DEF Places
  <2>3. r \in draining => <<"draining", 0>> \in Places(r)
    BY DEF Places
  <2>. QED
    BY <2>1, <2>2, <2>3 DEF Once, Somewhere
<1>. QED
  BY <1>2, <1>3, <1>4 DEF DroppedAtStop

\* A step of the loop after which the requests still in a place have no answer, and
\* those that left theirs have one, unless their client is gone.
LEMMA Settled ==
  ASSUME Once, queue' = queue, client' = client, DOMAIN answer' = Requests,
         DOMAIN slot' \subseteq Running, \A s \in Running : slot[s].req \in Requests,
         \A s \in DOMAIN slot' : slot'[s].req = slot[s].req,
         draining' \subseteq draining \union {slot[s].req : s \in Running \ DOMAIN slot'},
         \A i \in DOMAIN queue : answer'[queue[i]] = answer[queue[i]],
         \A s \in DOMAIN slot' : answer'[slot[s].req] = answer[slot[s].req],
         \A r \in draining' : answer'[r] = answer[r],
         \A r \in Requests : answer[r] # "none" => answer'[r] # "none",
         \A r \in draining : r \in draining' \/ answer'[r] # "none",
         \A r \in Requests : client[r] = "new" => answer'[r] = answer[r],
         \A s \in Running :
           \/ s \in DOMAIN slot' \/ slot[s].req \in draining'
           \/ answer'[slot[s].req] # "none" \/ client[slot[s].req] = "gone"
  PROVE  Once'
<1>1. \A r \in draining' :
        \/ r \in draining
        \/ \E s \in Running : s \notin DOMAIN slot' /\ r = slot[s].req
  OBVIOUS
<1>2. draining' \subseteq Requests /\ DOMAIN client' = Requests /\ DOMAIN answer' = Requests
  BY DEF Once
<1>3. Apart'
  <2>1. \A s, t \in DOMAIN slot' : slot'[s].req = slot'[t].req => s = t
    BY DEF Once, Apart
  <2>2. \A i \in DOMAIN queue' : queue'[i] \notin draining'
    BY <1>1 DEF Once, Apart
  <2>3. \A s \in DOMAIN slot' : slot'[s].req \notin draining'
    BY <1>1 DEF Once, Apart
  <2>4. \A i \in DOMAIN queue', s \in DOMAIN slot' : queue'[i] # slot'[s].req
    BY DEF Once, Apart
  <2>. QED
    BY <2>1, <2>2, <2>3, <2>4 DEF Once, Apart, Running
<1>4. Unanswered'
  <2>1. \A i \in DOMAIN queue' : Waits(queue[i]) /\ answer'[queue[i]] = answer[queue[i]]
    BY DEF Once, Unanswered
  <2>2. \A s \in DOMAIN slot' : Waits(slot[s].req) /\ answer'[slot[s].req] = answer[slot[s].req]
    BY DEF Once, Unanswered
  <2>3. \A r \in draining' : Waits(r) /\ answer'[r] = answer[r]
    BY <1>1 DEF Once, Unanswered
  <2>. QED
    BY <2>1, <2>2, <2>3 DEF Unanswered, Waits, Running
<1>5. Somewhere'
  <2>. SUFFICES ASSUME NEW r \in Requests, client[r] = "open", answer'[r] = "none"
                PROVE  \/ \E i \in DOMAIN queue' : queue'[i] = r
                       \/ \E s \in DOMAIN slot' : slot'[s].req = r
                       \/ r \in draining'
    BY DEF Somewhere, Running
  <2>1. answer[r] = "none"
    OBVIOUS
  <2>2. CASE \E i \in DOMAIN queue : queue[i] = r
    BY <2>2
  <2>3. CASE \E s \in Running : slot[s].req = r
    BY <2>3
  <2>4. CASE r \in draining
    BY <2>4
  <2>. QED
    BY <2>1, <2>2, <2>3, <2>4 DEF Once, Somewhere
<1>6. NewUnanswered'
  BY DEF Once, NewUnanswered
<1>. QED
  BY <1>2, <1>3, <1>4, <1>5, <1>6 DEF Once

\* The sequence ended to make room is a running one.
LEMMA LargestRuns ==
  ASSUME IInv, Running # {}
  PROVE  Largest \in Running
<1>. DEFINE f == [t \in 1 .. NSlots |-> IF t \in Running THEN slot[t].past ELSE 0]
            P == {slot[t].past : t \in Running}
            L == {s \in Running : \A t \in Running : slot[t].past <= slot[s].past}
<1>1. /\ NSlots \in Nat /\ Running \subseteq 1 .. NSlots
      /\ \A t \in Running : slot[t].past \in Nat
  BY SizesAssumption DEF IInv, Typed, Slots, SequenceLike
<1>2. f \in [1 .. NSlots -> Nat]
  BY <1>1
<1>3. PICK b \in Nat : \A i \in 1 .. NSlots : f[i] <= b
  <2>. HIDE DEF f
  <2>. QED
    BY <1>1, <1>2, Bounded
<1>4. P \in SUBSET Nat /\ P # {} /\ \A p \in P : p <= b
  BY <1>1, <1>3
<1>5. Max(P) \in P /\ \A p \in P : p <= Max(P)
  <2>. HIDE DEF P
  <2>. QED
    BY <1>4, MaxNat
<1>6. L # {} /\ L \in SUBSET Nat /\ L \subseteq Running /\ \A s \in L : s <= NSlots
  <2>1. PICK s \in Running : slot[s].past = Max(P)
    BY <1>5
  <2>2. \A t \in Running : slot[t].past <= slot[s].past
    BY <1>5, <2>1
  <2>3. s \in L
    BY <2>2
  <2>4. L \subseteq Running
    OBVIOUS
  <2>. HIDE DEF L
  <2>. QED
    BY <1>1, <2>3, <2>4
<1>7. Max(L) \in L
  <2>. HIDE DEF L
  <2>. QED
    BY <1>1, <1>6, MaxNat
<1>. QED
  BY <1>6, <1>7 DEF Largest

\* Every sequence is a request's.
LEMMA SlotRequests == IInv => \A s \in Running : slot[s].req \in Requests
BY DEF IInv, Typed, SequenceLike

\* A sweep answers what it takes from draining, and fails what a stalled reader held.
LEMMA SweepOnce == IInv /\ Once /\ Sweep => Once'
<1>. SUFFICES ASSUME IInv, Once, Sweep PROVE Once'
  OBVIOUS
<1>. DEFINE settled == {r \in draining : client[r] = "gone" \/ reader[r] \in {"current", "expired"}}
            answers == settled \union StalledReaders
            what == [r \in Requests |-> IF r \in settled /\ reader[r] # "expired" THEN "text" ELSE "error"]
<1>1. /\ draining' = draining \ settled
      /\ answer' = [r \in Requests |-> IF r \in answers THEN what[r] ELSE answer[r]]
      /\ slot' = Restrict(slot, Running \ Swept) /\ queue' = queue /\ client' = client
  BY DEF Sweep, Answered
<1>2. DOMAIN slot' = Running \ Swept /\ \A s \in DOMAIN slot' : slot'[s] = slot[s]
  BY <1>1 DEF Restrict
<1>3. DOMAIN answer' = Requests
      /\ \A r \in Requests : IF r \in answers THEN answer'[r] \in {"text", "error"}
                                               ELSE answer'[r] = answer[r]
  BY <1>1
<1>4. \A r \in Requests : r \in answers <=>
        r \in settled \/ (reader[r] = "stalled" /\ \E s \in Running : slot[s].req = r)
  BY DEF StalledReaders, InService
<1>5. settled \subseteq draining
  OBVIOUS
<1>. HIDE DEF answers, settled
<1>6. \A s \in DOMAIN slot' : slot[s].req \in Requests \ answers
  BY <1>2, <1>4, <1>5, SlotRequests DEF Once, Apart, Swept
<1>7. \A r \in draining' : r \in Requests \ answers
  BY <1>1, <1>4, <1>5 DEF Once, Apart
<1>8. \A i \in DOMAIN queue : queue[i] \in Requests \ answers
  <2>1. \A i \in DOMAIN queue : queue[i] \in Requests
    BY DEF IInv, Typed
  <2>. QED
    BY <2>1, <1>4, <1>5 DEF Once, Apart
<1>9. \A s \in Running : \/ s \in DOMAIN slot' \/ answer'[slot[s].req] # "none"
                         \/ client[slot[s].req] = "gone"
  BY <1>2, <1>3, <1>4, SlotRequests DEF Swept
<1>10. \A r \in draining : r \in draining' \/ answer'[r] # "none"
  BY <1>1, <1>3, <1>4 DEF Once
<1>11. \A r \in Requests : client[r] = "new" => answer'[r] = answer[r]
  BY <1>3, <1>4, <1>5 DEF Once, Unanswered, Waits
<1>. QED
  BY <1>1, <1>2, <1>3, <1>6, <1>7, <1>8, <1>9, <1>10, <1>11, SlotRequests, Settled

\* A decode answers what it finishes, or has it wait for its reader.
LEMMA DecodeOnce == IInv /\ Once /\ Decode => Once'
<1>. SUFFICES ASSUME IInv, Once, Decode PROVE Once'
  OBVIOUS
<1>. PICK blocks \in Blocks :
       \E rows \in Batches(blocks), lost \in {FALSE, speculating} :
         \E o \in Outcomes(rows, Verified(blocks, lost)) :
           /\ slot' = Restrict(Advanced(rows, Verified(blocks, lost), o),
                              Running \ Done(rows, o))
           /\ Finished(Done(rows, o))
  BY DEF Decode
<1>. PICK rows \in Batches(blocks), lost \in {FALSE, speculating} :
       \E o \in Outcomes(rows, Verified(blocks, lost)) :
         /\ slot' = Restrict(Advanced(rows, Verified(blocks, lost), o), Running \ Done(rows, o))
         /\ Finished(Done(rows, o))
  OBVIOUS
<1>0. lost \in BOOLEAN
  BY DEF IInv, Typed
<1>. PICK verified \in Blocks : verified = Verified(blocks, lost)
  BY <1>0, VerifiedType
<1>1. PICK o \in Outcomes(rows, verified) :
        /\ slot' = Restrict(Advanced(rows, verified, o), Running \ Done(rows, o))
        /\ Finished(Done(rows, o))
  OBVIOUS
<1>2. queue' = queue /\ client' = client
  BY DEF Decode
<1>. DEFINE after == Advanced(rows, verified, o)
            done == Done(rows, o)
            late == {r \in {slot[s].req : s \in done} : reader[r] = "behind"}
            answers == {slot[s].req : s \in done} \ late
            what == [r \in Requests |-> IF reader[r] = "stalled" THEN "error" ELSE "text"]
<1>3. ASSUME NEW s \in Running PROVE after[s].req = slot[s].req
  BY AdvancedType
<1>4. done \subseteq Running /\ DOMAIN after = Running
  BY DEF Sampled, Advanced, Done
<1>5. /\ draining' = draining \union late
      /\ answer' = [r \in Requests |-> IF r \in answers THEN what[r] ELSE answer[r]]
  BY <1>1 DEF Finished, Answered
<1>. HIDE DEF after, done
<1>6. DOMAIN slot' = Running \ done /\ \A s \in DOMAIN slot' : slot'[s].req = slot[s].req
  BY <1>1, <1>3, <1>4 DEF Restrict, after, done
<1>7. /\ DOMAIN answer' = Requests
      /\ \A r \in Requests : IF r \in answers THEN answer'[r] \in {"text", "error"}
                                               ELSE answer'[r] = answer[r]
  BY <1>5
<1>8. /\ \A r \in answers : \E s \in done : slot[s].req = r
      /\ \A r \in late : \E s \in done : slot[s].req = r
      /\ \A s \in done : slot[s].req \in answers \/ slot[s].req \in late
      /\ \A r \in late : r \notin answers
  OBVIOUS
<1>. HIDE DEF answers, late
<1>9. \A s \in DOMAIN slot' : slot[s].req \in Requests \ answers
  BY <1>4, <1>6, <1>8, SlotRequests DEF Once, Apart
<1>10. \A r \in draining' : r \in Requests \ answers
  BY <1>4, <1>5, <1>8, SlotRequests DEF Once, Apart
<1>11. \A i \in DOMAIN queue : queue[i] \in Requests \ answers
  <2>1. \A i \in DOMAIN queue : queue[i] \in Requests
    BY DEF IInv, Typed
  <2>. QED
    BY <2>1, <1>4, <1>8 DEF Once, Apart
<1>12. \A s \in Running : \/ s \in DOMAIN slot' \/ slot[s].req \in draining'
                          \/ answer'[slot[s].req] # "none"
  BY <1>5, <1>6, <1>7, <1>8, SlotRequests
<1>13. draining' \subseteq draining \union {slot[s].req : s \in Running \ DOMAIN slot'}
  BY <1>4, <1>5, <1>6, <1>8
<1>14. \A r \in draining : r \in draining'
  BY <1>5
<1>15. \A r \in Requests : client[r] = "new" => answer'[r] = answer[r]
  BY <1>4, <1>7, <1>8 DEF Once, Unanswered, Waits
<1>. QED
  BY <1>2, <1>6, <1>7, <1>9, <1>10, <1>11, <1>12, <1>13, <1>14, <1>15, SlotRequests, Settled

\* A full memory fails the request it drops.
LEMMA FullOnce == IInv /\ Once /\ DecodeFull => Once'
<1>. SUFFICES ASSUME IInv, Once, DecodeFull PROVE Once'
  OBVIOUS
<1>1. queue' = queue /\ client' = client /\ draining' = draining /\ Running # {}
  BY DEF DecodeFull, DecodeReady
<1>. PICK blocks \in Blocks :
       \E rows \in Batches(blocks) :
         \/ slot' = PutBack(rows) /\ answer' = answer
         \/ /\ slot' = Restrict(PutBack(rows), Running \ {Largest})
            /\ answer' = [answer EXCEPT ![slot[Largest].req] = "error"]
  BY DEF DecodeFull
<1>2. PICK rows \in Batches(blocks) :
         \/ slot' = PutBack(rows) /\ answer' = answer
         \/ /\ slot' = Restrict(PutBack(rows), Running \ {Largest})
            /\ answer' = [answer EXCEPT ![slot[Largest].req] = "error"]
  OBVIOUS
<1>. DEFINE undone == PutBack(rows)
<1>3. DOMAIN undone = Running /\ \A s \in Running : undone[s].req = slot[s].req
  BY FedType DEF PutBack
<1>. HIDE DEF undone
<1>4. \A i \in DOMAIN queue : queue[i] \in Requests
  BY DEF IInv, Typed
<1>5. CASE slot' = undone /\ answer' = answer
  BY <1>1, <1>3, <1>5, SlotRequests, Settled DEF Once
<1>6. CASE /\ slot' = Restrict(undone, Running \ {Largest})
           /\ answer' = [answer EXCEPT ![slot[Largest].req] = "error"]
  <2>. DEFINE r == slot[Largest].req
  <2>1. Largest \in Running
    BY <1>1, LargestRuns
  <2>2. /\ DOMAIN slot' = Running \ {Largest} /\ \A s \in DOMAIN slot' : slot'[s] = undone[s]
    BY <1>6 DEF Restrict
  <2>3. /\ DOMAIN answer' = Requests /\ answer'[r] = "error" /\ r \in Requests
        /\ \A q \in Requests : q # r => answer'[q] = answer[q]
    BY <1>6, <2>1, SlotRequests DEF Once
  <2>4. \A s \in DOMAIN slot' : slot[s].req \in Requests /\ slot[s].req # r
    BY <2>1, <2>2, SlotRequests DEF Once, Apart
  <2>5. \A i \in DOMAIN queue : queue[i] # r
    BY <2>1 DEF Once, Apart
  <2>6. \A q \in draining : q \in Requests /\ q # r
    BY <2>1 DEF Once, Apart
  <2>7. \A s \in Running : s \in DOMAIN slot' \/ answer'[slot[s].req] # "none"
    BY <2>2, <2>3
  <2>8. client[r] # "new"
    BY <2>1 DEF Once, Unanswered, Waits
  <2>. HIDE DEF r
  <2>. QED
    BY <1>1, <1>3, <1>4, <2>2, <2>3, <2>4, <2>5, <2>6, <2>7, <2>8, SlotRequests, Settled
<1>. QED
  BY <1>2, <1>5, <1>6 DEF undone

\* A failed decode fails the requests it ends.
LEMMA FailsOnce == IInv /\ Once /\ DecodeFails => Once'
<1>. SUFFICES ASSUME IInv, Once, DecodeFails PROVE Once'
  OBVIOUS
<1>1. queue' = queue /\ client' = client /\ draining' = draining
  BY DEF DecodeFails
<1>. PICK blocks \in Blocks :
       \E rows \in Batches(blocks) :
         /\ slot' = [s \in Running \ Sampled(rows) |-> Fed(slot[s], rows[s])]
         /\ answer' = Answered({slot[s].req : s \in Sampled(rows)}, [r \in Requests |-> "error"])
  BY DEF DecodeFails
<1>2. PICK rows \in Batches(blocks) :
         /\ slot' = [s \in Running \ Sampled(rows) |-> Fed(slot[s], rows[s])]
         /\ answer' = Answered({slot[s].req : s \in Sampled(rows)}, [r \in Requests |-> "error"])
  OBVIOUS
<1>. DEFINE ended == Sampled(rows)
<1>3. ended \subseteq Running
  BY DEF Sampled
<1>4. DOMAIN slot' = Running \ ended /\ \A s \in DOMAIN slot' : slot'[s].req = slot[s].req
  BY <1>2, FedType
<1>5. /\ DOMAIN answer' = Requests
      /\ \A r \in Requests : IF \E s \in ended : slot[s].req = r THEN answer'[r] = "error"
                                                                 ELSE answer'[r] = answer[r]
  BY <1>2 DEF Answered
<1>. HIDE DEF ended
<1>6. \A i \in DOMAIN queue : queue[i] \in Requests
  BY DEF IInv, Typed
<1>7. \A i \in DOMAIN queue : answer'[queue[i]] = answer[queue[i]]
  BY <1>3, <1>5, <1>6 DEF Once, Apart
<1>8. \A s \in DOMAIN slot' : answer'[slot[s].req] = answer[slot[s].req]
  BY <1>3, <1>4, <1>5, SlotRequests DEF Once, Apart
<1>9. \A r \in draining' : answer'[r] = answer[r]
  BY <1>1, <1>3, <1>5 DEF Once, Apart
<1>10. \A s \in Running : s \in DOMAIN slot' \/ answer'[slot[s].req] # "none"
  BY <1>4, <1>5, SlotRequests
<1>11. \A r \in Requests : answer[r] # "none" => answer'[r] # "none"
  BY <1>5
<1>12. \A r \in Requests : client[r] = "new" => answer'[r] = answer[r]
  BY <1>3, <1>5 DEF Once, Unanswered, Waits
<1>. QED
  BY <1>1, <1>4, <1>5, <1>7, <1>8, <1>9, <1>10, <1>11, <1>12, SlotRequests, Settled

\* Admission moves the head of the queue to a free slot, or refuses it.
LEMMA AdmitOnce == IInv /\ Once /\ Admit => Once'
<1>. SUFFICES ASSUME IInv, Once, Admit PROVE Once'
  OBVIOUS
<1>. DEFINE r == Head(queue)
<1>1. /\ queue \in Seq(Requests) /\ queue # <<>> /\ queue' = Tail(queue)
      /\ client' = client /\ draining' = draining
  BY DEF IInv, Typed, Admit, Admissible
<1>2. /\ 1 \in DOMAIN queue /\ queue[1] = r /\ r \in Requests
      /\ \A i \in DOMAIN queue : i = 1 \/ (i - 1 \in DOMAIN queue' /\ queue'[i - 1] = queue[i])
      /\ \A i \in DOMAIN queue' : i + 1 \in DOMAIN queue /\ queue'[i] = queue[i + 1] /\ i + 1 # 1
  BY <1>1
<1>3. \A i \in DOMAIN queue' : \E j \in DOMAIN queue : queue'[i] = queue[j] /\ queue[j] # r
  BY <1>2 DEF Once, Apart
<1>4. \A i, j \in DOMAIN queue' : queue'[i] = queue'[j] => i = j
  <2>. SUFFICES ASSUME NEW i \in DOMAIN queue', NEW j \in DOMAIN queue', queue'[i] = queue'[j]
                PROVE  i = j
    OBVIOUS
  <2>1. i + 1 = j + 1
    BY <1>2 DEF Once, Apart
  <2>. QED
    BY <2>1, <1>1
<1>5. \A q \in Requests : (\E i \in DOMAIN queue : queue[i] = q) =>
        q = r \/ \E i \in DOMAIN queue' : queue'[i] = q
  BY <1>2
<1>6. r \notin draining /\ (\A s \in Running : slot[s].req # r) /\ Waits(r)
  BY <1>2 DEF Once, Apart, Unanswered
<1>. HIDE DEF r
<1>7. CASE answer' = [answer EXCEPT ![r] = "error"] /\ UNCHANGED slot
  <2>1. /\ DOMAIN answer' = Requests /\ answer'[r] = "error"
        /\ \A q \in Requests : q # r => answer'[q] = answer[q]
    BY <1>2, <1>7 DEF Once
  <2>2. Apart'
    <3>1. \A i \in DOMAIN queue' : queue'[i] \notin draining
      BY <1>3 DEF Once, Apart
    <3>2. \A i \in DOMAIN queue', s \in Running : queue'[i] # slot[s].req
      BY <1>3 DEF Once, Apart
    <3>. QED
      BY <1>1, <1>4, <1>7, <3>1, <3>2 DEF Once, Apart, Running
  <2>3. Unanswered'
    <3>1. \A i \in DOMAIN queue' : queue'[i] \in Requests /\ Waits(queue'[i]) /\ queue'[i] # r
      BY <1>1, <1>3 DEF Once, Unanswered
    <3>2. \A s \in Running : slot[s].req \in Requests /\ Waits(slot[s].req) /\ slot[s].req # r
      BY <1>6, SlotRequests DEF Once, Unanswered
    <3>3. \A q \in draining : q \in Requests /\ Waits(q) /\ q # r
      BY <1>6 DEF Once, Unanswered
    <3>. QED
      BY <1>1, <1>7, <2>1, <3>1, <3>2, <3>3 DEF Unanswered, Waits, Running
  <2>4. Somewhere'
    BY <1>1, <1>5, <1>7, <2>1 DEF Once, Somewhere, Running
  <2>5. NewUnanswered'
    BY <1>1, <1>6, <2>1 DEF Once, NewUnanswered, Waits
  <2>. QED
    BY <1>1, <2>1, <2>2, <2>3, <2>4, <2>5 DEF Once
<1>8. CASE answer' = answer /\ \E honoured \in BOOLEAN : Place(r, ChooseSlot(r), honoured)
  <2>1. PICK honoured \in BOOLEAN : Place(r, ChooseSlot(r), honoured)
    BY <1>8
  <2>. DEFINE s == ChooseSlot(r)
  <2>2. s \in FreeSlots
    BY <1>2, ChosenFree DEF Admit, Admissible
  <2>3. /\ DOMAIN slot' = Running \union {s} /\ slot'[s].req = r
        /\ \A t \in Running : slot'[t] = slot[t] /\ t # s
    BY <2>1, <2>2 DEF Place, NewSequence, FreeSlots
  <2>. HIDE DEF s
  <2>4. Apart'
    <3>1. \A i \in DOMAIN queue' : queue'[i] \notin draining
      BY <1>3 DEF Once, Apart
    <3>2. \A i \in DOMAIN queue', t \in DOMAIN slot' : queue'[i] # slot'[t].req
      BY <1>3, <2>3 DEF Once, Apart
    <3>3. \A t, u \in DOMAIN slot' : slot'[t].req = slot'[u].req => t = u
      BY <1>6, <2>3 DEF Once, Apart
    <3>4. \A t \in DOMAIN slot' : slot'[t].req \notin draining
      BY <1>6, <2>3 DEF Once, Apart
    <3>. QED
      BY <1>1, <1>4, <3>1, <3>2, <3>3, <3>4 DEF Apart, Running
  <2>5. Unanswered'
    <3>1. \A i \in DOMAIN queue' : Waits(queue'[i])
      BY <1>3 DEF Once, Unanswered
    <3>2. \A t \in DOMAIN slot' : Waits(slot'[t].req)
      BY <1>6, <2>3 DEF Once, Unanswered
    <3>. QED
      BY <1>1, <1>8, <3>1, <3>2 DEF Once, Unanswered, Waits, Running
  <2>6. Somewhere'
    <3>. SUFFICES ASSUME NEW q \in Requests, client[q] = "open", answer[q] = "none"
                  PROVE  \/ \E i \in DOMAIN queue' : queue'[i] = q
                         \/ \E t \in DOMAIN slot' : slot'[t].req = q
                         \/ q \in draining
      BY <1>1, <1>8 DEF Somewhere, Running
    <3>1. CASE \E i \in DOMAIN queue : queue[i] = q
      BY <3>1, <1>5, <2>3
    <3>2. CASE \E t \in Running : slot[t].req = q
      BY <3>2, <2>3
    <3>. QED
      BY <3>1, <3>2 DEF Once, Somewhere
  <2>7. NewUnanswered'
    BY <1>1, <1>8 DEF Once, NewUnanswered
  <2>. QED
    BY <1>1, <1>8, <2>4, <2>5, <2>6, <2>7 DEF Once
<1>. QED
  BY <1>7, <1>8 DEF Admit, r

\* A request submitted joins the queue once, or is refused at once.
LEMMA SubmitOnce ==
  ASSUME IInv, Once, NEW r \in Requests, Submit(r)
  PROVE  Once'
<1>1. /\ slot' = slot /\ draining' = draining /\ client[r] = "new"
      /\ queue \in Seq(Requests)
  BY DEF Submit, IInv, Typed
<1>2. /\ \A i \in DOMAIN queue : queue[i] # r
      /\ \A s \in Running : slot[s].req # r
      /\ r \notin draining
  BY <1>1 DEF Once, Unanswered, Waits
<1>3. /\ DOMAIN client' = Requests /\ client'[r] \in {"open", "gone"}
      /\ \A q \in Requests : q # r => client'[q] = client[q]
  BY DEF Submit, Once
<1>4. /\ \A i \in DOMAIN queue : queue[i] \in Requests
      /\ \A s \in Running : slot[s].req \in Requests
      /\ \A q \in draining : q \in Requests
  BY <1>1, SlotRequests DEF Once
<1>5. CASE /\ queue' = Append(queue, r) /\ answer' = answer
           /\ client' = [client EXCEPT ![r] = "open"]
  <2>. DEFINE n == Len(queue) + 1
  <2>1. /\ DOMAIN queue' = DOMAIN queue \union {n} /\ n \notin DOMAIN queue /\ queue'[n] = r
        /\ \A i \in DOMAIN queue : queue'[i] = queue[i]
    BY <1>1, <1>5
  <2>. HIDE DEF n
  <2>2. Apart'
    <3>1. \A i, j \in DOMAIN queue' : queue'[i] = queue'[j] => i = j
      BY <1>2, <2>1 DEF Once, Apart
    <3>2. \A i \in DOMAIN queue' : queue'[i] \notin draining
      BY <1>2, <2>1 DEF Once, Apart
    <3>3. \A i \in DOMAIN queue', s \in Running : queue'[i] # slot[s].req
      BY <1>2, <2>1 DEF Once, Apart
    <3>. QED
      BY <1>1, <3>1, <3>2, <3>3 DEF Once, Apart, Running
  <2>3. Unanswered'
    <3>1. answer[r] = "none"
      BY <1>1 DEF Submit, Once, NewUnanswered
    <3>2. \A i \in DOMAIN queue' : client'[queue'[i]] # "new" /\ answer[queue'[i]] = "none"
      BY <1>2, <1>3, <1>4, <2>1, <3>1 DEF Once, Unanswered, Waits
    <3>3. \A s \in Running : client'[slot[s].req] # "new" /\ answer[slot[s].req] = "none"
      BY <1>2, <1>3, <1>4 DEF Once, Unanswered, Waits
    <3>4. \A q \in draining : client'[q] # "new" /\ answer[q] = "none"
      BY <1>2, <1>3, <1>4 DEF Once, Unanswered, Waits
    <3>. QED
      BY <1>1, <1>5, <3>2, <3>3, <3>4 DEF Unanswered, Waits, Running
  <2>4. Somewhere'
    <3>. SUFFICES ASSUME NEW q \in Requests, client'[q] = "open", answer[q] = "none"
                  PROVE  \/ \E i \in DOMAIN queue' : queue'[i] = q
                         \/ \E t \in Running : slot[t].req = q
                         \/ q \in draining
      BY <1>1, <1>5 DEF Somewhere, Running
    <3>1. CASE q = r
      BY <3>1, <2>1
    <3>2. CASE q # r
      <4>1. client[q] = "open"
        BY <3>2, <1>3
      <4>2. (\E i \in DOMAIN queue : queue[i] = q) => \E i \in DOMAIN queue' : queue'[i] = q
        BY <2>1
      <4>. QED
        BY <4>1, <4>2 DEF Once, Somewhere
    <3>. QED
      BY <3>1, <3>2
  <2>5. NewUnanswered'
    BY <1>3, <1>5 DEF Once, NewUnanswered
  <2>. QED
    BY <1>1, <1>3, <1>5, <2>2, <2>3, <2>4, <2>5 DEF Once
<1>6. CASE /\ queue' = queue /\ client' = [client EXCEPT ![r] = "gone"]
           /\ \E a \in {"refused", "dropped"} : answer' = [answer EXCEPT ![r] = a]
  <2>1. /\ DOMAIN answer' = Requests /\ answer'[r] # "none" /\ client'[r] = "gone"
        /\ \A q \in Requests : q # r => answer'[q] = answer[q]
    BY <1>6 DEF Once
  <2>2. Apart'
    BY <1>1, <1>6 DEF Once, Apart, Running
  <2>3. Unanswered'
    <3>1. \A i \in DOMAIN queue : client'[queue[i]] # "new" /\ answer'[queue[i]] = "none"
      BY <1>2, <1>3, <1>4, <2>1 DEF Once, Unanswered, Waits
    <3>2. \A s \in Running : client'[slot[s].req] # "new" /\ answer'[slot[s].req] = "none"
      BY <1>2, <1>3, <1>4, <2>1 DEF Once, Unanswered, Waits
    <3>3. \A q \in draining : client'[q] # "new" /\ answer'[q] = "none"
      BY <1>2, <1>3, <1>4, <2>1 DEF Once, Unanswered, Waits
    <3>. QED
      BY <1>1, <1>6, <3>1, <3>2, <3>3 DEF Unanswered, Waits, Running
  <2>4. Somewhere'
    BY <1>1, <1>3, <1>6, <2>1 DEF Once, Somewhere, Running
  <2>5. NewUnanswered'
    BY <1>3, <2>1 DEF Once, NewUnanswered
  <2>. QED
    BY <1>1, <1>3, <2>1, <2>2, <2>3, <2>4, <2>5 DEF Once
<1>. QED
  BY <1>5, <1>6 DEF Submit

\* A client that leaves stays where it is until the loop finds it gone.
LEMMA LeaveOnce ==
  ASSUME Once, NEW r \in Impatient, Leave(r)
  PROVE  Once'
<1>1. /\ r \in Requests /\ client' = [client EXCEPT ![r] = "gone"] /\ client[r] = "open"
      /\ UNCHANGED <<queue, slot, draining, answer>>
  BY RequestsAssumption DEF Leave
<1>2. /\ DOMAIN client' = Requests /\ client'[r] = "gone"
      /\ \A q \in Requests : q # r => client'[q] = client[q]
  BY <1>1 DEF Once
<1>3. \A q : q # r => client'[q] = client[q]
  BY <1>1
<1>4. Apart'
  BY <1>1 DEF Once, Apart, Running
<1>5. Unanswered'
  <2>1. \A q : Waits(q) => client'[q] # "new" /\ answer[q] = "none"
    BY <1>2, <1>3 DEF Waits
  <2>. QED
    BY <1>1, <2>1 DEF Once, Unanswered, Waits, Running
<1>6. Somewhere'
  BY <1>1, <1>2 DEF Once, Somewhere, Running
<1>7. NewUnanswered'
  BY <1>1, <1>2 DEF Once, NewUnanswered
<1>. QED
  BY <1>1, <1>2, <1>4, <1>5, <1>6, <1>7 DEF Once

\* A shutdown answers everyone.
LEMMA ShutdownOnce == IInv /\ Once /\ Shutdown => Once'
<1>. SUFFICES ASSUME IInv, Once, Shutdown PROVE Once'
  OBVIOUS
<1>. DEFINE answers == draining \union Range(queue) \union {slot[s].req : s \in Running}
<1>1. /\ slot' = <<>> /\ draining' = {} /\ queue' = <<>> /\ client' = client
      /\ answer' = [r \in Requests |->
           IF r \in answers
             THEN [q \in Requests |-> IF q \in draining THEN "text"
                                      ELSE IF q \in Range(queue) THEN "dropped" ELSE "error"][r]
           ELSE answer[r]]
  BY DEF Shutdown, Answered
<1>2. /\ DOMAIN answer' = Requests
      /\ \A r \in Requests : IF r \in answers THEN answer'[r] \in {"text", "dropped", "error"}
                                               ELSE answer'[r] = answer[r]
  BY <1>1
<1>3. /\ \A i \in DOMAIN queue : queue[i] \in answers
      /\ \A s \in Running : slot[s].req \in answers
      /\ \A r \in draining : r \in answers
  BY DEF Range
<1>4. \A r \in answers : r \notin Requests \/ client[r] # "new"
  BY DEF Range, Once, Unanswered, Waits
<1>. HIDE DEF answers
<1>5. DOMAIN slot' = {} /\ DOMAIN queue' = {}
  BY <1>1
<1>6. Apart' /\ Unanswered'
  BY <1>1, <1>5 DEF Apart, Unanswered, Running
<1>7. Somewhere'
  BY <1>1, <1>2, <1>3 DEF Once, Somewhere
<1>8. NewUnanswered'
  BY <1>1, <1>2, <1>4 DEF Once, NewUnanswered
<1>. QED
  BY <1>1, <1>2, <1>6, <1>7, <1>8 DEF Once

\* Only a shutdown, and the channel of a loop that has stopped, drop a request.
LEMMA DropsAtStop == Once /\ DroppedAtStop /\ [Next]_vars => DroppedAtStop'
<1>. SUFFICES ASSUME Once, DroppedAtStop, [Next]_vars PROVE DroppedAtStop'
  OBVIOUS
<1>0. DOMAIN answer = Requests
  BY DEF Once
<1>1. CASE pc' = "stopped"
  BY <1>1 DEF DroppedAtStop
<1>2. CASE pc' # "stopped" /\ \A r \in Requests : answer'[r] \in {answer[r], "text", "error", "refused"}
                            /\ (pc = "stopped" => pc' = pc)
  BY <1>2 DEF DroppedAtStop
<1>3. CASE Sweep
  BY <1>1, <1>2, <1>3 DEF Sweep, Answered
<1>4. CASE Admit
  BY <1>0, <1>1, <1>2, <1>4 DEF Admit
<1>5. CASE Decode
  <2>1. PICK what \in [Requests -> {"text", "error"}] : \E rs : answer' = Answered(rs, what)
    <3>. DEFINE what == [r \in Requests |-> IF reader[r] = "stalled" THEN "error" ELSE "text"]
    <3>1. \E rs : answer' = Answered(rs, what)
      BY <1>5 DEF Decode, Finished
    <3>2. what \in [Requests -> {"text", "error"}]
      OBVIOUS
    <3>. HIDE DEF what
    <3>. QED
      BY <3>1, <3>2
  <2>. QED
    BY <1>1, <1>2, <1>5, <2>1 DEF Decode, DecodeReady, Answered
<1>6. CASE DecodeFull
  <2>1. answer' = [answer EXCEPT ![slot[Largest].req] = "error"] \/ answer' = answer
    BY <1>6 DEF DecodeFull
  <2>2. pc = "admit" /\ pc' = "sweep"
    BY <1>6 DEF DecodeFull, DecodeReady
  <2>. QED
    BY <1>0, <1>2, <2>1, <2>2
<1>7. CASE DecodeFails
  <2>1. \E rs : answer' = Answered(rs, [r \in Requests |-> "error"])
    BY <1>7 DEF DecodeFails
  <2>2. pc = "admit" /\ pc' = "sweep"
    BY <1>7 DEF DecodeFails, DecodeReady
  <2>. QED
    BY <1>2, <2>1, <2>2 DEF Answered
<1>8. CASE Shutdown
  BY <1>1, <1>8 DEF Shutdown
<1>9. CASE \E r \in Requests : Submit(r)
  <2>1. pc' = pc
    BY <1>9 DEF Submit
  <2>2. pc # "stopped" => \E r \in Requests : answer' \in {answer, [answer EXCEPT ![r] = "refused"]}
    BY <1>9 DEF Submit
  <2>3. pc # "stopped" => \A q \in Requests : answer'[q] \in {answer[q], "refused"}
    BY <1>0, <2>2
  <2>. QED
    BY <1>1, <1>2, <2>1, <2>3
<1>10. CASE \/ Idle
            \/ \E r \in Impatient : Leave(r)
            \/ \E r \in Streaming : ReaderFallsBehind(r) \/ ReaderCatchesUp(r) \/ DrainExpires(r)
            \/ UNCHANGED vars
  <2>1. answer' = answer /\ (pc = "stopped" => pc' = pc)
    BY <1>10 DEF Idle, Leave, ReaderFallsBehind, ReaderCatchesUp, DrainExpires, vars
  <2>. QED
    BY <1>1, <1>2, <2>1
<1>. QED
  BY <1>3, <1>4, <1>5, <1>6, <1>7, <1>8, <1>9, <1>10 DEF Next, Loop

\* A request not yet submitted is nowhere; one submitted is in one place until it
\* is answered, and is answered by the step that takes it from its last place; only a
\* shutdown drops it there.
THEOREM InOnePlace == Spec => []NobodyLost
<1>1. Init => Once /\ DroppedAtStop
  <2>. SUFFICES ASSUME Init PROVE Once /\ DroppedAtStop
    OBVIOUS
  <2>1. /\ DOMAIN slot = {} /\ DOMAIN queue = {} /\ draining = {}
        /\ DOMAIN client = Requests /\ DOMAIN answer = Requests
        /\ \A r \in Requests : client[r] = "new" /\ answer[r] = "none"
    BY DEF Init
  <2>. QED
    BY <2>1 DEF Once, Apart, Unanswered, Somewhere, NewUnanswered, DroppedAtStop, Running
<1>2. IInv /\ Once /\ [Next]_vars => Once'
  <2>. SUFFICES ASSUME IInv, Once, [Next]_vars PROVE Once'
    OBVIOUS
  <2>1. CASE Sweep
    BY <2>1, SweepOnce
  <2>2. CASE Admit
    BY <2>2, AdmitOnce
  <2>3. CASE Decode
    BY <2>3, DecodeOnce
  <2>4. CASE DecodeFull
    BY <2>4, FullOnce
  <2>5. CASE DecodeFails
    BY <2>5, FailsOnce
  <2>6. CASE Shutdown
    BY <2>6, ShutdownOnce
  <2>7. ASSUME NEW r \in Requests, Submit(r) PROVE Once'
    BY <2>7, SubmitOnce
  <2>8. ASSUME NEW r \in Impatient, Leave(r) PROVE Once'
    BY <2>8, LeaveOnce
  <2>9. CASE \/ Idle
             \/ \E r \in Streaming : ReaderFallsBehind(r) \/ ReaderCatchesUp(r) \/ DrainExpires(r)
             \/ UNCHANGED vars
    <3>1. UNCHANGED <<queue, slot, draining, client, answer>>
      BY <2>9 DEF Idle, ReaderFallsBehind, ReaderCatchesUp, DrainExpires, vars
    <3>. QED
      BY <3>1 DEF Once, Apart, Unanswered, Somewhere, NewUnanswered, Waits, Running
  <2>. QED
    BY <2>1, <2>2, <2>3, <2>4, <2>5, <2>6, <2>7, <2>8, <2>9 DEF Next, Loop
<1>. QED
  BY <1>1, <1>2, DropsAtStop, Inductive, OncePlaces, PTL DEF Spec

=============================================================================
