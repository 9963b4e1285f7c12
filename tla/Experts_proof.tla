--------------------------- MODULE Experts_proof ---------------------------
(***************************************************************************)
(* Proofs about Experts, for any threads, experts, sizes, budget and       *)
(* number of calls.                                                        *)
(*                                                                         *)
(* Types (IInv).  The guard is one evictor's, and what a thread carries is *)
(* what its step needs.                                                    *)
(*                                                                         *)
(* The budget (Counting, Fitting).  Every step that moves an expert in or  *)
(* out of memory and the step that counts it are apart, so the byte count  *)
(* is right only together with what threads have yet to add and subtract.  *)
(* A promotion may put in what is there already, and is counted all the    *)
(* same: the count may be too high, never too low (Balance).  It is kept   *)
(* modulo the width of the counter; that the bytes ever put in memory fit  *)
(* the counter (a Share of it per call) makes it, at rest, the count       *)
(* itself.  Whoever brings an expert in evicts afterwards, and the last    *)
(* one to stop evicting has seen the count within the budget or at most    *)
(* one expert in memory; nothing adds to either without evicting again.    *)
(*                                                                         *)
(* Serving (Apart, ServesAll).  Calls that work on one expert at once are  *)
(* no harm as long as none of their steps clashes (Clashes).  What a       *)
(* thread has done so far (Stands) says what is in memory, in the index    *)
(* and in the expert's file, and when nobody is half way through changing  *)
(* it (Late) the three agree with the last load, or the expert is on its   *)
(* way from memory to the index, which no promotion is about to undo       *)
(* (Normal).  A step that clashes with none leaves what the others count   *)
(* on (Leaving).  Threads at work on other experts do not disturb this,    *)
(* because their files are others (Apart).                                 *)
(***************************************************************************)
EXTENDS Experts, NatFacts

-----------------------------------------------------------------------------
(* Types.                                                                  *)

EvictSteps == {"pick", "len", "choose", "take", "evicted", "index"}
WriteSteps == {"write", "rename"}
HoldSteps == {"create", "write", "rename", "replace", "subtract", "unindex", "insert", "promote"}

Shared ==
  /\ mem \in [Keys -> 0 .. Versions] /\ disk \subseteq Keys
  /\ path \in [Keys -> {0} \cup Files] /\ tmp \in [Keys -> {0} \cup Files]
  /\ content \in [Files -> 0 .. Versions]
  /\ mem_bytes \in 0 .. Word - 1 /\ guard \in BOOLEAN
  /\ loads \in 0 .. Versions /\ calls \in 0 .. Calls
  /\ latest \in [Keys -> 0 .. Versions] /\ raced \subseteq Keys

Private ==
  /\ at \in [Threads -> Steps] /\ key \in [Threads -> Keys]
  /\ held \in [Threads -> 0 .. Versions] /\ file \in [Threads -> {0} \cup Files]
  /\ victim \in [Threads -> Keys]

\* The guard is one thread's, which evicts.
Guarded ==
  /\ guard <=> \E t \in Threads : at[t] \in EvictSteps
  /\ \A t, u \in Threads : at[t] \in EvictSteps /\ at[u] \in EvictSteps => t = u

\* What a thread carries from one step to another.
Holding == \A t \in Threads : at[t] \in HoldSteps => held[t] # 0
Writing == \A t \in Threads : file[t] # 0 <=> at[t] \in WriteSteps

IInv == Shared /\ Private /\ Guarded /\ Holding /\ Writing

\* The invariant has the types the model states.
LEMMA IInvTypes == IInv => TypeOK
BY DEF IInv, Shared, Private, Guarded, TypeOK, EvictSteps

\* Files are numbered and keys are experts.
LEMMA Kinds ==
  /\ Files \in SUBSET (Nat \ {0}) /\ \A t : Clashes(t) \subseteq Keys
  /\ Versions \in Nat /\ Versions # 0 /\ Word \in Nat /\ Word # 0 /\ Calls \in Nat
  /\ Size \in [Keys -> Nat]
BY ExpertsAssumption, FS_CardinalityType DEF Files, Clashes

\* The counter stays below its width.
LEMMA CountedType ==
  ASSUME NEW n \in Int, mem_bytes \in 0 .. Word - 1, Counted(n)
  PROVE  mem_bytes' \in 0 .. Word - 1
BY Kinds DEF Counted

\* A new file is not one that is in use.
LEMMA NewFileNew ==
  ASSUME Shared, Private
  PROVE  /\ NewFile \in Nat \ {0}
         /\ \A k \in Keys : NewFile # path[k] /\ NewFile # tmp[k]
         /\ \A t \in Threads : NewFile # file[t]
<1>. DEFINE S == {0} \cup {path[k] : k \in Keys} \cup {tmp[k] : k \in Keys}
                 \cup {file[t] : t \in Threads}
<1>1. PICK b \in Nat : \A f \in Files : f \in Nat /\ f <= b
  <2>1. Versions + Cardinality(Keys) \in Nat
    BY ExpertsAssumption, FS_CardinalityType
  <2>2. PICK n \in Nat : Files = 1 .. n
    BY <2>1 DEF Files
  <2>3. \A f \in Files : f \in Nat /\ f <= n
    BY <2>2
  <2>. QED
    BY <2>3
<1>2. \A x \in S : x = 0 \/ x \in Files
  BY DEF Shared, Private
<1>3. 0 \in S /\ \A k \in Keys : path[k] \in S /\ tmp[k] \in S
  OBVIOUS
<1>4. \A t \in Threads : file[t] \in S
  OBVIOUS
<1>5. NewFile = Max(S) + 1
  BY DEF NewFile
<1>. HIDE DEF S
<1>6. \A x \in S : x \in Nat /\ x <= b
  BY <1>1, <1>2
<1>7. S \in SUBSET Nat /\ S # {}
  BY <1>3, <1>6
<1>8. PICK m \in Nat : m = Max(S) /\ \A y \in S : y <= m
  BY <1>1, <1>6, <1>7, MaxNat
<1>9. \A y \in S : NewFile # y
  BY <1>5, <1>6, <1>8
<1>. QED
  BY <1>3, <1>4, <1>5, <1>8, <1>9

\* A thread goes to a step that is not an evictor's, from one that is not.
Moves(t, step) ==
  /\ at' = [at EXCEPT ![t] = step] /\ step \in Steps
  /\ raced' \subseteq Keys

\* What Goes says, as far as the types need it.
LEMMA GoesMoves ==
  ASSUME IInv, NEW t, NEW step \in Steps, Goes(t, step)
  PROVE  Moves(t, step)
BY Kinds DEF Goes, Moves, IInv, Shared

\* Who is evicting stays the same.
LEMMA GuardKept ==
  ASSUME IInv, NEW t \in Threads, NEW step, Moves(t, step), guard' = guard,
         at[t] \in EvictSteps <=> step \in EvictSteps
  PROVE  Guarded'
BY DEF IInv, Private, Guarded, Moves

LEMMA GuardTaken ==
  ASSUME IInv, NEW t \in Threads, NEW step, Moves(t, step), ~guard, guard' = TRUE,
         step \in EvictSteps
  PROVE  Guarded'
BY DEF IInv, Private, Guarded, Moves

LEMMA GuardGiven ==
  ASSUME IInv, NEW t \in Threads, NEW step, Moves(t, step), at[t] \in EvictSteps,
         guard' = FALSE, step \notin EvictSteps
  PROVE  Guarded'
BY DEF IInv, Private, Guarded, Moves

\* A blob is a version, or nothing.
LEMMA BlobType ==
  ASSUME IInv, NEW k \in Keys
  PROVE  Blob(k) \in 0 .. Versions
<1>1. /\ path[k] \in {0} \cup Files /\ content \in [Files -> 0 .. Versions]
      /\ Versions \in Nat
  BY Kinds DEF IInv, Shared
<1>2. CASE path[k] = 0
  BY <1>1, <1>2 DEF Blob
<1>3. CASE path[k] # 0
  BY <1>1, <1>3 DEF Blob
<1>. QED
  BY <1>2, <1>3

\* The calls begin.
LEMMA LoadKeeps ==
  ASSUME IInv, NEW t \in Threads, NEW k \in Keys, Load(t, k)
  PROVE  IInv'
<1>1. PICK step \in {"create"} : Moves(t, step)
  BY GoesMoves DEF Load, Begins, Steps
<1>0. loads + 1 \in 1 .. Versions /\ loads + 1 # 0
  BY Kinds DEF Load, IInv, Shared
<1>2. Shared'
  BY <1>1, <1>0, Kinds DEF Load, Begins, Moves, IInv, Shared, Private, tiers, files
<1>3. Private'
  BY <1>1, <1>0 DEF Load, Begins, Moves, IInv, Shared, Private
<1>4. Guarded'
  BY <1>1, GuardKept DEF Load, Begins, EvictSteps
<1>5. Holding' /\ Writing'
  BY <1>1, <1>0 DEF Load, Begins, Moves, IInv, Private, Holding, Writing, HoldSteps, WriteSteps
<1>. QED
  BY <1>2, <1>3, <1>4, <1>5 DEF IInv

LEMMA ResolveKeeps ==
  ASSUME IInv, NEW t \in Threads, NEW k \in Keys, Resolve(t, k)
  PROVE  IInv'
<1>1. PICK step \in {"get"} : Moves(t, step)
  BY GoesMoves DEF Resolve, Begins, Steps
<1>2. Shared'
  BY <1>1, Kinds DEF Resolve, Begins, Moves, IInv, Shared, Private, tiers, files
<1>3. Private'
  BY <1>1 DEF Resolve, Begins, Moves, IInv, Shared, Private
<1>4. Guarded'
  BY <1>1, GuardKept DEF Resolve, Begins, EvictSteps
<1>5. Holding' /\ Writing'
  BY <1>1 DEF Resolve, Begins, Moves, IInv, Private, Holding, Writing, HoldSteps, WriteSteps
<1>. QED
  BY <1>2, <1>3, <1>4, <1>5 DEF IInv

LEMMA UnloadKeeps ==
  ASSUME IInv, NEW t \in Threads, NEW k \in Keys, Unload(t, k)
  PROVE  IInv'
<1>1. PICK step \in {"unload"} : Moves(t, step)
  BY GoesMoves DEF Unload, Begins, Steps
<1>2. Shared'
  BY <1>1, Kinds DEF Unload, Begins, Moves, IInv, Shared, Private, tiers, files
<1>3. Private'
  BY <1>1 DEF Unload, Begins, Moves, IInv, Shared, Private
<1>4. Guarded'
  BY <1>1, GuardKept DEF Unload, Begins, EvictSteps
<1>5. Holding' /\ Writing'
  BY <1>1 DEF Unload, Begins, Moves, IInv, Private, Holding, Writing, HoldSteps, WriteSteps
<1>. QED
  BY <1>2, <1>3, <1>4, <1>5 DEF IInv

\* A load writes the blob, which then replaces what the expert had.
LEMMA CreateKeeps ==
  ASSUME IInv, NEW t \in Threads, Create(t)
  PROVE  IInv'
<1>1. PICK step \in {"write"} : Moves(t, step)
  BY GoesMoves DEF Create, Steps
<1>0. file' = [file EXCEPT ![t] = file'[t]] /\ file'[t] \in Files /\ file'[t] # 0
  BY Kinds DEF Create, IInv, Private
<1>2. Shared'
  BY <1>1, <1>0, Kinds DEF Create, Moves, IInv, Shared, Private, tiers, files
<1>3. Private'
  BY <1>1, <1>0 DEF Create, Moves, IInv, Shared, Private
<1>4. Guarded'
  BY <1>1, GuardKept DEF Create, EvictSteps
<1>5. Holding' /\ Writing'
  BY <1>1, <1>0 DEF Create, Moves, IInv, Private, Holding, Writing, HoldSteps, WriteSteps
<1>. QED
  BY <1>2, <1>3, <1>4, <1>5 DEF IInv

LEMMA WriteKeeps ==
  ASSUME IInv, NEW t \in Threads, Write(t)
  PROVE  IInv'
<1>1. PICK step \in {"rename"} : Moves(t, step)
  BY GoesMoves DEF Write, Steps
<1>2. Shared'
  BY <1>1 DEF Write, Moves, IInv, Shared, Private, tiers, files
<1>3. Private'
  BY <1>1 DEF Write, Moves, IInv, Shared, Private
<1>4. Guarded'
  BY <1>1, GuardKept DEF Write, EvictSteps
<1>5. Holding' /\ Writing'
  BY <1>1 DEF Write, Moves, IInv, Private, Holding, Writing, HoldSteps, WriteSteps
<1>. QED
  BY <1>2, <1>3, <1>4, <1>5 DEF IInv

LEMMA WriteFailsKeeps ==
  ASSUME IInv, NEW t \in Threads, WriteFails(t)
  PROVE  IInv'
<1>1. PICK step \in {"idle"} : Moves(t, step)
  BY GoesMoves DEF WriteFails, Steps
<1>2. Shared'
  BY <1>1 DEF WriteFails, Moves, IInv, Shared, Private, tiers, files
<1>3. Private'
  BY <1>1 DEF WriteFails, Moves, IInv, Shared, Private
<1>4. Guarded'
  BY <1>1, GuardKept DEF WriteFails, EvictSteps
<1>5. Holding' /\ Writing'
  BY <1>1 DEF WriteFails, Moves, IInv, Private, Holding, Writing, HoldSteps, WriteSteps
<1>. QED
  BY <1>2, <1>3, <1>4, <1>5 DEF IInv

LEMMA RenameKeeps ==
  ASSUME IInv, NEW t \in Threads, Rename(t)
  PROVE  IInv'
<1>1. PICK step \in {"idle", "replace"} : Moves(t, step)
  BY GoesMoves DEF Rename, Steps
<1>2. Shared'
  BY <1>1 DEF Rename, Moves, IInv, Shared, Private, tiers, files
<1>3. Private'
  BY <1>1 DEF Rename, Moves, IInv, Shared, Private
<1>4. Guarded'
  BY <1>1, GuardKept DEF Rename, EvictSteps
<1>5. Holding' /\ Writing'
  BY <1>1 DEF Rename, Moves, IInv, Private, Holding, Writing, HoldSteps, WriteSteps
<1>. QED
  BY <1>2, <1>3, <1>4, <1>5 DEF IInv

LEMMA ReplaceKeeps ==
  ASSUME IInv, NEW t \in Threads, Replace(t)
  PROVE  IInv'
<1>1. PICK step \in {"subtract", "unindex"} : Moves(t, step)
  BY GoesMoves DEF Replace, TakenOut, Steps
<1>2. Shared'
  BY <1>1, Kinds DEF Replace, TakenOut, Moves, IInv, Shared, Private, tiers, files
<1>3. Private'
  BY <1>1 DEF Replace, TakenOut, Moves, IInv, Shared, Private
<1>4. Guarded'
  BY <1>1, GuardKept DEF Replace, TakenOut, EvictSteps
<1>5. Holding' /\ Writing'
  BY <1>1 DEF Replace, TakenOut, Moves, IInv, Private, Holding, Writing, HoldSteps, WriteSteps
<1>. QED
  BY <1>2, <1>3, <1>4, <1>5 DEF IInv

LEMMA SubtractKeeps ==
  ASSUME IInv, NEW t \in Threads, Subtract(t)
  PROVE  IInv'
<1>1. PICK step \in {"unindex"} : Moves(t, step)
  BY GoesMoves DEF Subtract, Steps
<1>2. Shared'
  <2>1. -Size[key[t]] \in Int /\ mem_bytes \in 0 .. Word - 1
    BY Kinds DEF IInv, Shared, Private
  <2>2. mem_bytes' \in 0 .. Word - 1
    BY <2>1, CountedType DEF Subtract
  <2>. QED
    BY <1>1, <2>2 DEF Subtract, Moves, IInv, Shared, tiers, files
<1>3. Private'
  BY <1>1 DEF Subtract, Moves, IInv, Shared, Private
<1>4. Guarded'
  BY <1>1, GuardKept DEF Subtract, EvictSteps
<1>5. Holding' /\ Writing'
  BY <1>1 DEF Subtract, Moves, IInv, Private, Holding, Writing, HoldSteps, WriteSteps
<1>. QED
  BY <1>2, <1>3, <1>4, <1>5 DEF IInv

LEMMA UnindexKeeps ==
  ASSUME IInv, NEW t \in Threads, Unindex(t)
  PROVE  IInv'
<1>1. PICK step \in {"insert"} : Moves(t, step)
  BY GoesMoves DEF Unindex, Steps
<1>2. Shared'
  BY <1>1 DEF Unindex, Moves, IInv, Shared, Private, tiers, files
<1>3. Private'
  BY <1>1 DEF Unindex, Moves, IInv, Shared, Private
<1>4. Guarded'
  BY <1>1, GuardKept DEF Unindex, EvictSteps
<1>5. Holding' /\ Writing'
  BY <1>1 DEF Unindex, Moves, IInv, Private, Holding, Writing, HoldSteps, WriteSteps
<1>. QED
  BY <1>2, <1>3, <1>4, <1>5 DEF IInv

LEMMA InsertKeeps ==
  ASSUME IInv, NEW t \in Threads, Insert(t)
  PROVE  IInv'
<1>1. PICK step \in {"add"} : Moves(t, step)
  BY GoesMoves DEF Insert, PutIn, Steps
<1>2. Shared'
  BY <1>1 DEF Insert, PutIn, Moves, IInv, Shared, Private, tiers, files
<1>3. Private'
  BY <1>1 DEF Insert, PutIn, Moves, IInv, Shared, Private
<1>4. Guarded'
  BY <1>1, GuardKept DEF Insert, PutIn, EvictSteps
<1>5. Holding' /\ Writing'
  BY <1>1 DEF Insert, PutIn, Moves, IInv, Private, Holding, Writing, HoldSteps, WriteSteps
<1>. QED
  BY <1>2, <1>3, <1>4, <1>5 DEF IInv

LEMMA AddKeeps ==
  ASSUME IInv, NEW t \in Threads, Add(t)
  PROVE  IInv'
<1>1. PICK step \in {"evict", "promoted"} : Moves(t, step)
  BY GoesMoves DEF Add, Steps
<1>2. Shared'
  <2>1. Size[key[t]] \in Int /\ mem_bytes \in 0 .. Word - 1
    BY Kinds DEF IInv, Shared, Private
  <2>2. mem_bytes' \in 0 .. Word - 1
    BY <2>1, CountedType DEF Add
  <2>. QED
    BY <1>1, <2>2 DEF Add, Moves, IInv, Shared, tiers, files
<1>3. Private'
  BY <1>1 DEF Add, Moves, IInv, Shared, Private
<1>4. Guarded'
  BY <1>1, GuardKept DEF Add, EvictSteps
<1>5. Holding' /\ Writing'
  BY <1>1 DEF Add, Moves, IInv, Private, Holding, Writing, HoldSteps, WriteSteps
<1>. QED
  BY <1>2, <1>3, <1>4, <1>5 DEF IInv

\* An eviction, under its guard.
LEMMA EvictKeeps ==
  ASSUME IInv, NEW t \in Threads, Evict(t)
  PROVE  IInv'
<1>1. PICK step \in {"pick"} : Moves(t, step)
  BY GoesMoves DEF Evict, Steps
<1>2. Shared'
  BY <1>1 DEF Evict, Moves, IInv, Shared, Private, tiers, files
<1>3. Private'
  BY <1>1 DEF Evict, Moves, IInv, Shared, Private
<1>4. Guarded'
  BY <1>1, GuardTaken DEF Evict, EvictSteps
<1>5. Holding' /\ Writing'
  BY <1>1 DEF Evict, Moves, IInv, Private, Holding, Writing, HoldSteps, WriteSteps
<1>. QED
  BY <1>2, <1>3, <1>4, <1>5 DEF IInv

LEMMA PickKeeps ==
  ASSUME IInv, NEW t \in Threads, Pick(t)
  PROVE  IInv'
<1>1. \/ Moves(t, "len") /\ guard' = guard
      \/ Moves(t, "idle") /\ guard' = FALSE
  BY GoesMoves DEF Pick, Leaves, Steps
<1>2. Shared'
  BY <1>1 DEF Pick, Moves, IInv, Shared, Private, tiers, files
<1>3. Private'
  BY <1>1 DEF Pick, Moves, IInv, Shared, Private
<1>4. Guarded'
  BY <1>1, GuardKept, GuardGiven DEF Pick, EvictSteps
<1>5. Holding' /\ Writing'
  BY <1>1 DEF Pick, Moves, IInv, Private, Holding, Writing, HoldSteps, WriteSteps
<1>. QED
  BY <1>2, <1>3, <1>4, <1>5 DEF IInv

LEMMA SeveralKeeps ==
  ASSUME IInv, NEW t \in Threads, Several(t)
  PROVE  IInv'
<1>1. \/ Moves(t, "choose") /\ guard' = guard
      \/ Moves(t, "idle") /\ guard' = FALSE
  BY GoesMoves DEF Several, Leaves, Steps
<1>2. Shared'
  BY <1>1 DEF Several, Moves, IInv, Shared, Private, tiers, files
<1>3. Private'
  BY <1>1 DEF Several, Moves, IInv, Shared, Private
<1>4. Guarded'
  BY <1>1, GuardKept, GuardGiven DEF Several, EvictSteps
<1>5. Holding' /\ Writing'
  BY <1>1 DEF Several, Moves, IInv, Private, Holding, Writing, HoldSteps, WriteSteps
<1>. QED
  BY <1>2, <1>3, <1>4, <1>5 DEF IInv

LEMMA ChooseKeeps ==
  ASSUME IInv, NEW t \in Threads, Choose(t)
  PROVE  IInv'
<1>1. \/ Moves(t, "take") /\ guard' = guard
      \/ Moves(t, "idle") /\ guard' = FALSE
  BY GoesMoves DEF Choose, Leaves, Steps
<1>0. PICK k \in Keys : victim' = [victim EXCEPT ![t] = k]
  <2>1. victim' = victim \/ \E k \in Keys : victim' = [victim EXCEPT ![t] = k]
    BY DEF Choose, InMemory
  <2>2. victim = [victim EXCEPT ![t] = victim[t]] /\ victim[t] \in Keys
    BY DEF IInv, Private
  <2>. QED
    BY <2>1, <2>2
<1>2. Shared'
  BY <1>1 DEF Choose, Moves, IInv, Shared, Private, tiers, files
<1>3. Private'
  BY <1>1, <1>0 DEF Choose, Moves, IInv, Shared, Private
<1>4. Guarded'
  BY <1>1, GuardKept, GuardGiven DEF Choose, EvictSteps
<1>5. Holding' /\ Writing'
  BY <1>1 DEF Choose, Moves, IInv, Private, Holding, Writing, HoldSteps, WriteSteps
<1>. QED
  BY <1>2, <1>3, <1>4, <1>5 DEF IInv

LEMMA TakeKeeps ==
  ASSUME IInv, NEW t \in Threads, Take(t)
  PROVE  IInv'
<1>1. PICK step \in {"evicted", "pick"} : Moves(t, step)
  BY GoesMoves DEF Take, TakenOut, Steps
<1>2. Shared'
  BY <1>1, Kinds DEF Take, TakenOut, Moves, IInv, Shared, Private, tiers, files
<1>3. Private'
  BY <1>1 DEF Take, TakenOut, Moves, IInv, Shared, Private
<1>4. Guarded'
  BY <1>1, GuardKept DEF Take, TakenOut, EvictSteps
<1>5. Holding' /\ Writing'
  BY <1>1 DEF Take, TakenOut, Moves, IInv, Private, Holding, Writing, HoldSteps, WriteSteps
<1>. QED
  BY <1>2, <1>3, <1>4, <1>5 DEF IInv

LEMMA EvictedKeeps ==
  ASSUME IInv, NEW t \in Threads, Evicted(t)
  PROVE  IInv'
<1>1. PICK step \in {"index"} : Moves(t, step)
  BY GoesMoves DEF Evicted, Steps
<1>2. Shared'
  <2>1. -Size[victim[t]] \in Int /\ mem_bytes \in 0 .. Word - 1
    BY Kinds DEF IInv, Shared, Private
  <2>2. mem_bytes' \in 0 .. Word - 1
    BY <2>1, CountedType DEF Evicted
  <2>. QED
    BY <1>1, <2>2 DEF Evicted, Moves, IInv, Shared, tiers, files
<1>3. Private'
  BY <1>1 DEF Evicted, Moves, IInv, Shared, Private
<1>4. Guarded'
  BY <1>1, GuardKept DEF Evicted, EvictSteps
<1>5. Holding' /\ Writing'
  BY <1>1 DEF Evicted, Moves, IInv, Private, Holding, Writing, HoldSteps, WriteSteps
<1>. QED
  BY <1>2, <1>3, <1>4, <1>5 DEF IInv

LEMMA IndexKeeps ==
  ASSUME IInv, NEW t \in Threads, Index(t)
  PROVE  IInv'
<1>1. PICK step \in {"pick"} : Moves(t, step)
  BY GoesMoves DEF Index, Steps
<1>2. Shared'
  BY <1>1 DEF Index, Moves, IInv, Shared, Private, tiers, files
<1>3. Private'
  BY <1>1 DEF Index, Moves, IInv, Shared, Private
<1>4. Guarded'
  BY <1>1, GuardKept DEF Index, EvictSteps
<1>5. Holding' /\ Writing'
  BY <1>1 DEF Index, Moves, IInv, Private, Holding, Writing, HoldSteps, WriteSteps
<1>. QED
  BY <1>2, <1>3, <1>4, <1>5 DEF IInv

\* An execution looks for the expert, and may promote it.
LEMMA GetKeeps ==
  ASSUME IInv, NEW t \in Threads, Get(t)
  PROVE  IInv'
<1>1. PICK step \in {"idle", "look"} : Moves(t, step)
  BY GoesMoves DEF Get, Steps
<1>2. Shared'
  BY <1>1 DEF Get, Moves, IInv, Shared, Private, tiers, files
<1>3. Private'
  BY <1>1 DEF Get, Moves, IInv, Shared, Private
<1>4. Guarded'
  BY <1>1, GuardKept DEF Get, EvictSteps
<1>5. Holding' /\ Writing'
  BY <1>1 DEF Get, Moves, IInv, Private, Holding, Writing, HoldSteps, WriteSteps
<1>. QED
  BY <1>2, <1>3, <1>4, <1>5 DEF IInv

LEMMA LookKeeps ==
  ASSUME IInv, NEW t \in Threads, Look(t)
  PROVE  IInv'
<1>1. PICK step \in {"read", "idle"} : Moves(t, step)
  BY GoesMoves DEF Look, Steps
<1>2. Shared'
  BY <1>1 DEF Look, Moves, IInv, Shared, Private, tiers, files
<1>3. Private'
  BY <1>1 DEF Look, Moves, IInv, Shared, Private
<1>4. Guarded'
  BY <1>1, GuardKept DEF Look, EvictSteps
<1>5. Holding' /\ Writing'
  BY <1>1 DEF Look, Moves, IInv, Private, Holding, Writing, HoldSteps, WriteSteps
<1>. QED
  BY <1>2, <1>3, <1>4, <1>5 DEF IInv

LEMMA ReadKeeps ==
  ASSUME IInv, NEW t \in Threads, Read(t)
  PROVE  IInv'
<1>1. PICK step \in {"idle", "promote"} : Moves(t, step)
  BY GoesMoves DEF Read, Steps
<1>0. /\ held' = [held EXCEPT ![t] = Blob(key[t])] /\ Blob(key[t]) \in 0 .. Versions
      /\ at' = [at EXCEPT ![t] = IF Blob(key[t]) = 0 THEN "idle" ELSE "promote"]
  <2>1. Blob(key[t]) \in 0 .. Versions
    BY BlobType DEF IInv, Private
  <2>. QED
    BY <2>1 DEF Read, Goes
<1>2. Shared'
  BY <1>1, <1>0 DEF Read, Moves, IInv, Shared, Private, tiers, files
<1>3. Private'
  BY <1>1, <1>0 DEF Read, Moves, IInv, Shared, Private
<1>4. Guarded'
  BY <1>1, GuardKept DEF Read, EvictSteps
<1>5. Holding' /\ Writing'
  BY <1>1, <1>0 DEF Read, Moves, IInv, Private, Holding, Writing, HoldSteps, WriteSteps
<1>. QED
  BY <1>2, <1>3, <1>4, <1>5 DEF IInv

LEMMA PromoteKeeps ==
  ASSUME IInv, NEW t \in Threads, Promote(t)
  PROVE  IInv'
<1>1. PICK step \in {"count"} : Moves(t, step)
  BY GoesMoves DEF Promote, PutIn, Steps
<1>2. Shared'
  BY <1>1 DEF Promote, PutIn, Moves, IInv, Shared, Private, tiers, files
<1>3. Private'
  BY <1>1 DEF Promote, PutIn, Moves, IInv, Shared, Private
<1>4. Guarded'
  BY <1>1, GuardKept DEF Promote, PutIn, EvictSteps
<1>5. Holding' /\ Writing'
  BY <1>1 DEF Promote, PutIn, Moves, IInv, Private, Holding, Writing, HoldSteps, WriteSteps
<1>. QED
  BY <1>2, <1>3, <1>4, <1>5 DEF IInv

LEMMA PromotedKeeps ==
  ASSUME IInv, NEW t \in Threads, Promoted(t)
  PROVE  IInv'
<1>1. PICK step \in {"evict"} : Moves(t, step)
  BY GoesMoves DEF Promoted, Steps
<1>2. Shared'
  BY <1>1 DEF Promoted, Moves, IInv, Shared, Private, tiers, files
<1>3. Private'
  BY <1>1 DEF Promoted, Moves, IInv, Shared, Private
<1>4. Guarded'
  BY <1>1, GuardKept DEF Promoted, EvictSteps
<1>5. Holding' /\ Writing'
  BY <1>1 DEF Promoted, Moves, IInv, Private, Holding, Writing, HoldSteps, WriteSteps
<1>. QED
  BY <1>2, <1>3, <1>4, <1>5 DEF IInv

\* An unload.
LEMMA UnloadsKeeps ==
  ASSUME IInv, NEW t \in Threads, Unloads(t)
  PROVE  IInv'
<1>1. PICK step \in {"unloaded", "drop"} : Moves(t, step)
  BY GoesMoves DEF Unloads, TakenOut, Steps
<1>2. Shared'
  BY <1>1, Kinds DEF Unloads, TakenOut, Moves, IInv, Shared, Private, tiers, files
<1>3. Private'
  BY <1>1 DEF Unloads, TakenOut, Moves, IInv, Shared, Private
<1>4. Guarded'
  BY <1>1, GuardKept DEF Unloads, TakenOut, EvictSteps
<1>5. Holding' /\ Writing'
  BY <1>1 DEF Unloads, TakenOut, Moves, IInv, Private, Holding, Writing, HoldSteps, WriteSteps
<1>. QED
  BY <1>2, <1>3, <1>4, <1>5 DEF IInv

LEMMA UnloadedKeeps ==
  ASSUME IInv, NEW t \in Threads, Unloaded(t)
  PROVE  IInv'
<1>1. PICK step \in {"drop"} : Moves(t, step)
  BY GoesMoves DEF Unloaded, Steps
<1>2. Shared'
  <2>1. -Size[key[t]] \in Int /\ mem_bytes \in 0 .. Word - 1
    BY Kinds DEF IInv, Shared, Private
  <2>2. mem_bytes' \in 0 .. Word - 1
    BY <2>1, CountedType DEF Unloaded
  <2>. QED
    BY <1>1, <2>2 DEF Unloaded, Moves, IInv, Shared, tiers, files
<1>3. Private'
  BY <1>1 DEF Unloaded, Moves, IInv, Shared, Private
<1>4. Guarded'
  BY <1>1, GuardKept DEF Unloaded, EvictSteps
<1>5. Holding' /\ Writing'
  BY <1>1 DEF Unloaded, Moves, IInv, Private, Holding, Writing, HoldSteps, WriteSteps
<1>. QED
  BY <1>2, <1>3, <1>4, <1>5 DEF IInv

LEMMA DropIndexKeeps ==
  ASSUME IInv, NEW t \in Threads, DropIndex(t)
  PROVE  IInv'
<1>1. PICK step \in {"delete"} : Moves(t, step)
  BY GoesMoves DEF DropIndex, Steps
<1>2. Shared'
  BY <1>1 DEF DropIndex, Moves, IInv, Shared, Private, tiers, files
<1>3. Private'
  BY <1>1 DEF DropIndex, Moves, IInv, Shared, Private
<1>4. Guarded'
  BY <1>1, GuardKept DEF DropIndex, EvictSteps
<1>5. Holding' /\ Writing'
  BY <1>1 DEF DropIndex, Moves, IInv, Private, Holding, Writing, HoldSteps, WriteSteps
<1>. QED
  BY <1>2, <1>3, <1>4, <1>5 DEF IInv

LEMMA DeleteKeeps ==
  ASSUME IInv, NEW t \in Threads, Delete(t)
  PROVE  IInv'
<1>1. PICK step \in {"idle"} : Moves(t, step)
  BY GoesMoves DEF Delete, Steps
<1>2. Shared'
  BY <1>1 DEF Delete, Moves, IInv, Shared, Private, tiers, files
<1>3. Private'
  BY <1>1 DEF Delete, Moves, IInv, Shared, Private
<1>4. Guarded'
  BY <1>1, GuardKept DEF Delete, EvictSteps
<1>5. Holding' /\ Writing'
  BY <1>1 DEF Delete, Moves, IInv, Private, Holding, Writing, HoldSteps, WriteSteps
<1>. QED
  BY <1>2, <1>3, <1>4, <1>5 DEF IInv

\* The invariant holds at the start.
LEMMA InitIInv == Init => IInv
<1>. SUFFICES ASSUME Init PROVE IInv
  OBVIOUS
<1>1. PICK k \in Keys :
        \E n \in [Keys -> Files] :
          /\ \A x, y \in Keys : n[x] = n[y] => x = y
          /\ \A x \in Keys : n[x] <= Cardinality(Keys)
          /\ path = n /\ Size[k] <= Budget
          /\ mem = [x \in Keys |-> IF x = k THEN 1 ELSE 0]
          /\ disk = Keys \ {k} /\ tmp = [x \in Keys |-> 0]
          /\ content = [f \in Files |-> IF f <= Cardinality(Keys) THEN 1 ELSE 0]
          /\ mem_bytes = Size[k] /\ guard = FALSE
          /\ at = [t \in Threads |-> "idle"] /\ key = [t \in Threads |-> k]
          /\ held = [t \in Threads |-> 0] /\ file = [t \in Threads |-> 0]
          /\ victim = [t \in Threads |-> k]
          /\ loads = 1 /\ calls = 0
          /\ latest = [x \in Keys |-> 1] /\ raced = {}
  BY Zenon DEF Init
<1>2. Size[k] \in 0 .. Word - 1
  <2>1. (Calls + 1) * Size[k] < Word /\ Size[k] \in Nat /\ Calls \in Nat /\ Word \in Nat
    BY Kinds, WordAssumption
  <2>2. PICK s \in Nat : s = Size[k]
    BY <2>1
  <2>3. s * (Calls + 1) = s * Calls + s /\ s * Calls \in Nat /\ (Calls + 1) * s = s * (Calls + 1)
    BY <2>1, MulSum
  <2>. QED
    BY <2>1, <2>2, <2>3
<1>3. PICK n \in [Keys -> Files] : path = n
  BY <1>1
<1>4. Shared
  <2>1. 0 \in 0 .. Versions /\ 1 \in 0 .. Versions /\ 0 \in 0 .. Calls
    BY Kinds
  <2>2. mem \in [Keys -> 0 .. Versions] /\ disk \subseteq Keys /\ latest \in [Keys -> 0 .. Versions]
    BY <1>1, <2>1
  <2>3. /\ path \in [Keys -> {0} \cup Files] /\ tmp \in [Keys -> {0} \cup Files]
        /\ content \in [Files -> 0 .. Versions]
    BY <1>1, <1>3, <2>1
  <2>. QED
    BY <1>1, <1>2, <2>1, <2>2, <2>3 DEF Shared
<1>5. Private
  BY <1>1, Kinds DEF Private, Steps
<1>6. Guarded /\ Holding /\ Writing
  BY <1>1 DEF Guarded, Holding, Writing, EvictSteps, HoldSteps, WriteSteps
<1>. QED
  BY <1>4, <1>5, <1>6 DEF IInv

\* Every step keeps it.
LEMMA NextKeeps == IInv /\ [Next]_vars => IInv'
<1>. SUFFICES ASSUME IInv, [Next]_vars PROVE IInv'
  OBVIOUS
<1>1. CASE Next
  <2>1. PICK t \in Threads : Step(t)
    BY <1>1 DEF Next
  <2>. QED
    BY <2>1, LoadKeeps, ResolveKeeps, UnloadKeeps, CreateKeeps, WriteKeeps, WriteFailsKeeps,
     RenameKeeps, ReplaceKeeps, SubtractKeeps, UnindexKeeps, InsertKeeps, AddKeeps,
     EvictKeeps, PickKeeps, SeveralKeeps, ChooseKeeps, TakeKeeps, EvictedKeeps, IndexKeeps,
     GetKeeps, LookKeeps, ReadKeeps, PromoteKeeps, PromotedKeeps, UnloadsKeeps, UnloadedKeeps,
     DropIndexKeeps, DeleteKeeps DEF Step
<1>2. CASE UNCHANGED vars
  <2>1. /\ UNCHANGED << mem, disk, path, tmp, content, mem_bytes, guard >>
        /\ UNCHANGED << at, key, held, file, victim, loads, calls, latest, raced >>
    BY <1>2 DEF vars, tiers, files, thread
  <2>2. Shared' /\ Private'
    BY <2>1 DEF IInv, Shared, Private
  <2>3. Guarded' /\ Holding' /\ Writing'
    BY <2>1 DEF IInv, Guarded, Holding, Writing
  <2>. QED
    BY <2>2, <2>3 DEF IInv
<1>. QED
  BY <1>1, <1>2

(* The invariant holds in every behaviour: the facts below rest on it.     *)
THEOREM Inductive == Spec => []IInv
BY InitIInv, NextKeeps, PTL DEF Spec

(* The tiers, the files and what each thread carries have their types, and *)
(* the guard is held while a thread evicts, however the calls interleave.  *)
THEOREM TypeCorrect == Spec => []TypeOK
BY Inductive, IInvTypes, PTL

-----------------------------------------------------------------------------
(* The byte count.  Apart from what a thread has taken out and not yet     *)
(* subtracted (Debt), put in and not yet added (Credit), and modulo the    *)
(* width of the counter, it covers what is in memory; and the bytes ever   *)
(* put there, those of the calls under way included (Coming), fit it.      *)

DebtOf(t) ==
  IF at[t] \in {"subtract", "unloaded"} THEN Size[key[t]]
  ELSE IF at[t] = "evicted" THEN Size[victim[t]] ELSE 0

CreditOf(t) == IF at[t] \in {"add", "count"} THEN Size[key[t]] ELSE 0

\* The share of the counter that every call has, and the start.
Share == (Word - 1) \div (Calls + 1)

Bringing == {"create", "write", "rename", "replace", "subtract", "unindex", "insert",
             "get", "look", "read", "promote"}

ComingOf(t) == IF at[t] \in Bringing THEN Share ELSE 0

Mass == [k \in Keys |-> IF mem[k] # 0 THEN Size[k] ELSE 0]
Debt == [t \in Threads |-> DebtOf(t)]
Credit == [t \in Threads |-> CreditOf(t)]
Coming == [t \in Threads |-> ComingOf(t)]

\* b counts q bytes less c, modulo Word; of the q, r are there and d owed; and
\* with e to come they are at most m.
Balance(b, r, d, c, e, m) ==
  \E q \in Nat, n \in Int : b + Word * n = q - c /\ r + d <= q /\ q + e <= m

Counting ==
  Balance(mem_bytes, SumOf(Mass), SumOf(Debt), SumOf(Credit), SumOf(Coming),
          Share * (calls + 1))

\* Every expert fits a call's share, and the shares fit the counter.
LEMMA ShareBounds ==
  /\ Share \in Nat /\ Share * (Calls + 1) < Word
  /\ \A k \in Keys : Size[k] \in Nat /\ Size[k] <= Share
<1>1. PICK w \in Nat \ {0} : w = Calls + 1
  BY Kinds
<1>2. PICK x \in Nat : x = Word - 1
  BY Kinds
<1>3. PICK s \in Nat : s = Share /\ w * s <= x /\ x < w * s + w
  BY <1>1, <1>2, DivBounds DEF Share
<1>4. Share * (Calls + 1) < Word
  BY <1>1, <1>2, <1>3, Kinds
<1>5. ASSUME NEW k \in Keys PROVE Size[k] \in Nat /\ Size[k] <= s
  <2>1. PICK z \in Nat : z = Size[k]
    BY Kinds
  <2>2. w * z < Word
    BY <1>1, <2>1, WordAssumption
  <2>. SUFFICES ASSUME s + 1 <= z PROVE FALSE
    BY <2>1
  <2>3. w * (s + 1) <= w * z /\ w * (s + 1) = w * s + w /\ w * z \in Nat
    BY <1>1, MulMono, MulSum
  <2>. QED
    BY <1>1, <1>2, <1>3, <2>2, <2>3, Kinds
<1>. QED
  BY <1>3, <1>4, <1>5

\* The counter turns over any number of times.
LEMMA TurnsOver ==
  ASSUME NEW n \in Int, NEW b \in Int, NEW c \in Int, c = (b + n) % Word
  PROVE  \E k \in Int : c + Word * k = b + n
<1>1. PICK x \in Int : x = b + n
  OBVIOUS
<1>2. Word \in Nat \ {0}
  BY Kinds
<1>3. x = Word * (x \div Word) + (x % Word) /\ x \div Word \in Int
  BY <1>2
<1>4. PICK k \in Int : k = x \div Word
  BY <1>3
<1>5. PICK y \in Int : y = Word * k
  BY <1>2
<1>6. c + Word * k = b + n
  BY <1>1, <1>3, <1>4, <1>5
<1>. QED
  BY <1>6

\* Nothing is counted, and no more is there, owed or to come.
LEMMA BalanceKept ==
  ASSUME NEW b \in Int, NEW r \in Nat, NEW d \in Nat, NEW c \in Nat, NEW e \in Nat, NEW m \in Nat,
         Balance(b, r, d, c, e, m),
         NEW r2 \in Nat, NEW d2 \in Nat, NEW e2 \in Nat, NEW m2 \in Nat,
         r2 + d2 <= r + d, e2 + m <= e + m2
  PROVE  Balance(b, r2, d2, c, e2, m2)
<1>1. PICK q \in Nat, n \in Int : b + Word * n = q - c /\ r + d <= q /\ q + e <= m
  BY DEF Balance
<1>2. r2 + d2 <= q /\ q + e2 <= m2
  BY <1>1
<1>. QED
  BY <1>1, <1>2 DEF Balance

\* s bytes are put in memory, to be added to the count.
LEMMA BalancePut ==
  ASSUME NEW b \in Int, NEW r \in Nat, NEW d \in Nat, NEW c \in Nat, NEW e \in Nat, NEW m \in Nat,
         Balance(b, r, d, c, e, m), NEW s \in Nat,
         NEW r2 \in Nat, NEW e2 \in Nat, r2 <= r + s, e2 + s <= e
  PROVE  Balance(b, r2, d, c + s, e2, m)
<1>1. PICK q \in Nat, n \in Int : b + Word * n = q - c /\ r + d <= q /\ q + e <= m
  BY DEF Balance
<1>2. PICK y \in Int : y = Word * n
  BY Kinds
<1>3. PICK p \in Nat : p = q + s
  OBVIOUS
<1>4. b + Word * n = p - (c + s) /\ r2 + d <= p /\ p + e2 <= m
  BY <1>1, <1>2, <1>3
<1>. QED
  BY <1>4 DEF Balance

\* They are added.
LEMMA BalanceAdded ==
  ASSUME NEW b \in Int, NEW r \in Nat, NEW d \in Nat, NEW c \in Nat, NEW e \in Nat, NEW m \in Nat,
         Balance(b, r, d, c, e, m), NEW s \in Nat,
         NEW c2 \in Nat, c2 + s = c, NEW b2 \in Int, b2 = (b + s) % Word
  PROVE  Balance(b2, r, d, c2, e, m)
<1>1. PICK q \in Nat, n \in Int : b + Word * n = q - c /\ r + d <= q /\ q + e <= m
  BY DEF Balance
<1>2. PICK k \in Int : b2 + Word * k = b + s
  BY TurnsOver
<1>3. Word * (n + k) = Word * n + Word * k /\ Word * n \in Int /\ Word * k \in Int
  BY Kinds
<1>4. n + k \in Int /\ b2 + Word * (n + k) = q - c2
  BY <1>1, <1>2, <1>3
<1>. QED
  BY <1>1, <1>4 DEF Balance

\* What was owed is subtracted.
LEMMA BalancePaid ==
  ASSUME NEW b \in Int, NEW r \in Nat, NEW d \in Nat, NEW c \in Nat, NEW e \in Nat, NEW m \in Nat,
         Balance(b, r, d, c, e, m), NEW s \in Nat,
         NEW d2 \in Nat, d2 + s = d, NEW b2 \in Int, b2 = (b + -s) % Word
  PROVE  Balance(b2, r, d2, c, e, m)
<1>1. PICK q \in Nat, n \in Int : b + Word * n = q - c /\ r + d <= q /\ q + e <= m
  BY DEF Balance
<1>2. PICK k \in Int : b2 + Word * k = b + -s
  BY TurnsOver
<1>3. Word * (n + k) = Word * n + Word * k /\ Word * n \in Int /\ Word * k \in Int
  BY Kinds
<1>4. PICK p \in Nat : p = q - s
  BY <1>1
<1>5. n + k \in Int /\ b2 + Word * (n + k) = p - c /\ r + d2 <= p /\ p + e <= m
  BY <1>1, <1>2, <1>3, <1>4
<1>. QED
  BY <1>5 DEF Balance

\* The sums.
LEMMA Sums ==
  ASSUME IInv
  PROVE  /\ Mass \in [Keys -> Nat] /\ Debt \in [Threads -> Nat]
         /\ Credit \in [Threads -> Nat] /\ Coming \in [Threads -> Nat]
         /\ SumOf(Mass) \in Nat /\ SumOf(Debt) \in Nat
         /\ SumOf(Credit) \in Nat /\ SumOf(Coming) \in Nat
         /\ mem_bytes \in Int /\ Share * (calls + 1) \in Nat
         /\ Share * ((calls + 1) + 1) = Share * (calls + 1) + Share
<1>1. Mass \in [Keys -> Nat]
  BY ShareBounds DEF Mass
<1>2. Debt \in [Threads -> Nat]
  BY ShareBounds DEF IInv, Private, Debt, DebtOf
<1>3. Credit \in [Threads -> Nat]
  BY ShareBounds DEF IInv, Private, Credit, CreditOf
<1>4. Coming \in [Threads -> Nat]
  BY ShareBounds DEF Coming, ComingOf
<1>5. SumOf(Mass) \in Nat /\ SumOf(Debt) \in Nat /\ SumOf(Credit) \in Nat /\ SumOf(Coming) \in Nat
  BY <1>1, <1>2, <1>3, <1>4, ExpertsAssumption, SumNat
<1>6. mem_bytes \in Int /\ calls \in Nat /\ Share \in Nat
  BY Kinds, ShareBounds DEF IInv, Shared
<1>7. PICK n \in Nat : n = calls + 1
  BY <1>6
<1>8. Share * n \in Nat /\ Share * (n + 1) = Share * n + Share
  BY <1>6, MulSum
<1>. QED
  BY <1>1, <1>2, <1>3, <1>4, <1>5, <1>6, <1>7, <1>8

\* A step changes what its own thread owes, and no other.
LEMMA ThreadSums ==
  ASSUME IInv, IInv', NEW t \in Threads, NEW step, Moves(t, step),
         \A u \in Threads \ {t} : key'[u] = key[u] /\ victim'[u] = victim[u]
  PROVE  /\ DebtOf(t) \in Nat /\ DebtOf(t)' \in Nat
         /\ SumOf(Debt)' + DebtOf(t) = SumOf(Debt) + DebtOf(t)'
         /\ CreditOf(t) \in Nat /\ CreditOf(t)' \in Nat
         /\ SumOf(Credit)' + CreditOf(t) = SumOf(Credit) + CreditOf(t)'
         /\ ComingOf(t) \in Nat /\ ComingOf(t)' \in Nat
         /\ SumOf(Coming)' + ComingOf(t) = SumOf(Coming) + ComingOf(t)'
<1>1. /\ Debt \in [Threads -> Nat] /\ Credit \in [Threads -> Nat] /\ Coming \in [Threads -> Nat]
      /\ Debt' \in [Threads -> Nat] /\ Credit' \in [Threads -> Nat] /\ Coming' \in [Threads -> Nat]
  <2>1. Debt \in [Threads -> Nat] /\ Credit \in [Threads -> Nat] /\ Coming \in [Threads -> Nat]
    BY Sums
  <2>2. Debt' \in [Threads -> Nat]
    BY ShareBounds DEF IInv, Private, Debt, DebtOf
  <2>3. Credit' \in [Threads -> Nat] /\ Coming' \in [Threads -> Nat]
    BY ShareBounds DEF IInv, Private, Credit, CreditOf, Coming, ComingOf
  <2>. QED
    BY <2>1, <2>2, <2>3
<1>2. \A u \in Threads \ {t} : at'[u] = at[u]
  BY DEF Moves, IInv, Private
<1>3. \A u \in Threads : u # t => Debt'[u] = Debt[u]
  BY <1>2 DEF Debt, DebtOf
<1>4. \A u \in Threads : u # t => Credit'[u] = Credit[u]
  BY <1>2 DEF Credit, CreditOf
<1>5. \A u \in Threads : u # t => Coming'[u] = Coming[u]
  BY <1>2 DEF Coming, ComingOf
<1>6. /\ SumOf(Debt') + Debt[t] = SumOf(Debt) + Debt'[t]
      /\ SumOf(Credit') + Credit[t] = SumOf(Credit) + Credit'[t]
      /\ SumOf(Coming') + Coming[t] = SumOf(Coming) + Coming'[t]
  BY <1>1, <1>3, <1>4, <1>5, ExpertsAssumption, SumReplaced
<1>7. /\ Debt[t] = DebtOf(t) /\ Debt'[t] = DebtOf(t)'
      /\ Credit[t] = CreditOf(t) /\ Credit'[t] = CreditOf(t)'
      /\ Coming[t] = ComingOf(t) /\ Coming'[t] = ComingOf(t)'
  BY DEF Debt, Credit, Coming
<1>. QED
  <2>1. SumOf(Debt)' = SumOf(Debt') /\ SumOf(Credit)' = SumOf(Credit') /\ SumOf(Coming)' = SumOf(Coming')
    OBVIOUS
  <2>. QED
    BY <1>1, <1>6, <1>7, <2>1

\* What the sums are before and after a step of t.
LEMMA Before ==
  ASSUME IInv, Counting
  PROVE  \E b \in Int, r \in Nat, d \in Nat, c \in Nat, e \in Nat, m \in Nat :
           /\ b = mem_bytes /\ r = SumOf(Mass) /\ d = SumOf(Debt) /\ c = SumOf(Credit)
           /\ e = SumOf(Coming) /\ m = Share * (calls + 1)
           /\ Balance(b, r, d, c, e, m)
BY Sums DEF Counting

LEMMA After ==
  ASSUME IInv'
  PROVE  /\ SumOf(Mass)' \in Nat /\ SumOf(Debt)' \in Nat /\ SumOf(Credit)' \in Nat
         /\ SumOf(Coming)' \in Nat /\ mem_bytes' \in Int /\ (Share * (calls + 1))' \in Nat
         /\ Mass' \in [Keys -> Nat]
<1>1. Mass' \in [Keys -> Nat] /\ Coming' \in [Threads -> Nat]
  BY ShareBounds DEF Mass, Coming, ComingOf
<1>2. Debt' \in [Threads -> Nat]
  BY ShareBounds DEF IInv, Private, Debt, DebtOf
<1>3. Credit' \in [Threads -> Nat]
  BY ShareBounds DEF IInv, Private, Credit, CreditOf
<1>4. SumOf(Mass') \in Nat /\ SumOf(Debt') \in Nat /\ SumOf(Credit') \in Nat /\ SumOf(Coming') \in Nat
  BY <1>1, <1>2, <1>3, ExpertsAssumption, SumNat
<1>5. mem_bytes' \in Int /\ calls' \in Nat /\ Share \in Nat
  BY Kinds, ShareBounds DEF IInv, Shared
<1>6. Share * (calls' + 1) \in Nat
  <2>1. PICK n \in Nat : n = calls'
    BY <1>5
  <2>2. n + 1 \in Nat /\ Share * (n + 1) \in Nat
    BY <1>5, MulSum
  <2>. QED
    BY <2>1, <2>2
<1>. QED
  BY <1>1, <1>4, <1>5, <1>6

\* A step that neither counts, nor moves an expert, nor begins a call.
LEMMA StillCounts ==
  ASSUME IInv, IInv', Counting, NEW t \in Threads, NEW step, Moves(t, step),
         \A u \in Threads \ {t} : key'[u] = key[u] /\ victim'[u] = victim[u],
         UNCHANGED << mem, mem_bytes, calls >>,
         DebtOf(t)' = 0, CreditOf(t)' = 0, CreditOf(t) = 0, ComingOf(t)' <= ComingOf(t)
  PROVE  Counting'
<1>1. PICK b \in Int, r \in Nat, d \in Nat, c \in Nat, e \in Nat, m \in Nat :
        /\ b = mem_bytes /\ r = SumOf(Mass) /\ d = SumOf(Debt) /\ c = SumOf(Credit)
        /\ e = SumOf(Coming) /\ m = Share * (calls + 1)
        /\ Balance(b, r, d, c, e, m)
  BY Before
<1>2. PICK r2 \in Nat, d2 \in Nat, c2 \in Nat, e2 \in Nat :
        /\ r2 = SumOf(Mass)' /\ d2 = SumOf(Debt)'
        /\ c2 = SumOf(Credit)' /\ e2 = SumOf(Coming)'
  BY After
<1>3. /\ d2 + DebtOf(t) = d + DebtOf(t)' /\ c2 + CreditOf(t) = c + CreditOf(t)'
      /\ e2 + ComingOf(t) = e + ComingOf(t)'
      /\ DebtOf(t) \in Nat /\ CreditOf(t) \in Nat /\ ComingOf(t) \in Nat
      /\ DebtOf(t)' \in Nat /\ CreditOf(t)' \in Nat /\ ComingOf(t)' \in Nat
  BY <1>1, <1>2, ThreadSums
<1>4. r2 = r
  BY <1>1, <1>2 DEF Mass
<1>5. c2 = c /\ r2 + d2 <= r + d /\ e2 + m <= e + m
  BY <1>3, <1>4
<1>6. Balance(b, r2, d2, c, e2, m)
  BY <1>1, <1>5, BalanceKept
<1>7. mem_bytes' = b /\ (Share * (calls + 1))' = m
  BY <1>1
<1>. QED
  BY <1>2, <1>5, <1>6, <1>7 DEF Counting

\* A call begins, and with it the share of the counter it may use.
LEMMA BegunCounts ==
  ASSUME IInv, IInv', Counting, NEW t \in Threads, NEW step, Moves(t, step),
         \A u \in Threads \ {t} : key'[u] = key[u] /\ victim'[u] = victim[u],
         UNCHANGED << mem, mem_bytes >>, calls' = calls + 1,
         at[t] = "idle", step \notin {"add", "count", "subtract", "unloaded", "evicted"}
  PROVE  Counting'
<1>1. PICK b \in Int, r \in Nat, d \in Nat, c \in Nat, e \in Nat, m \in Nat :
        /\ b = mem_bytes /\ r = SumOf(Mass) /\ d = SumOf(Debt) /\ c = SumOf(Credit)
        /\ e = SumOf(Coming) /\ m = Share * (calls + 1)
        /\ Balance(b, r, d, c, e, m)
  BY Before
<1>2. PICK r2 \in Nat, d2 \in Nat, c2 \in Nat, e2 \in Nat :
        /\ r2 = SumOf(Mass)' /\ d2 = SumOf(Debt)'
        /\ c2 = SumOf(Credit)' /\ e2 = SumOf(Coming)'
  BY After
<1>3. /\ d2 + DebtOf(t) = d + DebtOf(t)' /\ c2 + CreditOf(t) = c + CreditOf(t)'
      /\ e2 + ComingOf(t) = e + ComingOf(t)'
      /\ DebtOf(t) \in Nat /\ CreditOf(t) \in Nat /\ ComingOf(t) \in Nat
      /\ DebtOf(t)' \in Nat /\ CreditOf(t)' \in Nat /\ ComingOf(t)' \in Nat
  BY <1>1, <1>2, ThreadSums
<1>4. r2 = r
  BY <1>1, <1>2 DEF Mass
<1>5. at'[t] = step
  BY DEF Moves, IInv, Private
<1>6. /\ DebtOf(t) = 0 /\ DebtOf(t)' = 0 /\ CreditOf(t) = 0 /\ CreditOf(t)' = 0
      /\ ComingOf(t) = 0 /\ ComingOf(t)' <= Share /\ Share \in Nat
  BY <1>5, ShareBounds DEF DebtOf, CreditOf, ComingOf, Bringing
<1>7. PICK s \in Nat : s = Share
  BY <1>6
<1>8. c2 = c /\ d2 = d /\ e2 <= e + s
  BY <1>3, <1>6, <1>7
<1>9. Balance(b, r2, d2, c, e2, m + s)
  <2>1. r2 + d2 <= r + d /\ e2 + m <= e + (m + s) /\ m + s \in Nat
    BY <1>4, <1>8
  <2>. QED
    BY <1>1, <2>1, BalanceKept
<1>10. mem_bytes' = b /\ (Share * (calls + 1))' = m + s
  BY <1>1, <1>7, Sums
<1>. QED
  BY <1>2, <1>8, <1>9, <1>10 DEF Counting

\* An expert is taken out of memory, to be subtracted if it was there.
LEMMA TakenOutCounts ==
  ASSUME IInv, IInv', Counting, NEW t \in Threads, NEW step, Moves(t, step),
         UNCHANGED << key, victim, mem_bytes, calls >>, NEW k \in Keys, TakenOut(k),
         DebtOf(t) = 0, DebtOf(t)' = IF mem[k] # 0 THEN Size[k] ELSE 0,
         CreditOf(t) = 0, CreditOf(t)' = 0, ComingOf(t)' <= ComingOf(t)
  PROVE  Counting'
<1>1. PICK b \in Int, r \in Nat, d \in Nat, c \in Nat, e \in Nat, m \in Nat :
        /\ b = mem_bytes /\ r = SumOf(Mass) /\ d = SumOf(Debt) /\ c = SumOf(Credit)
        /\ e = SumOf(Coming) /\ m = Share * (calls + 1)
        /\ Balance(b, r, d, c, e, m)
  BY Before
<1>2. PICK r2 \in Nat, d2 \in Nat, c2 \in Nat, e2 \in Nat :
        /\ r2 = SumOf(Mass)' /\ d2 = SumOf(Debt)'
        /\ c2 = SumOf(Credit)' /\ e2 = SumOf(Coming)'
  BY After
<1>3. /\ d2 + DebtOf(t) = d + DebtOf(t)' /\ c2 + CreditOf(t) = c + CreditOf(t)'
      /\ e2 + ComingOf(t) = e + ComingOf(t)'
      /\ DebtOf(t) \in Nat /\ CreditOf(t) \in Nat /\ ComingOf(t) \in Nat
      /\ DebtOf(t)' \in Nat /\ CreditOf(t)' \in Nat /\ ComingOf(t)' \in Nat
  BY <1>1, <1>2, ThreadSums
<1>4. r2 + Mass[k] = r
  <2>1. Mass \in [Keys -> Nat] /\ Mass' \in [Keys -> Nat]
    BY Sums, After
  <2>2. mem' = [mem EXCEPT ![k] = 0] /\ mem \in [Keys -> 0 .. Versions]
    BY DEF TakenOut, IInv, Shared
  <2>3. Mass'[k] = 0 /\ \A x \in Keys : x # k => Mass'[x] = Mass[x]
    BY <2>2 DEF Mass
  <2>4. SumOf(Mass') + Mass[k] = SumOf(Mass) + Mass'[k]
    BY <2>1, <2>3, ExpertsAssumption, SumReplaced
  <2>5. SumOf(Mass)' = SumOf(Mass')
    OBVIOUS
  <2>. QED
    BY <1>1, <1>2, <2>3, <2>4, <2>5
<1>5. Mass[k] = DebtOf(t)'
  BY DEF Mass
<1>6. c2 = c /\ r2 + d2 <= r + d /\ e2 + m <= e + m
  BY <1>3, <1>4, <1>5
<1>7. Balance(b, r2, d2, c, e2, m)
  BY <1>1, <1>6, BalanceKept
<1>8. mem_bytes' = b /\ (Share * (calls + 1))' = m
  BY <1>1
<1>. QED
  BY <1>2, <1>6, <1>7, <1>8 DEF Counting

\* An expert is put in memory, to be added.
LEMMA PutInCounts ==
  ASSUME IInv, IInv', Counting, NEW t \in Threads, NEW step, Moves(t, step),
         UNCHANGED << key, victim, mem_bytes, calls >>, NEW k \in Keys, NEW v, PutIn(k, v),
         DebtOf(t) = 0, DebtOf(t)' = 0, CreditOf(t) = 0, CreditOf(t)' = Size[k],
         ComingOf(t) = Share, ComingOf(t)' = 0
  PROVE  Counting'
<1>1. PICK b \in Int, r \in Nat, d \in Nat, c \in Nat, e \in Nat, m \in Nat :
        /\ b = mem_bytes /\ r = SumOf(Mass) /\ d = SumOf(Debt) /\ c = SumOf(Credit)
        /\ e = SumOf(Coming) /\ m = Share * (calls + 1)
        /\ Balance(b, r, d, c, e, m)
  BY Before
<1>2. PICK r2 \in Nat, d2 \in Nat, c2 \in Nat, e2 \in Nat :
        /\ r2 = SumOf(Mass)' /\ d2 = SumOf(Debt)'
        /\ c2 = SumOf(Credit)' /\ e2 = SumOf(Coming)'
  BY After
<1>3. /\ d2 + DebtOf(t) = d + DebtOf(t)' /\ c2 + CreditOf(t) = c + CreditOf(t)'
      /\ e2 + ComingOf(t) = e + ComingOf(t)'
      /\ DebtOf(t) \in Nat /\ CreditOf(t) \in Nat /\ ComingOf(t) \in Nat
      /\ DebtOf(t)' \in Nat /\ CreditOf(t)' \in Nat /\ ComingOf(t)' \in Nat
  BY <1>1, <1>2, ThreadSums
<1>4. PICK s \in Nat : s = Size[k] /\ s <= Share /\ Share \in Nat
  BY ShareBounds
<1>5. r2 <= r + s
  <2>1. Mass \in [Keys -> Nat] /\ Mass' \in [Keys -> Nat]
    BY Sums, After
  <2>2. mem' = [mem EXCEPT ![k] = v] /\ mem \in [Keys -> 0 .. Versions]
    BY DEF PutIn, IInv, Shared
  <2>3. Mass'[k] <= s /\ \A x \in Keys : x # k => Mass'[x] = Mass[x]
    BY <1>4, <2>2 DEF Mass
  <2>4. SumOf(Mass') + Mass[k] = SumOf(Mass) + Mass'[k]
    BY <2>1, <2>3, ExpertsAssumption, SumReplaced
  <2>5. SumOf(Mass)' = SumOf(Mass') /\ Mass[k] \in Nat /\ Mass'[k] \in Nat
    BY <2>1
  <2>. QED
    BY <1>1, <1>2, <1>4, <2>3, <2>4, <2>5
<1>6. c2 = c + s /\ d2 = d /\ e2 + s <= e
  BY <1>3, <1>4
<1>7. Balance(b, r2, d, c + s, e2, m)
  BY <1>1, <1>4, <1>5, <1>6, BalancePut
<1>8. mem_bytes' = b /\ (Share * (calls + 1))' = m
  BY <1>1
<1>. QED
  BY <1>2, <1>6, <1>7, <1>8 DEF Counting

\* It is added.
LEMMA AddedCounts ==
  ASSUME IInv, IInv', Counting, NEW t \in Threads, NEW step, Moves(t, step),
         UNCHANGED << mem, key, victim, calls >>, NEW s \in Nat, Counted(s),
         DebtOf(t) = 0, DebtOf(t)' = 0, CreditOf(t) = s, CreditOf(t)' = 0,
         ComingOf(t) = 0, ComingOf(t)' = 0
  PROVE  Counting'
<1>1. PICK b \in Int, r \in Nat, d \in Nat, c \in Nat, e \in Nat, m \in Nat :
        /\ b = mem_bytes /\ r = SumOf(Mass) /\ d = SumOf(Debt) /\ c = SumOf(Credit)
        /\ e = SumOf(Coming) /\ m = Share * (calls + 1)
        /\ Balance(b, r, d, c, e, m)
  BY Before
<1>2. PICK r2 \in Nat, d2 \in Nat, c2 \in Nat, e2 \in Nat :
        /\ r2 = SumOf(Mass)' /\ d2 = SumOf(Debt)'
        /\ c2 = SumOf(Credit)' /\ e2 = SumOf(Coming)'
  BY After
<1>3. /\ d2 + DebtOf(t) = d + DebtOf(t)' /\ c2 + CreditOf(t) = c + CreditOf(t)'
      /\ e2 + ComingOf(t) = e + ComingOf(t)'
      /\ DebtOf(t) \in Nat /\ CreditOf(t) \in Nat /\ ComingOf(t) \in Nat
      /\ DebtOf(t)' \in Nat /\ CreditOf(t)' \in Nat /\ ComingOf(t)' \in Nat
  BY <1>1, <1>2, ThreadSums
<1>4. r2 = r
  BY <1>1, <1>2 DEF Mass
<1>5. c2 + s = c /\ d2 = d /\ e2 = e
  BY <1>3
<1>6. PICK b2 \in Int : b2 = mem_bytes' /\ b2 = (b + s) % Word
  BY <1>1, After DEF Counted
<1>7. Balance(b2, r, d, c2, e, m)
  BY <1>1, <1>5, <1>6, BalanceAdded
<1>8. (Share * (calls + 1))' = m
  BY <1>1
<1>. QED
  BY <1>2, <1>4, <1>5, <1>6, <1>7, <1>8 DEF Counting

\* It is subtracted.
LEMMA PaidCounts ==
  ASSUME IInv, IInv', Counting, NEW t \in Threads, NEW step, Moves(t, step),
         UNCHANGED << mem, key, victim, calls >>, NEW s \in Nat, Counted(-s),
         DebtOf(t) = s, DebtOf(t)' = 0, CreditOf(t) = 0, CreditOf(t)' = 0,
         ComingOf(t)' = ComingOf(t)
  PROVE  Counting'
<1>1. PICK b \in Int, r \in Nat, d \in Nat, c \in Nat, e \in Nat, m \in Nat :
        /\ b = mem_bytes /\ r = SumOf(Mass) /\ d = SumOf(Debt) /\ c = SumOf(Credit)
        /\ e = SumOf(Coming) /\ m = Share * (calls + 1)
        /\ Balance(b, r, d, c, e, m)
  BY Before
<1>2. PICK r2 \in Nat, d2 \in Nat, c2 \in Nat, e2 \in Nat :
        /\ r2 = SumOf(Mass)' /\ d2 = SumOf(Debt)'
        /\ c2 = SumOf(Credit)' /\ e2 = SumOf(Coming)'
  BY After
<1>3. /\ d2 + DebtOf(t) = d + DebtOf(t)' /\ c2 + CreditOf(t) = c + CreditOf(t)'
      /\ e2 + ComingOf(t) = e + ComingOf(t)'
      /\ DebtOf(t) \in Nat /\ CreditOf(t) \in Nat /\ ComingOf(t) \in Nat
      /\ DebtOf(t)' \in Nat /\ CreditOf(t)' \in Nat /\ ComingOf(t)' \in Nat
  BY <1>1, <1>2, ThreadSums
<1>4. r2 = r
  BY <1>1, <1>2 DEF Mass
<1>5. c2 = c /\ d2 + s = d /\ e2 = e
  BY <1>3
<1>6. PICK b2 \in Int : b2 = mem_bytes' /\ b2 = (b + -s) % Word
  BY <1>1, After DEF Counted
<1>7. Balance(b2, r, d2, c, e, m)
  BY <1>1, <1>5, <1>6, BalancePaid
<1>8. (Share * (calls + 1))' = m
  BY <1>1
<1>. QED
  BY <1>2, <1>4, <1>5, <1>6, <1>7, <1>8 DEF Counting

\* A step moves its own thread.
LEMMA StepMoves ==
  ASSUME IInv, NEW t \in Threads, Step(t)
  PROVE  \E step \in Steps : Moves(t, step)
BY GoesMoves DEF Step, Begins, Steps, Load, Resolve, Unload, Create, Write, WriteFails, Rename,
   Replace, Subtract, Unindex, Insert, Add, Evict, Pick, Leaves, Several, Choose, Take, Evicted,
   Index, Get, Look, Read, Promote, Promoted, Unloads, Unloaded, DropIndex, Delete

\* A step keeps the balance: it counts what it moves, or owes it.
LEMMA NextCounts ==
  ASSUME IInv, IInv', Counting, NEW t \in Threads, Step(t)
  PROVE  Counting'
<1>. USE DEF tiers, files, DebtOf, CreditOf, ComingOf, Bringing
<1>1. PICK step \in Steps : Moves(t, step)
  BY StepMoves
<1>2. at' = [at EXCEPT ![t] = step] /\ at'[t] = step
  BY <1>1 DEF Moves, IInv, Private
<1>3. \A k \in Keys : Size[k] \in Nat /\ Share \in Nat
  BY ShareBounds
<1>4. key[t] \in Keys /\ victim[t] \in Keys
  BY DEF IInv, Private
<1>5. CASE \E k \in Keys : Load(t, k)
  <2>1. /\ at[t] = "idle" /\ calls' = calls + 1 /\ UNCHANGED << mem, mem_bytes >>
        /\ step \in {"create", "get", "unload"}
        /\ \A u \in Threads \ {t} : key'[u] = key[u] /\ victim'[u] = victim[u]
    BY <1>2, <1>5 DEF Load, Begins, Goes, IInv, Private
  <2>. QED
    BY <1>1, <2>1, BegunCounts
<1>6. CASE \E k \in Keys : Resolve(t, k)
  <2>1. /\ at[t] = "idle" /\ calls' = calls + 1 /\ UNCHANGED << mem, mem_bytes >>
        /\ step \in {"create", "get", "unload"}
        /\ \A u \in Threads \ {t} : key'[u] = key[u] /\ victim'[u] = victim[u]
    BY <1>2, <1>6 DEF Resolve, Begins, Goes, IInv, Private
  <2>. QED
    BY <1>1, <2>1, BegunCounts
<1>7. CASE \E k \in Keys : Unload(t, k)
  <2>1. /\ at[t] = "idle" /\ calls' = calls + 1 /\ UNCHANGED << mem, mem_bytes >>
        /\ step \in {"create", "get", "unload"}
        /\ \A u \in Threads \ {t} : key'[u] = key[u] /\ victim'[u] = victim[u]
    BY <1>2, <1>7 DEF Unload, Begins, Goes, IInv, Private
  <2>. QED
    BY <1>1, <2>1, BegunCounts
<1>8. CASE Create(t)
  BY <1>1, <1>2, <1>3, <1>8, StillCounts DEF Create, Goes, IInv, Private
<1>9. CASE Write(t)
  BY <1>1, <1>2, <1>3, <1>9, StillCounts DEF Write, Goes, IInv, Private
<1>10. CASE WriteFails(t)
  BY <1>1, <1>2, <1>3, <1>10, StillCounts DEF WriteFails, Goes, IInv, Private
<1>11. CASE Rename(t)
  BY <1>1, <1>2, <1>3, <1>11, StillCounts DEF Rename, Goes, IInv, Private
<1>12. CASE Unindex(t)
  BY <1>1, <1>2, <1>3, <1>12, StillCounts DEF Unindex, Goes, IInv, Private
<1>13. CASE Evict(t)
  BY <1>1, <1>2, <1>3, <1>13, StillCounts DEF Evict, Goes, IInv, Private
<1>14. CASE Pick(t) \/ Several(t) \/ Choose(t)
  <2>1. /\ at[t] \in {"pick", "len", "choose"} /\ step \in {"len", "choose", "take", "idle"}
        /\ UNCHANGED << mem, mem_bytes, calls >>
        /\ \A u \in Threads \ {t} : key'[u] = key[u] /\ victim'[u] = victim[u]
    <3>1. CASE Pick(t) \/ Several(t)
      BY <1>2, <3>1 DEF Pick, Several, Leaves, Goes, IInv, Private
    <3>2. CASE Choose(t)
      BY <1>2, <3>2 DEF Choose, Leaves, Goes, IInv, Private
    <3>. QED
      BY <1>14, <3>1, <3>2
  <2>. QED
    BY <1>1, <1>2, <2>1, StillCounts
<1>15. CASE Index(t)
  BY <1>1, <1>2, <1>3, <1>15, StillCounts DEF Index, Goes, IInv, Private
<1>16. CASE Get(t)
  BY <1>1, <1>2, <1>3, <1>16, StillCounts DEF Get, Goes, IInv, Private
<1>17. CASE Look(t)
  BY <1>1, <1>2, <1>3, <1>17, StillCounts DEF Look, Goes, IInv, Private
<1>18. CASE Read(t)
  BY <1>1, <1>2, <1>3, <1>18, StillCounts DEF Read, Goes, IInv, Private
<1>19. CASE Promoted(t)
  BY <1>1, <1>2, <1>3, <1>19, StillCounts DEF Promoted, Goes, IInv, Private
<1>20. CASE DropIndex(t)
  BY <1>1, <1>2, <1>3, <1>20, StillCounts DEF DropIndex, Goes, IInv, Private
<1>21. CASE Delete(t)
  BY <1>1, <1>2, <1>3, <1>21, StillCounts DEF Delete, Goes, IInv, Private
<1>22. CASE Replace(t)
  BY <1>1, <1>2, <1>3, <1>4, <1>22, TakenOutCounts DEF Replace, Goes, IInv, Private
<1>23. CASE Take(t)
  BY <1>1, <1>2, <1>3, <1>4, <1>23, TakenOutCounts DEF Take, Goes, IInv, Private
<1>24. CASE Unloads(t)
  BY <1>1, <1>2, <1>3, <1>4, <1>24, TakenOutCounts DEF Unloads, Goes, IInv, Private
<1>25. CASE Insert(t)
  BY <1>1, <1>2, <1>3, <1>4, <1>25, PutInCounts DEF Insert, Goes, IInv, Private
<1>26. CASE Promote(t)
  BY <1>1, <1>2, <1>3, <1>4, <1>26, PutInCounts DEF Promote, Goes, IInv, Private
<1>27. CASE Add(t)
  BY <1>1, <1>2, <1>3, <1>4, <1>27, AddedCounts DEF Add, Goes, IInv, Private
<1>28. CASE Subtract(t)
  BY <1>1, <1>2, <1>3, <1>4, <1>28, PaidCounts DEF Subtract, Goes, IInv, Private
<1>29. CASE Evicted(t)
  BY <1>1, <1>2, <1>3, <1>4, <1>29, PaidCounts DEF Evicted, Goes, IInv, Private
<1>30. CASE Unloaded(t)
  BY <1>1, <1>2, <1>3, <1>4, <1>30, PaidCounts DEF Unloaded, Goes, IInv, Private
<1>. QED
  BY <1>5, <1>6, <1>7, <1>8, <1>9, <1>10, <1>11, <1>12, <1>13, <1>14, <1>15, <1>16,
     <1>17, <1>18, <1>19, <1>20, <1>21, <1>22, <1>23, <1>24, <1>25, <1>26, <1>27,
     <1>28, <1>29, <1>30 DEF Step

\* The bytes in memory are the sum of what each expert takes there.
LEMMA ResidentSum == Resident = SumOf(Mass)
<1>1. Resident = (CHOOSE iter : SumsUp(iter, Size, InMemory))[InMemory]
  BY Zenon DEF Resident, MapThenSumSet, MapThenFoldSet, SumsUp, Taken
<1>2. PICK iter : iter = CHOOSE i : SumsUp(i, Size, InMemory)
  OBVIOUS
<1>3. PICK f \in [Keys -> Nat], T \in SUBSET Keys : f = Size /\ T = InMemory
  BY ExpertsAssumption DEF InMemory
<1>4. IsFiniteSet(T)
  BY <1>3, ExpertsAssumption, FS_Subset
<1>5. iter = CHOOSE i : SumsUp(i, f, T)
  BY <1>2, <1>3
<1>6. SumsUp(iter, f, T)
  BY <1>4, <1>5, SumExists
<1>7. Accumulates(iter, f, T)
  BY <1>6 DEF SumsUp, Accumulates
<1>8. iter[T] = SumOf(PartOf(f, T))
  BY <1>7, ExpertsAssumption, SumOfPart
<1>9. PartOf(f, T) = Mass
  BY <1>3 DEF PartOf, Mass, InMemory
<1>. QED
  BY <1>1, <1>2, <1>3, <1>8, <1>9

\* The count is right at the start.
LEMMA InitCounts == Init => Counting
<1>. SUFFICES ASSUME Init PROVE Counting
  OBVIOUS
<1>1. IInv
  BY InitIInv
<1>2. PICK k \in Keys : /\ mem = [x \in Keys |-> IF x = k THEN 1 ELSE 0] /\ mem_bytes = Size[k]
                        /\ at = [t \in Threads |-> "idle"] /\ calls = 0
  BY Zenon DEF Init
<1>3. SumOf(Debt) = 0 /\ SumOf(Credit) = 0 /\ SumOf(Coming) = 0
  <2>1. \A t \in Threads : Debt[t] = 0 /\ Credit[t] = 0 /\ Coming[t] = 0
    BY <1>2 DEF Debt, DebtOf, Credit, CreditOf, Coming, ComingOf, Bringing
  <2>. QED
    BY <1>1, <2>1, Sums, SumZero, ExpertsAssumption
<1>4. SumOf(Mass) = Size[k]
  <2>1. PICK z \in [Keys -> Nat] : z = [x \in Keys |-> 0]
    OBVIOUS
  <2>2. SumOf(z) = 0
    BY <2>1, SumZero, ExpertsAssumption
  <2>3. Mass \in [Keys -> Nat] /\ Mass[k] = Size[k] /\ \A x \in Keys : x # k => Mass[x] = z[x]
    BY <1>1, <1>2, <2>1, Sums DEF Mass
  <2>4. SumOf(Mass) + z[k] = SumOf(z) + Mass[k]
    BY <2>3, SumReplaced, ExpertsAssumption
  <2>. QED
    BY <1>1, <2>1, <2>2, <2>3, <2>4, Sums, ShareBounds
<1>5. PICK s \in Nat, h \in Nat : s = Size[k] /\ h = Share /\ s <= h
  BY ShareBounds
<1>6. h * (0 + 1) = h /\ Word * 0 = 0
  BY Kinds
<1>7. Balance(s, s, 0, 0, 0, h)
  BY <1>5, <1>6 DEF Balance
<1>. QED
  BY <1>2, <1>3, <1>4, <1>5, <1>6, <1>7 DEF Counting

-----------------------------------------------------------------------------
(* The budget.                                                             *)

\* The steps after which an eviction is still to come.
Owing == {"add", "evict", "pick", "len", "choose", "take", "evicted", "index", "count", "promoted"}

Fits == SumOf(Mass) <= Budget \/ Cardinality(InMemory) <= 1

\* With none to come what is in memory fits.
Fitting == (\A t \in Threads : at[t] \notin Owing) => Fits

\* With nothing put in and not added the count covers what is in memory.
LEMMA Covered ==
  ASSUME IInv, Counting, \A t \in Threads : at[t] \notin {"add", "count"}
  PROVE  SumOf(Mass) <= mem_bytes
<1>1. SumOf(Credit) = 0
  <2>1. \A t \in Threads : Credit[t] = 0
    BY DEF Credit, CreditOf
  <2>. QED
    BY <2>1, Sums, SumZero, ExpertsAssumption
<1>2. PICK b \in Int, r \in Nat, d \in Nat, c \in Nat, e \in Nat, m \in Nat :
        /\ b = mem_bytes /\ r = SumOf(Mass) /\ d = SumOf(Debt) /\ c = SumOf(Credit)
        /\ e = SumOf(Coming) /\ m = Share * (calls + 1)
        /\ Balance(b, r, d, c, e, m)
  BY Before
<1>3. PICK q \in Nat, n \in Int : b + Word * n = q - c /\ r + d <= q /\ q + e <= m
  BY <1>2 DEF Balance
<1>4. b >= 0 /\ b < Word
  BY <1>2, Kinds DEF IInv, Shared
<1>5. m < Word
  <2>1. PICK s \in Nat, x \in Nat, y \in Nat : s = Share /\ x = calls + 1 /\ y = Calls + 1 /\ x <= y
    BY ShareBounds, Kinds DEF IInv, Shared
  <2>2. s * x <= s * y /\ s * x \in Nat /\ s * y \in Nat
    BY <2>1, MulMono, MulSum
  <2>. QED
    BY <1>2, <2>1, <2>2, ShareBounds, Kinds
<1>6. q = b + Word * n /\ q < Word /\ q \in Nat
  BY <1>1, <1>2, <1>3, <1>5, Kinds
<1>7. n = 0
  <2>1. PICK w \in Nat : w = Word /\ w # 0
    BY Kinds
  <2>2. CASE n >= 1
    <3>1. PICK a \in Nat : n = a + 1
      BY <2>2
    <3>2. w * (a + 1) = w * a + w /\ w * a \in Nat
      BY <2>1, MulSum
    <3>. QED
      BY <1>4, <1>6, <2>1, <3>1, <3>2
  <2>3. CASE n <= -1
    <3>1. PICK a \in Nat : n = -(a + 1)
      <4>1. -n - 1 \in Nat /\ n = -((-n - 1) + 1)
        BY <2>3
      <4>. QED
        BY <4>1
    <3>2. w * (a + 1) = w * a + w /\ w * a \in Nat
      BY <2>1, MulSum
    <3>3. w * n = -(w * (a + 1))
      BY <2>1, <3>1
    <3>. QED
      BY <1>4, <1>6, <2>1, <3>2, <3>3
  <2>. QED
    BY <2>2, <2>3
<1>8. q = b
  BY <1>6, <1>7, Kinds, <1>2
<1>. QED
  BY <1>2, <1>3, <1>8

\* No element or one of them: at most one.
LEMMA AtMostOne ==
  ASSUME NEW M, M = {} \/ \E k \in M : M = {k}
  PROVE  Cardinality(M) <= 1
<1>1. CASE M = {}
  <2>1. Cardinality(M) = 0
    BY <1>1, FS_EmptySet
  <2>. QED
    BY <2>1
<1>2. CASE \E k \in M : M = {k}
  <2>1. PICK k \in M : M = {k}
    BY <1>2
  <2>2. Cardinality({k}) = 1
    BY FS_Singleton
  <2>. QED
    BY <2>1, <2>2
<1>. QED
  BY <1>1, <1>2

\* Less in memory fits as well.
LEMMA FewerFit ==
  ASSUME IInv, IInv', Fits, \A k \in Keys : mem'[k] = mem[k] \/ mem'[k] = 0
  PROVE  Fits'
<1>1. /\ Mass \in [Keys -> Nat] /\ Mass' \in [Keys -> Nat]
      /\ \A k \in Keys : Mass'[k] <= Mass[k]
  <2>1. Mass \in [Keys -> Nat] /\ Mass' \in [Keys -> Nat]
    BY Sums, After
  <2>2. \A k \in Keys : Size[k] \in Nat
    BY Kinds
  <2>. QED
    BY <2>1, <2>2 DEF Mass
<1>2. SumOf(Mass') <= SumOf(Mass) /\ SumOf(Mass') \in Nat /\ SumOf(Mass) \in Nat
  BY <1>1, SumLeq, SumNat, ExpertsAssumption
<1>3. InMemory' \subseteq InMemory /\ IsFiniteSet(InMemory)
  BY ExpertsAssumption, FS_Subset DEF InMemory
<1>4. /\ Cardinality(InMemory') <= Cardinality(InMemory)
      /\ Cardinality(InMemory') \in Nat /\ Cardinality(InMemory) \in Nat
  BY <1>3, FS_Subset, FS_CardinalityType
<1>5. SumOf(Mass)' = SumOf(Mass') /\ Cardinality(InMemory)' = Cardinality(InMemory')
  OBVIOUS
<1>6. Budget \in Nat
  BY ExpertsAssumption
<1>. QED
  BY <1>2, <1>4, <1>5, <1>6 DEF Fits

\* Between two steps with no eviction to come nothing is put in memory.
LEMMA OnlyLess ==
  ASSUME IInv, NEW t \in Threads, Step(t), at[t] \notin Owing, at'[t] \notin Owing
  PROVE  \A k \in Keys : mem'[k] = mem[k] \/ mem'[k] = 0
<1>. USE DEF tiers, Owing
<1>1. mem \in [Keys -> 0 .. Versions] /\ at \in [Threads -> Steps]
  BY DEF IInv, Shared, Private
<1>2. CASE UNCHANGED mem
  BY <1>2
<1>3. ASSUME NEW k, TakenOut(k) PROVE \A x \in Keys : mem'[x] = mem[x] \/ mem'[x] = 0
  BY <1>1, <1>3 DEF TakenOut
<1>4. ~Insert(t) /\ ~Promote(t)
  BY <1>1 DEF Insert, Promote, Goes
<1>5. \/ Replace(t) \/ Take(t) \/ Unloads(t) \/ Insert(t) \/ Promote(t) \/ UNCHANGED mem
  BY DEF Step, Load, Resolve, Unload, Create, Write, WriteFails, Rename, Subtract,
     Unindex, Add, Evict, Pick, Several, Choose, Evicted, Index, Get, Look, Read,
     Promoted, Unloaded, DropIndex, Delete
<1>. QED
  BY <1>2, <1>3, <1>4, <1>5 DEF Replace, Take, Unloads

\* A step leaves what is in memory within the budget when nobody is to evict.
LEMMA NextFits ==
  ASSUME IInv, IInv', Counting, Fitting, NEW t \in Threads, Step(t)
  PROVE  Fitting'
<1>. SUFFICES ASSUME \A u \in Threads : at'[u] \notin Owing PROVE Fits'
  BY DEF Fitting
<1>1. PICK step \in Steps : at' = [at EXCEPT ![t] = step] /\ at \in [Threads -> Steps]
  BY StepMoves DEF Moves, IInv, Private
<1>2. \A u \in Threads : u # t => at[u] \notin Owing
  BY <1>1
<1>3. CASE at[t] \notin Owing
  <2>1. Fits
    BY <1>2, <1>3 DEF Fitting
  <2>. QED
    BY <1>3, <2>1, OnlyLess, FewerFit
<1>4. CASE at[t] \in Owing
  <2>1. /\ at[t] \in {"pick", "len", "choose"} /\ UNCHANGED mem
        /\ ~OverBudget \/ ~(Cardinality(InMemory) > 1) \/ InMemory = {}
    <3>1. step \notin Owing /\ at'[t] = step
      BY <1>1
    <3>2. Pick(t) \/ Several(t) \/ Choose(t)
      BY <1>1, <1>4, <3>1 DEF Owing, Step, Begins, Goes, Load, Resolve, Unload, Create,
         Write, WriteFails, Rename, Replace, Subtract, Unindex, Insert, Add, Evict,
         Take, Evicted, Index, Get, Look, Read, Promote, Promoted,
         Unloads, Unloaded, DropIndex, Delete
    <3>3. CASE Pick(t)
      BY <1>1, <3>1, <3>3 DEF Pick, Goes, Owing, tiers
    <3>4. CASE Several(t)
      BY <1>1, <3>1, <3>4 DEF Several, Goes, Owing, tiers
    <3>5. CASE Choose(t)
      BY <1>1, <3>1, <3>5 DEF Choose, Goes, Owing, tiers
    <3>. QED
      BY <3>2, <3>3, <3>4, <3>5
  <2>2. SumOf(Mass) <= mem_bytes
    BY <1>2, <2>1, Covered DEF Owing
  <2>3. CASE ~OverBudget
    <3>1. SumOf(Mass) \in Nat /\ mem_bytes \in Int /\ Budget \in Nat
      BY Sums, ExpertsAssumption
    <3>2. Fits
      BY <2>2, <2>3, <3>1 DEF OverBudget, Fits
    <3>. QED
      BY <2>1, <3>2, FewerFit
  <2>4. CASE ~(Cardinality(InMemory) > 1) \/ InMemory = {}
    <3>1. Cardinality(InMemory) \in Nat
      BY ExpertsAssumption, FS_Subset, FS_CardinalityType DEF InMemory
    <3>2. Cardinality(InMemory) <= 1
      BY <2>4, <3>1, AtMostOne
    <3>3. Fits
      BY <3>2 DEF Fits
    <3>. QED
      BY <2>1, <3>3, FewerFit
  <2>. QED
    BY <2>1, <2>3, <2>4
<1>. QED
  BY <1>3, <1>4

\* One expert is in memory at the start.
LEMMA InitFits == Init => Fitting
<1>. SUFFICES ASSUME Init PROVE Fits
  BY DEF Fitting
<1>1. PICK k \in Keys : mem = [x \in Keys |-> IF x = k THEN 1 ELSE 0]
  BY Zenon DEF Init
<1>2. InMemory = {k}
  BY <1>1 DEF InMemory
<1>. QED
  BY <1>2, AtMostOne DEF Fits

\* What the runtime counts, and what its memory tier holds, with the types they need.
CInv == IInv /\ Counting /\ Fitting

\* Every step keeps the count right.
LEMMA CInvKept == CInv /\ [Next]_vars => CInv'
<1>. SUFFICES ASSUME CInv, [Next]_vars PROVE CInv'
  OBVIOUS
<1>1. IInv'
  BY NextKeeps DEF CInv
<1>2. CASE Next
  <2>1. PICK t \in Threads : Step(t)
    BY <1>2 DEF Next
  <2>. QED
    BY <1>1, <2>1, NextCounts, NextFits DEF CInv
<1>3. CASE UNCHANGED vars
  <2>1. UNCHANGED << mem, mem_bytes, at, key, victim, calls >>
    BY <1>3 DEF vars, tiers, thread
  <2>2. UNCHANGED << Mass, Debt, Credit, Coming >>
    BY <2>1 DEF Mass, Debt, DebtOf, Credit, CreditOf, Coming, ComingOf
  <2>3. Counting' /\ Fitting'
    BY <2>1, <2>2 DEF CInv, Counting, Fitting, Fits, InMemory
  <2>. QED
    BY <1>1, <2>3 DEF CInv
<1>. QED
  BY <1>2, <1>3

(* The byte count is right up to what the threads have yet to add and to   *)
(* subtract, whatever they do in between and however often the counter     *)
(* turns over.                                                             *)
THEOREM CountsRight == Spec => []CInv
<1>1. Init => CInv
  BY InitIInv, InitCounts, InitFits DEF CInv
<1>. QED
  BY <1>1, CInvKept, PTL DEF Spec

(* At rest the experts in memory fit the budget or there is only one of    *)
(* them, and none is there that is not counted.                            *)
THEOREM FitsAtRest == Spec => []RestWithinBudget
<1>1. CInv => RestWithinBudget
  <2>. SUFFICES ASSUME CInv, AtRest
                PROVE  /\ Resident <= mem_bytes
                       /\ Resident <= Budget \/ Cardinality(InMemory) <= 1
    BY DEF RestWithinBudget
  <2>1. SumOf(Mass) <= mem_bytes
    BY Covered DEF CInv, AtRest
  <2>2. Fits
    BY DEF CInv, Fitting, AtRest, Owing
  <2>. QED
    BY <2>1, <2>2, ResidentSum DEF Fits
<1>. QED
  BY <1>1, CountsRight, PTL

-----------------------------------------------------------------------------
(* Files.                                                                  *)

\* No file is two experts', nor one's under both of its names, and the file
\* a thread writes is none of another expert's.
Apart ==
  /\ \A k \in Keys : tmp[k] # 0 => tmp[k] # path[k]
  /\ \A x, y \in Keys : x # y =>
       /\ path[x] # 0 => path[x] # path[y] /\ path[x] # tmp[y]
       /\ tmp[x] # 0 => tmp[x] # tmp[y]
  /\ \A t \in Threads, y \in Keys : file[t] # 0 /\ y # key[t] =>
       file[t] # path[y] /\ file[t] # tmp[y]

\* Nothing but what follows changes a file's name, or which a thread writes.
LEMMA NamesKept ==
  ASSUME IInv, Apart, NEW t \in Threads, Step(t),
         ~ (Create(t) \/ WriteFails(t) \/ Rename(t) \/ Delete(t))
  PROVE  /\ UNCHANGED << path, tmp, file >>
         /\ \A u \in Threads : key'[u] # key[u] => file[u] = 0
<1>1. CASE \E k \in Keys : Load(t, k) \/ Resolve(t, k) \/ Unload(t, k)
  <2>1. PICK k \in Keys : Load(t, k) \/ Resolve(t, k) \/ Unload(t, k)
    BY <1>1
  <2>2. UNCHANGED << path, tmp, file >> /\ at[t] = "idle" /\ key' = [key EXCEPT ![t] = k]
    BY <2>1 DEF Load, Resolve, Unload, Begins, files
  <2>3. file[t] = 0 /\ key \in [Threads -> Keys]
    BY <2>2 DEF IInv, Writing, WriteSteps, Private
  <2>. QED
    BY <2>2, <2>3
<1>2. CASE Write(t) \/ Replace(t) \/ Subtract(t) \/ Unindex(t) \/ Insert(t) \/ Add(t)
  BY <1>2 DEF Write, Replace, Subtract, Unindex, Insert, Add, files
<1>3. CASE Evict(t) \/ Pick(t) \/ Several(t) \/ Choose(t) \/ Take(t) \/ Evicted(t) \/ Index(t)
  BY <1>3 DEF Evict, Pick, Several, Choose, Take, Evicted, Index, files
<1>4. CASE Get(t) \/ Look(t) \/ Read(t) \/ Promote(t) \/ Promoted(t)
  BY <1>4 DEF Get, Look, Read, Promote, Promoted, files
<1>5. CASE Unloads(t) \/ Unloaded(t) \/ DropIndex(t)
  BY <1>5 DEF Unloads, Unloaded, DropIndex, files
<1>. QED
  BY Zenon, <1>1, <1>2, <1>3, <1>4, <1>5 DEF Step

\* A new file is nobody's, and an old one under the temporary name the expert's own.
LEMMA CreateApart ==
  ASSUME IInv, Apart, NEW t \in Threads, Create(t)
  PROVE  Apart'
<1>1. PICK k \in Keys, f \in Files :
        /\ k = key[t] /\ f = (IF tmp[k] # 0 THEN tmp[k] ELSE NewFile)
        /\ tmp' = [tmp EXCEPT ![k] = f] /\ file' = [file EXCEPT ![t] = f]
        /\ UNCHANGED << path, key >>
  BY DEF Create, IInv, Private
<1>2. f # path[k] /\ f # 0
  BY <1>1, NewFileNew, Kinds DEF IInv, Apart
<1>3. \A y \in Keys : y # k => f # path[y] /\ f # tmp[y]
  BY <1>1, <1>2, NewFileNew DEF IInv, Apart
<1>4. \A u \in Threads : key[u] # k => f # file[u]
  BY <1>1, <1>2, NewFileNew DEF IInv, Apart
<1>5. /\ tmp \in [Keys -> {0} \cup Files] /\ path \in [Keys -> {0} \cup Files]
      /\ file \in [Threads -> {0} \cup Files] /\ key \in [Threads -> Keys]
  BY DEF IInv, Shared, Private
<1>6. (\A x \in Keys : tmp[x] # 0 => tmp[x] # path[x])'
  BY <1>1, <1>2, <1>5 DEF Apart
<1>7. (\A x, y \in Keys : x # y =>
       /\ path[x] # 0 => path[x] # path[y] /\ path[x] # tmp[y]
       /\ tmp[x] # 0 => tmp[x] # tmp[y])'
  BY <1>1, <1>3, <1>5 DEF Apart
<1>8. (\A u \in Threads, y \in Keys : file[u] # 0 /\ y # key[u] =>
       file[u] # path[y] /\ file[u] # tmp[y])'
  BY <1>1, <1>3, <1>4, <1>5 DEF Apart
<1>. QED
  BY <1>6, <1>7, <1>8 DEF Apart

\* A file that gets the expert's name loses the temporary one.
LEMMA RenameApart ==
  ASSUME IInv, Apart, NEW t \in Threads, Rename(t)
  PROVE  Apart'
<1>1. PICK k \in Keys :
        /\ k = key[t]
        /\ \/ UNCHANGED << path, tmp >>
           \/ /\ tmp[k] # 0
              /\ path' = [path EXCEPT ![k] = tmp[k]] /\ tmp' = [tmp EXCEPT ![k] = 0]
        /\ file' = [file EXCEPT ![t] = 0] /\ UNCHANGED key
  BY DEF Rename, IInv, Private
<1>2. /\ tmp \in [Keys -> {0} \cup Files] /\ path \in [Keys -> {0} \cup Files]
      /\ file \in [Threads -> {0} \cup Files] /\ key \in [Threads -> Keys]
  BY DEF IInv, Shared, Private
<1>3. CASE UNCHANGED << path, tmp >>
  BY <1>1, <1>2, <1>3 DEF Apart
<1>4. CASE ~ UNCHANGED << path, tmp >>
  BY <1>1, <1>2, <1>4 DEF Apart
<1>. QED
  BY <1>3, <1>4

\* Every step keeps the files apart.
LEMMA ApartKept == IInv /\ Apart /\ [Next]_vars => Apart'
<1>. SUFFICES ASSUME IInv, Apart, [Next]_vars PROVE Apart'
  OBVIOUS
<1>1. /\ tmp \in [Keys -> {0} \cup Files] /\ path \in [Keys -> {0} \cup Files]
      /\ file \in [Threads -> {0} \cup Files] /\ key \in [Threads -> Keys]
  BY DEF IInv, Shared, Private
<1>2. ASSUME NEW t \in Threads, Step(t) PROVE Apart'
  <2>1. CASE Create(t)
    BY <2>1, CreateApart
  <2>2. CASE Rename(t)
    BY <2>2, RenameApart
  <2>3. CASE WriteFails(t)
    BY <1>1, <2>3 DEF WriteFails, files, Apart
  <2>4. CASE Delete(t)
    BY <1>1, <2>4 DEF Delete, Apart
  <2>5. CASE ~ (Create(t) \/ WriteFails(t) \/ Rename(t) \/ Delete(t))
    <3>1. /\ UNCHANGED << path, tmp, file >>
          /\ \A u \in Threads : key'[u] # key[u] => file[u] = 0
      BY <1>2, <2>5, NamesKept
    <3>. QED
      BY <3>1 DEF Apart
  <2>. QED
    BY <2>1, <2>2, <2>3, <2>4, <2>5
<1>3. CASE UNCHANGED vars
  BY <1>3 DEF vars, files, thread, Apart
<1>. QED
  BY <1>2, <1>3 DEF Next

\* They are apart at the start.
LEMMA InitApart == Init => Apart
<1>. SUFFICES ASSUME Init PROVE Apart
  OBVIOUS
<1>1. PICK n \in [Keys -> Files] :
        /\ \A x, y \in Keys : n[x] = n[y] => x = y
        /\ path = n /\ tmp = [x \in Keys |-> 0] /\ file = [t \in Threads |-> 0]
  BY Zenon DEF Init
<1>. QED
  BY <1>1, Kinds DEF Apart

-----------------------------------------------------------------------------
(* Serving.                                                                *)

LoadSteps == {"replace", "subtract", "unindex", "insert"}
UnloadSteps == {"unloaded", "drop", "delete"}

\* What a thread has begun to change of the expert is not yet all there.
Late(t, k) == key[t] = k /\ at[t] \in LoadSteps \cup UnloadSteps

\* The expert is between memory and the index; and a promotion is yet to take it
\* off the index.
Moving(k) == \E u \in Threads : Evicting(u, k)
Promised(k) == \E u \in Threads : Promoting(u, k)

\* The expert has the weights it was last given: its blob does, and memory or else
\* the index, or it is on its way there.  Unloaded, it is gone.
Normal(k) ==
  IF latest[k] = 0 THEN mem[k] = 0 /\ k \notin disk /\ path[k] = 0 /\ ~ Moving(k)
  ELSE /\ Blob(k) = latest[k]
       /\ \/ mem[k] = latest[k]
          \/ mem[k] = 0 /\ (k \in disk \/ Moving(k)) /\ ~ Promised(k)

\* What a thread has made of its expert so far, and counts on.
Stands(t, k) == key[t] = k =>
  /\ at[t] \in {"write", "rename"} => tmp[k] = file[t]
  /\ at[t] = "rename" => content[tmp[k]] = held[t]
  /\ at[t] \in LoadSteps => Blob(k) = held[t]
  /\ at[t] \in UnloadSteps => mem[k] = 0 /\ latest[k] = 0
  /\ at[t] = "delete" => k \notin disk /\ ~ Moving(k)
  /\ at[t] = "promote" =>
       (\E u \in Threads : Changing(u, k)) \/ (latest[k] # 0 /\ held[t] = latest[k])

Serving(k) ==
  /\ (\A t \in Threads : ~ Late(t, k)) => Normal(k)
  /\ \A t \in Threads : Stands(t, k)

ServesAll == \A k \in Keys \ raced : Serving(k)

Alone(t) ==
  \A u \in Threads \ {t} :
    /\ at'[u] = at[u] /\ key'[u] = key[u] /\ held'[u] = held[u]
    /\ file'[u] = file[u] /\ victim'[u] = victim[u]

\* A step leaves what others count on of an expert.
Leaving(k) ==
  /\ latest'[k] = latest[k] /\ tmp'[k] = tmp[k] /\ Blob(k)' = Blob(k)
  /\ tmp[k] # 0 => content'[tmp[k]] = content[tmp[k]]
  /\ mem'[k] = mem[k] \/ mem'[k] = 0 \/ \A u \in Threads : ~ Changing(u, k)
  /\ mem[k] = 0 /\ k \notin disk /\ ~ Moving(k) => k \notin disk' /\ ~ Moving(k)'

\* It leaves the expert alone.
Untouched(k) ==
  /\ mem'[k] = mem[k] /\ latest'[k] = latest[k] /\ (k \in disk' <=> k \in disk)
  /\ path'[k] = path[k] /\ tmp'[k] = tmp[k] /\ Blob(k)' = Blob(k)
  /\ tmp[k] # 0 => content'[tmp[k]] = content[tmp[k]]

\* Whoever is late changes the expert, and nobody changes it and evicts it.
LEMMA LateChanges ==
  ASSUME NEW t, NEW k, Late(t, k)
  PROVE  Changing(t, k)
BY DEF Late, Changing, LoadSteps, UnloadSteps

\* When a call on which no other clashes takes a step, what the others count on
\* stands.
LEMMA OthersStand ==
  ASSUME IInv, NEW t \in Threads, NEW k \in Keys, Alone(t), k \notin Clashes(t),
         Leaving(k), NEW u \in Threads \ {t}, Stands(u, k)
  PROVE  Stands(u, k)' /\ (Late(u, k)' <=> Late(u, k))
<1>1. at'[u] = at[u] /\ key'[u] = key[u] /\ held'[u] = held[u] /\ file'[u] = file[u]
  BY DEF Alone
<1>2. Late(u, k)' <=> Late(u, k)
  BY <1>1 DEF Late
<1>3. ASSUME key[u] = k PROVE Stands(u, k)'
  <2>1. at[u] \in {"write", "rename"} => tmp'[k] = file[u] /\ tmp[k] # 0
    BY <1>3 DEF IInv, Writing, WriteSteps, Stands, Leaving
  <2>2. at[u] = "rename" => content'[tmp'[k]] = held[u]
    BY <1>3, <2>1 DEF Stands, Leaving
  <2>3. at[u] \in LoadSteps => Blob(k)' = held[u]
    BY <1>3 DEF Stands, Leaving
  <2>4. at[u] \in UnloadSteps => mem'[k] = 0 /\ latest'[k] = 0
    <3>1. at[u] \in UnloadSteps => Changing(u, k)
      BY <1>3, LateChanges DEF Late
    <3>. QED
      BY <1>3, <3>1 DEF Stands, Leaving
  <2>5. at[u] = "delete" => k \notin disk' /\ ~ Moving(k)'
    BY <1>3 DEF Stands, Leaving, UnloadSteps
  <2>6. ASSUME at[u] = "promote"
        PROVE  (\E w \in Threads : Changing(w, k)') \/ (latest'[k] # 0 /\ held[u] = latest'[k])
    <3>1. CASE latest[k] # 0 /\ held[u] = latest[k]
      BY <3>1 DEF Leaving
    <3>2. CASE \E w \in Threads : Changing(w, k)
      <4>1. PICK w \in Threads : Changing(w, k)
        BY <3>2
      <4>2. w # t
        BY <1>3, <2>6, <4>1 DEF Clashes, HasRead
      <4>3. Changing(w, k)'
        BY <4>1, <4>2 DEF Alone, Changing
      <4>. QED
        BY <4>3
    <3>. QED
      BY <1>3, <2>6, <3>1, <3>2 DEF Stands
  <2>. QED
    BY <1>1, <1>3, <2>1, <2>2, <2>3, <2>4, <2>5, <2>6 DEF Stands
<1>4. ASSUME key[u] # k PROVE Stands(u, k)'
  BY <1>1, <1>4 DEF Stands
<1>. QED
  BY <1>2, <1>3, <1>4

\* So the expert is served after a step that leaves what others count on.
LEMMA Serves ==
  ASSUME IInv, NEW t \in Threads, NEW k \in Keys, Alone(t), k \notin Clashes(t), Serving(k),
         Leaving(k), Stands(t, k)', Late(t, k) => Late(t, k)', Normal(k) => Normal(k)'
  PROVE  Serving(k)'
<1>1. \A u \in Threads \ {t} : Stands(u, k)' /\ (Late(u, k)' <=> Late(u, k))
  BY OthersStand DEF Serving
<1>2. \A u \in Threads : Stands(u, k)'
  BY <1>1
<1>3. ASSUME \A u \in Threads : ~ Late(u, k)' PROVE Normal(k)'
  <2>1. \A u \in Threads : ~ Late(u, k)
    BY <1>1, <1>3
  <2>. QED
    BY <2>1 DEF Serving
<1>. QED
  BY <1>2, <1>3 DEF Serving

\* Who moves an expert, or promotes it, stays the same when a thread does neither.
LEMMA MovingKept ==
  ASSUME NEW t \in Threads, NEW k \in Keys, Alone(t),
         at[t] \notin {"evicted", "index"}, at'[t] \notin {"evicted", "index"}
  PROVE  Moving(k)' <=> Moving(k)
<1>1. ~ Evicting(t, k) /\ ~ Evicting(t, k)'
  BY DEF Evicting
<1>2. \A u \in Threads \ {t} : Evicting(u, k)' <=> Evicting(u, k)
  BY DEF Evicting, Alone
<1>. QED
  BY <1>1, <1>2 DEF Moving

LEMMA PromisedKept ==
  ASSUME NEW t \in Threads, NEW k \in Keys, Alone(t), at'[t] \notin {"count", "promoted"}
  PROVE  Promised(k)' => Promised(k)
<1>1. ~ Promoting(t, k)'
  BY DEF Promoting
<1>2. \A u \in Threads \ {t} : Promoting(u, k)' <=> Promoting(u, k)
  BY DEF Promoting, Alone
<1>. QED
  BY <1>1, <1>2 DEF Promised

\* An expert that a step leaves alone is served as before.
LEMMA Unmoved ==
  ASSUME IInv, NEW t \in Threads, NEW k \in Keys, Alone(t), k \notin Clashes(t), Serving(k),
         Untouched(k), Moving(k)' <=> Moving(k), Promised(k)' => Promised(k),
         Stands(t, k)', Late(t, k) => Late(t, k)'
  PROVE  Serving(k)'
<1>1. Leaving(k)
  BY DEF Leaving, Untouched
<1>2. Normal(k) => Normal(k)'
  BY DEF Normal, Untouched
<1>. QED
  BY <1>1, <1>2, Serves

\* A call changes no expert but its own.
LEMMA Elsewhere ==
  ASSUME IInv, NEW t \in Threads, NEW k \in Keys, Alone(t), k \notin Clashes(t), Serving(k),
         Untouched(k), k # key[t], key'[t] = key[t],
         at[t] \notin {"evicted", "index"}, at'[t] \notin {"evicted", "index"}
  PROVE  Serving(k)'
<1>1. Stands(t, k)' /\ ~ Late(t, k)
  BY DEF Stands, Late
<1>2. Promised(k)' => Promised(k)
  <2>1. ~ Promoting(t, k)'
    BY DEF Promoting
  <2>2. \A u \in Threads \ {t} : Promoting(u, k)' <=> Promoting(u, k)
    BY DEF Promoting, Alone
  <2>. QED
    BY <2>1, <2>2 DEF Promised
<1>. QED
  BY <1>1, <1>2, MovingKept, Unmoved

\* A thread that changes an expert on which no other clashes has it to itself: only
\* its own step matters.
LEMMA Sole ==
  ASSUME IInv, NEW t \in Threads, NEW k \in Keys, Alone(t), k \notin Clashes(t), Serving(k),
         Changing(t, k)
  PROVE  /\ ~ Late(t, k) => Normal(k)
         /\ Stands(t, k)
         /\ Stands(t, k)' /\ (Late(t, k)' \/ Normal(k)') => Serving(k)'
<1>1. ASSUME NEW u \in Threads \ {t}
      PROVE  ~ Late(u, k) /\ ~ Late(u, k)' /\ Stands(u, k)'
  <2>1. ~ Changing(u, k) /\ ~ HasRead(u, k)
    BY DEF Clashes
  <2>2. at'[u] = at[u] /\ key'[u] = key[u]
    BY DEF Alone
  <2>3. ~ Late(u, k) /\ ~ Late(u, k)'
    BY <2>1, <2>2, LateChanges DEF Late
  <2>4. Stands(u, k)'
    BY <2>1, <2>2 DEF Stands, Changing, HasRead, LoadSteps, UnloadSteps
  <2>. QED
    BY <2>3, <2>4
<1>. QED
  BY <1>1 DEF Serving

\* A step changes nothing of the other threads, and notes its clashes.
LEMMA StepAlone ==
  ASSUME IInv, NEW t \in Threads, Step(t)
  PROVE  Alone(t) /\ raced' = raced \cup Clashes(t)
<1>. USE DEF Goes, IInv, Private
<1>1. CASE \E k \in Keys : Load(t, k) \/ Resolve(t, k) \/ Unload(t, k)
  BY <1>1 DEF Load, Resolve, Unload, Begins, Alone
<1>2. CASE Create(t)
  <2>1. PICK f : file' = [file EXCEPT ![t] = f]
    BY <1>2 DEF Create
  <2>. QED
    BY <1>2, <2>1 DEF Create, Alone
<1>3. CASE Write(t) \/ WriteFails(t) \/ Rename(t)
  BY <1>3 DEF Write, WriteFails, Rename, Alone
<1>4. CASE Replace(t) \/ Subtract(t) \/ Unindex(t) \/ Insert(t) \/ Add(t)
  BY <1>4 DEF Replace, Subtract, Unindex, Insert, Add, Alone
<1>5. CASE Evict(t) \/ Pick(t) \/ Several(t) \/ Take(t) \/ Evicted(t) \/ Index(t)
  BY <1>5 DEF Evict, Pick, Leaves, Several, Take, Evicted, Index, Alone
<1>6. CASE Choose(t)
  BY <1>6 DEF Choose, Leaves, Alone
<1>7. CASE Get(t) \/ Look(t) \/ Read(t) \/ Promote(t) \/ Promoted(t)
  BY <1>7 DEF Get, Look, Read, Promote, Promoted, Alone
<1>8. CASE Unloads(t) \/ Unloaded(t) \/ DropIndex(t) \/ Delete(t)
  BY <1>8 DEF Unloads, Unloaded, DropIndex, Delete, Alone
<1>. QED
  BY Zenon, <1>1, <1>2, <1>3, <1>4, <1>5, <1>6, <1>7, <1>8 DEF Step

\* Where a step goes.
LEMMA Gone ==
  ASSUME IInv, NEW t \in Threads, NEW step, Goes(t, step)
  PROVE  at'[t] = step
BY DEF Goes, IInv, Private

\* What is not written stays.
LEMMA Same ==
  ASSUME NEW k \in Keys, UNCHANGED << mem, disk, path, tmp, content, latest >>
  PROVE  Untouched(k)
BY DEF Untouched, Blob

\* The steps that change no weights and make no promise.
LEMMA QuietServes ==
  ASSUME IInv, NEW t \in Threads, NEW k \in Keys, Alone(t), k \notin Clashes(t), Serving(k),
         \/ \E x \in Keys : Load(t, x) \/ Resolve(t, x) \/ Unload(t, x)
         \/ WriteFails(t) \/ Evict(t) \/ Pick(t) \/ Several(t) \/ Choose(t) \/ Get(t) \/ Look(t)
  PROVE  Serving(k)'
<1>1. /\ UNCHANGED << mem, disk, path, tmp, content, latest >>
      /\ at[t] \in {"idle", "write", "evict", "pick", "len", "choose", "get", "look"}
      /\ at'[t] \in {"create", "get", "unload", "idle", "pick", "len", "choose", "take",
                     "look", "read"}
  <2>1. CASE \E x \in Keys : Load(t, x) \/ Resolve(t, x) \/ Unload(t, x)
    BY <2>1, Gone DEF Load, Resolve, Unload, Begins, tiers, files
  <2>2. CASE WriteFails(t) \/ Evict(t) \/ Pick(t) \/ Several(t)
    BY <2>2, Gone DEF WriteFails, Evict, Pick, Several, Leaves, tiers, files
  <2>3. CASE Choose(t)
    BY <2>3, Gone DEF Choose, Leaves, tiers, files
  <2>4. CASE Get(t) \/ Look(t)
    BY <2>4, Gone DEF Get, Look, tiers, files
  <2>. QED
    BY <2>1, <2>2, <2>3, <2>4
<1>2. ~ Late(t, k) /\ Stands(t, k)'
  BY <1>1 DEF Late, Stands, LoadSteps, UnloadSteps
<1>3. (Moving(k)' <=> Moving(k)) /\ (Promised(k)' => Promised(k))
  BY <1>1, MovingKept, PromisedKept
<1>. QED
  BY <1>1, <1>2, <1>3, Same, Unmoved

\* The steps that count.
LEMMA CountServes ==
  ASSUME IInv, NEW t \in Threads, NEW k \in Keys, Alone(t), k \notin Clashes(t), Serving(k),
         Subtract(t) \/ Add(t) \/ Evicted(t) \/ Unloaded(t)
  PROVE  Serving(k)'
<1>1. /\ UNCHANGED << mem, disk, path, tmp, content, latest, key, victim, held, file >>
      /\ \/ at[t] = "subtract" /\ at'[t] = "unindex"
         \/ at[t] = "add" /\ at'[t] = "evict"
         \/ at[t] = "count" /\ at'[t] = "promoted"
         \/ at[t] = "evicted" /\ at'[t] = "index"
         \/ at[t] = "unloaded" /\ at'[t] = "drop"
  BY Gone DEF Subtract, Add, Evicted, Unloaded, tiers, files
<1>2. Late(t, k) => Late(t, k)'
  BY <1>1 DEF Late, LoadSteps, UnloadSteps
<1>3. Stands(t, k)'
  BY <1>1 DEF Serving, Stands, Blob, LoadSteps, UnloadSteps
<1>4. Moving(k)' <=> Moving(k)
  <2>1. \A u \in Threads : Evicting(u, k)' <=> Evicting(u, k)
    BY <1>1 DEF Alone, Evicting
  <2>. QED
    BY <2>1 DEF Moving
<1>5. Promised(k)' => Promised(k)
  <2>1. \A u \in Threads : Promoting(u, k)' => Promoting(u, k)
    BY <1>1 DEF Alone, Promoting
  <2>. QED
    BY <2>1 DEF Promised
<1>. QED
  BY <1>1, <1>2, <1>3, <1>4, <1>5, Same, Unmoved

\* A blob that is read while nobody changes the expert is the last one.
LEMMA ReadServes ==
  ASSUME IInv, NEW t \in Threads, NEW k \in Keys, Alone(t), k \notin Clashes(t), Serving(k),
         Read(t)
  PROVE  Serving(k)'
<1>1. /\ UNCHANGED << mem, disk, path, tmp, content, latest, key, victim, file >>
      /\ at[t] = "read" /\ at'[t] = IF Blob(key[t]) = 0 THEN "idle" ELSE "promote"
      /\ held'[t] = Blob(key[t])
  BY Gone DEF Read, tiers, files, IInv, Private
<1>2. ~ Late(t, k)
  BY <1>1 DEF Late, LoadSteps, UnloadSteps
<1>3. (Moving(k)' <=> Moving(k)) /\ (Promised(k)' => Promised(k))
  BY <1>1, MovingKept, PromisedKept
<1>4. Stands(t, k)'
  <2>1. CASE key[t] = k /\ Blob(k) # 0 /\ ~ \E u \in Threads : Changing(u, k)
    <3>1. Normal(k)
      BY <2>1, LateChanges DEF Serving
    <3>2. latest[k] # 0 /\ Blob(k) = latest[k]
      BY <2>1, <3>1 DEF Normal, Blob
    <3>. QED
      BY <1>1, <2>1, <3>2 DEF Stands, LoadSteps, UnloadSteps
  <2>2. CASE \E u \in Threads : Changing(u, k)
    <3>1. \E u \in Threads : Changing(u, k)'
      <4>1. PICK u \in Threads : Changing(u, k)
        BY <2>2
      <4>2. u # t
        BY <1>1, <4>1 DEF Changing
      <4>. QED
        BY <4>1, <4>2 DEF Alone, Changing
    <3>. QED
      BY <1>1, <3>1 DEF Stands, LoadSteps, UnloadSteps
  <2>3. CASE ~ (key[t] = k /\ Blob(k) # 0)
    BY <1>1, <2>3 DEF Stands, LoadSteps, UnloadSteps
  <2>. QED
    BY <2>1, <2>2, <2>3
<1>. QED
  BY <1>1, <1>2, <1>3, <1>4, Same, Unmoved

\* The file a load writes becomes the expert's blob when it is whole.
LEMMA CreateServes ==
  ASSUME IInv, Apart, NEW t \in Threads, NEW k \in Keys, Alone(t), k \notin Clashes(t),
         Serving(k), Create(t)
  PROVE  Serving(k)'
<1>1. PICK c \in Keys, f \in Files :
        /\ c = key[t] /\ f = (IF tmp[c] # 0 THEN tmp[c] ELSE NewFile)
        /\ tmp' = [tmp EXCEPT ![c] = f] /\ file' = [file EXCEPT ![t] = f]
        /\ content' = [content EXCEPT ![f] = 0]
  BY DEF Create, IInv, Private
<1>2. /\ UNCHANGED << mem, disk, path, latest, key, victim, held >>
      /\ at[t] = "create" /\ at'[t] = "write"
  BY Gone DEF Create, tiers
<1>3. f # path[c] /\ f # 0
  BY <1>1, NewFileNew, Kinds DEF IInv, Apart
<1>4. \A y \in Keys : y # c => f # path[y] /\ f # tmp[y]
  BY <1>1, <1>3, NewFileNew DEF IInv, Apart
<1>5. Blob(k)' = Blob(k)
  BY <1>1, <1>2, <1>3, <1>4 DEF Blob, IInv, Shared
<1>6. CASE c # k
  <2>1. tmp'[k] = tmp[k] /\ (tmp[k] # 0 => content'[tmp[k]] = content[tmp[k]])
    BY <1>1, <1>4, <1>6 DEF IInv, Shared
  <2>2. Untouched(k)
    BY <1>2, <1>5, <2>1 DEF Untouched
  <2>. QED
    BY <1>1, <1>2, <1>6, <2>2, Elsewhere
<1>7. CASE c = k
  <2>1. Changing(t, k) /\ ~ Late(t, k)
    BY <1>1, <1>2, <1>7 DEF Changing, Late, LoadSteps, UnloadSteps
  <2>2. Normal(k)'
    <3>1. Normal(k)
      BY <2>1, Sole
    <3>2. (Moving(k)' <=> Moving(k)) /\ (Promised(k)' => Promised(k))
      BY <1>2, MovingKept, PromisedKept
    <3>. QED
      BY <1>2, <1>5, <3>1, <3>2 DEF Normal
  <2>3. Stands(t, k)'
    <3>1. tmp'[k] = file'[t]
      BY <1>1, <1>7 DEF IInv, Shared, Private
    <3>. QED
      BY <1>2, <3>1 DEF Stands, LoadSteps, UnloadSteps
  <2>. QED
    BY <2>1, <2>2, <2>3, Sole
<1>. QED
  BY <1>6, <1>7

LEMMA WriteServes ==
  ASSUME IInv, Apart, NEW t \in Threads, NEW k \in Keys, Alone(t), k \notin Clashes(t),
         Serving(k), Write(t)
  PROVE  Serving(k)'
<1>1. /\ UNCHANGED << mem, disk, path, tmp, latest, key, victim, held, file >>
      /\ at[t] = "write" /\ at'[t] = "rename"
      /\ content' = [content EXCEPT ![file[t]] = held[t]]
  BY Gone DEF Write, tiers
<1>2. file[t] \in Files /\ file[t] # 0
  BY <1>1 DEF IInv, Private, Writing, WriteSteps
<1>3. CASE key[t] # k
  <2>1. file[t] # path[k] /\ file[t] # tmp[k]
    BY <1>2, <1>3 DEF Apart
  <2>2. Untouched(k)
    BY <1>1, <1>2, <2>1 DEF Untouched, Blob, IInv, Shared
  <2>. QED
    BY <1>1, <1>3, <2>2, Elsewhere
<1>4. CASE key[t] = k
  <2>1. Changing(t, k) /\ ~ Late(t, k)
    BY <1>1, <1>4 DEF Changing, Late, LoadSteps, UnloadSteps
  <2>2. tmp[k] = file[t]
    BY <1>1, <1>4, <2>1, Sole DEF Stands
  <2>3. Normal(k)'
    <3>1. Normal(k)
      BY <2>1, Sole
    <3>2. file[t] # path[k]
      BY <1>2, <2>2 DEF Apart
    <3>3. Blob(k)' = Blob(k)
      BY <1>1, <1>2, <3>2 DEF Blob, IInv, Shared
    <3>4. (Moving(k)' <=> Moving(k)) /\ (Promised(k)' => Promised(k))
      BY <1>1, MovingKept, PromisedKept
    <3>. QED
      BY <1>1, <3>1, <3>3, <3>4 DEF Normal
  <2>4. Stands(t, k)'
    <3>1. content'[tmp'[k]] = held'[t]
      BY <1>1, <1>2, <2>2 DEF IInv, Shared
    <3>. QED
      BY <1>1, <2>2, <3>1 DEF Stands, LoadSteps, UnloadSteps
  <2>. QED
    BY <2>1, <2>3, <2>4, Sole
<1>. QED
  BY <1>3, <1>4

LEMMA RenameServes ==
  ASSUME IInv, Apart, NEW t \in Threads, NEW k \in Keys, Alone(t), k \notin Clashes(t),
         Serving(k), Rename(t)
  PROVE  Serving(k)'
<1>1. /\ UNCHANGED << mem, disk, content, latest, key, victim, held >>
      /\ at[t] = "rename" /\ at'[t] = IF tmp[key[t]] = 0 THEN "idle" ELSE "replace"
      /\ IF tmp[key[t]] = 0 THEN UNCHANGED << path, tmp >>
         ELSE /\ path' = [path EXCEPT ![key[t]] = tmp[key[t]]]
              /\ tmp' = [tmp EXCEPT ![key[t]] = 0]
  BY Gone DEF Rename, tiers
<1>2. key[t] \in Keys
  BY DEF IInv, Private
<1>3. CASE key[t] # k
  <2>1. path'[k] = path[k] /\ tmp'[k] = tmp[k]
    BY <1>1, <1>2, <1>3 DEF IInv, Shared
  <2>2. Untouched(k)
    BY <1>1, <2>1 DEF Untouched, Blob
  <2>. QED
    BY <1>1, <1>3, <2>2, Elsewhere
<1>4. CASE key[t] = k
  <2>1. Changing(t, k)
    BY <1>1, <1>4 DEF Changing
  <2>2. tmp[k] = file[t] /\ content[tmp[k]] = held[t]
    BY <1>1, <1>4, <2>1, Sole DEF Stands
  <2>3. tmp[k] # 0
    BY <1>1, <2>2 DEF IInv, Writing, WriteSteps
  <2>4. at'[t] = "replace" /\ path'[k] = tmp[k]
    BY <1>1, <1>4, <2>3 DEF IInv, Shared
  <2>5. Blob(k)' = held'[t]
    BY <1>1, <2>2, <2>3, <2>4 DEF Blob
  <2>6. Late(t, k)' /\ Stands(t, k)'
    BY <1>1, <1>4, <2>4, <2>5 DEF Late, Stands, LoadSteps, UnloadSteps
  <2>. QED
    BY <2>1, <2>6, Sole
<1>. QED
  BY <1>3, <1>4

\* The expert leaves memory and the index, and comes back with the new blob.
LEMMA ReplaceServes ==
  ASSUME IInv, NEW t \in Threads, NEW k \in Keys, Alone(t), k \notin Clashes(t), Serving(k),
         Replace(t)
  PROVE  Serving(k)'
<1>1. /\ UNCHANGED << disk, path, tmp, content, latest, key, victim, held >>
      /\ at[t] = "replace" /\ at'[t] \in {"subtract", "unindex"}
      /\ mem' = [mem EXCEPT ![key[t]] = 0]
  BY Gone DEF Replace, TakenOut, files
<1>2. CASE key[t] # k
  <2>1. Untouched(k)
    BY <1>1, <1>2 DEF Untouched, Blob, IInv, Shared
  <2>. QED
    BY <1>1, <1>2, <2>1, Elsewhere
<1>3. CASE key[t] = k
  <2>1. Changing(t, k)
    BY <1>1, <1>3 DEF Changing
  <2>2. Blob(k) = held[t]
    BY <1>1, <1>3, <2>1, Sole DEF Stands, LoadSteps
  <2>3. Late(t, k)' /\ Stands(t, k)'
    BY <1>1, <1>3, <2>2 DEF Late, Stands, Blob, LoadSteps, UnloadSteps
  <2>. QED
    BY <2>1, <2>3, Sole
<1>. QED
  BY <1>2, <1>3

LEMMA UnindexServes ==
  ASSUME IInv, NEW t \in Threads, NEW k \in Keys, Alone(t), k \notin Clashes(t), Serving(k),
         Unindex(t)
  PROVE  Serving(k)'
<1>1. /\ UNCHANGED << mem, path, tmp, content, latest, key, victim, held >>
      /\ at[t] = "unindex" /\ at'[t] = "insert" /\ disk' = disk \ {key[t]}
  BY Gone DEF Unindex, files
<1>2. CASE key[t] # k
  <2>1. Untouched(k)
    BY <1>1, <1>2 DEF Untouched, Blob
  <2>. QED
    BY <1>1, <1>2, <2>1, Elsewhere
<1>3. CASE key[t] = k
  <2>1. Changing(t, k)
    BY <1>1, <1>3 DEF Changing
  <2>2. Blob(k) = held[t]
    BY <1>1, <1>3, <2>1, Sole DEF Stands, LoadSteps
  <2>3. Late(t, k)' /\ Stands(t, k)'
    BY <1>1, <1>3, <2>2 DEF Late, Stands, Blob, LoadSteps, UnloadSteps
  <2>. QED
    BY <2>1, <2>3, Sole
<1>. QED
  BY <1>2, <1>3

LEMMA InsertServes ==
  ASSUME IInv, NEW t \in Threads, NEW k \in Keys, Alone(t), k \notin Clashes(t), Serving(k),
         Insert(t)
  PROVE  Serving(k)'
<1>1. /\ UNCHANGED << disk, path, tmp, content, key, victim, held >>
      /\ at[t] = "insert" /\ at'[t] = "add"
      /\ mem' = [mem EXCEPT ![key[t]] = held[t]]
      /\ latest' = [latest EXCEPT ![key[t]] = held[t]]
  BY Gone DEF Insert, PutIn, files
<1>2. CASE key[t] # k
  <2>1. Untouched(k)
    BY <1>1, <1>2 DEF Untouched, Blob, IInv, Shared
  <2>. QED
    BY <1>1, <1>2, <2>1, Elsewhere
<1>3. CASE key[t] = k
  <2>1. Changing(t, k)
    BY <1>1, <1>3 DEF Changing
  <2>2. Blob(k) = held[t] /\ held[t] # 0
    BY <1>1, <1>3, <2>1, Sole DEF Stands, LoadSteps, IInv, Holding, HoldSteps
  <2>3. Normal(k)'
    BY <1>1, <1>3, <2>2 DEF Normal, Blob, IInv, Shared
  <2>4. Stands(t, k)'
    BY <1>1 DEF Stands, LoadSteps, UnloadSteps
  <2>. QED
    BY <2>1, <2>3, <2>4, Sole
<1>. QED
  BY <1>2, <1>3

\* An unload leaves nothing of the expert.
LEMMA UnloadsServes ==
  ASSUME IInv, NEW t \in Threads, NEW k \in Keys, Alone(t), k \notin Clashes(t), Serving(k),
         Unloads(t)
  PROVE  Serving(k)'
<1>1. /\ UNCHANGED << disk, path, tmp, content, key, victim, held, file >>
      /\ at[t] = "unload" /\ at'[t] \in {"unloaded", "drop"}
      /\ mem' = [mem EXCEPT ![key[t]] = 0] /\ latest' = [latest EXCEPT ![key[t]] = 0]
  BY Gone DEF Unloads, TakenOut, files
<1>2. CASE key[t] # k
  <2>1. Untouched(k)
    BY <1>1, <1>2 DEF Untouched, Blob, IInv, Shared
  <2>. QED
    BY <1>1, <1>2, <2>1, Elsewhere
<1>3. CASE key[t] = k
  <2>1. Changing(t, k)
    BY <1>1, <1>3 DEF Changing
  <2>2. mem'[k] = 0 /\ latest'[k] = 0
    BY <1>1, <1>3 DEF IInv, Shared
  <2>3. Late(t, k)' /\ Stands(t, k)'
    BY <1>1, <1>3, <2>2 DEF Late, Stands, LoadSteps, UnloadSteps
  <2>. QED
    BY <2>1, <2>3, Sole
<1>. QED
  BY <1>2, <1>3

\* No eviction is about to index it: the two would clash.
LEMMA DropIndexServes ==
  ASSUME IInv, NEW t \in Threads, NEW k \in Keys, Alone(t), k \notin Clashes(t), Serving(k),
         DropIndex(t)
  PROVE  Serving(k)'
<1>1. /\ UNCHANGED << mem, path, tmp, content, latest, key, victim, held, file >>
      /\ at[t] = "drop" /\ at'[t] = "delete" /\ disk' = disk \ {key[t]}
  BY Gone DEF DropIndex, files
<1>2. CASE key[t] # k
  <2>1. Untouched(k)
    BY <1>1, <1>2 DEF Untouched, Blob
  <2>. QED
    BY <1>1, <1>2, <2>1, Elsewhere
<1>3. CASE key[t] = k
  <2>1. Changing(t, k)
    BY <1>1, <1>3 DEF Changing
  <2>2. mem[k] = 0 /\ latest[k] = 0
    BY <1>1, <1>3, <2>1, Sole DEF Stands, UnloadSteps
  <2>3. ~ Moving(k)'
    <3>1. ~ Evicting(t, k)
      BY <1>1 DEF Evicting
    <3>2. ~ Moving(k)
      BY <1>1, <1>3, <3>1 DEF Moving, Clashes
    <3>. QED
      BY <1>1, <3>2, MovingKept
  <2>4. Late(t, k)' /\ Stands(t, k)'
    BY <1>1, <1>3, <2>2, <2>3 DEF Late, Stands, LoadSteps, UnloadSteps
  <2>. QED
    BY <2>1, <2>4, Sole
<1>. QED
  BY <1>2, <1>3

LEMMA DeleteServes ==
  ASSUME IInv, NEW t \in Threads, NEW k \in Keys, Alone(t), k \notin Clashes(t), Serving(k),
         Delete(t)
  PROVE  Serving(k)'
<1>1. /\ UNCHANGED << mem, disk, tmp, content, latest, key, victim, held, file >>
      /\ at[t] = "delete" /\ at'[t] = "idle" /\ path' = [path EXCEPT ![key[t]] = 0]
  BY Gone DEF Delete, tiers
<1>2. CASE key[t] # k
  <2>1. Untouched(k)
    BY <1>1, <1>2 DEF Untouched, Blob, IInv, Shared
  <2>. QED
    BY <1>1, <1>2, <2>1, Elsewhere
<1>3. CASE key[t] = k
  <2>1. Changing(t, k)
    BY <1>1, <1>3 DEF Changing
  <2>2. mem[k] = 0 /\ latest[k] = 0 /\ k \notin disk /\ ~ Moving(k)
    BY <1>1, <1>3, <2>1, Sole DEF Stands, UnloadSteps
  <2>3. ~ Moving(k)'
    BY <1>1, <2>2, MovingKept
  <2>4. Normal(k)'
    BY <1>1, <1>3, <2>2, <2>3 DEF Normal, IInv, Shared
  <2>5. Stands(t, k)'
    BY <1>1 DEF Stands, LoadSteps, UnloadSteps
  <2>. QED
    BY <2>1, <2>4, <2>5, Sole
<1>. QED
  BY <1>2, <1>3

\* An eviction takes an expert out of memory, of which no promotion is half way,
\* and then puts it in the index.
LEMMA TakeServes ==
  ASSUME IInv, NEW t \in Threads, NEW k \in Keys, Alone(t), k \notin Clashes(t), Serving(k),
         Take(t)
  PROVE  Serving(k)'
<1>1. /\ UNCHANGED << disk, path, tmp, content, latest, key, victim, held, file >>
      /\ at[t] = "take" /\ at'[t] = IF mem[victim[t]] # 0 THEN "evicted" ELSE "pick"
      /\ mem' = [mem EXCEPT ![victim[t]] = 0]
  BY Gone DEF Take, TakenOut, files
<1>2. ~ Late(t, k) /\ Stands(t, k)'
  BY <1>1 DEF Late, Stands, LoadSteps, UnloadSteps
<1>3. CASE victim[t] # k \/ mem[k] = 0
  <2>1. Untouched(k)
    BY <1>1, <1>3 DEF Untouched, Blob, IInv, Shared
  <2>2. Promised(k)' => Promised(k)
    BY <1>1, PromisedKept
  <2>3. Moving(k)' <=> Moving(k)
    <3>1. ~ Evicting(t, k) /\ ~ Evicting(t, k)'
      BY <1>1, <1>3 DEF Evicting
    <3>2. \A u \in Threads \ {t} : Evicting(u, k)' <=> Evicting(u, k)
      BY DEF Evicting, Alone
    <3>. QED
      BY <3>1, <3>2 DEF Moving
  <2>. QED
    BY <1>2, <2>1, <2>2, <2>3, Unmoved
<1>4. CASE victim[t] = k /\ mem[k] # 0
  <2>1. mem'[k] = 0
    BY <1>1, <1>4 DEF IInv, Shared
  <2>2. Moving(k)'
    BY <1>1, <1>4 DEF Moving, Evicting
  <2>3. ~ Promised(k)'
    <3>1. ~ Promoting(t, k)
      BY <1>1 DEF Promoting
    <3>2. ~ Promised(k)
      BY <1>1, <1>4, <3>1 DEF Promised, Clashes
    <3>. QED
      BY <1>1, <3>2, PromisedKept
  <2>4. Leaving(k)
    BY <1>1, <1>4, <2>1 DEF Leaving, Blob
  <2>5. Normal(k) => Normal(k)'
    BY <1>1, <1>4, <2>1, <2>2, <2>3 DEF Normal, Blob
  <2>. QED
    BY <1>2, <2>4, <2>5, Serves
<1>. QED
  BY <1>3, <1>4

LEMMA IndexServes ==
  ASSUME IInv, NEW t \in Threads, NEW k \in Keys, Alone(t), k \notin Clashes(t), Serving(k),
         Index(t)
  PROVE  Serving(k)'
<1>1. /\ UNCHANGED << mem, path, tmp, content, latest, key, victim, held, file >>
      /\ at[t] = "index" /\ at'[t] = "pick" /\ disk' = disk \cup {victim[t]}
  BY Gone DEF Index, files
<1>2. ~ Late(t, k) /\ Stands(t, k)'
  BY <1>1 DEF Late, Stands, LoadSteps, UnloadSteps
<1>3. Promised(k)' => Promised(k)
  BY <1>1, PromisedKept
<1>4. CASE victim[t] # k
  <2>1. Untouched(k)
    BY <1>1, <1>4 DEF Untouched, Blob
  <2>2. Moving(k)' <=> Moving(k)
    <3>1. ~ Evicting(t, k) /\ ~ Evicting(t, k)'
      BY <1>1, <1>4 DEF Evicting
    <3>2. \A u \in Threads \ {t} : Evicting(u, k)' <=> Evicting(u, k)
      BY DEF Evicting, Alone
    <3>. QED
      BY <3>1, <3>2 DEF Moving
  <2>. QED
    BY <1>2, <1>3, <2>1, <2>2, Unmoved
<1>5. CASE victim[t] = k
  <2>1. Moving(k)
    BY <1>1, <1>5 DEF Moving, Evicting
  <2>2. Leaving(k)
    BY <1>1, <2>1 DEF Leaving, Blob
  <2>3. Normal(k) => Normal(k)'
    BY <1>1, <1>3, <1>5, <2>1 DEF Normal, Blob
  <2>. QED
    BY <1>2, <2>2, <2>3, Serves
<1>. QED
  BY <1>4, <1>5

\* A promotion puts the last blob in memory, and takes the expert off the index.
LEMMA PromoteServes ==
  ASSUME IInv, NEW t \in Threads, NEW k \in Keys, Alone(t), k \notin Clashes(t), Serving(k),
         Promote(t)
  PROVE  Serving(k)'
<1>1. /\ UNCHANGED << disk, path, tmp, content, latest, key, victim, held, file >>
      /\ at[t] = "promote" /\ at'[t] = "count"
      /\ mem' = [mem EXCEPT ![key[t]] = held[t]]
  BY Gone DEF Promote, PutIn, files
<1>2. CASE key[t] # k
  <2>1. Untouched(k)
    BY <1>1, <1>2 DEF Untouched, Blob, IInv, Shared
  <2>. QED
    BY <1>1, <1>2, <2>1, Elsewhere
<1>3. CASE key[t] = k
  <2>1. \A u \in Threads : ~ Changing(u, k)
    <3>1. ~ Changing(t, k) /\ HasRead(t, k)
      BY <1>1, <1>3 DEF Changing, HasRead
    <3>. QED
      BY <3>1 DEF Clashes
  <2>2. Stands(t, k)
    BY DEF Serving
  <2>3. latest[k] # 0 /\ held[t] = latest[k]
    BY <1>1, <1>3, <2>1, <2>2 DEF Stands
  <2>4. mem'[k] = latest[k]
    BY <1>1, <1>3, <2>3 DEF IInv, Shared
  <2>5. Moving(k)' <=> Moving(k)
    BY <1>1, MovingKept
  <2>6. Leaving(k)
    BY <1>1, <2>1, <2>5 DEF Leaving, Blob
  <2>7. ~ Late(t, k) /\ Stands(t, k)'
    BY <1>1 DEF Late, Stands, LoadSteps, UnloadSteps
  <2>8. Normal(k) => Normal(k)'
    BY <1>1, <2>3, <2>4 DEF Normal, Blob
  <2>. QED
    BY <2>6, <2>7, <2>8, Serves
<1>. QED
  BY <1>2, <1>3

LEMMA PromotedServes ==
  ASSUME IInv, NEW t \in Threads, NEW k \in Keys, Alone(t), k \notin Clashes(t), Serving(k),
         Promoted(t)
  PROVE  Serving(k)'
<1>1. /\ UNCHANGED << mem, path, tmp, content, latest, key, victim, held, file >>
      /\ at[t] = "promoted" /\ at'[t] = "evict" /\ disk' = disk \ {key[t]}
  BY Gone DEF Promoted, files
<1>2. CASE key[t] # k
  <2>1. Untouched(k)
    BY <1>1, <1>2 DEF Untouched, Blob
  <2>. QED
    BY <1>1, <1>2, <2>1, Elsewhere
<1>3. CASE key[t] = k
  <2>1. Promised(k)
    BY <1>1, <1>3 DEF Promised, Promoting
  <2>2. Moving(k)' <=> Moving(k)
    BY <1>1, MovingKept
  <2>3. Leaving(k)
    BY <1>1, <2>2 DEF Leaving, Blob
  <2>4. ~ Late(t, k) /\ Stands(t, k)'
    BY <1>1 DEF Late, Stands, LoadSteps, UnloadSteps
  <2>5. Normal(k) => Normal(k)'
    BY <1>1, <2>1, <2>2 DEF Normal, Blob
  <2>. QED
    BY <2>3, <2>4, <2>5, Serves
<1>. QED
  BY <1>2, <1>3

-----------------------------------------------------------------------------

\* A step serves the experts on which no calls have clashed.
LEMMA NextServes ==
  ASSUME IInv, Apart, ServesAll, NEW t \in Threads, Step(t)
  PROVE  ServesAll'
<1>1. Alone(t) /\ raced' = raced \cup Clashes(t)
  BY StepAlone
<1>2. ASSUME NEW k \in Keys, k \notin raced' PROVE Serving(k)'
  <2>1. k \notin Clashes(t) /\ Serving(k)
    BY <1>1, <1>2 DEF ServesAll
  <2>2. CASE \/ \E x \in Keys : Load(t, x) \/ Resolve(t, x) \/ Unload(t, x)
             \/ WriteFails(t) \/ Evict(t) \/ Pick(t) \/ Several(t) \/ Choose(t)
             \/ Get(t) \/ Look(t)
    BY Zenon, <1>1, <2>1, <2>2, QuietServes
  <2>3. CASE Subtract(t) \/ Add(t) \/ Evicted(t) \/ Unloaded(t)
    BY Zenon, <1>1, <2>1, <2>3, CountServes
  <2>4. CASE Create(t) \/ Write(t) \/ Rename(t)
    BY Zenon, <1>1, <2>1, <2>4, CreateServes, WriteServes, RenameServes
  <2>5. CASE Replace(t) \/ Unindex(t) \/ Insert(t)
    BY Zenon, <1>1, <2>1, <2>5, ReplaceServes, UnindexServes, InsertServes
  <2>6. CASE Take(t) \/ Index(t)
    BY Zenon, <1>1, <2>1, <2>6, TakeServes, IndexServes
  <2>7. CASE Read(t) \/ Promote(t) \/ Promoted(t)
    BY Zenon, <1>1, <2>1, <2>7, ReadServes, PromoteServes, PromotedServes
  <2>8. CASE Unloads(t) \/ DropIndex(t) \/ Delete(t)
    BY Zenon, <1>1, <2>1, <2>8, UnloadsServes, DropIndexServes, DeleteServes
  <2>. QED
    BY Zenon, <2>2, <2>3, <2>4, <2>5, <2>6, <2>7, <2>8 DEF Step
<1>. QED
  BY <1>2 DEF ServesAll

\* At the start every expert is there and nobody is at work.
LEMMA InitServes == Init => ServesAll
<1>. SUFFICES ASSUME Init, NEW k \in Keys PROVE Serving(k)
  BY DEF ServesAll
<1>1. PICK c \in Keys, n \in [Keys -> Files] :
        /\ \A x \in Keys : n[x] <= Cardinality(Keys)
        /\ mem = [x \in Keys |-> IF x = c THEN 1 ELSE 0] /\ disk = Keys \ {c} /\ path = n
        /\ content = [f \in Files |-> IF f <= Cardinality(Keys) THEN 1 ELSE 0]
        /\ at = [t \in Threads |-> "idle"] /\ latest = [x \in Keys |-> 1]
  BY Zenon DEF Init
<1>2. Blob(k) = 1
  BY <1>1, Kinds DEF Blob
<1>3. Normal(k)
  <2>1. ~ Promised(k)
    BY <1>1 DEF Promised, Promoting
  <2>. QED
    BY <1>1, <1>2, <2>1 DEF Normal
<1>4. \A t \in Threads : Stands(t, k)
  BY <1>1 DEF Stands, LoadSteps, UnloadSteps
<1>. QED
  BY <1>3, <1>4 DEF Serving

\* What the threads count on, with the types and the files it needs.
SInv == IInv /\ Apart /\ ServesAll

\* Every step keeps serving.
LEMMA SInvKept == SInv /\ [Next]_vars => SInv'
<1>. SUFFICES ASSUME SInv, [Next]_vars PROVE SInv'
  OBVIOUS
<1>1. IInv' /\ Apart'
  BY NextKeeps, ApartKept DEF SInv
<1>2. CASE Next
  <2>1. PICK t \in Threads : Step(t)
    BY <1>2 DEF Next
  <2>. QED
    BY <1>1, <2>1, NextServes DEF SInv
<1>3. CASE UNCHANGED vars
  <2>1. /\ UNCHANGED << mem, disk, path, tmp, content >>
        /\ UNCHANGED << at, key, held, file, victim, latest, raced >>
    BY <1>3 DEF vars, tiers, files, thread
  <2>2. ASSUME NEW k \in Keys, Serving(k) PROVE Serving(k)'
    <3>1. Blob(k)' = Blob(k) /\ (Moving(k)' <=> Moving(k)) /\ (Promised(k)' <=> Promised(k))
      BY <2>1 DEF Blob, Moving, Evicting, Promised, Promoting
    <3>2. \A t \in Threads : (Late(t, k)' <=> Late(t, k)) /\ (Changing(t, k)' <=> Changing(t, k))
      BY <2>1 DEF Late, Changing
    <3>3. Normal(k)' <=> Normal(k)
      BY <2>1, <3>1 DEF Normal
    <3>4. \A t \in Threads : Stands(t, k) => Stands(t, k)'
      BY <2>1, <3>1, <3>2 DEF Stands
    <3>. QED
      BY <2>2, <3>2, <3>3, <3>4 DEF Serving
  <2>. QED
    BY <1>1, <2>1, <2>2 DEF SInv, ServesAll
<1>. QED
  BY <1>2, <1>3

(* In every state, what an expert on which no calls have clashed is in     *)
(* memory, in the index and on the disk is what its calls have made of it  *)
(* so far.                                                                 *)
THEOREM ServesThroughout == Spec => []SInv
<1>1. Init => SInv
  BY InitIInv, InitApart, InitServes DEF SInv
<1>. QED
  BY <1>1, SInvKept, PTL DEF Spec

(* At rest every expert on which no calls have clashed is served with the  *)
(* weights of its last load, or is gone when it was unloaded.              *)
THEOREM ServesAtRest == Spec => []ServableAtRest
<1>1. SInv => ServableAtRest
  <2>. SUFFICES ASSUME SInv, AtRest, NEW k \in Keys \ raced
                PROVE  IF latest[k] = 0 THEN mem[k] = 0 /\ k \notin disk /\ path[k] = 0
                       ELSE \/ mem[k] = latest[k]
                            \/ mem[k] = 0 /\ k \in disk /\ Blob(k) = latest[k]
    BY DEF ServableAtRest
  <2>1. ~ Moving(k) /\ \A t \in Threads : ~ Late(t, k)
    BY DEF AtRest, Moving, Evicting, Late, LoadSteps, UnloadSteps
  <2>2. Normal(k)
    BY <2>1 DEF SInv, ServesAll, Serving
  <2>. QED
    BY <2>1, <2>2 DEF Normal
<1>. QED
  BY <1>1, ServesThroughout, PTL
=============================================================================
