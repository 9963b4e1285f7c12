------------------------------ MODULE Experts ------------------------------
(***************************************************************************)
(* The expert weights a holder keeps: MoeExpertRuntime in                  *)
(* praecise-moe/src/exec.rs.                                               *)
(*                                                                         *)
(* Threads load, execute and unload experts.  The memory tier, the index   *)
(* of the disk tier, the byte count and the files are each touched in      *)
(* steps of their own, and only eviction holds a lock, so every access to  *)
(* one of them is an action here.  A file is written under a temporary     *)
(* name and renamed; two loads of one expert share that name.              *)
(*                                                                         *)
(* Weights are a version number, one per load; gates, sources, statistics  *)
(* and the arithmetic of the forward pass are left out, and so are the     *)
(* access ticks: an eviction moves any expert that is in memory when it    *)
(* looks for the one used least recently.                                  *)
(***************************************************************************)
EXTENDS Integers, FiniteSets, FiniteSetsExt

CONSTANTS
  Threads,  \* callers of the runtime
  Keys,     \* (model_id, layer, expert)
  Size,     \* approx_bytes of each expert
  Budget,   \* ResidencyConfig::memory_budget_bytes
  Versions, \* bound: the blobs ever loaded
  Calls,    \* bound: calls of the runtime
  Word      \* the byte count wraps at this (2^64 in the code)

ASSUME ExpertsAssumption ==
  /\ Versions \in Nat \ {0} /\ Budget \in Nat \ {0} /\ Calls \in Nat
  /\ Size \in [Keys -> Nat]
  /\ Word \in Nat \ {0}
  /\ IsFiniteSet(Threads) /\ IsFiniteSet(Keys)

\* The bytes ever put in memory, an expert at the start and one per call, are
\* fewer than a counter holds.
ASSUME WordAssumption == \A k \in Keys : (Calls + 1) * Size[k] < Word

VARIABLES
  mem,       \* memory tier: the version of each expert, 0 when absent
  disk,      \* the experts the disk tier's index holds
  path,      \* the file of each expert's blob, 0 when there is none
  tmp,       \* the file under its temporary name, 0 when there is none
  content,   \* the version in each file, 0 while it is not written yet
  mem_bytes, \* the byte count
  guard,     \* evict_guard is held
  at,        \* per thread: the step it is about to take
  key,       \* per thread: the expert it works on
  held,      \* per thread: the version it holds
  file,      \* per thread: the file it writes
  victim,    \* per thread: the expert it is moving out of memory
  loads,     \* loads begun
  calls,     \* calls begun
  latest,    \* ghost: the version each expert was last given, 0 if unloaded
  raced      \* ghost: experts on which two calls clashed; see Clashes

tiers == << mem, disk >>
files == << path, tmp, content >>
thread == << at, key, held, file, victim >>
vars == << tiers, files, mem_bytes, guard, thread, loads, calls, latest, raced >>

Files == 1 .. Versions + Cardinality(Keys)
InMemory == {k \in Keys : mem[k] # 0}

Steps ==
  {"idle", "create", "write", "rename", "replace", "subtract", "unindex", "insert",
   "add", "evict", "pick", "len", "choose", "take", "evicted", "index", "get",
   "look", "read", "promote", "count", "promoted", "unload", "unloaded", "drop", "delete"}

TypeOK ==
  /\ mem \in [Keys -> 0 .. Versions] /\ disk \subseteq Keys
  /\ path \in [Keys -> {0} \cup Files] /\ tmp \in [Keys -> {0} \cup Files]
  /\ content \in [Files -> 0 .. Versions]
  /\ mem_bytes \in 0 .. Word - 1 /\ guard \in BOOLEAN
  /\ at \in [Threads -> Steps] /\ key \in [Threads -> Keys]
  /\ held \in [Threads -> 0 .. Versions] /\ file \in [Threads -> {0} \cup Files]
  /\ victim \in [Threads -> Keys]
  /\ loads \in 0 .. Versions /\ calls \in 0 .. Calls
  /\ latest \in [Keys -> 0 .. Versions] /\ raced \subseteq Keys
  /\ guard <=> \E t \in Threads : at[t] \in {"pick", "len", "choose", "take", "evicted", "index"}

-----------------------------------------------------------------------------
Changing(t, k) ==
  key[t] = k /\ at[t] \in {"create", "write", "rename", "replace", "subtract",
    "unindex", "insert", "unload", "unloaded", "drop", "delete"}

HasRead(t, k) == key[t] = k /\ at[t] = "promote"

Promoting(t, k) == key[t] = k /\ at[t] \in {"count", "promoted"}

Evicting(t, k) == victim[t] = k /\ at[t] \in {"evicted", "index"}

\* The experts of which t's step comes between two of another's: both change its
\* weights; one changes them while the other has read the blob and not yet put it
\* in memory; it is evicted before its promotion has dropped the index entry; or
\* its index entry is dropped by an unload before its eviction makes it.
Clashes(t) ==
  {k \in Keys : \E u \in Threads \ {t} :
     \/ Changing(t, k) /\ (Changing(u, k) \/ HasRead(u, k))
     \/ HasRead(t, k) /\ Changing(u, k)
     \/ at[t] = "take" /\ victim[t] = k /\ Promoting(u, k)
     \/ at[t] = "drop" /\ key[t] = k /\ Evicting(u, k)}

Goes(t, step) ==
  /\ at' = [at EXCEPT ![t] = step]
  /\ raced' = raced \cup Clashes(t)

PutIn(k, v) == mem' = [mem EXCEPT ![k] = v]

TakenOut(k) == mem' = [mem EXCEPT ![k] = 0]

\* fetch_add and fetch_sub wrap.
Counted(n) == mem_bytes' = (mem_bytes + n) % Word

Begins(t, k, step) ==
  /\ at[t] = "idle" /\ calls < Calls
  /\ calls' = calls + 1
  /\ key' = [key EXCEPT ![t] = k]
  /\ Goes(t, step)

-----------------------------------------------------------------------------
(* load_expert: write_blob_atomic, then admit_memory. *)

Load(t, k) ==
  /\ Begins(t, k, "create") /\ loads < Versions
  /\ loads' = loads + 1
  /\ held' = [held EXCEPT ![t] = loads + 1]
  /\ UNCHANGED << tiers, files, mem_bytes, guard, file, victim, latest >>

NewFile == Max({0} \cup {path[k] : k \in Keys} \cup {tmp[k] : k \in Keys}
               \cup {file[t] : t \in Threads}) + 1

\* File::create truncates the file that has the name, or makes one.
Create(t) ==
  /\ at[t] = "create"
  /\ LET k == key[t] IN
     LET f == IF tmp[k] # 0 THEN tmp[k] ELSE NewFile IN
     /\ f \in Files
     /\ tmp' = [tmp EXCEPT ![k] = f]
     /\ content' = [content EXCEPT ![f] = 0]
     /\ file' = [file EXCEPT ![t] = f]
  /\ Goes(t, "write")
  /\ UNCHANGED << tiers, path, mem_bytes, guard, key, held, victim, loads, calls, latest >>

Write(t) ==
  /\ at[t] = "write"
  /\ content' = [content EXCEPT ![file[t]] = held[t]]
  /\ Goes(t, "rename")
  /\ UNCHANGED << tiers, path, tmp, mem_bytes, guard, key, held, file, victim,
                  loads, calls, latest >>

\* The blob does not fit on the disk: the load fails, the file stays half
\* written under its temporary name.
WriteFails(t) ==
  /\ at[t] = "write"
  /\ file' = [file EXCEPT ![t] = 0]
  /\ Goes(t, "idle")
  /\ UNCHANGED << tiers, files, mem_bytes, guard, key, held, victim, loads, calls, latest >>

\* Whatever has the temporary name by now takes the expert's; with none left
\* the load fails.
Rename(t) ==
  /\ at[t] = "rename"
  /\ LET k == key[t] IN
     IF tmp[k] = 0
     THEN Goes(t, "idle") /\ UNCHANGED << path, tmp >>
     ELSE /\ path' = [path EXCEPT ![k] = tmp[k]]
          /\ tmp' = [tmp EXCEPT ![k] = 0]
          /\ Goes(t, "replace")
  /\ file' = [file EXCEPT ![t] = 0]
  /\ UNCHANGED << tiers, content, mem_bytes, guard, key, held, victim, loads, calls, latest >>

Replace(t) ==
  /\ at[t] = "replace"
  /\ TakenOut(key[t])
  /\ Goes(t, IF mem[key[t]] # 0 THEN "subtract" ELSE "unindex")
  /\ UNCHANGED << disk, files, mem_bytes, guard, key, held, file, victim, loads, calls, latest >>

Subtract(t) ==
  /\ at[t] = "subtract"
  /\ Counted(-Size[key[t]])
  /\ Goes(t, "unindex")
  /\ UNCHANGED << tiers, files, guard, key, held, file, victim, loads, calls, latest >>

Unindex(t) ==
  /\ at[t] = "unindex"
  /\ disk' = disk \ {key[t]}
  /\ Goes(t, "insert")
  /\ UNCHANGED << mem, files, mem_bytes, guard, key, held, file, victim,
                  loads, calls, latest >>

Insert(t) ==
  /\ at[t] = "insert"
  /\ PutIn(key[t], held[t])
  /\ latest' = [latest EXCEPT ![key[t]] = held[t]]
  /\ Goes(t, "add")
  /\ UNCHANGED << disk, files, mem_bytes, guard, key, held, file, victim, loads, calls >>

Add_PromotionsFree(t) ==
  /\ at[t] \in {"add", "count"}
  /\ IF at[t] = "add" THEN Counted(Size[key[t]]) ELSE UNCHANGED mem_bytes
  /\ Goes(t, IF at[t] = "add" THEN "evict" ELSE "promoted")
  /\ UNCHANGED << tiers, files, guard, key, held, file, victim, loads, calls, latest >>

Add(t) ==
  /\ at[t] \in {"add", "count"}
  /\ Counted(Size[key[t]])
  /\ Goes(t, IF at[t] = "add" THEN "evict" ELSE "promoted")
  /\ UNCHANGED << tiers, files, guard, key, held, file, victim, loads, calls, latest >>

-----------------------------------------------------------------------------
(* evict_to_budget. *)

Evict_Unguarded(t) ==
  /\ at[t] = "evict"
  /\ guard' = TRUE
  /\ Goes(t, "pick")
  /\ UNCHANGED << tiers, files, mem_bytes, key, held, file, victim, loads, calls, latest >>

Evict(t) ==
  /\ at[t] = "evict" /\ ~guard
  /\ guard' = TRUE
  /\ Goes(t, "pick")
  /\ UNCHANGED << tiers, files, mem_bytes, key, held, file, victim, loads, calls, latest >>

OverBudget == mem_bytes > Budget

Leaves(t) == guard' = FALSE /\ Goes(t, "idle")

Pick(t) ==
  /\ at[t] = "pick"
  /\ IF OverBudget THEN Goes(t, "len") /\ UNCHANGED guard ELSE Leaves(t)
  /\ UNCHANGED << tiers, files, mem_bytes, key, held, file, victim, loads, calls, latest >>

\* The last expert in memory stays there.
Several(t) ==
  /\ at[t] = "len"
  /\ IF Cardinality(InMemory) > 1 THEN Goes(t, "choose") /\ UNCHANGED guard ELSE Leaves(t)
  /\ UNCHANGED << tiers, files, mem_bytes, key, held, file, victim, loads, calls, latest >>

\* The one used least recently, whichever it is.
Choose(t) ==
  /\ at[t] = "choose"
  /\ \/ \E k \in InMemory :
          /\ victim' = [victim EXCEPT ![t] = k]
          /\ Goes(t, "take")
          /\ UNCHANGED guard
     \/ InMemory = {} /\ Leaves(t) /\ UNCHANGED victim
  /\ UNCHANGED << tiers, files, mem_bytes, key, held, file, loads, calls, latest >>

Take(t) ==
  /\ at[t] = "take"
  /\ TakenOut(victim[t])
  /\ Goes(t, IF mem[victim[t]] # 0 THEN "evicted" ELSE "pick")
  /\ UNCHANGED << disk, files, mem_bytes, guard, key, held, file, victim, loads, calls, latest >>

Evicted(t) ==
  /\ at[t] = "evicted"
  /\ Counted(-Size[victim[t]])
  /\ Goes(t, "index")
  /\ UNCHANGED << tiers, files, guard, key, held, file, victim, loads, calls, latest >>

Index_Never(t) ==
  /\ at[t] = "index"
  /\ Goes(t, "pick")
  /\ UNCHANGED << tiers, files, mem_bytes, guard, key, held, file, victim, loads, calls, latest >>

Index(t) ==
  /\ at[t] = "index"
  /\ disk' = disk \cup {victim[t]}
  /\ Goes(t, "pick")
  /\ UNCHANGED << mem, files, mem_bytes, guard, key, held, file, victim,
                  loads, calls, latest >>

-----------------------------------------------------------------------------
(* resolve, for execute and for each expert of a readahead. *)

Resolve(t, k) ==
  /\ Begins(t, k, "get")
  /\ UNCHANGED << tiers, files, mem_bytes, guard, held, file, victim, loads, latest >>

Get(t) ==
  /\ at[t] = "get"
  /\ Goes(t, IF mem[key[t]] # 0 THEN "idle" ELSE "look")
  /\ UNCHANGED << tiers, files, mem_bytes, guard, key, held, file, victim, loads, calls, latest >>

\* On neither tier: ExpertNotLoaded.
Look(t) ==
  /\ at[t] = "look"
  /\ Goes(t, IF key[t] \in disk THEN "read" ELSE "idle")
  /\ UNCHANGED << tiers, files, mem_bytes, guard, key, held, file, victim, loads, calls, latest >>

Blob(k) == IF path[k] = 0 THEN 0 ELSE content[path[k]]

\* No file, or half of one: the call fails.
Read(t) ==
  /\ at[t] = "read"
  /\ held' = [held EXCEPT ![t] = Blob(key[t])]
  /\ Goes(t, IF Blob(key[t]) = 0 THEN "idle" ELSE "promote")
  /\ UNCHANGED << tiers, files, mem_bytes, guard, key, file, victim, loads, calls, latest >>

Promote(t) ==
  /\ at[t] = "promote"
  /\ PutIn(key[t], held[t])
  /\ Goes(t, "count")
  /\ UNCHANGED << disk, files, mem_bytes, guard, key, held, file, victim, loads, calls, latest >>

Promoted(t) ==
  /\ at[t] = "promoted"
  /\ disk' = disk \ {key[t]}
  /\ Goes(t, "evict")
  /\ UNCHANGED << mem, files, mem_bytes, guard, key, held, file, victim,
                  loads, calls, latest >>

-----------------------------------------------------------------------------
(* unload_expert. *)

Unload(t, k) ==
  /\ Begins(t, k, "unload")
  /\ UNCHANGED << tiers, files, mem_bytes, guard, held, file, victim, loads, latest >>

Unloads(t) ==
  /\ at[t] = "unload"
  /\ TakenOut(key[t])
  /\ latest' = [latest EXCEPT ![key[t]] = 0]
  /\ Goes(t, IF mem[key[t]] # 0 THEN "unloaded" ELSE "drop")
  /\ UNCHANGED << disk, files, mem_bytes, guard, key, held, file, victim, loads, calls >>

Unloaded(t) ==
  /\ at[t] = "unloaded"
  /\ Counted(-Size[key[t]])
  /\ Goes(t, "drop")
  /\ UNCHANGED << tiers, files, guard, key, held, file, victim, loads, calls, latest >>

DropIndex(t) ==
  /\ at[t] = "drop"
  /\ disk' = disk \ {key[t]}
  /\ Goes(t, "delete")
  /\ UNCHANGED << mem, files, mem_bytes, guard, key, held, file, victim,
                  loads, calls, latest >>

\* The blob has a file whether or not it was ever evicted.
Delete(t) ==
  /\ at[t] = "delete"
  /\ path' = [path EXCEPT ![key[t]] = 0]
  /\ Goes(t, "idle")
  /\ UNCHANGED << tiers, tmp, content, mem_bytes, guard, key, held, file, victim,
                  loads, calls, latest >>

-----------------------------------------------------------------------------
\* A runtime in use: every expert loaded once, one of them in memory.
Init ==
  \E k \in Keys, n \in [Keys -> Files] :
    /\ Size[k] <= Budget
    /\ \A x, y \in Keys : n[x] = n[y] => x = y
    /\ \A x \in Keys : n[x] <= Cardinality(Keys)
    /\ mem = [x \in Keys |-> IF x = k THEN 1 ELSE 0]
    /\ disk = Keys \ {k}
    /\ path = n /\ tmp = [x \in Keys |-> 0]
    /\ content = [f \in Files |-> IF f <= Cardinality(Keys) THEN 1 ELSE 0]
    /\ mem_bytes = Size[k] /\ guard = FALSE
    /\ at = [t \in Threads |-> "idle"] /\ key = [t \in Threads |-> k]
    /\ held = [t \in Threads |-> 0] /\ file = [t \in Threads |-> 0]
    /\ victim = [t \in Threads |-> k]
    /\ loads = 1 /\ calls = 0
    /\ latest = [x \in Keys |-> 1] /\ raced = {}

Step(t) ==
  \/ \E k \in Keys : Load(t, k) \/ Resolve(t, k) \/ Unload(t, k)
  \/ Create(t) \/ Write(t) \/ WriteFails(t) \/ Rename(t)
  \/ Replace(t) \/ Subtract(t) \/ Unindex(t) \/ Insert(t) \/ Add(t)
  \/ Evict(t) \/ Pick(t) \/ Several(t) \/ Choose(t) \/ Take(t) \/ Evicted(t) \/ Index(t)
  \/ Get(t) \/ Look(t) \/ Read(t) \/ Promote(t) \/ Promoted(t)
  \/ Unloads(t) \/ Unloaded(t) \/ DropIndex(t) \/ Delete(t)

Next == \E t \in Threads : Step(t)

Spec == Init /\ [][Next]_vars

-----------------------------------------------------------------------------
(* Properties. *)

AtRest == \A t \in Threads : at[t] = "idle"

Resident == MapThenSumSet(LAMBDA k : Size[k], InMemory)

\* At rest the experts in memory fit the budget, or there is only one of them,
\* however loads, promotions, evictions and unloads interleaved: each counts
\* what it moved in a step of its own, the count may wrap in between and may
\* have grown for good, but never to less than what is there.
RestWithinBudget ==
  AtRest => /\ Resident <= mem_bytes
            /\ Resident <= Budget \/ Cardinality(InMemory) <= 1

\* At rest every expert can be served with the weights of its last load, from
\* memory or from a whole blob on disk, and one that was unloaded is gone, but
\* for those on which two calls clashed: whatever else overlaps, two promotions
\* or a load and an eviction of one expert, and wherever a load fails.  (Where
\* they clash the code may serve an older blob or half of one, index a file that
\* is gone, or drop the expert from both tiers.)
ServableAtRest ==
  AtRest => \A k \in Keys \ raced :
    IF latest[k] = 0 THEN mem[k] = 0 /\ k \notin disk /\ path[k] = 0
    ELSE \/ mem[k] = latest[k]
         \/ mem[k] = 0 /\ k \in disk /\ Blob(k) = latest[k]
=============================================================================
