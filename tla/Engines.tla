------------------------------ MODULE Engines ------------------------------
(***************************************************************************)
(* The engines of one application and the models they hold: Engines, Claim *)
(* and FixedBudget in praecise-host/src/engines.rs.                        *)
(*                                                                         *)
(* Application threads claim a model for an in-process engine, serve one   *)
(* from a runtime host, and release it.  Each call is several lock         *)
(* sections, and every lock section is one action: take() holds the state  *)
(* lock over the budget's, but release() gives the reservation back and    *)
(* stops the host after it has let go of the state, serve() publishes the  *)
(* host in one section and commits the claim in another, and a claim that  *)
(* is dropped releases by name.                                            *)
(*                                                                         *)
(* A hosted model is what Engines sees of HostedModel: loading, up, ending *)
(* once it is told to stop, and gone when the last Arc to it is dropped:   *)
(* its requests each hold one, and so may the application.                 *)
(***************************************************************************)
EXTENDS Integers, FiniteSets, Functions

CONSTANTS
  Models,    \* model ids
  Kinds,     \* engine kinds
  Linked,    \* the kinds whose backend is linked (llama.cpp): never hosted
  Threads,   \* application threads
  Hosts,     \* bound: hosted models in existence at once
  Sizes,     \* bound: the gpu_bytes a load may ask for
  Total      \* FixedBudget.total

ASSUME LinkedAssumption == Linked \subseteq Kinds
ASSUME NoneAssumption == "none" \notin Models \cup Kinds \cup Hosts
ASSUME NamesAssumption == Models \cap Hosts = {}
ASSUME ModelsAssumption == IsFiniteSet(Models)
ASSUME SizesAssumption == Sizes \subseteq Nat
ASSUME TotalAssumption == Total \in Nat

VARIABLES
  held,      \* State.held
  reserved,  \* FixedBudget.reserved; 0 where the map has no entry
  pc,        \* where each thread is in its call
  claim,     \* the Claim a thread holds (its model and engine while not)
  released,  \* the Held a thread's release() has removed and not finished with
  mem,       \* each hosted model
  of,        \* the model each hosted model serves
  inproc,    \* the kind whose in-process copy of a model is loaded
  overlap,   \* models on which a claim and a release have overlapped
  stray      \* copies (a host; a model, in process) that lost their entry

marks == <<overlap, stray>>
vars == <<held, reserved, pc, claim, released, mem, of, inproc, marks>>

\* Held entries and claims are records; these are the empty ones.
NotHeld == [kind |-> "none", bytes |-> 0, committed |-> FALSE, hosted |-> "none"]
NoClaim == [model |-> "none", kind |-> "none", fresh |-> FALSE, host |-> "none"]

IsHeld(m) == held[m] # NotHeld
Claiming == {"loading", "starting", "started", "committing", "dropping"}
Starting == {"starting", "started"}
Releasing == {"givingBack", "stopping"}

\* Mutant: what is reserved is not subtracted.
FreeAll == Total

\* FixedBudget::free
Free == Total - FoldFunction(+, 0, reserved)

HeldEntry ==
  [kind : Kinds, bytes : Sizes, committed : BOOLEAN, hosted : Hosts \cup {"none"}]
ClaimRecord ==
  [model : Models, kind : Kinds, fresh : BOOLEAN, host : Hosts \cup {"none"}]

TypeOK ==
  /\ held \in [Models -> HeldEntry \cup {NotHeld}]
  /\ reserved \in [Models -> Sizes \cup {0}]
  /\ pc \in [Threads -> {"idle"} \cup Claiming \cup Releasing]
  /\ claim \in [Threads -> ClaimRecord \cup {NoClaim}]
  /\ released \in [Threads -> HeldEntry \cup {NotHeld}]
  /\ mem \in [Hosts -> {"none", "loading", "up", "ending"}]
  /\ of \in [Hosts -> Models \cup {"none"}]
  /\ inproc \in [Models -> Kinds \cup {"none"}]
  /\ overlap \subseteq Models
  /\ stray \subseteq Hosts \cup Models

Init ==
  /\ held = [m \in Models |-> NotHeld]
  /\ reserved = [m \in Models |-> 0]
  /\ pc = [t \in Threads |-> "idle"]
  /\ claim = [t \in Threads |-> NoClaim]
  /\ released = [t \in Threads |-> NotHeld]
  /\ mem = [h \in Hosts |-> "none"]
  /\ of = [h \in Hosts |-> "none"]
  /\ inproc = [m \in Models |-> "none"]
  /\ overlap = {}
  /\ stray = {}

Goto(t, label) == pc' = [pc EXCEPT ![t] = label]

\* Where the process of a hosted model goes; one that is gone serves nothing.
Becomes(h, to) ==
  /\ mem' = [mem EXCEPT ![h] = to]
  /\ of' = IF to = "none" THEN [of EXCEPT ![h] = "none"] ELSE of
  /\ stray' = IF to = "none" THEN stray \ {h} ELSE stray

\* A thread other than t is between taking and settling a claim on m.
ClaimedElsewhere(t, m) ==
  \E u \in Threads \ {t} : pc[u] \in Claiming /\ claim[u].model = m
ReleasedElsewhere(t, m) ==
  \E u \in Threads \ {t} : pc[u] \in Releasing /\ claim[u].model = m

-----------------------------------------------------------------------------
(* take(): under the state lock, the budget's inside it.                   *)

\* The model is free and its bytes fit.
TakeFresh(t, m, k, b, h) ==
  /\ ~IsHeld(m)
  /\ b <= Free \/ b = 0
  /\ reserved' = IF b > 0 THEN [reserved EXCEPT ![m] = b] ELSE reserved
  /\ held' = [held EXCEPT ![m] =
       [kind |-> k, bytes |-> b, committed |-> FALSE, hosted |-> "none"]]
  /\ claim' = [claim EXCEPT ![t] =
       [model |-> m, kind |-> k, fresh |-> TRUE, host |-> h]]
  /\ overlap' = IF ReleasedElsewhere(t, m) THEN overlap \cup {m} ELSE overlap

\* Mutant: the engine is not compared: any claim is reused.
TakeReuseAny(t, m, k) ==
  /\ IsHeld(m)
  /\ claim' = [claim EXCEPT ![t] =
       [model |-> m, kind |-> k, fresh |-> FALSE, host |-> "none"]]
  /\ overlap' = IF ClaimedElsewhere(t, m) THEN overlap \cup {m} ELSE overlap
  /\ UNCHANGED <<held, reserved>>

\* A claim the same engine already holds in the process: a reload in place.
TakeReuse(t, m, k) ==
  /\ IsHeld(m) /\ held[m].kind = k /\ held[m].hosted = "none"
  /\ claim' = [claim EXCEPT ![t] =
       [model |-> m, kind |-> k, fresh |-> FALSE, host |-> "none"]]
  /\ overlap' = IF ClaimedElsewhere(t, m) THEN overlap \cup {m} ELSE overlap
  /\ UNCHANGED <<held, reserved>>

\* claim(), for a linked backend as the module documentation has it: the
\* application then loads the model in its own process.
ClaimModel(t, m, k, b) ==
  /\ pc[t] = "idle" /\ k \in Linked
  /\ TakeFresh(t, m, k, b, "none") \/ TakeReuse(t, m, k)
  /\ Goto(t, "loading")
  /\ stray' = stray \ {m}
  /\ UNCHANGED <<released, mem, of, inproc>>

\* The in-process load succeeded or failed: commit() or drop of the Claim.
LoadEnds(t) ==
  /\ pc[t] = "loading"
  /\ \/ /\ inproc' = [inproc EXCEPT ![claim[t].model] = claim[t].kind]
        /\ Goto(t, "committing")
     \/ Goto(t, "dropping") /\ UNCHANGED inproc
  /\ UNCHANGED <<held, reserved, claim, released, mem, of, marks>>

\* serve(): a linked backend is refused; the claim is never a reuse.
Serve(t, m, k, b, h) ==
  /\ pc[t] = "idle" /\ k \notin Linked /\ mem[h] = "none"
  /\ TakeFresh(t, m, k, b, h)
  /\ mem' = [mem EXCEPT ![h] = "loading"]
  /\ of' = [of EXCEPT ![h] = m]
  /\ Goto(t, "starting")
  /\ UNCHANGED <<released, inproc, stray>>

\* hosted.start() returns, with the model loaded or with an error.
StartEnds(t) ==
  /\ pc[t] = "starting"
  /\ \/ Becomes(claim[t].host, "up") /\ Goto(t, "started")
     \/ Becomes(claim[t].host, "none") /\ Goto(t, "dropping")
  /\ UNCHANGED <<held, reserved, claim, released, inproc, overlap>>

\* Mutant: the claim is committed without the host being recorded.
PublishNothing(t) ==
  /\ pc[t] = "started"
  /\ Goto(t, "committing")
  /\ UNCHANGED <<held, reserved, claim, released, mem, of, inproc, marks>>

\* Mutant: the host is recorded for a model that has no entry any more.
PublishAlways(t) ==
  /\ pc[t] = "started"
  /\ held' = [held EXCEPT ![claim[t].model].hosted = claim[t].host]
  /\ Goto(t, "committing")
  /\ UNCHANGED <<reserved, claim, released, mem, of, inproc, marks>>

\* held.get_mut(model_id): whatever entry the model has now gets the host,
\* in place of the one it had.
Publish(t) ==
  LET m == claim[t].model IN
  /\ pc[t] = "started"
  /\ IF IsHeld(m)
     THEN /\ held' = [held EXCEPT ![m].hosted = claim[t].host]
          /\ stray' = stray \cup ({held[m].hosted} \ {"none"})
     ELSE UNCHANGED <<held, stray>>
  /\ Goto(t, "committing")
  /\ UNCHANGED <<reserved, claim, released, mem, of, inproc, overlap>>

\* Claim::commit: whatever entry the model has now is committed.
Commit(t) ==
  /\ pc[t] = "committing"
  /\ held' = IF IsHeld(claim[t].model)
             THEN [held EXCEPT ![claim[t].model].committed = TRUE]
             ELSE held
  /\ claim' = [claim EXCEPT ![t] = NoClaim]
  /\ Goto(t, "idle")
  /\ UNCHANGED <<reserved, released, mem, of, inproc, marks>>

-----------------------------------------------------------------------------
(* release(): remove the entry; then, without the lock, give the bytes     *)
(* back; then stop the host.                                               *)

\* The hosts of m that a serve() has yet to record in the entry.
Unrecorded(m) ==
  {h \in Hosts : \E t \in Threads :
     claim[t].model = m /\ claim[t].host = h /\ pc[t] \in Starting}

\* m is in the application's process, or being loaded into it.
LoadingInProcess(m) == \E t \in Threads : pc[t] = "loading" /\ claim[t].model = m
InProcess(m) == inproc[m] # "none" \/ LoadingInProcess(m)

\* stays: the removal leaves an in-process copy of m behind.
Remove(t, m, stays) ==
  /\ held' = [held EXCEPT ![m] = NotHeld]
  /\ stray' = stray \cup Unrecorded(m) \cup (IF stays THEN {m} ELSE {})
  /\ claim' = [claim EXCEPT ![t] =
       [model |-> m, kind |-> held[m].kind, fresh |-> FALSE, host |-> "none"]]
  /\ released' = [released EXCEPT ![t] = held[m]]
  /\ overlap' = IF ClaimedElsewhere(t, m) THEN overlap \cup {m} ELSE overlap
  /\ Goto(t, "givingBack")

\* The application releases a model it has unloaded.
Release(t, m, k) ==
  /\ pc[t] = "idle" /\ IsHeld(m) /\ held[m].kind = k
  /\ Remove(t, m, inproc[m] \notin {k, "none"} \/ LoadingInProcess(m))
  /\ inproc' = [inproc EXCEPT ![m] = IF @ = k THEN "none" ELSE @]
  /\ UNCHANGED <<reserved, mem, of>>

\* Mutant: a dropped claim gives its reservation back but keeps the model.
DropClaimKeeps(t) ==
  LET m == claim[t].model IN
  /\ pc[t] = "dropping"
  /\ Goto(t, "idle")
  /\ reserved' = IF claim[t].fresh THEN [reserved EXCEPT ![m] = 0] ELSE reserved
  /\ claim' = [claim EXCEPT ![t] = NoClaim]
  /\ UNCHANGED <<held, released, mem, of, inproc, marks>>

\* Drop for Claim: a fresh claim releases its model by name and engine.
DropClaim(t) ==
  LET m == claim[t].model IN
  /\ pc[t] = "dropping"
  /\ IF claim[t].fresh /\ IsHeld(m) /\ held[m].kind = claim[t].kind
     THEN Remove(t, m, InProcess(m))
     ELSE /\ Goto(t, "idle")
          /\ claim' = [claim EXCEPT ![t] = NoClaim]
          /\ UNCHANGED <<held, released, marks>>
  /\ UNCHANGED <<reserved, mem, of, inproc>>

\* Mutant: only a hosted model's bytes are given back.
GiveBackHosted(t) ==
  /\ pc[t] = "givingBack"
  /\ reserved' = IF released[t].hosted # "none"
                 THEN [reserved EXCEPT ![claim[t].model] = 0]
                 ELSE reserved
  /\ Goto(t, "stopping")
  /\ UNCHANGED <<held, claim, released, mem, of, inproc, marks>>

GiveBack(t) ==
  /\ pc[t] = "givingBack"
  /\ reserved' = IF released[t].bytes > 0
                 THEN [reserved EXCEPT ![claim[t].model] = 0]
                 ELSE reserved
  /\ Goto(t, "stopping")
  /\ UNCHANGED <<held, claim, released, mem, of, inproc, marks>>

\* hosted.stop(): no new request is taken, but the process goes on for those
\* it has.
StopHost(t) ==
  LET h == released[t].hosted IN
  /\ pc[t] = "stopping"
  /\ IF h # "none"
     THEN Becomes(h, "ending")
     ELSE UNCHANGED <<mem, of, stray>>
  /\ released' = [released EXCEPT ![t] = NotHeld]
  /\ claim' = [claim EXCEPT ![t] = NoClaim]
  /\ Goto(t, "idle")
  /\ UNCHANGED <<held, reserved, inproc, overlap>>

\* An entry, a call under way or a release refers to the host.
Referred(h) ==
  \/ \E m \in Models : held[m].hosted = h
  \/ \E t \in Threads :
       \/ claim[t].host = h /\ pc[t] \in Starting \cup {"committing"}
       \/ released[t].hosted = h

\* The last request of a host told to stop ends; or the application drops
\* what serve() returned, the last Arc to a host that has no entry.
HostEnds(h) ==
  /\ mem[h] = "ending" \/ (mem[h] = "up" /\ ~Referred(h))
  /\ Becomes(h, "none")
  /\ UNCHANGED <<held, reserved, pc, claim, released, inproc, overlap>>

Step(t) ==
  \/ \E m \in Models, k \in Kinds :
       \/ \E b \in Sizes :
            \/ ClaimModel(t, m, k, b)
            \/ \E h \in Hosts : Serve(t, m, k, b, h)
       \/ Release(t, m, k)
  \/ LoadEnds(t) \/ StartEnds(t) \/ Publish(t) \/ Commit(t)
  \/ DropClaim(t) \/ GiveBack(t) \/ StopHost(t)

Next == (\E t \in Threads : Step(t)) \/ (\E h \in Hosts : HostEnds(h))

Spec == Init /\ [][Next]_vars

-----------------------------------------------------------------------------
\* A release has taken the host out of its entry, or has told it to stop.
Leaving(h) == mem[h] = "ending" \/ \E t \in Threads : released[t].hosted = h

Copies(m) == {h \in Hosts : of[h] = m} \cup (IF InProcess(m) THEN {m} ELSE {})

(* engines.rs, "no model is ever in memory twice": of two copies of a      *)
(* model, whatever claims, serves and releases interleave, one is a host   *)
(* that is being released or was and still runs its last requests, or a    *)
(* copy whose entry was taken from it: by a release that came between its  *)
(* claim and its entry, by the drop of another claim on that entry, or by  *)
(* a serve whose own entry had been taken so.                              *)
OneCopy ==
  \A m \in Models : \A c, d \in Copies(m) :
    c = d \/ \E x \in {c, d} : x \in stray \/ (x \in Hosts /\ Leaving(x))

(* A host that has not been told to stop is in the entry of its model, or  *)
(* its serve() has yet to record it there, or a release has it; any other  *)
(* lost its entry before serve() recorded it, or to a serve that had.      *)
EveryHostAccounted ==
  \A h \in Hosts : mem[h] \in {"loading", "up"} =>
    \/ held[of[h]].hosted = h
    \/ \E t \in Threads :
         claim[t].host = h /\ pc[t] \in Starting /\ IsHeld(of[h])
    \/ \E t \in Threads : released[t].hosted = h
    \/ h \in stray /\ of[h] \in overlap

(* engines.rs, "Each claim also reserves the model's memory": a claim      *)
(* keeps the bytes it was admitted with until it is released, as long as   *)
(* it was not taken while an earlier release still had to give back.       *)
ReservedWhileHeld ==
  \A m \in Models \ overlap : IsHeld(m) => reserved[m] = held[m].bytes

(* Bytes stay reserved only for a claim or for a release under way: when   *)
(* every call has returned, a model nobody holds costs nothing.            *)
NoReservationLeak ==
  \A m \in Models : reserved[m] > 0 =>
    \/ IsHeld(m)
    \/ \E t \in Threads : pc[t] = "givingBack" /\ claim[t].model = m
                          /\ released[t].bytes > 0

(* What the application was promised (ModelResidency): one holder at a     *)
(* time, admitted within the budget, gone only by a release.               *)
Residency == INSTANCE ModelResidency WITH
  status <- [m \in Models |->
    CASE m \in overlap -> "lost"
      [] m \notin overlap /\ ~IsHeld(m) -> "absent"
      [] m \notin overlap /\ IsHeld(m) /\ ~held[m].committed -> "loading"
      [] OTHER -> "loaded"],
  holder <- [m \in Models |-> IF m \in overlap THEN "none" ELSE held[m].kind],
  size <- [m \in Models |-> IF m \in overlap THEN 0 ELSE held[m].bytes]

ResidencySpec == Residency!Spec

(* What the documentation says without the exception: every claim has its  *)
(* bytes reserved.  Violated: release() gives the bytes back after it has  *)
(* let the model go, and takes away what a new claim has just reserved.    *)
EveryClaimReserved ==
  \A m \in Models : IsHeld(m) => reserved[m] >= held[m].bytes
=============================================================================
