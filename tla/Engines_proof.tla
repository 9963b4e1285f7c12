--------------------------- MODULE Engines_proof ---------------------------
(***************************************************************************)
(* Proofs about the two parts of engines.rs: Engines, for any models,      *)
(* kinds, threads, hosts, sizes and budget, and HostedModel, for any       *)
(* callers, failure limit and number of restarts.                          *)
(*                                                                         *)
(* Engines.  A claim and the reservation that goes with it are made in     *)
(* one lock section, so they can only come apart where release() lets go   *)
(* of the lock between removing the entry and giving the bytes back.  A    *)
(* model taken in that gap is in overlap (Unheld), and a reservation       *)
(* nobody holds has a thread in the gap to take it back (Owed).            *)
(*                                                                         *)
(* A copy in memory has one owner at a time: the claim that starts it, the *)
(* entry it is published in, the release that stops it; or its entry was   *)
(* taken from it (stray).  CInv says that whoever refers to a host refers  *)
(* to one that serves its model and was not told to stop (Hosting), no two *)
(* to the same host (OneRef), that a host with an owner is in the entry or *)
(* will be (HostOwned), one serve of a model at most still owns an entry   *)
(* (OneServe), and a copy in the process keeps hosts out (Copied).         *)
(*                                                                         *)
(* HostedModel, at the end.  Only the newest start (number restarts) can   *)
(* be under way, waiting to be retried or current, so "current",           *)
(* "starting" and "to be retried" are states of one thing and exclude each *)
(* other.  Whoever makes a newer one has first seen the previous host      *)
(* dead, or reported it while it was running (hungUp).                     *)
(***************************************************************************)
EXTENDS Engines, HostedModel, NatFacts

\* A thread inside a call holds a claim record.
Calling == \A t \in Threads : pc[t] # "idle" => claim[t] \in ClaimRecord

\* A model that was taken again while a release has not finished with it is
\* in overlap.
Unheld ==
  \A t \in Threads :
    pc[t] \in Releasing /\ IsHeld(claim[t].model) => claim[t].model \in overlap

Owed ==
  \A m \in Models : reserved[m] > 0 =>
    \/ IsHeld(m) /\ held[m].bytes > 0
    \/ \E t \in Threads : pc[t] = "givingBack" /\ claim[t].model = m
                          /\ released[t].bytes > 0

IInv == TypeOK /\ Calling /\ Unheld /\ Owed /\ ReservedWhileHeld

-----------------------------------------------------------------------------
USE NoneAssumption, SizesAssumption
USE DEF HeldEntry, ClaimRecord, NotHeld, NoClaim, Claiming, Releasing

\* No entry, no claim, no reservation.
LEMMA InitIInv == Init => IInv
<1>. SUFFICES ASSUME Init PROVE IInv
  OBVIOUS
<1>. USE DEF Init
<1>1. TypeOK
  BY DEF TypeOK
<1>2. Calling /\ Unheld /\ Owed
  BY DEF Calling, Unheld, Owed
<1>3. ReservedWhileHeld
  BY DEF ReservedWhileHeld, IsHeld
<1>. QED
  BY <1>1, <1>2, <1>3 DEF IInv

\* take(): the claim and the reservation are made together.
LEMMA TakeFreshKeeps ==
  ASSUME IInv, NEW t \in Threads, NEW m \in Models, NEW k \in Kinds,
         NEW b \in Sizes, NEW h \in Hosts \cup {"none"}, pc[t] = "idle",
         TakeFresh(t, m, k, b, h), UNCHANGED released,
         NEW label \in Claiming, Goto(t, label),
         mem' \in [Hosts -> {"none", "loading", "up", "ending"}],
         of' \in [Hosts -> Models \cup {"none"}],
         stray' \in SUBSET (Hosts \cup Models), UNCHANGED inproc
  PROVE  IInv'
<1>. DEFINE entry == [kind |-> k, bytes |-> b, committed |-> FALSE, hosted |-> "none"]
<1>1. /\ held' = [held EXCEPT ![m] = entry]
      /\ claim' = [claim EXCEPT ![t] =
            [model |-> m, kind |-> k, fresh |-> TRUE, host |-> h]]
      /\ pc' = [pc EXCEPT ![t] = label]
      /\ held[m] = NotHeld
  BY DEF TakeFresh, Goto, IsHeld
<1>2. /\ held'[m] = entry /\ IsHeld(m)'
      /\ \A n \in Models \ {m} : held'[n] = held[n] /\ (IsHeld(n)' <=> IsHeld(n))
  BY <1>1 DEF IInv, TypeOK, IsHeld
<1>3. /\ pc'[t] = label
      /\ \A u \in Threads \ {t} : pc'[u] = pc[u] /\ claim'[u] = claim[u]
  BY <1>1 DEF IInv, TypeOK
<1>4. /\ b > 0 => reserved'[m] = b
      /\ b = 0 => reserved'[m] = reserved[m]
      /\ \A n \in Models \ {m} : reserved'[n] = reserved[n]
  BY DEF TakeFresh, IInv, TypeOK
<1>5. /\ overlap \subseteq overlap' /\ overlap' \subseteq overlap \cup {m}
      /\ ReleasedElsewhere(t, m) => m \in overlap'
  BY DEF TakeFresh
<1>6. TypeOK'
  <2>1. held' \in [Models -> HeldEntry \cup {NotHeld}]
    BY <1>1 DEF IInv, TypeOK
  <2>2. reserved' \in [Models -> Sizes \cup {0}]
    BY DEF IInv, TypeOK, TakeFresh
  <2>3. pc' \in [Threads -> {"idle"} \cup Claiming \cup Releasing]
    BY <1>1 DEF IInv, TypeOK
  <2>4. claim' \in [Threads -> ClaimRecord \cup {NoClaim}]
    BY <1>1 DEF IInv, TypeOK
  <2>5. released' \in [Threads -> HeldEntry \cup {NotHeld}]
    BY DEF IInv, TypeOK
  <2>6. /\ inproc' \in [Models -> Kinds \cup {"none"}] /\ overlap' \subseteq Models
        /\ stray' \subseteq Hosts \cup Models
    BY <1>5 DEF IInv, TypeOK
  <2>. QED
    BY <2>1, <2>2, <2>3, <2>4, <2>5, <2>6 DEF TypeOK
<1>7. Calling'
  BY <1>1, <1>3 DEF IInv, TypeOK, Calling
<1>8. Unheld'
  <2>. SUFFICES ASSUME NEW u \in Threads, pc'[u] \in Releasing,
                       held'[claim'[u].model] # NotHeld
                PROVE  claim'[u].model \in overlap'
    BY DEF Unheld, IsHeld
  <2>1. u # t /\ pc[u] \in Releasing /\ claim'[u] = claim[u] /\ claim[u].model \in Models
    BY <1>3 DEF IInv, Calling
  <2>2. CASE claim[u].model = m
    BY <2>1, <2>2, <1>5 DEF ReleasedElsewhere
  <2>3. CASE claim[u].model # m
    BY <2>1, <2>3, <1>2, <1>5 DEF IInv, Unheld, IsHeld
  <2>. QED
    BY <2>2, <2>3
<1>9. Owed'
  <2>. SUFFICES ASSUME NEW n \in Models, reserved'[n] > 0
                PROVE  \/ IsHeld(n)' /\ held'[n].bytes > 0
                       \/ \E u \in Threads : pc'[u] = "givingBack"
                            /\ claim'[u].model = n /\ released'[u].bytes > 0
    BY DEF Owed
  <2>1. CASE n = m /\ b > 0
    BY <2>1, <1>2
  <2>2. CASE n # m \/ b = 0
    <3>1. reserved[n] > 0
      BY <2>2, <1>4
    <3>2. CASE IsHeld(n) /\ held[n].bytes > 0
      BY <3>2, <1>1, <1>2 DEF IsHeld
    <3>3. CASE \E u \in Threads : pc[u] = "givingBack" /\ claim[u].model = n
                                  /\ released[u].bytes > 0
      BY <3>3, <1>3
    <3>. QED
      BY <3>1, <3>2, <3>3 DEF IInv, Owed
  <2>. QED
    BY <2>1, <2>2, SizesAssumption
<1>10. ReservedWhileHeld'
  <2>. SUFFICES ASSUME NEW n \in Models, n \notin overlap', IsHeld(n)'
                PROVE  reserved'[n] = held'[n].bytes
    BY DEF ReservedWhileHeld
  <2>1. CASE n # m
    BY <2>1, <1>2, <1>4, <1>5 DEF IInv, ReservedWhileHeld
  <2>2. CASE n = m /\ b > 0
    BY <2>2, <1>2, <1>4
  <2>3. CASE n = m /\ b = 0
    <3>1. ~ReleasedElsewhere(t, m)
      BY <2>3, <1>5
    <3>2. ~(reserved[m] > 0)
      BY <3>1, <1>1 DEF ReleasedElsewhere, IInv, Owed, IsHeld
    <3>3. reserved[m] = 0
      <4>1. reserved[m] \in Sizes \cup {0}
        BY DEF IInv, TypeOK
      <4>2. reserved[m] \in Nat
        <5>1. CASE reserved[m] = 0
          BY <5>1
        <5>2. CASE reserved[m] \in Sizes
          BY <5>2, SizesAssumption, Zenon
        <5>. QED
          BY <4>1, <5>1, <5>2
      <4>. QED
        BY <3>2, <4>2
    <3>. QED
      BY <2>3, <3>3, <1>2, <1>4
  <2>4. b > 0 \/ b = 0
    BY SizesAssumption
  <2>. QED
    BY <2>1, <2>2, <2>3, <2>4
<1>. QED
  BY <1>6, <1>7, <1>8, <1>9, <1>10 DEF IInv

\* The steps of a claim being settled, which leave reservations alone and
\* neither make nor remove an entry.
LEMMA SettleKeeps ==
  ASSUME IInv, NEW t \in Threads,
         pc[t] \in Claiming, NEW label \in Claiming \cup {"idle"}, Goto(t, label),
         claim' \in {claim, [claim EXCEPT ![t] = NoClaim]},
         label # "idle" => claim' = claim,
         held' \in [Models -> HeldEntry \cup {NotHeld}],
         \A m \in Models : /\ IsHeld(m)' <=> IsHeld(m)
                          /\ held'[m].bytes = held[m].bytes,
         mem' \in [Hosts -> {"none", "loading", "up", "ending"}],
         of' \in [Hosts -> Models \cup {"none"}],
         inproc' \in [Models -> Kinds \cup {"none"}],
         stray' \in SUBSET (Hosts \cup Models),
         UNCHANGED <<reserved, released, overlap>>
  PROVE  IInv'
<1>1. /\ pc' = [pc EXCEPT ![t] = label] /\ pc'[t] = label
      /\ \A u \in Threads \ {t} : pc'[u] = pc[u] /\ claim'[u] = claim[u]
  BY DEF IInv, TypeOK, Goto
<1>2. TypeOK'
  <2>1. pc' \in [Threads -> {"idle"} \cup Claiming \cup Releasing]
    BY <1>1 DEF IInv, TypeOK
  <2>2. claim' \in [Threads -> ClaimRecord \cup {NoClaim}]
    BY DEF IInv, TypeOK
  <2>3. /\ reserved' \in [Models -> Sizes \cup {0}]
        /\ released' \in [Threads -> HeldEntry \cup {NotHeld}]
        /\ overlap' \subseteq Models /\ stray' \subseteq Hosts \cup Models
    BY DEF IInv, TypeOK
  <2>. QED
    BY <2>1, <2>2, <2>3 DEF TypeOK
<1>3. Calling'
  BY <1>1 DEF IInv, Calling
<1>4. Unheld'
  <2>. SUFFICES ASSUME NEW u \in Threads, pc'[u] \in Releasing,
                       held'[claim'[u].model] # NotHeld
                PROVE  claim'[u].model \in overlap
    BY DEF Unheld, IsHeld
  <2>1. u # t /\ pc[u] \in Releasing /\ claim'[u] = claim[u] /\ claim[u].model \in Models
    BY <1>1 DEF IInv, Calling
  <2>. QED
    BY <2>1 DEF IInv, Unheld, IsHeld
<1>5. Owed'
  <2>. SUFFICES ASSUME NEW n \in Models, reserved[n] > 0,
                       ~(IsHeld(n)' /\ held'[n].bytes > 0)
                PROVE  \E u \in Threads : pc'[u] = "givingBack"
                         /\ claim'[u].model = n /\ released[u].bytes > 0
    BY DEF Owed
  <2>1. PICK u \in Threads : pc[u] = "givingBack" /\ claim[u].model = n
                             /\ released[u].bytes > 0
    BY DEF IInv, Owed
  <2>. QED
    BY <1>1, <2>1
<1>6. ReservedWhileHeld'
  BY DEF IInv, ReservedWhileHeld
<1>. QED
  BY <1>2, <1>3, <1>4, <1>5, <1>6 DEF IInv

\* release(): the entry goes, and the thread owes its bytes.
LEMMA RemoveKeeps ==
  ASSUME IInv, NEW t \in Threads, NEW m \in Models, NEW stays \in BOOLEAN,
         IsHeld(m), Remove(t, m, stays),
         pc[t] \notin Releasing,
         inproc' \in [Models -> Kinds \cup {"none"}],
         UNCHANGED <<reserved, mem, of>>
  PROVE  IInv'
<1>1. /\ pc'[t] = "givingBack" /\ released'[t] = held[m]
      /\ \A u \in Threads \ {t} : pc'[u] = pc[u] /\ released'[u] = released[u]
      /\ \A u \in Threads \ {t} : claim'[u] = claim[u]
  BY DEF Remove, Goto, IInv, TypeOK
<1>8. /\ claim'[t] \in ClaimRecord /\ claim'[t].model = m
      /\ claim' \in [Threads -> ClaimRecord \cup {NoClaim}]
  <2>1. held[m].kind \in Kinds
    BY DEF IsHeld, IInv, TypeOK
  <2>. QED
    BY <2>1 DEF Remove, IInv, TypeOK
<1>9. stray' \in SUBSET (Hosts \cup Models)
  BY DEF Remove, Unrecorded, IInv, TypeOK
<1>2. /\ held'[m] = NotHeld
      /\ \A n \in Models \ {m} : held'[n] = held[n]
      /\ overlap \subseteq overlap' /\ overlap' \subseteq Models
  BY DEF Remove, IInv, TypeOK
<1>3. TypeOK'
  <2>1. held' \in [Models -> HeldEntry \cup {NotHeld}]
    BY DEF Remove, IInv, TypeOK
  <2>2. pc' \in [Threads -> {"idle"} \cup Claiming \cup Releasing]
    BY DEF Remove, Goto, IInv, TypeOK
  <2>3. released' \in [Threads -> HeldEntry \cup {NotHeld}]
    BY DEF Remove, IInv, TypeOK
  <2>4. /\ reserved' \in [Models -> Sizes \cup {0}]
        /\ mem' \in [Hosts -> {"none", "loading", "up", "ending"}]
        /\ of' \in [Hosts -> Models \cup {"none"}]
    BY DEF IInv, TypeOK
  <2>. QED
    BY <1>2, <1>8, <1>9, <2>1, <2>2, <2>3, <2>4 DEF TypeOK
<1>4. Calling'
  BY <1>1, <1>8 DEF IInv, Calling
<1>5. Unheld'
  <2>. SUFFICES ASSUME NEW u \in Threads, pc'[u] \in Releasing,
                       held'[claim'[u].model] # NotHeld
                PROVE  claim'[u].model \in overlap'
    BY DEF Unheld, IsHeld
  <2>1. u # t
    BY <1>2, <1>8
  <2>2. claim'[u] = claim[u] /\ pc[u] \in Releasing /\ claim[u].model \in Models \ {m}
    BY <1>1, <1>2, <2>1 DEF IInv, Calling
  <2>. QED
    BY <1>2, <2>2 DEF IInv, Unheld, IsHeld
<1>6. Owed'
  <2>. SUFFICES ASSUME NEW n \in Models, reserved[n] > 0
                PROVE  \/ held'[n] # NotHeld /\ held'[n].bytes > 0
                       \/ \E u \in Threads : pc'[u] = "givingBack"
                            /\ claim'[u].model = n /\ released'[u].bytes > 0
    BY DEF Owed, IsHeld
  <2>1. CASE IsHeld(n) /\ held[n].bytes > 0
    BY <2>1, <1>1, <1>2, <1>8 DEF IsHeld
  <2>2. CASE \E u \in Threads : pc[u] = "givingBack" /\ claim[u].model = n
                                /\ released[u].bytes > 0
    BY <2>2, <1>1
  <2>. QED
    BY <2>1, <2>2 DEF IInv, Owed
<1>7. ReservedWhileHeld'
  BY <1>2 DEF IInv, ReservedWhileHeld, IsHeld
<1>. QED
  BY <1>3, <1>4, <1>5, <1>6, <1>7 DEF IInv

\* GiveBack: only a model nobody holds, or one in overlap, loses its bytes.
LEMMA GiveBackKeeps ==
  ASSUME IInv, NEW t \in Threads, GiveBack(t)
  PROVE  IInv'
<1>. DEFINE m == claim[t].model
<1>1. /\ pc[t] = "givingBack" /\ m \in Models
      /\ pc' = [pc EXCEPT ![t] = "stopping"]
      /\ UNCHANGED <<held, claim, released, mem, of, inproc, overlap, stray>>
  BY DEF GiveBack, Goto, IInv, Calling, marks
<1>2. /\ released[t].bytes > 0 => reserved'[m] = 0
      /\ ~(released[t].bytes > 0) => reserved' = reserved
      /\ \A n \in Models \ {m} : reserved'[n] = reserved[n]
  BY <1>1 DEF GiveBack, IInv, TypeOK
<1>3. /\ pc'[t] = "stopping"
      /\ \A u \in Threads \ {t} : pc'[u] = pc[u]
  BY <1>1 DEF IInv, TypeOK
<1>4. TypeOK'
  <2>1. reserved' \in [Models -> Sizes \cup {0}]
    BY DEF GiveBack, IInv, TypeOK
  <2>2. pc' \in [Threads -> {"idle"} \cup Claiming \cup Releasing]
    BY <1>1 DEF IInv, TypeOK
  <2>. QED
    BY <1>1, <2>1, <2>2 DEF IInv, TypeOK
<1>5. Calling' /\ Unheld'
  BY <1>1, <1>3 DEF IInv, Calling, Unheld, IsHeld
<1>6. Owed'
  <2>. SUFFICES ASSUME NEW n \in Models, reserved'[n] > 0
                PROVE  \/ IsHeld(n) /\ held[n].bytes > 0
                       \/ \E u \in Threads : pc'[u] = "givingBack"
                            /\ claim[u].model = n /\ released[u].bytes > 0
    BY <1>1 DEF Owed, IsHeld
  <2>1. reserved[n] > 0 /\ ~(n = m /\ released[t].bytes > 0)
    BY <1>2
  <2>. QED
    BY <2>1, <1>1, <1>3 DEF IInv, Owed
<1>7. ReservedWhileHeld'
  <2>. SUFFICES ASSUME NEW n \in Models \ overlap, IsHeld(n)
                PROVE  reserved'[n] = held[n].bytes
    BY <1>1 DEF ReservedWhileHeld, IsHeld
  <2>1. n # m
    BY <1>1 DEF IInv, Unheld
  <2>. QED
    BY <2>1, <1>2 DEF IInv, ReservedWhileHeld
<1>. QED
  BY <1>4, <1>5, <1>6, <1>7 DEF IInv

\* StopHost: the bytes are back already.
LEMMA StopHostKeeps ==
  ASSUME IInv, NEW t \in Threads, StopHost(t)
  PROVE  IInv'
<1>1. /\ pc[t] = "stopping" /\ pc' = [pc EXCEPT ![t] = "idle"]
      /\ released' = [released EXCEPT ![t] = NotHeld]
      /\ claim' = [claim EXCEPT ![t] = NoClaim]
      /\ UNCHANGED <<held, reserved, inproc, overlap>>
  BY DEF StopHost, Goto
<1>2. /\ pc'[t] = "idle"
      /\ \A u \in Threads \ {t} :
           pc'[u] = pc[u] /\ claim'[u] = claim[u] /\ released'[u] = released[u]
  BY <1>1 DEF IInv, TypeOK
<1>3. TypeOK'
  <2>1. /\ mem' \in [Hosts -> {"none", "loading", "up", "ending"}]
        /\ of' \in [Hosts -> Models \cup {"none"}]
        /\ stray' \in SUBSET (Hosts \cup Models)
    BY DEF StopHost, Becomes, IInv, TypeOK
  <2>2. pc' \in [Threads -> {"idle"} \cup Claiming \cup Releasing]
    BY <1>1 DEF IInv, TypeOK
  <2>3. /\ claim' \in [Threads -> ClaimRecord \cup {NoClaim}]
        /\ released' \in [Threads -> HeldEntry \cup {NotHeld}]
    BY <1>1 DEF IInv, TypeOK
  <2>. QED
    BY <1>1, <2>1, <2>2, <2>3 DEF IInv, TypeOK
<1>4. Calling' /\ Unheld' /\ ReservedWhileHeld'
  BY <1>1, <1>2 DEF IInv, Calling, Unheld, ReservedWhileHeld, IsHeld
<1>5. Owed'
  BY <1>1, <1>2 DEF IInv, Owed, IsHeld
<1>. QED
  BY <1>3, <1>4, <1>5 DEF IInv

\* Every step keeps the invariant.
LEMMA NextKeeps == IInv /\ [Next]_vars => IInv'
<1>. SUFFICES ASSUME IInv, [Next]_vars PROVE IInv'
  OBVIOUS
<1>1. ASSUME NEW t \in Threads, NEW m \in Models, NEW k \in Kinds, NEW b \in Sizes,
             ClaimModel(t, m, k, b)
      PROVE  IInv'
  <2>1. CASE TakeFresh(t, m, k, b, "none")
    <3>1. /\ pc[t] = "idle" /\ Goto(t, "loading") /\ stray' \in SUBSET (Hosts \cup Models)
          /\ UNCHANGED <<released, mem, of, inproc>>
      BY <1>1 DEF ClaimModel, IInv, TypeOK
    <3>2. /\ mem' \in [Hosts -> {"none", "loading", "up", "ending"}]
          /\ of' \in [Hosts -> Models \cup {"none"}]
      BY <3>1 DEF IInv, TypeOK
    <3>. QED
      BY <2>1, <3>1, <3>2, TakeFreshKeeps
  <2>2. CASE TakeReuse(t, m, k)
    <3>1. /\ pc[t] = "idle" /\ pc' = [pc EXCEPT ![t] = "loading"]
          /\ claim' = [claim EXCEPT ![t] =
               [model |-> m, kind |-> k, fresh |-> FALSE, host |-> "none"]]
          /\ overlap \subseteq overlap' /\ overlap' \subseteq Models
          /\ stray' \subseteq Hosts \cup Models
          /\ UNCHANGED <<held, reserved, released, mem, of, inproc>>
      BY <1>1, <2>2 DEF ClaimModel, TakeReuse, Goto, IInv, TypeOK
    <3>2. /\ pc'[t] = "loading"
          /\ \A u \in Threads \ {t} : pc'[u] = pc[u] /\ claim'[u] = claim[u]
      BY <3>1 DEF IInv, TypeOK
    <3>3. claim'[t] \in ClaimRecord
      BY <3>1 DEF IInv, TypeOK
    <3>4. TypeOK'
      BY <3>1, <3>3 DEF IInv, TypeOK
    <3>5. Calling' /\ Unheld' /\ ReservedWhileHeld'
      BY <3>1, <3>2, <3>3 DEF IInv, Calling, Unheld, ReservedWhileHeld, IsHeld
    <3>6. Owed'
      BY <3>1, <3>2 DEF IInv, Owed, IsHeld
    <3>. QED
      BY <3>4, <3>5, <3>6 DEF IInv
  <2>. QED
    BY <1>1, <2>1, <2>2 DEF ClaimModel
<1>2. ASSUME NEW t \in Threads, NEW m \in Models, NEW k \in Kinds, NEW b \in Sizes,
             NEW h \in Hosts, Serve(t, m, k, b, h)
      PROVE  IInv'
  <2>1. /\ pc[t] = "idle" /\ TakeFresh(t, m, k, b, h) /\ Goto(t, "starting")
        /\ UNCHANGED <<released, inproc>>
    BY <1>2 DEF Serve
  <2>2. /\ mem' \in [Hosts -> {"none", "loading", "up", "ending"}]
        /\ of' \in [Hosts -> Models \cup {"none"}]
        /\ stray' \in SUBSET (Hosts \cup Models)
    BY <1>2 DEF Serve, IInv, TypeOK
  <2>. QED
    BY <2>1, <2>2, TakeFreshKeeps
<1>3. ASSUME NEW t \in Threads, NEW m \in Models, NEW k \in Kinds, Release(t, m, k)
      PROVE  IInv'
  <2>. DEFINE stays == inproc[m] \notin {k, "none"} \/ LoadingInProcess(m)
  <2>1. /\ IsHeld(m) /\ pc[t] = "idle" /\ UNCHANGED <<reserved, mem, of>>
        /\ Remove(t, m, stays) /\ stays \in BOOLEAN
    BY <1>3 DEF Release
  <2>2. inproc' \in [Models -> Kinds \cup {"none"}]
    BY <1>3 DEF Release, IInv, TypeOK
  <2>. HIDE DEF stays
  <2>. QED
    BY <2>1, <2>2, RemoveKeeps
<1>4. ASSUME NEW t \in Threads, LoadEnds(t) PROVE IInv'
  <2>1. /\ pc[t] \in Claiming
        /\ UNCHANGED <<held, reserved, claim, released, mem, of, overlap, stray>>
        /\ Goto(t, "committing") \/ Goto(t, "dropping")
    BY <1>4 DEF LoadEnds, marks
  <2>2. inproc' \in [Models -> Kinds \cup {"none"}]
    BY <1>4 DEF LoadEnds, IInv, TypeOK, Calling
  <2>3. /\ held' \in [Models -> HeldEntry \cup {NotHeld}]
        /\ mem' \in [Hosts -> {"none", "loading", "up", "ending"}]
        /\ of' \in [Hosts -> Models \cup {"none"}]
        /\ stray' \in SUBSET (Hosts \cup Models)
        /\ \A m \in Models : /\ IsHeld(m)' <=> IsHeld(m)
                            /\ held'[m].bytes = held[m].bytes
    BY <2>1 DEF IInv, TypeOK, IsHeld
  <2>. QED
    BY <2>1, <2>2, <2>3, SettleKeeps
<1>5. ASSUME NEW t \in Threads, StartEnds(t) PROVE IInv'
  <2>1. /\ pc[t] \in Claiming
        /\ UNCHANGED <<held, reserved, claim, released, inproc, overlap>>
        /\ Goto(t, "started") \/ Goto(t, "dropping")
    BY <1>5 DEF StartEnds
  <2>2. /\ mem' \in [Hosts -> {"none", "loading", "up", "ending"}]
        /\ of' \in [Hosts -> Models \cup {"none"}]
        /\ stray' \in SUBSET (Hosts \cup Models)
    BY <1>5 DEF StartEnds, Becomes, IInv, TypeOK
  <2>3. /\ held' \in [Models -> HeldEntry \cup {NotHeld}]
        /\ inproc' \in [Models -> Kinds \cup {"none"}]
        /\ \A m \in Models : /\ IsHeld(m)' <=> IsHeld(m)
                            /\ held'[m].bytes = held[m].bytes
    BY <2>1 DEF IInv, TypeOK, IsHeld
  <2>. QED
    BY <2>1, <2>2, <2>3, SettleKeeps
<1>6. ASSUME NEW t \in Threads, Publish(t) PROVE IInv'
  <2>1. /\ pc[t] \in Claiming /\ Goto(t, "committing") /\ claim[t] \in ClaimRecord
        /\ UNCHANGED <<reserved, claim, released, mem, of, inproc, overlap>>
    BY <1>6 DEF Publish, IInv, Calling
  <2>2. \/ held' = held
        \/ /\ IsHeld(claim[t].model)
           /\ held' = [held EXCEPT ![claim[t].model].hosted = claim[t].host]
    <3>1. CASE IsHeld(claim[t].model)
      BY <1>6, <3>1 DEF Publish
    <3>2. CASE ~IsHeld(claim[t].model)
      BY <1>6, <3>2 DEF Publish
    <3>. QED
      BY <3>1, <3>2
  <2>3. /\ held' \in [Models -> HeldEntry \cup {NotHeld}]
        /\ \A m \in Models : /\ IsHeld(m)' <=> IsHeld(m)
                            /\ held'[m].bytes = held[m].bytes
    <3>1. CASE held' = held
      BY <3>1 DEF IInv, TypeOK, IsHeld
    <3>2. CASE /\ IsHeld(claim[t].model)
               /\ held' = [held EXCEPT ![claim[t].model].hosted = claim[t].host]
      <4>1. held[claim[t].model] \in HeldEntry /\ claim[t].model \in Models
        BY <2>1, <3>2 DEF IInv, TypeOK, IsHeld
      <4>2. /\ held'[claim[t].model] \in HeldEntry
            /\ held'[claim[t].model].bytes = held[claim[t].model].bytes
            /\ held'[claim[t].model].kind \in Kinds
            /\ \A m \in Models \ {claim[t].model} : held'[m] = held[m]
        BY <2>1, <3>2, <4>1 DEF IInv, TypeOK
      <4>3. held'[claim[t].model] # NotHeld
        BY <4>2
      <4>. QED
        BY <3>2, <4>1, <4>2, <4>3 DEF IInv, TypeOK, IsHeld
    <3>. QED
      BY <2>2, <3>1, <3>2
  <2>4. /\ mem' \in [Hosts -> {"none", "loading", "up", "ending"}]
        /\ of' \in [Hosts -> Models \cup {"none"}]
        /\ inproc' \in [Models -> Kinds \cup {"none"}]
    BY <2>1 DEF IInv, TypeOK
  <2>5. stray' \in SUBSET (Hosts \cup Models)
    <3>1. IsHeld(claim[t].model) => held[claim[t].model].hosted \in Hosts \cup {"none"}
      BY <2>1 DEF IInv, TypeOK, IsHeld
    <3>. QED
      BY <1>6, <3>1 DEF Publish, IInv, TypeOK
  <2>. QED
    BY <2>1, <2>3, <2>4, <2>5, SettleKeeps
<1>7. ASSUME NEW t \in Threads, Commit(t) PROVE IInv'
  <2>1. /\ pc[t] \in Claiming /\ Goto(t, "idle") /\ claim[t] \in ClaimRecord
        /\ claim' = [claim EXCEPT ![t] = NoClaim]
        /\ UNCHANGED <<reserved, released, mem, of, inproc, overlap, stray>>
    BY <1>7 DEF Commit, IInv, Calling, marks
  <2>2. \/ held' = held
        \/ /\ IsHeld(claim[t].model)
           /\ held' = [held EXCEPT ![claim[t].model].committed = TRUE]
    <3>1. CASE IsHeld(claim[t].model)
      BY <1>7, <3>1 DEF Commit
    <3>2. CASE ~IsHeld(claim[t].model)
      BY <1>7, <3>2 DEF Commit
    <3>. QED
      BY <3>1, <3>2
  <2>3. /\ held' \in [Models -> HeldEntry \cup {NotHeld}]
        /\ \A m \in Models : /\ IsHeld(m)' <=> IsHeld(m)
                            /\ held'[m].bytes = held[m].bytes
    <3>1. CASE held' = held
      BY <3>1 DEF IInv, TypeOK, IsHeld
    <3>2. CASE /\ IsHeld(claim[t].model)
               /\ held' = [held EXCEPT ![claim[t].model].committed = TRUE]
      <4>1. held[claim[t].model] \in HeldEntry /\ claim[t].model \in Models
        BY <2>1, <3>2 DEF IInv, TypeOK, IsHeld
      <4>2. /\ held'[claim[t].model] \in HeldEntry
            /\ held'[claim[t].model].bytes = held[claim[t].model].bytes
            /\ held'[claim[t].model].kind \in Kinds
            /\ \A m \in Models \ {claim[t].model} : held'[m] = held[m]
        BY <2>1, <3>2, <4>1 DEF IInv, TypeOK
      <4>3. held'[claim[t].model] # NotHeld
        BY <4>2
      <4>. QED
        BY <3>2, <4>1, <4>2, <4>3 DEF IInv, TypeOK, IsHeld
    <3>. QED
      BY <2>2, <3>1, <3>2
  <2>4. /\ mem' \in [Hosts -> {"none", "loading", "up", "ending"}]
        /\ of' \in [Hosts -> Models \cup {"none"}]
        /\ inproc' \in [Models -> Kinds \cup {"none"}]
        /\ stray' \in SUBSET (Hosts \cup Models)
    BY <2>1 DEF IInv, TypeOK
  <2>. QED
    BY <2>1, <2>3, <2>4, SettleKeeps
<1>8. ASSUME NEW t \in Threads, DropClaim(t) PROVE IInv'
  <2>1. /\ pc[t] \in Claiming /\ claim[t] \in ClaimRecord
        /\ UNCHANGED <<reserved, mem, of, inproc>>
    BY <1>8 DEF DropClaim, IInv, Calling
  <2>2. /\ inproc' \in [Models -> Kinds \cup {"none"}]
        /\ mem' \in [Hosts -> {"none", "loading", "up", "ending"}]
        /\ of' \in [Hosts -> Models \cup {"none"}]
        /\ claim \in [Threads -> ClaimRecord \cup {NoClaim}]
        /\ held \in [Models -> HeldEntry \cup {NotHeld}]
    BY <2>1 DEF IInv, TypeOK
  <2>. DEFINE m == claim[t].model
              stays == InProcess(m)
  <2>3. CASE IsHeld(m) /\ Remove(t, m, stays)
    <3>1. stays \in BOOLEAN /\ m \in Models
      BY <2>1 DEF InProcess
    <3>. HIDE DEF m, stays
    <3>. QED
      BY <2>1, <2>2, <2>3, <3>1, RemoveKeeps
  <2>4. CASE /\ Goto(t, "idle") /\ claim' = [claim EXCEPT ![t] = NoClaim]
             /\ UNCHANGED <<held, released, overlap, stray>>
    <3>1. \A n \in Models : /\ IsHeld(n)' <=> IsHeld(n)
                           /\ held'[n].bytes = held[n].bytes
      BY <2>4 DEF IsHeld
    <3>2. stray' \in SUBSET (Hosts \cup Models)
      BY <2>4 DEF IInv, TypeOK
    <3>. QED
      BY <2>1, <2>2, <2>4, <3>1, <3>2, SettleKeeps
  <2>. QED
    BY <1>8, <2>3, <2>4 DEF DropClaim, marks
<1>9. CASE UNCHANGED vars
  BY <1>9 DEF vars, marks, IInv, TypeOK, Calling, Unheld, Owed, ReservedWhileHeld, IsHeld
<1>10. ASSUME NEW h \in Hosts, HostEnds(h) PROVE IInv'
  <2>1. UNCHANGED <<held, reserved, pc, claim, released, inproc, overlap>>
    BY <1>10 DEF HostEnds
  <2>2. TypeOK'
    BY <1>10, <2>1 DEF HostEnds, Becomes, IInv, TypeOK
  <2>3. Calling' /\ Unheld' /\ Owed' /\ ReservedWhileHeld'
    BY <2>1 DEF IInv, Calling, Unheld, Owed, ReservedWhileHeld, IsHeld
  <2>. QED
    BY <2>2, <2>3 DEF IInv
<1>. QED
  BY <1>1, <1>2, <1>3, <1>4, <1>5, <1>6, <1>7, <1>8, <1>9, <1>10, GiveBackKeeps,
     StopHostKeeps DEF Next, Step

(* The invariant holds in every behaviour: the facts below rest on it.     *)
THEOREM Inductive == Spec => []IInv
BY InitIInv, NextKeeps, PTL DEF Spec

(* Every variable of Engines and its callers keeps its type.               *)
THEOREM TypeCorrect == Spec => []TypeOK
<1>1. IInv => TypeOK
  BY DEF IInv
<1>. QED
  BY <1>1, Inductive, PTL

(* A claim keeps the bytes it was admitted with until it is released, but  *)
(* for a model on which a claim and a release overlapped (take, release).  *)
THEOREM Reserved == Spec => []ReservedWhileHeld
<1>1. IInv => ReservedWhileHeld
  BY DEF IInv
<1>. QED
  BY <1>1, Inductive, PTL

(* No reservation outlives its claim and the release of it, whatever       *)
(* interleaves (release, Drop for Claim, give_back).                       *)
THEOREM NothingLeaks == Spec => []NoReservationLeak
<1>1. IInv => NoReservationLeak
  BY DEF IInv, Owed, NoReservationLeak
<1>. QED
  BY <1>1, Inductive, PTL

-----------------------------------------------------------------------------
(* Copies in memory: each has one owner, or has lost its entry.            *)

StartsHost(t) == pc[t] \in Starting
Live == {"loading", "up"}

\* Whoever refers to a host refers to one that serves the model in question
\* and has not been told to stop.
Hosting ==
  /\ \A h \in Hosts : mem[h] = "none" <=> of[h] = "none"
  /\ \A t \in Threads : StartsHost(t) =>
       /\ claim[t].host \in Hosts /\ of[claim[t].host] = claim[t].model
       /\ mem[claim[t].host] \in Live
  /\ \A m \in Models : held[m].hosted # "none" =>
       of[held[m].hosted] = m /\ mem[held[m].hosted] \in Live
  /\ \A t \in Threads : released[t].hosted # "none" =>
       /\ pc[t] \in Releasing /\ of[released[t].hosted] = claim[t].model
       /\ mem[released[t].hosted] \in Live

\* And nobody else refers to it, so a host stopped is nobody else's.
OneRef ==
  /\ \A t, u \in Threads :
       StartsHost(t) /\ StartsHost(u) /\ claim[t].host = claim[u].host => t = u
  /\ \A t \in Threads : StartsHost(t) => \A m \in Models : held[m].hosted # claim[t].host
  /\ \A t \in Threads : StartsHost(t) => \A u \in Threads : released[u].hosted # claim[t].host
  /\ \A t, u \in Threads :
       released[t].hosted = released[u].hosted /\ released[u].hosted # "none" => t = u
  /\ \A t \in Threads, m \in Models :
       released[t].hosted # "none" => released[t].hosted # held[m].hosted

Given(h) == \E t \in Threads : released[t].hosted = h
Started(h) == \E t \in Threads : StartsHost(t) /\ claim[t].host = h

\* A host that kept its entry is in it, or will be, until a release has it.
HostOwned ==
  \A h \in Hosts : mem[h] \in Live /\ h \notin stray =>
    \/ Given(h)
    \/ /\ IsHeld(of[h]) /\ held[of[h]].kind \notin Linked
       /\ held[of[h]].hosted = h \/ Started(h)

\* The serve() that still has its entry is the only one, and nothing but a
\* copy that lost its own is in that entry.
OneServe ==
  \A t \in Threads : StartsHost(t) /\ claim[t].host \notin stray =>
    /\ held[claim[t].model].hosted \in stray \cup {"none"}
    /\ \A u \in Threads :
         StartsHost(u) /\ claim[u].model = claim[t].model /\ claim[u].host \notin stray => u = t

\* A copy in the process that kept its entry excludes an engine with a host.
Copied ==
  \A m \in Models : InProcess(m) /\ m \notin stray =>
    IsHeld(m) /\ held[m].kind \in Linked

\* A host lost its entry only where a claim and a release overlapped.
Strays ==
  \A h \in Hosts : h \in stray => mem[h] # "none" /\ of[h] \in overlap

CInv == Hosting /\ OneRef /\ HostOwned /\ OneServe /\ Copied /\ Strays

\* What TypeOK and Calling say of one model, host or thread.
LEMMA Types ==
  ASSUME IInv
  PROVE  /\ \A m \in Models : /\ held[m] = NotHeld \/ held[m] \in HeldEntry
                              /\ held[m].hosted \in Hosts \cup {"none"}
                              /\ IsHeld(m) => held[m].kind # "none"
                              /\ inproc[m] \in Kinds \cup {"none"}
         /\ \A t \in Threads : pc[t] # "idle" =>
              claim[t].model \in Models /\ claim[t].kind \in Kinds
         /\ \A t \in Threads : released[t].hosted \in Hosts \cup {"none"}
         /\ \A h \in Hosts : of[h] \in Models \cup {"none"}
         /\ "none" \notin Hosts /\ "none" \notin Kinds /\ "none" \notin Models
         /\ Models \cap Hosts = {}
  BY NamesAssumption DEF IInv, TypeOK, Calling, IsHeld

\* Nothing is in memory, and nobody in a call.
LEMMA InitCInv == Init => CInv
<1>. SUFFICES ASSUME Init PROVE CInv
  OBVIOUS
<1>1. \A t \in Threads : ~StartsHost(t) /\ released[t].hosted = "none"
  BY DEF Init, StartsHost, Starting
<1>2. \A h \in Hosts : mem[h] = "none" /\ of[h] = "none" /\ h \notin stray
  BY DEF Init
<1>3. \A m \in Models : held[m].hosted = "none" /\ ~InProcess(m)
  BY DEF Init, InProcess, LoadingInProcess
<1>4. Hosting /\ OneRef
  BY <1>1, <1>2, <1>3 DEF Hosting, OneRef
<1>5. HostOwned /\ OneServe /\ Copied /\ Strays
  BY <1>1, <1>2, <1>3 DEF HostOwned, OneServe, Copied, Strays, Live
<1>. QED
  BY <1>4, <1>5 DEF CInv

\* A serve() that has its entry still is not the business of a release.
LEMMA StartHeld ==
  ASSUME IInv, CInv, NEW t \in Threads, StartsHost(t), claim[t].host \notin stray
  PROVE  /\ claim[t].model \in Models /\ claim[t].host \in Hosts
         /\ IsHeld(claim[t].model) /\ held[claim[t].model].kind \notin Linked
<1>1. claim[t].model \in Models /\ claim[t].host \in Hosts /\ of[claim[t].host] = claim[t].model
      /\ mem[claim[t].host] \in Live /\ ~Given(claim[t].host)
  BY Types DEF CInv, Hosting, OneRef, StartsHost, Given, Starting
<1>. QED
  BY <1>1 DEF CInv, HostOwned

\* A step that moves no reference to a host and takes no entry keeps the owners.
LEMMA NothingMoves ==
  ASSUME IInv, CInv, UNCHANGED <<mem, of>>, overlap \subseteq overlap',
         \A h \in Hosts : h \in stray' <=> h \in stray,
         \A m \in Models : /\ IsHeld(m)' <=> IsHeld(m)
                           /\ held'[m].kind = held[m].kind
                           /\ held'[m].hosted = held[m].hosted,
         Copied',
         \A t \in Threads : released'[t].hosted = released[t].hosted,
         \A t \in Threads : StartsHost(t)' <=> StartsHost(t),
         \A t \in Threads : StartsHost(t) => claim'[t] = claim[t],
         \A t \in Threads : released[t].hosted # "none" =>
           pc'[t] \in Releasing /\ claim'[t].model = claim[t].model
  PROVE  CInv'
<1>1. mem' = mem /\ of' = of
  OBVIOUS
<1>2. Hosting'
  BY <1>1 DEF CInv, Hosting
<1>3. OneRef'
  BY <1>1 DEF CInv, OneRef
<1>4. HostOwned'
  <2>. SUFFICES ASSUME NEW h \in Hosts, mem[h] \in Live, h \notin stray
                PROVE  \/ Given(h)'
                       \/ /\ IsHeld(of[h])' /\ held'[of[h]].kind \notin Linked
                          /\ held'[of[h]].hosted = h \/ Started(h)'
    BY <1>1 DEF HostOwned
  <2>1. (Given(h)' <=> Given(h)) /\ (Started(h) => Started(h)')
    BY DEF Given, Started
  <2>2. of[h] \in Models
    BY Types DEF CInv, Hosting, Live
  <2>. QED
    BY <2>1, <2>2 DEF CInv, HostOwned
<1>5. OneServe'
  <2>. SUFFICES ASSUME NEW u \in Threads, StartsHost(u)', claim'[u].host \notin stray'
                PROVE  /\ held'[claim'[u].model].hosted \in stray' \cup {"none"}
                       /\ \A v \in Threads :
                            StartsHost(v)' /\ claim'[v].model = claim'[u].model
                              /\ claim'[v].host \notin stray' => v = u
    BY DEF OneServe
  <2>1. StartsHost(u) /\ claim'[u] = claim[u] /\ claim[u].host \in Hosts /\ claim[u].host \notin stray
    BY DEF CInv, Hosting
  <2>2. claim[u].model \in Models
    BY <2>1, Types DEF StartsHost, Starting
  <2>3. held'[claim[u].model].hosted \in stray' \cup {"none"}
    BY <2>1, <2>2, Types DEF CInv, OneServe
  <2>4. ASSUME NEW v \in Threads, StartsHost(v)', claim'[v].model = claim'[u].model,
               claim'[v].host \notin stray'
        PROVE  v = u
    <3>1. StartsHost(v) /\ claim'[v] = claim[v] /\ claim[v].host \in Hosts
      BY <2>4 DEF CInv, Hosting
    <3>. QED
      BY <2>1, <2>4, <3>1 DEF CInv, OneServe
  <2>. QED
    BY <2>1, <2>3, <2>4
<1>6. Strays'
  BY <1>1 DEF CInv, Strays
<1>. QED
  BY <1>2, <1>3, <1>4, <1>5, <1>6 DEF CInv

\* A model that is nobody's has no copy that kept its entry.
LEMMA ClaimFreshCopies ==
  ASSUME IInv, CInv, NEW t \in Threads, NEW m \in Models, NEW k \in Linked, NEW b \in Sizes,
         pc[t] = "idle", TakeFresh(t, m, k, b, "none"), Goto(t, "loading"),
         stray' = stray \ {m}, UNCHANGED <<released, mem, of, inproc>>
  PROVE  CInv'
<1>1. /\ held[m] = NotHeld /\ ~IsHeld(m)
      /\ held'[m] = [kind |-> k, bytes |-> b, committed |-> FALSE, hosted |-> "none"]
      /\ \A n \in Models \ {m} : held'[n] = held[n]
      /\ pc'[t] = "loading"
      /\ claim'[t] = [model |-> m, kind |-> k, fresh |-> TRUE, host |-> "none"]
      /\ \A u \in Threads \ {t} : pc'[u] = pc[u] /\ claim'[u] = claim[u]
      /\ overlap \subseteq overlap'
  BY DEF TakeFresh, Goto, IInv, TypeOK, IsHeld
<1>2. IsHeld(m)' /\ \A n \in Models \ {m} : IsHeld(n)' <=> IsHeld(n)
  BY <1>1, LinkedAssumption, Types DEF IsHeld
<1>3. \A h \in Hosts : h \in stray' <=> h \in stray
  BY Types
<1>4. \A u \in Threads : StartsHost(u)' => u # t /\ StartsHost(u) /\ claim'[u] = claim[u]
  BY <1>1 DEF StartsHost, Starting
<1>5. \A u \in Threads : StartsHost(u) => u # t /\ StartsHost(u)' /\ claim'[u] = claim[u]
  BY <1>1 DEF StartsHost, Starting
<1>6. Hosting'
  BY <1>1, <1>4 DEF CInv, Hosting
<1>7. OneRef'
  BY <1>1, <1>4, Types DEF CInv, OneRef, Hosting
<1>8. HostOwned'
  <2>. SUFFICES ASSUME NEW h \in Hosts, mem[h] \in Live, h \notin stray
                PROVE  \/ Given(h)'
                       \/ /\ IsHeld(of[h])' /\ held'[of[h]].kind \notin Linked
                          /\ held'[of[h]].hosted = h \/ Started(h)'
    BY <1>3 DEF HostOwned
  <2>1. (Given(h)' <=> Given(h)) /\ (Started(h) => Started(h)')
    BY <1>5 DEF Given, Started
  <2>2. of[h] \in Models
    BY Types DEF CInv, Hosting, Live
  <2>. QED
    BY <1>1, <1>2, <2>1, <2>2 DEF CInv, HostOwned
<1>9. OneServe'
  <2>. SUFFICES ASSUME NEW u \in Threads, StartsHost(u)', claim'[u].host \notin stray'
                PROVE  /\ held'[claim'[u].model].hosted \in stray' \cup {"none"}
                       /\ \A v \in Threads :
                            StartsHost(v)' /\ claim'[v].model = claim'[u].model
                              /\ claim'[v].host \notin stray' => v = u
    BY DEF OneServe
  <2>1. StartsHost(u) /\ claim'[u] = claim[u] /\ claim[u].host \in Hosts /\ claim[u].host \notin stray
    BY <1>3, <1>4 DEF CInv, Hosting
  <2>2. claim[u].model \in Models \ {m}
    BY <1>1, <2>1, StartHeld
  <2>3. held[claim[u].model].hosted \in stray' \cup {"none"}
    BY <1>3, <2>1, <2>2, Types DEF CInv, OneServe
  <2>4. ASSUME NEW v \in Threads, StartsHost(v)', claim'[v].model = claim'[u].model,
               claim'[v].host \notin stray'
        PROVE  v = u
    <3>1. StartsHost(v) /\ claim'[v] = claim[v] /\ claim[v].host \in Hosts
      BY <1>4, <2>4 DEF CInv, Hosting
    <3>. QED
      BY <1>3, <2>1, <2>4, <3>1 DEF CInv, OneServe
  <2>. QED
    BY <1>1, <2>1, <2>2, <2>3, <2>4
<1>10. Copied'
  <2>. SUFFICES ASSUME NEW n \in Models, InProcess(n)', n \notin stray'
                PROVE  IsHeld(n)' /\ held'[n].kind \in Linked
    BY DEF Copied
  <2>1. CASE n = m
    BY <1>1, <1>2, <2>1
  <2>2. CASE n # m
    BY <1>1, <1>2, <2>2 DEF CInv, Copied, InProcess, LoadingInProcess
  <2>. QED
    BY <2>1, <2>2
<1>11. Strays'
  BY <1>1, <1>3 DEF CInv, Strays
<1>. QED
  BY <1>6, <1>7, <1>8, <1>9, <1>10, <1>11 DEF CInv

\* The host of a serve() is new, and so is the entry of its model.
LEMMA ServeCopies ==
  ASSUME IInv, CInv, NEW t \in Threads, NEW m \in Models, NEW k \in Kinds, NEW b \in Sizes,
         NEW h \in Hosts, Serve(t, m, k, b, h)
  PROVE  CInv'
<1>1. /\ held[m] = NotHeld /\ ~IsHeld(m) /\ k \notin Linked
      /\ held'[m] = [kind |-> k, bytes |-> b, committed |-> FALSE, hosted |-> "none"]
      /\ \A n \in Models \ {m} : held'[n] = held[n]
      /\ pc[t] = "idle" /\ pc'[t] = "starting"
      /\ claim'[t] = [model |-> m, kind |-> k, fresh |-> TRUE, host |-> h]
      /\ \A u \in Threads \ {t} : pc'[u] = pc[u] /\ claim'[u] = claim[u]
      /\ overlap \subseteq overlap' /\ stray' = stray /\ released' = released /\ inproc' = inproc
      /\ mem[h] = "none" /\ mem'[h] = "loading" /\ of'[h] = m
      /\ \A x \in Hosts \ {h} : mem'[x] = mem[x] /\ of'[x] = of[x]
  BY DEF Serve, TakeFresh, Goto, IInv, TypeOK, IsHeld
<1>2. IsHeld(m)' /\ \A n \in Models \ {m} : IsHeld(n)' <=> IsHeld(n)
  BY <1>1 DEF IsHeld
<1>3. \A u \in Threads : u # t => (StartsHost(u)' <=> StartsHost(u)) /\ claim'[u] = claim[u]
  BY <1>1 DEF StartsHost
<1>4. StartsHost(t)' /\ ~StartsHost(t)
  BY <1>1 DEF StartsHost, Starting
<1>5. /\ \A u \in Threads : StartsHost(u) => claim[u].host \in Hosts \ {h}
      /\ \A n \in Models : held[n].hosted # h
      /\ \A u \in Threads : released[u].hosted # h
  BY <1>1, Types DEF CInv, Hosting, Live
<1>6. h \notin stray
  BY <1>1 DEF CInv, Strays
<1>7. Hosting'
  <2>1. \A x \in Hosts : mem'[x] = "none" <=> of'[x] = "none"
    BY <1>1, Types DEF CInv, Hosting
  <2>2. ASSUME NEW u \in Threads, StartsHost(u)'
        PROVE  /\ claim'[u].host \in Hosts /\ of'[claim'[u].host] = claim'[u].model
               /\ mem'[claim'[u].host] \in Live
    BY <1>1, <1>3, <1>5, <2>2 DEF CInv, Hosting, Live
  <2>3. ASSUME NEW n \in Models, held'[n].hosted # "none"
        PROVE  of'[held'[n].hosted] = n /\ mem'[held'[n].hosted] \in Live
    BY <1>1, <1>5, <2>3, Types DEF CInv, Hosting
  <2>4. ASSUME NEW u \in Threads, released[u].hosted # "none"
        PROVE  /\ pc'[u] \in Releasing /\ of'[released[u].hosted] = claim'[u].model
               /\ mem'[released[u].hosted] \in Live
    <3>1. u # t
      BY <1>1, <2>4 DEF CInv, Hosting, Releasing
    <3>. QED
      BY <1>1, <1>5, <2>4, <3>1, Types DEF CInv, Hosting
  <2>. QED
    BY <1>1, <2>1, <2>2, <2>3, <2>4 DEF Hosting
<1>8. OneRef'
  <2>1. \A n \in Models : held'[n].hosted \in {held[n].hosted, "none"} /\ held'[n].hosted # h
    BY <1>1, <1>5, Types
  <2>2. \A u \in Threads : StartsHost(u)' => u = t \/ StartsHost(u)
    BY <1>3
  <2>. QED
    BY <1>1, <1>3, <1>5, <2>1, <2>2, Types DEF CInv, OneRef
<1>9. HostOwned'
  <2>. SUFFICES ASSUME NEW x \in Hosts, mem'[x] \in Live, x \notin stray
                PROVE  \/ Given(x)'
                       \/ /\ held'[of'[x]] # NotHeld /\ held'[of'[x]].kind \notin Linked
                          /\ held'[of'[x]].hosted = x \/ Started(x)'
    BY <1>1 DEF HostOwned, IsHeld
  <2>1. CASE x = h
    BY <1>1, <1>2, <1>4, <2>1 DEF Started, IsHeld
  <2>2. CASE x # h
    <3>1. (Given(x)' <=> Given(x)) /\ (Started(x) => Started(x)')
      BY <1>1, <1>3, <1>4 DEF Given, Started
    <3>2. of'[x] = of[x] /\ of[x] \in Models /\ mem[x] \in Live
      BY <1>1, <2>2, Types DEF CInv, Hosting, Live
    <3>. QED
      BY <1>1, <1>2, <3>1, <3>2 DEF CInv, HostOwned, IsHeld
  <2>. QED
    BY <2>1, <2>2
<1>10. OneServe'
  <2>1. \A u \in Threads : u # t /\ StartsHost(u) /\ claim[u].host \notin stray =>
          claim[u].model \in Models \ {m}
    BY <1>1, StartHeld
  <2>2. held'[m].hosted = "none" /\ claim'[t].model = m
    BY <1>1
  <2>3. ASSUME NEW u \in Threads, u # t, StartsHost(u), claim[u].host \notin stray
        PROVE  held'[claim[u].model].hosted \in stray \cup {"none"}
    BY <1>1, <2>1, <2>3 DEF CInv, OneServe
  <2>. QED
    BY <1>1, <1>3, <2>1, <2>2, <2>3 DEF CInv, OneServe
<1>11. Copied'
  <2>1. \A n \in Models : InProcess(n)' => InProcess(n)
    BY <1>1 DEF InProcess, LoadingInProcess
  <2>. QED
    BY <1>1, <1>2, <2>1 DEF CInv, Copied
<1>12. Strays'
  BY <1>1, <1>6 DEF CInv, Strays
<1>. QED
  BY <1>7, <1>8, <1>9, <1>10, <1>11, <1>12 DEF CInv

\* A claim that is reused is of an engine that has no host.
LEMMA ClaimReuseCopies ==
  ASSUME IInv, CInv, NEW t \in Threads, NEW m \in Models, NEW k \in Linked,
         pc[t] = "idle", TakeReuse(t, m, k), Goto(t, "loading"),
         stray' = stray \ {m}, UNCHANGED <<released, mem, of, inproc>>
  PROVE  CInv'
<1>1. /\ IsHeld(m) /\ held[m].kind = k /\ held' = held /\ pc'[t] = "loading"
      /\ claim'[t].model = m
      /\ \A u \in Threads \ {t} : pc'[u] = pc[u] /\ claim'[u] = claim[u]
      /\ overlap \subseteq overlap'
  BY DEF TakeReuse, Goto, IInv, TypeOK
<1>2. \A h \in Hosts : h \in stray' <=> h \in stray
  BY Types
<1>3. \A n \in Models : IsHeld(n)' <=> IsHeld(n)
  BY <1>1 DEF IsHeld
<1>4. Copied'
  <2>. SUFFICES ASSUME NEW n \in Models, InProcess(n)', n \notin stray'
                PROVE  IsHeld(n) /\ held[n].kind \in Linked
    BY <1>1, <1>3 DEF Copied
  <2>1. CASE n # m
    BY <1>1, <2>1 DEF CInv, Copied, InProcess, LoadingInProcess
  <2>. QED
    BY <1>1, <2>1
<1>5. \A u \in Threads : (StartsHost(u)' <=> StartsHost(u)) /\ (StartsHost(u) => claim'[u] = claim[u])
  BY <1>1 DEF StartsHost, Starting
<1>6. \A u \in Threads : released[u].hosted # "none" =>
        pc'[u] \in Releasing /\ claim'[u].model = claim[u].model
  BY <1>1 DEF CInv, Hosting, Releasing
<1>. QED
  BY <1>1, <1>2, <1>3, <1>4, <1>5, <1>6, NothingMoves

\* The load in the process was under way before it succeeded.
LEMMA LoadEndsCopies ==
  ASSUME IInv, CInv, NEW t \in Threads, LoadEnds(t)
  PROVE  CInv'
<1>1. /\ pc[t] = "loading" /\ pc'[t] \in {"committing", "dropping"}
      /\ \A u \in Threads \ {t} : pc'[u] = pc[u]
      /\ held' = held /\ claim' = claim /\ released' = released
      /\ mem' = mem /\ of' = of /\ overlap' = overlap /\ stray' = stray
      /\ \A n \in Models : inproc'[n] = inproc[n] \/ n = claim[t].model
  BY DEF LoadEnds, Goto, marks, IInv, TypeOK
<1>2. \A n \in Models : InProcess(n)' => InProcess(n)
  BY <1>1 DEF InProcess, LoadingInProcess
<1>3. \A n \in Models : IsHeld(n)' <=> IsHeld(n)
  BY <1>1 DEF IsHeld
<1>4. Copied'
  BY <1>1, <1>2, <1>3 DEF CInv, Copied
<1>5. \A u \in Threads : StartsHost(u)' <=> StartsHost(u)
  BY <1>1 DEF StartsHost, Starting
<1>6. \A u \in Threads : released[u].hosted # "none" => pc'[u] \in Releasing
  BY <1>1 DEF CInv, Hosting, Releasing
<1>. QED
  BY <1>1, <1>3, <1>4, <1>5, <1>6, NothingMoves

\* The process of a host nobody refers to goes.
LEMMA HostGone ==
  ASSUME IInv, CInv, NEW h \in Hosts, Becomes(h, "none"),
         UNCHANGED <<held, claim, released, overlap>>,
         \A n \in Models : held[n].hosted # h,
         \A u \in Threads : released[u].hosted # h,
         \A u \in Threads : StartsHost(u)' <=> StartsHost(u) /\ claim[u].host # h,
         \A n \in Models : InProcess(n)' => InProcess(n),
         \A u \in Threads : released[u].hosted # "none" => pc'[u] \in Releasing
  PROVE  CInv'
<1>1. /\ mem'[h] = "none" /\ of'[h] = "none" /\ stray' = stray \ {h}
      /\ \A x \in Hosts \ {h} : mem'[x] = mem[x] /\ of'[x] = of[x]
  BY DEF Becomes, IInv, TypeOK
<1>2. \A n \in Models : IsHeld(n)' <=> IsHeld(n)
  BY DEF IsHeld
<1>3. Hosting'
  BY <1>1, Types DEF CInv, Hosting
<1>4. OneRef'
  BY DEF CInv, OneRef
<1>5. HostOwned'
  <2>. SUFFICES ASSUME NEW x \in Hosts, mem'[x] \in Live, x \notin stray'
                PROVE  \/ Given(x)'
                       \/ /\ held'[of'[x]] # NotHeld /\ held'[of'[x]].kind \notin Linked
                          /\ held'[of'[x]].hosted = x \/ Started(x)'
    BY DEF HostOwned, IsHeld
  <2>1. x # h /\ mem[x] \in Live /\ of'[x] = of[x] /\ x \notin stray
    BY <1>1 DEF Live
  <2>2. (Given(x)' <=> Given(x)) /\ (Started(x) => Started(x)')
    BY <2>1 DEF Given, Started
  <2>3. of[x] \in Models
    BY <2>1, Types DEF CInv, Hosting, Live
  <2>. QED
    BY <1>2, <2>1, <2>2, <2>3 DEF CInv, HostOwned, IsHeld
<1>6. OneServe'
  <2>1. \A u \in Threads : StartsHost(u)' => claim[u].model \in Models /\ claim[u].host # h
    BY Types DEF StartsHost, Starting
  <2>. QED
    BY <1>1, <2>1 DEF CInv, OneServe
<1>7. Copied'
  BY <1>1, <1>2, Types DEF CInv, Copied
<1>8. Strays'
  BY <1>1 DEF CInv, Strays
<1>. QED
  BY <1>3, <1>4, <1>5, <1>6, <1>7, <1>8 DEF CInv

\* A start that fails leaves no process; one that succeeds moves nothing.
LEMMA StartEndsCopies ==
  ASSUME IInv, CInv, NEW t \in Threads, StartEnds(t)
  PROVE  CInv'
<1>1. /\ pc[t] = "starting" /\ StartsHost(t)
      /\ \A u \in Threads \ {t} : pc'[u] = pc[u]
      /\ held' = held /\ claim' = claim /\ released' = released
      /\ inproc' = inproc /\ overlap' = overlap
  BY DEF StartEnds, Goto, IInv, TypeOK, StartsHost, Starting
<1>2. claim[t].host \in Hosts /\ of[claim[t].host] = claim[t].model /\ mem[claim[t].host] \in Live
  BY <1>1 DEF CInv, Hosting
<1>3. \A u \in Threads : released[u].hosted # "none" => u # t
  BY <1>1 DEF CInv, Hosting, Releasing
<1>4. CASE Becomes(claim[t].host, "up") /\ Goto(t, "started")
  <2>1. /\ \A x \in Hosts : (mem'[x] \in Live <=> mem[x] \in Live) /\ (mem'[x] = "none" <=> mem[x] = "none")
        /\ of' = of /\ stray' = stray /\ pc'[t] = "started"
    BY <1>2, <1>4 DEF Becomes, Goto, IInv, TypeOK, Live
  <2>2. \A u \in Threads : StartsHost(u)' <=> StartsHost(u)
    BY <1>1, <2>1 DEF StartsHost, Starting
  <2>3. \A n \in Models : (IsHeld(n)' <=> IsHeld(n)) /\ (InProcess(n)' <=> InProcess(n))
    BY <1>1, <2>1 DEF IsHeld, InProcess, LoadingInProcess
  <2>4. Hosting'
    BY <1>1, <1>3, <2>1, <2>2, Types DEF CInv, Hosting
  <2>5. OneRef' /\ OneServe'
    BY <1>1, <2>1, <2>2 DEF CInv, OneRef, OneServe
  <2>6. HostOwned'
    <3>1. \A x \in Hosts : (Given(x)' <=> Given(x)) /\ (Started(x)' <=> Started(x))
      BY <1>1, <2>2 DEF Given, Started
    <3>2. \A x \in Hosts : mem[x] \in Live => of[x] \in Models
      BY Types DEF CInv, Hosting, Live
    <3>. QED
      BY <1>1, <2>1, <2>3, <3>1, <3>2 DEF CInv, HostOwned
  <2>7. Copied' /\ Strays'
    BY <1>1, <2>1, <2>3 DEF CInv, Copied, Strays
  <2>. QED
    BY <2>4, <2>5, <2>6, <2>7 DEF CInv
<1>5. CASE Becomes(claim[t].host, "none") /\ Goto(t, "dropping")
  <2>1. pc'[t] = "dropping"
    BY <1>5 DEF Goto, IInv, TypeOK
  <2>2. \A u \in Threads : StartsHost(u)' <=> StartsHost(u) /\ claim[u].host # claim[t].host
    BY <1>1, <2>1 DEF StartsHost, Starting, CInv, OneRef
  <2>3. /\ \A n \in Models : held[n].hosted # claim[t].host
        /\ \A u \in Threads : released[u].hosted # claim[t].host
    BY <1>1 DEF CInv, OneRef
  <2>4. \A n \in Models : InProcess(n)' => InProcess(n)
    BY <1>1, <2>1 DEF InProcess, LoadingInProcess
  <2>5. \A u \in Threads : released[u].hosted # "none" => pc'[u] \in Releasing
    BY <1>1, <1>3 DEF CInv, Hosting
  <2>6. UNCHANGED <<held, claim, released, overlap>>
    BY <1>1
  <2>. QED
    BY <1>2, <1>5, <2>2, <2>3, <2>4, <2>5, <2>6, HostGone
<1>. QED
  BY <1>4, <1>5 DEF StartEnds

\* A host told to stop, or up and dropped by everyone, goes.
LEMMA HostEndsCopies ==
  ASSUME IInv, CInv, NEW h \in Hosts, HostEnds(h)
  PROVE  CInv'
<1>1. /\ \A n \in Models : held[n].hosted # h
      /\ \A u \in Threads : released[u].hosted # h
      /\ \A u \in Threads : StartsHost(u) => claim[u].host # h
  <2>1. CASE mem[h] = "ending"
    BY <2>1, Types DEF CInv, Hosting, Live
  <2>2. CASE mem[h] = "up" /\ ~Referred(h)
    BY <2>2 DEF Referred, StartsHost
  <2>. QED
    BY <2>1, <2>2 DEF HostEnds
<1>2. Becomes(h, "none") /\ UNCHANGED <<held, claim, released, overlap>> /\ pc' = pc /\ inproc' = inproc
      /\ claim' = claim
  BY DEF HostEnds
<1>3. \A u \in Threads : StartsHost(u)' <=> StartsHost(u) /\ claim[u].host # h
  BY <1>1, <1>2 DEF StartsHost
<1>4. \A n \in Models : InProcess(n)' => InProcess(n)
  BY <1>2 DEF InProcess, LoadingInProcess
<1>5. \A u \in Threads : released[u].hosted # "none" => pc'[u] \in Releasing
  BY <1>2 DEF CInv, Hosting
<1>. QED
  BY <1>1, <1>2, <1>3, <1>4, <1>5, HostGone

\* The host is recorded in the entry its model has, if it has one.
LEMMA PublishCopies ==
  ASSUME IInv, CInv, NEW t \in Threads, Publish(t)
  PROVE  CInv'
<1>. DEFINE m == claim[t].model
            h == claim[t].host
<1>1. /\ pc[t] = "started" /\ pc'[t] = "committing" /\ StartsHost(t)
      /\ \A u \in Threads \ {t} : pc'[u] = pc[u]
      /\ claim' = claim /\ released' = released /\ mem' = mem /\ of' = of
      /\ inproc' = inproc /\ overlap' = overlap
  BY DEF Publish, Goto, IInv, TypeOK, StartsHost, Starting
<1>2. m \in Models /\ h \in Hosts /\ of[h] = m /\ mem[h] \in Live /\ h # "none"
  BY <1>1, Types DEF CInv, Hosting
<1>3. \A u \in Threads : StartsHost(u)' <=> StartsHost(u) /\ u # t
  BY <1>1 DEF StartsHost, Starting
<1>4. \A u \in Threads : released[u].hosted # "none" => u # t
  BY <1>1 DEF CInv, Hosting, Releasing
<1>5. \A n \in Models : InProcess(n)' => InProcess(n)
  BY <1>1 DEF InProcess, LoadingInProcess
<1>6. \A x \in Hosts : mem[x] \in Live => of[x] \in Models
  BY Types DEF CInv, Hosting, Live
<1>7. \A u \in Threads : StartsHost(u) => claim[u].model \in Models
  BY Types DEF StartsHost, Starting
<1>8. CASE ~IsHeld(m)
  <2>1. held' = held /\ stray' = stray
    BY <1>8 DEF Publish
  <2>2. h \in stray
    BY <1>1, <1>8, StartHeld
  <2>3. \A n \in Models : IsHeld(n)' <=> IsHeld(n)
    BY <2>1 DEF IsHeld
  <2>4. Hosting'
    BY <1>1, <1>3, <1>4, <2>1 DEF CInv, Hosting
  <2>5. OneRef' /\ OneServe'
    BY <1>1, <1>3, <2>1 DEF CInv, OneRef, OneServe
  <2>6. HostOwned'
    <3>1. \A x \in Hosts : (Given(x)' <=> Given(x)) /\ (Started(x) => x = h \/ Started(x)')
      BY <1>1, <1>3 DEF Given, Started
    <3>. QED
      BY <1>1, <1>6, <2>1, <2>2, <2>3, <3>1 DEF CInv, HostOwned
  <2>7. Copied' /\ Strays'
    BY <1>1, <1>5, <2>1, <2>3 DEF CInv, Copied, Strays
  <2>. QED
    BY <2>4, <2>5, <2>6, <2>7 DEF CInv
<1>9. CASE IsHeld(m)
  <2>1. /\ \A n \in Models \ {m} : held'[n] = held[n]
        /\ held'[m].hosted = h /\ held'[m].kind = held[m].kind
        /\ stray' = stray \cup ({held[m].hosted} \ {"none"})
    BY <1>2, <1>9, Types DEF Publish, IInv, TypeOK, HeldEntry, IsHeld
  <2>2. \A n \in Models : IsHeld(n)' <=> IsHeld(n)
    BY <1>2, <1>9, <2>1 DEF IsHeld, NotHeld
  <2>3. \A u \in Threads \ {t} : StartsHost(u) => claim[u].host # h
    BY <1>1 DEF CInv, OneRef
  <2>4. \A u \in Threads : released[u].hosted # h
    BY <1>1 DEF CInv, OneRef
  <2>5. Hosting'
    BY <1>1, <1>2, <1>3, <1>4, <2>1 DEF CInv, Hosting
  <2>6. OneRef'
    <3>1. \A n \in Models : held'[n].hosted \in {h, held[n].hosted}
      BY <2>1
    <3>. QED
      BY <1>1, <1>2, <1>3, <2>3, <2>4, <3>1 DEF CInv, OneRef
  <2>7. HostOwned'
    <3>. SUFFICES ASSUME NEW x \in Hosts, mem[x] \in Live, x \notin stray'
                  PROVE  \/ Given(x)'
                         \/ /\ IsHeld(of[x])' /\ held'[of[x]].kind \notin Linked
                            /\ held'[of[x]].hosted = x \/ Started(x)'
      BY <1>1 DEF HostOwned
    <3>1. x \notin stray /\ x # held[m].hosted /\ of[x] \in Models
      BY <1>6, <2>1, Types
    <3>2. (Given(x)' <=> Given(x)) /\ (Started(x) => x = h \/ Started(x)')
      BY <1>1, <1>3 DEF Given, Started
    <3>. QED
      BY <1>1, <1>2, <2>1, <2>2, <3>1, <3>2 DEF CInv, HostOwned
  <2>8. OneServe'
    <3>. SUFFICES ASSUME NEW u \in Threads, StartsHost(u), u # t, claim[u].host \notin stray'
                  PROVE  /\ held'[claim[u].model].hosted \in stray' \cup {"none"}
                         /\ \A v \in Threads :
                              StartsHost(v) /\ v # t /\ claim[v].model = claim[u].model
                                /\ claim[v].host \notin stray' => v = u
      BY <1>1, <1>3 DEF OneServe
    <3>1. claim[u].host \notin stray /\ claim[u].model \in Models
      BY <1>7, <2>1
    <3>2. CASE claim[u].model = m
      <4>1. h \in stray
        BY <1>1, <3>1, <3>2 DEF CInv, OneServe
      <4>. QED
        BY <1>1, <2>1, <3>1, <3>2, <4>1 DEF CInv, OneServe
    <3>3. CASE claim[u].model # m
      BY <1>1, <2>1, <3>1, <3>3 DEF CInv, OneServe
    <3>. QED
      BY <3>2, <3>3
  <2>9. Copied'
    BY <1>2, <1>5, <2>1, <2>2 DEF CInv, Copied
  <2>10. Strays'
    <3>. SUFFICES ASSUME held[m].hosted # "none"
                  PROVE  mem[held[m].hosted] # "none" /\ of[held[m].hosted] \in overlap
      BY <1>1, <2>1 DEF CInv, Strays
    <3>1. held[m].hosted \in Hosts /\ of[held[m].hosted] = m /\ mem[held[m].hosted] \in Live
      BY <1>2, Types DEF CInv, Hosting
    <3>2. CASE h \in stray
      BY <1>2, <3>1, <3>2 DEF CInv, Strays, Live
    <3>3. CASE h \notin stray
      BY <1>1, <3>1, <3>3 DEF CInv, OneServe, Strays
    <3>. QED
      BY <3>2, <3>3
  <2>. QED
    BY <2>5, <2>6, <2>7, <2>8, <2>9, <2>10 DEF CInv
<1>. QED
  BY <1>8, <1>9

\* A commit or a drop without an entry moves nothing.
LEMMA SettledCopies ==
  ASSUME IInv, CInv, NEW t \in Threads, pc[t] \in {"committing", "dropping", "givingBack"},
         IF pc[t] = "givingBack" THEN pc'[t] = "stopping" /\ claim' = claim
                                 ELSE pc'[t] = "idle",
         \A u \in Threads \ {t} : pc'[u] = pc[u] /\ claim'[u] = claim[u],
         \A n \in Models : /\ IsHeld(n)' <=> IsHeld(n)
                           /\ held'[n].kind = held[n].kind
                           /\ held'[n].hosted = held[n].hosted,
         UNCHANGED <<released, mem, of, inproc, marks>>
  PROVE  CInv'
<1>1. released' = released /\ mem' = mem /\ of' = of /\ inproc' = inproc
      /\ overlap' = overlap /\ stray' = stray
  BY DEF marks
<1>2. \A n \in Models : InProcess(n)' => InProcess(n)
  BY <1>1 DEF InProcess, LoadingInProcess
<1>3. Copied'
  BY <1>1, <1>2 DEF CInv, Copied
<1>4. \A u \in Threads : (StartsHost(u)' <=> StartsHost(u)) /\ (StartsHost(u) => claim'[u] = claim[u])
  BY DEF StartsHost, Starting
<1>5. \A u \in Threads : released[u].hosted # "none" =>
        pc'[u] \in Releasing /\ claim'[u].model = claim[u].model
  BY DEF CInv, Hosting, Releasing
<1>. QED
  BY <1>1, <1>3, <1>4, <1>5, NothingMoves

LEMMA CommitCopies ==
  ASSUME IInv, CInv, NEW t \in Threads, Commit(t)
  PROVE  CInv'
<1>1. /\ pc[t] = "committing" /\ pc'[t] = "idle"
      /\ \A u \in Threads \ {t} : pc'[u] = pc[u] /\ claim'[u] = claim[u]
      /\ UNCHANGED <<released, mem, of, inproc, marks>>
      /\ claim[t].model \in Models
  BY Types DEF Commit, Goto, IInv, TypeOK
<1>2. \A n \in Models : /\ IsHeld(n)' <=> IsHeld(n)
                        /\ held'[n].kind = held[n].kind
                        /\ held'[n].hosted = held[n].hosted
  <2>1. CASE IsHeld(claim[t].model)
    <3>1. /\ \A n \in Models \ {claim[t].model} : held'[n] = held[n]
          /\ held'[claim[t].model].kind = held[claim[t].model].kind
          /\ held'[claim[t].model].hosted = held[claim[t].model].hosted
          /\ held'[claim[t].model].committed = TRUE
      BY <1>1, <2>1 DEF Commit, IInv, TypeOK, HeldEntry, IsHeld
    <3>. QED
      BY <1>1, <2>1, <3>1 DEF IsHeld, NotHeld
  <2>2. CASE ~IsHeld(claim[t].model)
    BY <2>2 DEF Commit, IsHeld
  <2>. QED
    BY <2>1, <2>2
<1>. QED
  BY <1>1, <1>2, SettledCopies

LEMMA GiveBackCopies ==
  ASSUME IInv, CInv, NEW t \in Threads, GiveBack(t)
  PROVE  CInv'
<1>1. /\ pc[t] = "givingBack" /\ pc'[t] = "stopping" /\ claim' = claim /\ held' = held
      /\ \A u \in Threads \ {t} : pc'[u] = pc[u]
      /\ UNCHANGED <<released, mem, of, inproc, marks>>
  BY DEF GiveBack, Goto, IInv, TypeOK
<1>. QED
  BY <1>1, SettledCopies DEF IsHeld

\* The removal hands the host of the entry to the release, and takes the
\* entry from every other copy of the model.
LEMMA RemoveCopies ==
  ASSUME IInv, CInv, NEW t \in Threads, NEW m \in Models, NEW stays \in BOOLEAN,
         Remove(t, m, stays), pc[t] \in {"idle", "dropping"}, IsHeld(m), UNCHANGED <<mem, of>>,
         \A n \in Models : InProcess(n)' => InProcess(n),
         stays \/ ~InProcess(m)'
  PROVE  CInv'
<1>1. /\ held'[m] = NotHeld
      /\ \A n \in Models \ {m} : held'[n] = held[n]
      /\ pc'[t] = "givingBack"
      /\ claim'[t].model = m
      /\ \A u \in Threads \ {t} : pc'[u] = pc[u] /\ claim'[u] = claim[u] /\ released'[u] = released[u]
      /\ released'[t] = held[m]
      /\ overlap \subseteq overlap' /\ (ClaimedElsewhere(t, m) => m \in overlap')
      /\ stray' = stray \cup Unrecorded(m) \cup (IF stays THEN {m} ELSE {})
      /\ mem' = mem /\ of' = of
  BY DEF Remove, Goto, IInv, TypeOK
<1>2. \A u \in Threads : StartsHost(u)' <=> StartsHost(u)
  BY <1>1 DEF StartsHost, Starting
<1>3. ~StartsHost(t) /\ released[t].hosted = "none"
  BY DEF StartsHost, Starting, CInv, Hosting, Releasing
<1>4. \A n \in Models \ {m} : IsHeld(n)' <=> IsHeld(n)
  BY <1>1 DEF IsHeld
<1>5. held'[m].hosted = "none" /\ held[m].hosted \in Hosts \cup {"none"}
  BY <1>1, Types DEF NotHeld
<1>6. \A x \in Hosts : x \in stray' <=> x \in stray \/ x \in Unrecorded(m)
  BY <1>1, Types
<1>7. \A u \in Threads : StartsHost(u) /\ claim[u].model = m => claim[u].host \in Unrecorded(m)
  BY DEF StartsHost, Unrecorded, CInv, Hosting
<1>8. \A x \in Unrecorded(m) : mem[x] # "none" /\ of[x] = m /\ ClaimedElsewhere(t, m)
  BY DEF Unrecorded, ClaimedElsewhere, Starting, Claiming, StartsHost, CInv, Hosting, Live
<1>9. Hosting'
  <2>1. ASSUME NEW u \in Threads, StartsHost(u)'
        PROVE  /\ claim'[u].host \in Hosts /\ of[claim'[u].host] = claim'[u].model
               /\ mem[claim'[u].host] \in Live
    BY <1>1, <1>2, <1>3, <2>1 DEF CInv, Hosting
  <2>2. ASSUME NEW n \in Models, held'[n].hosted # "none"
        PROVE  of[held'[n].hosted] = n /\ mem[held'[n].hosted] \in Live
    BY <1>1, <1>5, <2>2 DEF CInv, Hosting
  <2>3. ASSUME NEW u \in Threads, released'[u].hosted # "none"
        PROVE  /\ pc'[u] \in Releasing /\ of[released'[u].hosted] = claim'[u].model
               /\ mem[released'[u].hosted] \in Live
    BY <1>1, <2>3 DEF CInv, Hosting, Releasing
  <2>. QED
    BY <1>1, <2>1, <2>2, <2>3 DEF CInv, Hosting
<1>10. OneRef'
  <2>1. \A u \in Threads : StartsHost(u)' => u # t /\ StartsHost(u) /\ claim'[u] = claim[u]
    BY <1>1, <1>2, <1>3
  <2>2. \A n \in Models : held'[n].hosted = IF n = m THEN "none" ELSE held[n].hosted
    BY <1>1, <1>5
  <2>3. \A u \in Threads : released'[u].hosted = IF u = t THEN held[m].hosted ELSE released[u].hosted
    BY <1>1
  <2>4. \A n \in Models \ {m} : held[m].hosted # "none" => held[n].hosted # held[m].hosted
    BY DEF CInv, Hosting
  <2>5. \A u \in Threads : StartsHost(u) => claim[u].host # "none"
    BY Types DEF CInv, Hosting
  <2>. QED
    BY <2>1, <2>2, <2>3, <2>4, <2>5 DEF CInv, OneRef
<1>11. HostOwned'
  <2>. SUFFICES ASSUME NEW x \in Hosts, mem[x] \in Live, x \notin stray'
                PROVE  \/ Given(x)'
                       \/ /\ IsHeld(of[x])' /\ held'[of[x]].kind \notin Linked
                          /\ held'[of[x]].hosted = x \/ Started(x)'
    BY <1>1 DEF HostOwned
  <2>1. x \notin stray /\ x \notin Unrecorded(m) /\ of[x] \in Models /\ x # "none"
    BY <1>6, Types DEF CInv, Hosting, Live
  <2>2. (Given(x) => Given(x)') /\ (held[m].hosted = x => Given(x)')
    BY <1>1, <1>3, <2>1 DEF Given
  <2>3. Started(x) => Started(x)' /\ of[x] # m
    BY <1>1, <1>2, <1>3, <1>7, <2>1 DEF Started, CInv, Hosting
  <2>. QED
    BY <1>1, <1>4, <2>1, <2>2, <2>3 DEF CInv, HostOwned
<1>12. OneServe'
  <2>. SUFFICES ASSUME NEW u \in Threads, StartsHost(u), u # t, claim[u].host \notin stray'
                PROVE  /\ held'[claim[u].model].hosted \in stray' \cup {"none"}
                       /\ \A v \in Threads :
                            StartsHost(v) /\ v # t /\ claim[v].model = claim[u].model
                              /\ claim[v].host \notin stray' => v = u
    BY <1>1, <1>2, <1>3 DEF OneServe
  <2>1. claim[u].host \notin stray /\ claim[u].model \in Models \ {m} /\ stray \subseteq stray'
    BY <1>1, <1>7, Types DEF StartsHost, Starting
  <2>. QED
    BY <1>1, <2>1 DEF CInv, OneServe
<1>13. Copied'
  <2>. SUFFICES ASSUME NEW n \in Models, InProcess(n)', n \notin stray'
                PROVE  IsHeld(n)' /\ held'[n].kind \in Linked
    BY DEF Copied
  <2>1. n # m /\ n \notin stray /\ InProcess(n)
    BY <1>1
  <2>. QED
    BY <1>1, <1>4, <2>1 DEF CInv, Copied
<1>14. Strays'
  BY <1>1, <1>6, <1>8 DEF CInv, Strays
<1>. QED
  BY <1>9, <1>10, <1>11, <1>12, <1>13, <1>14 DEF CInv

LEMMA ReleaseCopies ==
  ASSUME IInv, CInv, NEW t \in Threads, NEW m \in Models, NEW k \in Kinds, Release(t, m, k)
  PROVE  CInv'
<1>. DEFINE stays == inproc[m] \notin {k, "none"} \/ LoadingInProcess(m)
<1>1. /\ Remove(t, m, stays) /\ pc[t] = "idle" /\ IsHeld(m) /\ UNCHANGED <<mem, of>>
      /\ inproc'[m] = (IF inproc[m] = k THEN "none" ELSE inproc[m])
      /\ \A n \in Models \ {m} : inproc'[n] = inproc[n]
      /\ pc'[t] = "givingBack" /\ \A u \in Threads \ {t} : pc'[u] = pc[u] /\ claim'[u] = claim[u]
  BY DEF Release, Remove, Goto, IInv, TypeOK
<1>2. \A n \in Models : LoadingInProcess(n)' <=> LoadingInProcess(n)
  BY <1>1 DEF LoadingInProcess
<1>3. \A n \in Models : InProcess(n)' => InProcess(n)
  BY <1>1, <1>2 DEF InProcess
<1>4. stays \/ ~InProcess(m)'
  BY <1>1, <1>2 DEF InProcess
<1>5. stays \in BOOLEAN
  BY DEF LoadingInProcess
<1>. HIDE DEF stays
<1>. QED
  BY <1>1, <1>3, <1>4, <1>5, RemoveCopies

LEMMA DropClaimCopies ==
  ASSUME IInv, CInv, NEW t \in Threads, DropClaim(t)
  PROVE  CInv'
<1>. DEFINE m == claim[t].model
<1>1. pc[t] = "dropping" /\ m \in Models /\ UNCHANGED <<mem, of, inproc>>
  BY Types DEF DropClaim
<1>2. CASE claim[t].fresh /\ IsHeld(m) /\ held[m].kind = claim[t].kind
  <2>1. Remove(t, m, InProcess(m))
    BY <1>2 DEF DropClaim
  <2>2. pc'[t] = "givingBack" /\ \A u \in Threads \ {t} : pc'[u] = pc[u] /\ claim'[u] = claim[u]
    BY <2>1 DEF Remove, Goto, IInv, TypeOK
  <2>3. \A n \in Models : InProcess(n)' => InProcess(n)
    BY <1>1, <2>2 DEF InProcess, LoadingInProcess
  <2>4. InProcess(m) \in BOOLEAN
    BY DEF InProcess, LoadingInProcess
  <2>. QED
    BY <1>1, <1>2, <2>1, <2>3, <2>4, RemoveCopies
<1>3. CASE ~(claim[t].fresh /\ IsHeld(m) /\ held[m].kind = claim[t].kind)
  <2>1. /\ pc'[t] = "idle" /\ held' = held
        /\ \A u \in Threads \ {t} : pc'[u] = pc[u] /\ claim'[u] = claim[u]
        /\ UNCHANGED <<released, mem, of, inproc, marks>>
    BY <1>3 DEF DropClaim, Goto, IInv, TypeOK
  <2>. QED
    BY <1>1, <2>1, SettledCopies DEF IsHeld
<1>. QED
  BY <1>2, <1>3

\* A host is told to stop by the one release that has it.
LEMMA StopHostCopies ==
  ASSUME IInv, CInv, NEW t \in Threads, StopHost(t)
  PROVE  CInv'
<1>. DEFINE h == released[t].hosted
<1>1. /\ pc[t] = "stopping" /\ pc'[t] = "idle"
      /\ \A u \in Threads \ {t} : pc'[u] = pc[u] /\ claim'[u] = claim[u] /\ released'[u] = released[u]
      /\ released'[t].hosted = "none"
      /\ held' = held /\ inproc' = inproc /\ overlap' = overlap
  BY DEF StopHost, Goto, IInv, TypeOK, NotHeld
<1>2. \A u \in Threads : (StartsHost(u)' <=> StartsHost(u)) /\ (StartsHost(u) => u # t /\ claim'[u] = claim[u])
  BY <1>1 DEF StartsHost, Starting
<1>3. \A n \in Models : (IsHeld(n)' <=> IsHeld(n)) /\ (InProcess(n)' => InProcess(n))
  BY <1>1 DEF IsHeld, InProcess, LoadingInProcess
<1>4. of' = of /\ stray' = stray
  BY DEF StopHost, Becomes
<1>5. /\ \A x \in Hosts : mem'[x] = IF x = h THEN "ending" ELSE mem[x]
      /\ h \in Hosts \cup {"none"}
  BY Types DEF StopHost, Becomes, IInv, TypeOK
<1>6. /\ \A u \in Threads : StartsHost(u) => claim[u].host # h
      /\ \A n \in Models : held[n].hosted = h => h = "none"
      /\ \A u \in Threads \ {t} : released[u].hosted = h => h = "none"
  BY <1>1, <1>5, Types DEF CInv, OneRef, Hosting
<1>7. Hosting'
  <2>1. \A x \in Hosts : mem'[x] = "none" <=> of[x] = "none"
    BY <1>5, Types DEF CInv, Hosting, Live
  <2>2. ASSUME NEW u \in Threads, StartsHost(u)
        PROVE  /\ claim[u].host \in Hosts /\ of[claim[u].host] = claim[u].model
               /\ mem'[claim[u].host] \in Live
    BY <1>5, <1>6, <2>2 DEF CInv, Hosting
  <2>3. ASSUME NEW n \in Models, held[n].hosted # "none"
        PROVE  of[held[n].hosted] = n /\ mem'[held[n].hosted] \in Live
    BY <1>5, <1>6, <2>3, Types DEF CInv, Hosting
  <2>4. ASSUME NEW u \in Threads, released'[u].hosted # "none"
        PROVE  /\ pc'[u] \in Releasing /\ of[released'[u].hosted] = claim'[u].model
               /\ mem'[released'[u].hosted] \in Live
    <3>1. u # t
      BY <1>1, <2>4
    <3>. QED
      BY <1>1, <1>5, <1>6, <2>4, <3>1, Types DEF CInv, Hosting
  <2>. QED
    BY <1>1, <1>2, <1>4, <2>1, <2>2, <2>3, <2>4 DEF Hosting
<1>8. OneRef'
  <2>1. \A u \in Threads : released'[u].hosted = IF u = t THEN "none" ELSE released[u].hosted
    BY <1>1
  <2>2. \A u \in Threads : StartsHost(u) => claim[u].host # "none"
    BY Types DEF CInv, Hosting
  <2>. QED
    BY <1>1, <1>2, <2>1, <2>2 DEF CInv, OneRef
<1>9. HostOwned'
  <2>. SUFFICES ASSUME NEW x \in Hosts, mem'[x] \in Live, x \notin stray
                PROVE  \/ Given(x)'
                       \/ /\ IsHeld(of[x])' /\ held[of[x]].kind \notin Linked
                          /\ held[of[x]].hosted = x \/ Started(x)'
    BY <1>1, <1>4 DEF HostOwned
  <2>1. x # h /\ mem[x] \in Live
    BY <1>5 DEF Live
  <2>2. (Given(x) => Given(x)') /\ (Started(x) => Started(x)')
    BY <1>1, <1>2, <2>1 DEF Given, Started
  <2>3. of[x] \in Models
    BY <2>1, Types DEF CInv, Hosting, Live
  <2>. QED
    BY <1>1, <1>3, <1>4, <2>1, <2>2, <2>3 DEF CInv, HostOwned
<1>10. OneServe'
  BY <1>1, <1>2, <1>4 DEF CInv, OneServe
<1>11. Copied'
  BY <1>1, <1>3, <1>4 DEF CInv, Copied
<1>12. Strays'
  BY <1>1, <1>4, <1>5 DEF CInv, Strays
<1>. QED
  BY <1>7, <1>8, <1>9, <1>10, <1>11, <1>12 DEF CInv

\* Every lock section keeps the owners of the copies.
LEMMA NextKeepsCopies == IInv /\ CInv /\ [Next]_vars => CInv'
<1>. SUFFICES ASSUME IInv, CInv, [Next]_vars PROVE CInv'
  OBVIOUS
<1>1. CASE UNCHANGED vars
  BY <1>1 DEF vars, marks, CInv, Hosting, OneRef, HostOwned, OneServe, Copied, Strays, StartsHost,
              Given, Started, InProcess, LoadingInProcess, IsHeld
<1>2. ASSUME NEW t \in Threads, Step(t) PROVE CInv'
  <2>1. ASSUME NEW m \in Models, NEW k \in Kinds, NEW b \in Sizes, ClaimModel(t, m, k, b)
        PROVE  CInv'
    <3>1. k \in Linked /\ pc[t] = "idle" /\ Goto(t, "loading") /\ stray' = stray \ {m}
          /\ UNCHANGED <<released, mem, of, inproc>>
      BY <2>1 DEF ClaimModel
    <3>2. CASE TakeFresh(t, m, k, b, "none")
      BY <3>1, <3>2, ClaimFreshCopies
    <3>3. CASE TakeReuse(t, m, k)
      BY <3>1, <3>3, ClaimReuseCopies
    <3>. QED
      BY <2>1, <3>2, <3>3 DEF ClaimModel
  <2>2. ASSUME NEW m \in Models, NEW k \in Kinds, NEW b \in Sizes, NEW h \in Hosts,
               Serve(t, m, k, b, h)
        PROVE  CInv'
    BY <2>2, ServeCopies
  <2>3. ASSUME NEW m \in Models, NEW k \in Kinds, Release(t, m, k)
        PROVE  CInv'
    BY <2>3, ReleaseCopies
  <2>4. CASE LoadEnds(t) \/ StartEnds(t) \/ Publish(t) \/ Commit(t)
    BY <2>4, LoadEndsCopies, StartEndsCopies, PublishCopies, CommitCopies
  <2>5. CASE DropClaim(t) \/ GiveBack(t) \/ StopHost(t)
    BY <2>5, DropClaimCopies, GiveBackCopies, StopHostCopies
  <2>. QED
    BY <1>2, <2>1, <2>2, <2>3, <2>4, <2>5 DEF Step
<1>3. ASSUME NEW h \in Hosts, HostEnds(h) PROVE CInv'
  BY <1>3, HostEndsCopies
<1>. QED
  BY <1>1, <1>2, <1>3 DEF Next

LEMMA CopiesInductive == Spec => [](IInv /\ CInv)
<1>1. Init => IInv /\ CInv
  BY InitIInv, InitCInv
<1>2. IInv /\ CInv /\ [Next]_vars => (IInv /\ CInv)'
  BY NextKeeps, NextKeepsCopies
<1>. QED
  BY <1>1, <1>2, PTL DEF Spec

LEMMA OneCopyFollows == IInv /\ CInv => OneCopy
<1>. SUFFICES ASSUME IInv, CInv, NEW m \in Models, NEW c \in Copies(m), NEW d \in Copies(m),
                     c # d, c \notin stray, d \notin stray,
                     \A x \in {c, d} : x \in Hosts => ~Leaving(x)
              PROVE  FALSE
  BY DEF OneCopy
<1>1. ASSUME NEW x \in {c, d}, x \in Hosts
      PROVE  /\ of[x] = m /\ ~Given(x) /\ mem[x] \in Live
             /\ IsHeld(m) /\ held[m].kind \notin Linked
             /\ held[m].hosted = x \/ Started(x)
  <2>1. of[x] = m
    BY <1>1, Types DEF Copies
  <2>2. ~Given(x) /\ mem[x] # "ending"
    BY <1>1 DEF Leaving, Given
  <2>3. mem[x] \in Live
    BY <1>1, <2>1, <2>2, Types DEF CInv, Hosting, IInv, TypeOK, Live
  <2>. QED
    BY <1>1, <2>1, <2>2, <2>3 DEF CInv, HostOwned
<1>2. ASSUME NEW x \in {c, d}, x \notin Hosts
      PROVE  x = m /\ held[m].kind \in Linked
  BY <1>2 DEF Copies, CInv, Copied
<1>3. c \in Hosts /\ d \in Hosts
  BY <1>1, <1>2
<1>4. \A x \in {c, d} : Started(x) => held[m].hosted \in stray \cup {"none"}
  BY <1>1, <1>3 DEF Started, CInv, OneServe, Hosting
<1>5. c # "none" /\ d # "none"
  BY <1>3, Types
<1>6. Started(c) /\ Started(d)
  BY <1>1, <1>3, <1>4, <1>5
<1>. QED
  BY <1>1, <1>3, <1>6 DEF Started, CInv, OneServe, Hosting

(* Of two copies of one model in memory, one is a host on its way out or a *)
(* copy whose entry was taken from it (engines.rs 3-5, 250-272, 498-522).  *)
THEOREM NeverTwice == Spec => []OneCopy
BY CopiesInductive, OneCopyFollows, PTL

LEMMA AccountedFollows == IInv /\ CInv => EveryHostAccounted
<1>. SUFFICES ASSUME IInv, CInv, NEW h \in Hosts, mem[h] \in Live
              PROVE  \/ held[of[h]].hosted = h
                     \/ \E t \in Threads :
                          claim[t].host = h /\ pc[t] \in Starting /\ IsHeld(of[h])
                     \/ \E t \in Threads : released[t].hosted = h
                     \/ h \in stray /\ of[h] \in overlap
  BY DEF EveryHostAccounted, Live
<1>1. CASE h \in stray
  BY <1>1 DEF CInv, Strays
<1>2. CASE h \notin stray
  BY <1>2 DEF CInv, HostOwned, Given, Started, StartsHost
<1>. QED
  BY <1>1, <1>2

(* A host that is loading or up is in the entry of its model, about to be  *)
(* recorded there, in a release's hands, or one that lost its entry where  *)
(* a claim and a release of its model overlapped (engines.rs 215-235).     *)
THEOREM NoHostForgotten == Spec => []EveryHostAccounted
BY CopiesInductive, AccountedFollows, PTL

-----------------------------------------------------------------------------
(* Engines implements ModelResidency.                                      *)

\* The abstract state, as Residency's substitution has it.
Status ==
  [m \in Models |->
    CASE m \in overlap -> "lost"
      [] m \notin overlap /\ ~IsHeld(m) -> "absent"
      [] m \notin overlap /\ IsHeld(m) /\ ~held[m].committed -> "loading"
      [] OTHER -> "loaded"]
Holder == [m \in Models |-> IF m \in overlap THEN "none" ELSE held[m].kind]
Size == [m \in Models |-> IF m \in overlap THEN 0 ELSE held[m].bytes]

AbstractStep == Residency!Next \/ UNCHANGED <<Status, Holder, Size>>

LEMMA AbstractIs == AbstractStep <=> [Residency!Next]_Residency!vars
  BY DEF AbstractStep, Residency!vars, Status, Holder, Size

\* The sum ModelResidency takes is the sum of the lemmas.
LEMMA AdmitIs ==
  ASSUME NEW m \in Models, NEW k \in Kinds, NEW b \in Sizes, Status[m] = "absent",
         b = 0 \/ b + SumOf(Size) <= Total, Residency!Set(m, "loading", k, b)
  PROVE  Residency!Admit(m, k, b)
  BY DEF Residency!Admit, Status, Size, SumOf, Residency!FoldFunction, FoldFunction,
         Residency!FoldFunctionOnSet, FoldFunctionOnSet, Residency!MapThenFoldSet,
         MapThenFoldSet

\* A step that leaves every other model as it was sets the one it is about.
LEMMA SetsOne ==
  ASSUME NEW m \in Models, NEW s, NEW k, NEW b,
         \A n \in Models \ {m} : held'[n] = held[n] /\ (n \in overlap' <=> n \in overlap),
         Status'[m] = s, Holder'[m] = k, Size'[m] = b
  PROVE  Residency!Set(m, s, k, b)
<1>1. \A n \in Models \ {m} : /\ Status'[n] = Status[n]
                              /\ Holder'[n] = Holder[n]
                              /\ Size'[n] = Size[n]
  BY DEF Status, Holder, Size, IsHeld
<1>2. /\ Status' = [Status EXCEPT ![m] = s]
      /\ Holder' = [Holder EXCEPT ![m] = k]
      /\ Size' = [Size EXCEPT ![m] = b]
  <2>1. /\ Status = [n \in Models |-> Status[n]] /\ Status' = [n \in Models |-> Status'[n]]
        /\ Holder = [n \in Models |-> Holder[n]] /\ Holder' = [n \in Models |-> Holder'[n]]
        /\ Size = [n \in Models |-> Size[n]] /\ Size' = [n \in Models |-> Size'[n]]
    BY DEF Status, Holder, Size
  <2>. QED
    BY <1>1, <2>1
<1>. QED
  BY <1>2 DEF Residency!Set, Status, Holder, Size

\* A step that changes nothing but hosts and threads is a stutter.
LEMMA SameModels ==
  ASSUME \A n \in Models : /\ n \in overlap' <=> n \in overlap
                           /\ n \notin overlap =>
                                /\ IsHeld(n)' <=> IsHeld(n)
                                /\ held'[n].kind = held[n].kind
                                /\ held'[n].bytes = held[n].bytes
                                /\ held'[n].committed = held[n].committed
  PROVE  AbstractStep
  BY DEF AbstractStep, Status, Holder, Size

\* A model that enters overlap is lost.
LEMMA Loses ==
  ASSUME NEW m \in Models, m \notin overlap, m \in overlap',
         \A n \in Models \ {m} : held'[n] = held[n] /\ (n \in overlap' <=> n \in overlap)
  PROVE  AbstractStep
<1>1. Status[m] # "lost" /\ Status'[m] = "lost" /\ Holder'[m] = "none" /\ Size'[m] = 0
  BY DEF Status, Holder, Size
<1>2. Residency!Set(m, "lost", "none", 0)
  BY <1>1, SetsOne
<1>. QED
  BY <1>1, <1>2 DEF AbstractStep, Residency!Next, Residency!Lose, Status

\* What is promised to be free is free: every byte of a model that is not in
\* overlap is reserved for it.
LEMMA SizeWithinReserved == IInv => SumOf(Size) \in Nat /\ Free \in Int
                                    /\ SumOf(Size) + Free <= Total
<1>. SUFFICES ASSUME IInv PROVE SumOf(Size) \in Nat /\ Free \in Int
                                /\ SumOf(Size) + Free <= Total
  OBVIOUS
<1>1. Size \in [Models -> Nat] /\ reserved \in [Models -> Nat]
  <2>1. ASSUME NEW m \in Models
        PROVE  held[m].bytes \in Nat /\ reserved[m] \in Nat
    <3>1. held[m].bytes \in Sizes \cup {0} /\ reserved[m] \in Sizes \cup {0}
      BY DEF IInv, TypeOK
    <3>2. Sizes \cup {0} \subseteq Nat
      BY SizesAssumption
    <3>. QED
      BY <3>1, <3>2, Zenon
  <2>2. reserved = [m \in Models |-> reserved[m]]
    BY DEF IInv, TypeOK
  <2>. QED
    BY <2>1, <2>2 DEF Size
<1>2. \A m \in Models : Size[m] <= reserved[m]
  <2>. SUFFICES ASSUME NEW m \in Models PROVE Size[m] <= reserved[m]
    OBVIOUS
  <2>1. CASE m \notin overlap /\ IsHeld(m)
    BY <1>1, <2>1 DEF Size, IInv, ReservedWhileHeld
  <2>2. CASE m \in overlap \/ ~IsHeld(m)
    BY <1>1, <2>2 DEF Size, IsHeld
  <2>. QED
    BY <2>1, <2>2
<1>3. SumOf(Size) \in Nat /\ SumOf(reserved) \in Nat /\ SumOf(Size) <= SumOf(reserved)
  BY <1>1, <1>2, ModelsAssumption, SumNat, SumLeq
<1>4. Free = Total - SumOf(reserved)
  BY Zenon DEF Free, SumOf
<1>. QED
  BY <1>3, <1>4, TotalAssumption

LEMMA TakeFreshAdmits ==
  ASSUME IInv, NEW t \in Threads, NEW m \in Models, NEW k \in Kinds, NEW b \in Sizes, NEW h,
         TakeFresh(t, m, k, b, h)
  PROVE  AbstractStep
<1>1. /\ ~IsHeld(m)
      /\ held'[m] = [kind |-> k, bytes |-> b, committed |-> FALSE, hosted |-> "none"]
      /\ \A n \in Models \ {m} : held'[n] = held[n] /\ (n \in overlap' <=> n \in overlap)
      /\ overlap \subseteq overlap'
  BY DEF TakeFresh, IInv, TypeOK
<1>2. IsHeld(m)'
  BY <1>1 DEF IsHeld
<1>3. CASE m \in overlap
  BY <1>1, <1>3, SameModels DEF IsHeld
<1>4. CASE m \notin overlap /\ m \in overlap'
  BY <1>1, <1>4, Loses
<1>5. CASE m \notin overlap'
  <2>1. Status[m] = "absent" /\ Status'[m] = "loading" /\ Holder'[m] = k /\ Size'[m] = b
    BY <1>1, <1>2, <1>5 DEF Status, Holder, Size
  <2>2. b = 0 \/ b + SumOf(Size) <= Total
    <3>1. b <= Free \/ b = 0
      BY DEF TakeFresh
    <3>. QED
      BY <3>1, SizeWithinReserved, TotalAssumption
  <2>3. Residency!Set(m, "loading", k, b)
    BY <1>1, <2>1, SetsOne
  <2>4. Residency!Admit(m, k, b)
    BY <2>1, <2>2, <2>3, AdmitIs
  <2>. QED
    BY <2>4 DEF AbstractStep, Residency!Next
<1>. QED
  BY <1>3, <1>4, <1>5

LEMMA TakeReuseStutters ==
  ASSUME IInv, NEW t \in Threads, NEW m \in Models, NEW k \in Kinds, TakeReuse(t, m, k)
  PROVE  AbstractStep
<1>1. /\ \A n : held'[n] = held[n] /\ (IsHeld(n)' <=> IsHeld(n))
      /\ \A n \in Models \ {m} : n \in overlap' <=> n \in overlap
      /\ overlap \subseteq overlap'
  BY DEF TakeReuse, IsHeld
<1>2. CASE m \notin overlap /\ m \in overlap'
  BY <1>1, <1>2, Loses
<1>3. CASE m \in overlap \/ m \notin overlap'
  BY <1>1, <1>3, SameModels
<1>. QED
  BY <1>2, <1>3

\* Publish writes the host, which the abstract state does not have.
LEMMA PublishStutters ==
  ASSUME IInv, NEW t \in Threads, Publish(t)
  PROVE  AbstractStep
<1>. DEFINE m == claim[t].model
<1>1. m \in Models /\ (held[m] \in HeldEntry \/ held[m] = NotHeld)
  BY Types DEF Publish
<1>2. /\ \A n \in Models \ {m} : held'[n] = held[n]
      /\ IsHeld(m) => held'[m] = [held[m] EXCEPT !.hosted = claim[t].host]
      /\ ~IsHeld(m) => held'[m] = held[m]
      /\ overlap' = overlap
  BY <1>1 DEF Publish, IInv, TypeOK
<1>3. \A n \in Models : /\ IsHeld(n)' <=> IsHeld(n)
                        /\ held'[n].kind = held[n].kind
                        /\ held'[n].bytes = held[n].bytes
                        /\ held'[n].committed = held[n].committed
  BY <1>1, <1>2, Types DEF IsHeld
<1>. QED
  BY <1>2, <1>3, SameModels

\* Commit settles the model, unless it was settled before: a reload in place.
LEMMA CommitSettles ==
  ASSUME IInv, NEW t \in Threads, Commit(t)
  PROVE  AbstractStep
<1>. PICK m \in Models : m = claim[t].model
  BY Types DEF Commit
<1>1. held[m] \in HeldEntry \/ held[m] = NotHeld
  BY Types
<1>2. /\ \A n \in Models \ {m} : held'[n] = held[n]
      /\ IsHeld(m) => held'[m] = [held[m] EXCEPT !.committed = TRUE]
      /\ ~IsHeld(m) => held'[m] = held[m]
      /\ overlap' = overlap
  BY <1>1 DEF Commit, IInv, TypeOK, marks
<1>3. \A n \in Models : /\ IsHeld(n)' <=> IsHeld(n)
                        /\ held'[n].kind = held[n].kind
                        /\ held'[n].bytes = held[n].bytes
  BY <1>1, <1>2, Types DEF IsHeld
<1>4. CASE IsHeld(m) /\ ~held[m].committed /\ m \notin overlap
  <2>1. held'[m].committed
    BY <1>1, <1>2, <1>4 DEF IsHeld
  <2>2. Status[m] = "loading" /\ Status'[m] = "loaded"
    BY <1>1, <1>2, <1>3, <1>4, <2>1 DEF Status
  <2>3. PICK k, b : k = Holder[m] /\ b = Size[m]
    OBVIOUS
  <2>4. Holder'[m] = k /\ Size'[m] = b
    BY <1>1, <1>2, <1>3, <2>3 DEF Holder, Size
  <2>5. Residency!Set(m, "loaded", k, b)
    BY <1>1, <1>2, <2>2, <2>4, SetsOne
  <2>6. Residency!Settle(m)
    BY <2>2, <2>3, <2>5 DEF Residency!Settle, Residency!Set, Status, Holder, Size
  <2>. QED
    BY <2>6 DEF AbstractStep, Residency!Next
<1>5. CASE ~(IsHeld(m) /\ ~held[m].committed /\ m \notin overlap)
  <2>1. \A n \in Models \ overlap : held'[n].committed = held[n].committed
    BY <1>1, <1>2, <1>5 DEF IsHeld
  <2>. QED
    BY <1>2, <1>3, <2>1, SameModels
<1>. QED
  BY <1>4, <1>5

LEMMA RemoveUnloads ==
  ASSUME IInv, NEW t \in Threads, NEW m \in Models, NEW stays, IsHeld(m), Remove(t, m, stays)
  PROVE  AbstractStep
<1>1. /\ held'[m] = NotHeld
      /\ \A n \in Models \ {m} : held'[n] = held[n] /\ (n \in overlap' <=> n \in overlap)
      /\ overlap \subseteq overlap'
  BY DEF Remove, IInv, TypeOK
<1>2. CASE m \in overlap
  BY <1>1, <1>2, SameModels DEF IsHeld
<1>3. CASE m \notin overlap /\ m \in overlap'
  BY <1>1, <1>3, Loses
<1>4. CASE m \notin overlap'
  <2>1. /\ Status[m] \in {"loading", "loaded"}
        /\ Status'[m] = "absent" /\ Holder'[m] = "none" /\ Size'[m] = 0
    BY <1>1, <1>4 DEF Status, Holder, Size, IsHeld
  <2>2. Residency!Set(m, "absent", "none", 0)
    BY <1>1, <2>1, SetsOne
  <2>3. Residency!Unload(m)
    BY <2>1, <2>2 DEF Residency!Unload, Status
  <2>. QED
    BY <2>3 DEF AbstractStep, Residency!Next
<1>. QED
  BY <1>2, <1>3, <1>4

\* The other steps leave the entries alone.
LEMMA OthersStutter ==
  ASSUME UNCHANGED <<held, overlap>>
  PROVE  AbstractStep
  BY DEF AbstractStep, Status, Holder, Size, IsHeld

LEMMA NextIsAbstract == IInv /\ [Next]_vars => AbstractStep
<1>. SUFFICES ASSUME IInv, [Next]_vars PROVE AbstractStep
  OBVIOUS
<1>1. ASSUME NEW t \in Threads, NEW m \in Models, NEW k \in Kinds, NEW b \in Sizes,
             ClaimModel(t, m, k, b)
      PROVE  AbstractStep
  BY <1>1, TakeFreshAdmits, TakeReuseStutters DEF ClaimModel
<1>2. ASSUME NEW t \in Threads, NEW m \in Models, NEW k \in Kinds, NEW b \in Sizes,
             NEW h \in Hosts, Serve(t, m, k, b, h)
      PROVE  AbstractStep
  BY <1>2, TakeFreshAdmits DEF Serve
<1>3. ASSUME NEW t \in Threads, NEW m \in Models, NEW k \in Kinds, Release(t, m, k)
      PROVE  AbstractStep
  BY <1>3, RemoveUnloads DEF Release
<1>4. ASSUME NEW t \in Threads, DropClaim(t) PROVE AbstractStep
  <2>1. claim[t].model \in Models
    BY <1>4, Types DEF DropClaim
  <2>. QED
    BY <1>4, <2>1, RemoveUnloads, OthersStutter DEF DropClaim, marks
<1>5. ASSUME NEW t \in Threads,
             LoadEnds(t) \/ StartEnds(t) \/ GiveBack(t) \/ StopHost(t)
      PROVE  AbstractStep
  BY <1>5, OthersStutter DEF LoadEnds, StartEnds, GiveBack, StopHost, marks
<1>6. CASE UNCHANGED vars
  BY <1>6, OthersStutter DEF vars, marks
<1>7. ASSUME NEW h \in Hosts, HostEnds(h) PROVE AbstractStep
  BY <1>7, OthersStutter DEF HostEnds
<1>. QED
  BY <1>1, <1>2, <1>3, <1>4, <1>5, <1>6, <1>7, PublishStutters, CommitSettles DEF Next, Step

LEMMA InitIsAbstract == Init => Residency!Init
  BY DEF Init, Residency!Init, IsHeld

(* Engines implements ModelResidency: what the lock sections of claim,     *)
(* serve, commit and release do is one admission within the budget, one    *)
(* settling and one unloading for each model.                              *)
THEOREM Implements == Spec => ResidencySpec
<1>1. IInv /\ [Next]_vars => [Residency!Next]_Residency!vars
  BY NextIsAbstract, AbstractIs
<1>. QED
  BY <1>1, InitIsAbstract, Inductive, PTL DEF Spec, ResidencySpec, Residency!Spec

-----------------------------------------------------------------------------
(* The supervisor of one hosted model.                                     *)

\* Starts are numbered without gaps and only the newest is not done.
Newest ==
  /\ \A t \in HostId : thread[t] = "none" <=> t > restarts
  /\ \A t \in HostId : t < restarts => thread[t] = "done"
  /\ host # NoHost => host = restarts /\ thread[restarts] = "done"
  /\ starting <=> (restarts # 0 /\ Active(restarts))
  /\ host # NoHost \/ Active(restarts) => failures < MaxFailures

\* Before serve() returns there is nobody to call, stop or restart.
Serving ==
  thread[0] # "done" =>
    /\ restarts = 0 /\ ~stopped
    /\ \A c \in Callers : caller[c] = "idle"

Stopping == stopped => host = NoHost

\* What a caller holds is a host that was once current, and a caller that
\* reports an exit saw the host dead or hung up on it.
Holding ==
  \A c \in Callers :
    /\ caller[c] \in {"calling", "replied", "failed"} <=> with[c] # NoHost
    /\ with[c] # NoHost => thread[with[c]] = "done"
    /\ caller[c] = "failed" => proc[with[c]] = "dead" \/ with[c] \in hungUp

Processes ==
  /\ \A h \in HostId : h > restarts => proc[h] = "none"
  /\ \A h \in HostId : h < restarts /\ Running(h) => h \in hungUp
  /\ thread[restarts] \in {"spawned", "failed"} => ~Running(restarts)

\* The bound on faults: the host of the last restart allowed meets none.
Faulting ==
  /\ \A h \in HostId : host = h /\ proc[h] \in {"broken", "dead"} => MayFault(h)
  /\ \A c \in Callers : caller[c] = "failed" /\ host = with[c] => MayFault(host)
  /\ thread[restarts] = "failed" => MayFault(restarts) \/ stopped

\* A model that is neither current, stopped nor spent is being started.
StartOwed ==
  host = NoHost /\ ~stopped /\ failures < MaxFailures
    => lateOk \/ Pending(restarts) \/ thread[0] = "failed"

Sleepers ==
  \A c \in Callers : caller[c] = "asleep" =>
    host = NoHost /\ ~stopped /\ failures < MaxFailures

HMInv ==
  /\ HMTypeOK /\ Newest /\ Serving /\ Stopping
  /\ Holding /\ Processes /\ Faulting /\ StartOwed /\ Sleepers

-----------------------------------------------------------------------------
USE MaxFailuresAssumption, MaxRestartsAssumption
USE DEF HostId, NoHost

\* serve() has just spawned the first start: nothing is published yet.
LEMMA HMInitInv == HMInit => HMInv
<1>. SUFFICES ASSUME HMInit PROVE HMInv
  OBVIOUS
<1>. USE DEF HMInit
<1>1. HMTypeOK
  <2>1. host \in HostId \cup {NoHost}
    OBVIOUS
  <2>2. failures \in 0 .. MaxFailures /\ restarts \in HostId
    OBVIOUS
  <2>3. starting \in BOOLEAN /\ stopped \in BOOLEAN /\ lateOk \in BOOLEAN
    OBVIOUS
  <2>4. thread \in [HostId -> {"none", "spawned", "loading", "failed", "done"}]
    OBVIOUS
  <2>5. proc \in [HostId -> {"none", "up", "broken", "dead"}]
    OBVIOUS
  <2>6. caller \in [Callers -> {"idle", "check", "asleep", "calling", "replied", "failed"}]
    OBVIOUS
  <2>7. with \in [Callers -> HostId \cup {NoHost}] /\ hungUp \subseteq HostId
    OBVIOUS
  <2>. QED
    BY <2>1, <2>2, <2>3, <2>4, <2>5, <2>6, <2>7 DEF HMTypeOK
<1>2. Newest
  BY DEF Newest
<1>3. Serving
  BY DEF Serving
<1>4. Stopping
  BY DEF Stopping
<1>5. Holding
  BY DEF Holding
<1>6. Processes
  BY DEF Processes, Running
<1>7. Faulting
  BY DEF Faulting
<1>8. StartOwed
  BY DEF StartOwed, Pending, Active
<1>9. Sleepers
  BY DEF Sleepers
<1>. QED
  BY <1>1, <1>2, <1>3, <1>4, <1>5, <1>6, <1>7, <1>8, <1>9 DEF HMInv

\* The starts.  Each touches only the newest start.
LEMMA SpawnProcessKeeps ==
  ASSUME HMInv, NEW t \in HostId, SpawnProcess(t)
  PROVE  HMInv'
<1>. USE DEF HMInv, SpawnProcess, run, history
<1>1. HMTypeOK'
  BY DEF HMTypeOK
<1>2. Newest'
  BY DEF Newest, Active
<1>3. Serving'
  BY DEF Serving
<1>4. Stopping'
  BY DEF Stopping
<1>5. Holding'
  BY DEF Holding
<1>6. Processes'
  BY DEF HMTypeOK, Newest, Processes, Running
<1>7. Faulting'
  BY DEF Faulting
<1>8. StartOwed'
  BY DEF StartOwed, Active, Pending
<1>9. Sleepers'
  BY DEF Sleepers
<1>. QED
  BY <1>1, <1>2, <1>3, <1>4, <1>5, <1>6, <1>7, <1>8, <1>9

LEMMA StartOkKeeps ==
  ASSUME HMInv, NEW t \in HostId, StartOk(t)
  PROVE  HMInv'
<1>. USE DEF HMInv, StartOk, history, Notified
<1>1. HMTypeOK'
  <2>1. host' \in HostId \cup {NoHost}
    BY DEF HMTypeOK
  <2>2. failures' \in 0 .. MaxFailures /\ restarts' \in HostId
    BY DEF HMTypeOK
  <2>3. starting' \in BOOLEAN /\ stopped' \in BOOLEAN /\ lateOk' \in BOOLEAN
    BY DEF HMTypeOK
  <2>4. thread' \in [HostId -> {"none", "spawned", "loading", "failed", "done"}]
    BY DEF HMTypeOK
  <2>5. proc' \in [HostId -> {"none", "up", "broken", "dead"}]
    BY DEF HMTypeOK
  <2>6. caller' \in [Callers -> {"idle", "check", "asleep", "calling", "replied", "failed"}]
    BY DEF HMTypeOK
  <2>7. with' \in [Callers -> HostId \cup {NoHost}] /\ hungUp' \subseteq HostId
    BY DEF HMTypeOK
  <2>. QED
    BY <2>1, <2>2, <2>3, <2>4, <2>5, <2>6, <2>7 DEF HMTypeOK
<1>2. Newest'
  BY DEF HMTypeOK, Newest, Active
<1>3. Serving'
  BY DEF HMTypeOK, Serving
<1>4. Stopping'
  BY DEF Stopping
<1>5. Holding'
  BY DEF HMTypeOK, Holding
<1>6. Processes'
  BY DEF HMTypeOK, Processes, Running
<1>7. Faulting'
  BY DEF HMTypeOK, Newest, Holding, Faulting
<1>8. StartOwed'
  BY DEF StartOwed
<1>9. Sleepers'
  BY DEF Sleepers
<1>. QED
  BY <1>1, <1>2, <1>3, <1>4, <1>5, <1>6, <1>7, <1>8, <1>9

LEMMA StartFailKeeps ==
  ASSUME HMInv, NEW t \in HostId, StartFail(t)
  PROVE  HMInv'
<1>. USE DEF HMInv, StartFail, history, Notified, MayFault
<1>1. HMTypeOK'
  <2>1. host' \in HostId \cup {NoHost}
    BY DEF HMTypeOK
  <2>2. failures' \in 0 .. MaxFailures /\ restarts' \in HostId
    BY DEF HMTypeOK, Newest, Active
  <2>3. starting' \in BOOLEAN /\ stopped' \in BOOLEAN /\ lateOk' \in BOOLEAN
    BY DEF HMTypeOK
  <2>4. thread' \in [HostId -> {"none", "spawned", "loading", "failed", "done"}]
    BY DEF HMTypeOK
  <2>5. proc' \in [HostId -> {"none", "up", "broken", "dead"}]
    BY DEF HMTypeOK
  <2>6. caller' \in [Callers -> {"idle", "check", "asleep", "calling", "replied", "failed"}]
    BY DEF HMTypeOK
  <2>7. with' \in [Callers -> HostId \cup {NoHost}] /\ hungUp' \subseteq HostId
    BY DEF HMTypeOK
  <2>. QED
    BY <2>1, <2>2, <2>3, <2>4, <2>5, <2>6, <2>7 DEF HMTypeOK
<1>2. Newest'
  BY DEF HMTypeOK, Newest, Active
<1>3. Serving'
  BY DEF Serving
<1>4. Stopping'
  BY DEF Stopping
<1>5. Holding'
  BY DEF Holding
<1>6. Processes'
  BY DEF HMTypeOK, Newest, Processes, Running
<1>7. Faulting'
  BY DEF Faulting
<1>8. StartOwed'
  BY DEF HMTypeOK, Newest, StartOwed, Pending
<1>9. Sleepers'
  BY DEF Sleepers
<1>. QED
  BY <1>1, <1>2, <1>3, <1>4, <1>5, <1>6, <1>7, <1>8, <1>9

\* A retry makes a new newest start out of a failed one, or ends it for good.
LEMMA RetryKeeps ==
  ASSUME HMInv, NEW t \in HostId, Retry(t)
  PROVE  HMInv'
<1>. USE DEF HMInv
<1>1. /\ t = restarts /\ t # 0 /\ thread[t] = "failed"
      /\ host = NoHost /\ ~starting /\ thread[0] = "done"
  BY DEF Retry, HMTypeOK, Newest, Active
<1>2. UNCHANGED <<host, failures, stopped, proc, caller, with, hungUp, lateOk>>
  BY DEF Retry, history
<1>3. CASE MayRestart(failures)
  <2>1. restarts < MaxRestarts
    BY <1>1, <1>3 DEF Faulting, MayFault, MayRestart
  <2>2. /\ starting' = TRUE
        /\ restarts' = restarts + 1
        /\ thread' = [thread EXCEPT ![t] = "done", ![restarts + 1] = "spawned"]
    BY <1>1, <1>3 DEF Retry, RestartLocked
  <2>3. restarts' \in HostId /\ restarts' # 0 /\ restarts' # t
    BY <1>1, <2>1, <2>2
  <2>4. /\ thread'[restarts'] = "spawned" /\ thread'[t] = "done"
        /\ \A u \in HostId : u # t /\ u # restarts' => thread'[u] = thread[u]
    BY <1>1, <2>2, <2>3 DEF HMTypeOK
  <2>5. HMTypeOK'
    BY <1>2, <2>2, <2>3 DEF HMTypeOK
  <2>6. Newest'
    BY <1>1, <1>2, <1>3, <2>2, <2>3, <2>4 DEF HMTypeOK, Newest, Active, MayRestart
  <2>7. Serving' /\ Stopping' /\ Sleepers'
    BY <1>1, <1>2, <2>3, <2>4 DEF Serving, Stopping, Sleepers
  <2>8. Holding'
    <3>1. \A d \in Callers : with[d] # NoHost => with[d] # restarts'
      BY <2>2 DEF HMTypeOK, Newest, Holding
    <3>. QED
      BY <1>1, <1>2, <2>3, <2>4, <3>1 DEF HMTypeOK, Holding
  <2>9. Processes'
    BY <1>1, <1>2, <2>2, <2>3, <2>4 DEF Processes, Running
  <2>10. Faulting'
    BY <1>1, <1>2, <2>3, <2>4 DEF Faulting
  <2>11. StartOwed'
    BY <2>3, <2>4 DEF StartOwed, Pending, Active
  <2>. QED
    BY <2>5, <2>6, <2>7, <2>8, <2>9, <2>10, <2>11
<1>4. CASE ~MayRestart(failures)
  <2>1. /\ thread' = [thread EXCEPT ![t] = "done"]
        /\ UNCHANGED <<starting, restarts>>
    BY <1>4 DEF Retry, RestartLocked
  <2>2. /\ thread'[restarts'] = "done"
        /\ \A u \in HostId : u # t => thread'[u] = thread[u]
    BY <1>1, <2>1 DEF HMTypeOK
  <2>3. HMTypeOK' /\ Newest'
    BY <1>1, <1>2, <2>1, <2>2 DEF HMTypeOK, Newest, Active
  <2>4. Serving' /\ Stopping' /\ Sleepers' /\ Holding'
    BY <1>1, <1>2, <2>1, <2>2 DEF Serving, Stopping, Sleepers, Holding
  <2>5. Processes' /\ Faulting'
    BY <1>1, <1>2, <2>1, <2>2 DEF Processes, Running, Faulting
  <2>6. StartOwed'
    BY <1>1, <1>2, <1>4 DEF MayRestart, StartOwed
  <2>. QED
    BY <2>3, <2>4, <2>5, <2>6
<1>. QED
  BY <1>3, <1>4

\* A caller that waits for a host: nothing but its place changes.
LEMMA BeginKeeps ==
  ASSUME HMInv, NEW c \in Callers, Begin(c)
  PROVE  HMInv'
<1>. USE DEF HMInv, Begin, run, history, Published
<1>1. HMTypeOK'
  BY DEF HMTypeOK
<1>2. Newest'
  BY DEF Newest, Active
<1>3. Serving'
  BY DEF Serving
<1>4. Stopping'
  BY DEF Stopping
<1>5. Holding'
  BY DEF Holding
<1>6. Processes'
  BY DEF Processes, Running
<1>7. Faulting'
  BY DEF Faulting
<1>8. StartOwed'
  BY DEF StartOwed, Active, Pending
<1>9. Sleepers'
  BY DEF Sleepers
<1>. QED
  BY <1>1, <1>2, <1>3, <1>4, <1>5, <1>6, <1>7, <1>8, <1>9

LEMMA TakeHostKeeps ==
  ASSUME HMInv, NEW c \in Callers, TakeHost(c)
  PROVE  HMInv'
<1>. USE DEF HMInv, TakeHost, run, history
<1>1. HMTypeOK'
  BY DEF HMTypeOK
<1>2. Newest'
  BY DEF Newest, Active
<1>3. Serving'
  BY DEF Serving
<1>4. Stopping'
  BY DEF Stopping
<1>5. Holding'
  BY DEF HMTypeOK, Newest, Holding
<1>6. Processes'
  BY DEF Processes, Running
<1>7. Faulting'
  BY DEF Faulting
<1>8. StartOwed'
  BY DEF StartOwed
<1>9. Sleepers'
  BY DEF Sleepers
<1>. QED
  BY <1>1, <1>2, <1>3, <1>4, <1>5, <1>6, <1>7, <1>8, <1>9

LEMMA RefusedStoppedKeeps ==
  ASSUME HMInv, NEW c \in Callers, RefusedStopped(c)
  PROVE  HMInv'
<1>. USE DEF HMInv, RefusedStopped, run,history
<1>1. HMTypeOK'
  BY DEF HMTypeOK
<1>2. Newest'
  BY DEF Newest, Active
<1>3. Serving'
  BY DEF Serving
<1>4. Stopping'
  BY DEF Stopping
<1>5. Holding'
  BY DEF Holding
<1>6. Processes'
  BY DEF Processes, Running
<1>7. Faulting'
  BY DEF Faulting
<1>8. StartOwed'
  BY DEF HMTypeOK, StartOwed
<1>9. Sleepers'
  BY DEF Sleepers
<1>. QED
  BY <1>1, <1>2, <1>3, <1>4, <1>5, <1>6, <1>7, <1>8, <1>9

LEMMA SleepKeeps ==
  ASSUME HMInv, NEW c \in Callers, Sleep(c)
  PROVE  HMInv'
<1>. USE DEF HMInv, Sleep, run,history
<1>1. HMTypeOK'
  BY DEF HMTypeOK
<1>2. Newest'
  BY DEF Newest, Active
<1>3. Serving'
  BY DEF Serving
<1>4. Stopping'
  BY DEF Stopping
<1>5. Holding'
  BY DEF Holding
<1>6. Processes'
  BY DEF Processes, Running
<1>7. Faulting'
  BY DEF Faulting
<1>8. StartOwed'
  BY DEF StartOwed, Active, Pending
<1>9. Sleepers'
  BY DEF Sleepers
<1>. QED
  BY <1>1, <1>2, <1>3, <1>4, <1>5, <1>6, <1>7, <1>8, <1>9

\* A caller that holds a host.  Dropping the last reference kills its process.
LEMMA ReplyKeeps ==
  ASSUME HMInv, NEW c \in Callers, Reply(c)
  PROVE  HMInv'
<1>. USE DEF HMInv, Reply, run,history
<1>1. HMTypeOK'
  BY DEF HMTypeOK
<1>2. Newest'
  BY DEF Newest, Active
<1>3. Serving'
  BY DEF Serving
<1>4. Stopping'
  BY DEF Stopping
<1>5. Holding'
  BY DEF Holding
<1>6. Processes'
  BY DEF Processes, Running
<1>7. Faulting'
  BY DEF Faulting
<1>8. StartOwed'
  BY DEF StartOwed, Active, Pending
<1>9. Sleepers'
  BY DEF Sleepers
<1>. QED
  BY <1>1, <1>2, <1>3, <1>4, <1>5, <1>6, <1>7, <1>8, <1>9

LEMMA ServedKeeps ==
  ASSUME HMInv, NEW c \in Callers, Served(c)
  PROVE  HMInv'
<1>. USE DEF HMInv, Served, Drop
<1>1. HMTypeOK'
  BY DEF HMTypeOK
<1>2. Newest'
  BY DEF Newest, Active
<1>3. Serving'
  BY DEF Serving
<1>4. Stopping'
  BY DEF Stopping
<1>5. Holding'
  BY DEF HMTypeOK, Holding
<1>6. Processes'
  BY DEF Newest, Holding, Processes, Running
<1>7. Faulting'
  BY DEF Faulting
<1>8. StartOwed'
  <2>1. with[c] # NoHost
    BY DEF Holding
  <2>2. CASE host = NoHost
    <3>1. lateOk'
      BY <2>1, <2>2
    <3>. QED
      BY <3>1 DEF StartOwed
  <2>3. CASE host # NoHost
    BY <2>3 DEF StartOwed
  <2>. QED
    BY <2>2, <2>3
<1>9. Sleepers'
  BY DEF Sleepers
<1>. QED
  BY <1>1, <1>2, <1>3, <1>4, <1>5, <1>6, <1>7, <1>8, <1>9

LEMMA RefusedKeeps ==
  ASSUME HMInv, NEW c \in Callers, Refused(c)
  PROVE  HMInv'
<1>. USE DEF HMInv, Refused, run, history, Drop
<1>1. HMTypeOK'
  BY DEF HMTypeOK
<1>2. Newest'
  BY DEF Newest, Active
<1>3. Serving'
  BY DEF Serving
<1>4. Stopping'
  BY DEF Stopping
<1>5. Holding'
  BY DEF HMTypeOK, Holding
<1>6. Processes'
  BY DEF Processes, Running
<1>7. Faulting'
  BY DEF Faulting
<1>8. StartOwed'
  BY DEF StartOwed, Active, Pending
<1>9. Sleepers'
  BY DEF Sleepers
<1>. QED
  BY <1>1, <1>2, <1>3, <1>4, <1>5, <1>6, <1>7, <1>8, <1>9

\* The caller learns of a failure: the host is dead, or was hung up on.
LEMMA FailedKeeps ==
  ASSUME HMInv, NEW c \in Callers, Failed(c)
  PROVE  HMInv'
<1>. USE DEF HMInv, Failed, run,history
<1>1. HMTypeOK'
  BY DEF HMTypeOK
<1>2. Newest'
  BY DEF Newest, Active
<1>3. Serving'
  BY DEF Serving
<1>4. Stopping'
  BY DEF Stopping
<1>5. Holding'
  BY DEF HMTypeOK, Holding
<1>6. Processes'
  BY DEF Processes, Running
<1>7. Faulting'
  BY DEF HMTypeOK, Holding, Faulting
<1>8. StartOwed'
  BY DEF StartOwed, Active, Pending
<1>9. Sleepers'
  BY DEF Sleepers
<1>. QED
  BY <1>1, <1>2, <1>3, <1>4, <1>5, <1>6, <1>7, <1>8, <1>9

LEMMA HangUpKeeps ==
  ASSUME HMInv, NEW c \in Callers, HangUp(c)
  PROVE  HMInv'
<1>. USE DEF HMInv, HangUp, run,MayFault
<1>1. HMTypeOK'
  <2>1. host' \in HostId \cup {NoHost}
    BY DEF HMTypeOK
  <2>2. failures' \in 0 .. MaxFailures /\ restarts' \in HostId
    BY DEF HMTypeOK
  <2>3. starting' \in BOOLEAN /\ stopped' \in BOOLEAN /\ lateOk' \in BOOLEAN
    BY DEF HMTypeOK
  <2>4. thread' \in [HostId -> {"none", "spawned", "loading", "failed", "done"}]
    BY DEF HMTypeOK
  <2>5. proc' \in [HostId -> {"none", "up", "broken", "dead"}]
    BY DEF HMTypeOK
  <2>6. caller' \in [Callers -> {"idle", "check", "asleep", "calling", "replied", "failed"}]
    BY DEF HMTypeOK
  <2>7. with' \in [Callers -> HostId \cup {NoHost}] /\ hungUp' \subseteq HostId
    BY DEF HMTypeOK, Holding
  <2>. QED
    BY <2>1, <2>2, <2>3, <2>4, <2>5, <2>6, <2>7 DEF HMTypeOK
<1>2. Newest'
  BY DEF Newest, Active
<1>3. Serving'
  BY DEF Serving
<1>4. Stopping'
  BY DEF Stopping
<1>5. Holding'
  BY DEF Holding
<1>6. Processes'
  BY DEF Processes, Running
<1>7. Faulting'
  BY DEF Faulting
<1>8. StartOwed'
  BY DEF StartOwed, Active, Pending
<1>9. Sleepers'
  BY DEF Sleepers
<1>. QED
  BY <1>1, <1>2, <1>3, <1>4, <1>5, <1>6, <1>7, <1>8, <1>9

\* The one caller that still sees its host as current makes a newer start.
LEMMA ExitedKeeps ==
  ASSUME HMInv, NEW c \in Callers, Exited(c)
  PROVE  HMInv'
<1>. USE DEF HMInv
<1>. DEFINE h == with[c]
<1>1. /\ caller[c] = "failed" /\ h \in HostId /\ h # NoHost
      /\ h <= restarts /\ thread[h] = "done"
      /\ proc[h] = "dead" \/ h \in hungUp
  BY DEF Exited, HMTypeOK, Newest, Holding
<1>2. /\ caller' = [caller EXCEPT ![c] = "idle"]
      /\ with' = [with EXCEPT ![c] = NoHost]
      /\ UNCHANGED <<stopped, hungUp, lateOk>>
  BY DEF Exited, history
<1>3. /\ proc' \in [HostId -> {"none", "up", "broken", "dead"}]
      /\ \A g \in HostId : proc'[g] = proc[g] \/ (g = h /\ proc'[g] = "dead")
      /\ \A g \in HostId : proc'[g] # proc[g] => host' # g
  BY <1>1 DEF Exited, Drop, HMTypeOK
<1>4. CASE host # h
  <2>1. UNCHANGED <<host, failures, starting, restarts, thread>>
    BY <1>4 DEF Exited
  <2>2. HMTypeOK' /\ Newest' /\ Serving' /\ Stopping' /\ Sleepers'
    BY <1>1, <1>2, <1>3, <2>1 DEF HMTypeOK, Newest, Active, Serving, Stopping,
           Sleepers
  <2>3. Holding' /\ Processes'
    BY <1>1, <1>2, <1>3, <2>1 DEF HMTypeOK, Holding, Processes, Running
  <2>4. Faulting' /\ StartOwed'
    BY <1>1, <1>2, <1>3, <2>1 DEF HMTypeOK, Faulting, StartOwed, Pending, Active
  <2>. QED
    BY <2>2, <2>3, <2>4
<1>5. CASE host = h
  <2>1. /\ h = restarts /\ ~starting /\ ~stopped /\ failures < MaxFailures
        /\ h < MaxRestarts /\ thread[0] = "done"
    BY <1>1, <1>5 DEF Newest, Active, Stopping, Faulting, MayFault
  <2>2. host' = NoHost /\ failures' = failures + 1
    BY <1>5 DEF Exited
  <2>3. \A d \in Callers : caller[d] # "asleep"
    BY <1>1, <1>5 DEF Sleepers
  <2>4. CASE failures + 1 < MaxFailures
    <3>1. /\ starting' = TRUE
          /\ restarts' = restarts + 1
          /\ thread' = [thread EXCEPT ![restarts + 1] = "spawned"]
      BY <1>5, <2>1, <2>4 DEF Exited, RestartLocked, MayRestart
    <3>2. restarts' \in HostId /\ restarts' # 0 /\ restarts' # h
      BY <1>1, <2>1, <3>1
    <3>3. /\ thread'[restarts'] = "spawned" /\ thread'[h] = "done"
          /\ \A u \in HostId : u # restarts' => thread'[u] = thread[u]
      BY <1>1, <3>1, <3>2 DEF HMTypeOK
    <3>4. HMTypeOK'
      BY <1>2, <1>3, <2>1, <2>2, <2>4, <3>1, <3>2 DEF HMTypeOK
    <3>5. Newest'
      BY <1>1, <2>1, <2>2, <2>4, <3>1, <3>2, <3>3 DEF Newest, Active
    <3>6. Serving' /\ Stopping' /\ Sleepers'
      BY <1>2, <2>1, <2>2, <2>3, <3>2, <3>3 DEF Serving, Stopping, Sleepers
    <3>7. \A d \in Callers : with'[d] # NoHost => with'[d] # restarts'
      BY <1>1, <1>2, <2>1, <3>1 DEF Newest, Holding
    <3>8. Holding'
      BY <1>1, <1>2, <1>3, <3>3, <3>7 DEF HMTypeOK, Holding
    <3>9. Processes'
      BY <1>1, <1>2, <1>3, <2>1, <3>1, <3>2, <3>3 DEF HMTypeOK, Processes, Running
    <3>10. Faulting'
      BY <1>2, <1>3, <2>2, <3>3, <3>7 DEF Faulting, MayFault
    <3>11. StartOwed'
      BY <3>2, <3>3 DEF StartOwed, Pending, Active
    <3>. QED
      BY <3>4, <3>5, <3>6, <3>8, <3>9, <3>10, <3>11
  <2>5. CASE ~(failures + 1 < MaxFailures)
    <3>1. UNCHANGED <<starting, restarts, thread>>
      BY <1>5, <2>5 DEF Exited, RestartLocked, MayRestart
    <3>2. HMTypeOK' /\ Newest' /\ Serving' /\ Stopping' /\ Sleepers'
      BY <1>1, <1>2, <1>3, <1>5, <2>1, <2>2, <2>3, <3>1
         DEF HMTypeOK, Newest, Active, Serving, Stopping, Sleepers
    <3>3. Holding' /\ Processes'
      BY <1>1, <1>2, <1>3, <2>1, <3>1 DEF HMTypeOK, Holding, Processes, Running
    <3>4. Faulting' /\ StartOwed'
      BY <1>1, <1>2, <1>3, <2>1, <2>2, <2>5, <3>1 DEF Faulting, MayFault, StartOwed
    <3>. QED
      BY <3>2, <3>3, <3>4
  <2>. QED
    BY <2>4, <2>5
<1>. QED
  BY <1>4, <1>5

\* The application releases the model; a process dies.
LEMMA StopKeeps ==
  ASSUME HMInv, Stop
  PROVE  HMInv'
<1>. USE DEF HMInv, Stop, history,Drop,Notified,Published
<1>1. HMTypeOK'
  BY DEF HMTypeOK
<1>2. Newest'
  BY DEF Newest, Active
<1>3. Serving'
  BY DEF Serving
<1>4. Stopping'
  BY DEF Stopping
<1>5. Holding'
  BY DEF Holding
<1>6. Processes'
  BY DEF Newest, Processes, Running
<1>7. Faulting'
  BY DEF Holding, Faulting
<1>8. StartOwed'
  BY DEF StartOwed
<1>9. Sleepers'
  BY DEF Sleepers
<1>. QED
  BY <1>1, <1>2, <1>3, <1>4, <1>5, <1>6, <1>7, <1>8, <1>9

LEMMA DieKeeps ==
  ASSUME HMInv, NEW h \in HostId, Die(h)
  PROVE  HMInv'
<1>. USE DEF HMInv, Die, run,history,MayFault,Running
<1>1. HMTypeOK'
  BY DEF HMTypeOK
<1>2. Newest'
  BY DEF Newest, Active
<1>3. Serving'
  BY DEF Serving
<1>4. Stopping'
  BY DEF Stopping
<1>5. Holding'
  BY DEF Holding
<1>6. Processes'
  BY DEF Processes
<1>7. Faulting'
  BY DEF Faulting
<1>8. StartOwed'
  BY DEF StartOwed, Active, Pending
<1>9. Sleepers'
  BY DEF Sleepers
<1>. QED
  BY <1>1, <1>2, <1>3, <1>4, <1>5, <1>6, <1>7, <1>8, <1>9

\* Every step keeps the invariant.
LEMMA HMNextKeeps == HMInv /\ [HMNext]_HMvars => HMInv'
<1>. SUFFICES ASSUME HMInv, [HMNext]_HMvars PROVE HMInv'
  OBVIOUS
<1>1. ASSUME NEW t \in HostId, Start(t) PROVE HMInv'
  BY <1>1, SpawnProcessKeeps, StartOkKeeps, StartFailKeeps, RetryKeeps DEF Start
<1>2. ASSUME NEW c \in Callers, Call(c) PROVE HMInv'
  BY <1>2, BeginKeeps, TakeHostKeeps, RefusedStoppedKeeps, SleepKeeps, ReplyKeeps,
     ServedKeeps, RefusedKeeps, FailedKeeps, HangUpKeeps, ExitedKeeps DEF Call
<1>3. ASSUME NEW h \in HostId, Die(h) PROVE HMInv'
  BY <1>3, DieKeeps
<1>4. CASE Stop
  BY <1>4, StopKeeps
<1>5. CASE UNCHANGED HMvars
  BY <1>5 DEF HMvars, run, history, HMInv, HMTypeOK, Newest, Serving, Stopping,
         Holding, Processes, Faulting, StartOwed, Sleepers, Active, Pending, Running
<1>. QED
  BY <1>1, <1>2, <1>3, <1>4, <1>5 DEF HMNext

(* The invariant holds in every behaviour: the facts below rest on it.     *)
THEOREM HMInductive == HMSpec => []HMInv
BY HMInitInv, HMNextKeeps, PTL DEF HMSpec

(* Every variable of the supervisor keeps its type: in particular the      *)
(* failure count never passes MAX_CONSECUTIVE_FAILURES.                    *)
THEOREM HMTypeCorrect == HMSpec => []HMTypeOK
<1>1. HMInv => HMTypeOK
  BY DEF HMInv
<1>. QED
  BY <1>1, HMInductive, PTL

(* A start under way excludes a current host and any other start           *)
(* (starting, restart_locked and the pointer test in exited).              *)
THEOREM StartsExclusive == HMSpec => []OneStart
<1>1. HMInv => OneStart
  <2>. SUFFICES ASSUME HMInv, NEW t \in HostId, Pending(t)
                PROVE  /\ host = NoHost
                       /\ \A u \in HostId : Pending(u) => u = t
                       /\ t # 0 => (starting <=> Active(t))
    BY DEF OneStart
  <2>1. \A u \in HostId : Pending(u) => u = restarts
    BY DEF HMInv, HMTypeOK, Newest, Pending, Active
  <2>2. t = restarts
    BY <2>1
  <2>. QED
    BY <2>1, <2>2 DEF HMInv, Newest, Pending, Active
<1>. QED
  BY <1>1, HMInductive, PTL

(* Two processes of one model run at once only after a caller's own error  *)
(* was taken for the exit of the older one (call, on_event).               *)
THEOREM SecondHost == HMSpec => []SecondHostOnlyAfterHangUp
<1>1. HMInv => SecondHostOnlyAfterHangUp
  <2>. SUFFICES ASSUME HMInv, NEW g \in HostId, NEW h \in HostId,
                       g < h, Running(g), Running(h)
                PROVE  g \in hungUp
    BY DEF SecondHostOnlyAfterHangUp
  <2>1. h <= restarts
    BY DEF HMInv, HMTypeOK, Processes, Running
  <2>. QED
    BY <2>1 DEF HMInv, HMTypeOK, Processes
<1>. QED
  BY <1>1, HMInductive, PTL

(* A caller asleep on the condition variable is owed a wake-up by a start  *)
(* under way or to be retried, or a superseded host's reply cleared the    *)
(* failure count (running, start, exited, restart_locked, call).           *)
THEOREM Woken == HMSpec => []NoLostWakeup
<1>1. HMInv => NoLostWakeup
  <2>. SUFFICES ASSUME HMInv, NEW c \in Callers, caller[c] = "asleep"
                PROVE  /\ host = NoHost /\ ~stopped /\ failures < MaxFailures
                       /\ lateOk \/ \E t \in HostId : Pending(t)
    BY DEF NoLostWakeup
  <2>1. thread[0] = "done"
    BY DEF HMInv, Serving
  <2>2. host = NoHost /\ ~stopped /\ failures < MaxFailures
    BY DEF HMInv, Sleepers
  <2>. QED
    BY <2>1, <2>2 DEF HMInv, HMTypeOK, StartOwed
<1>. QED
  BY <1>1, HMInductive, PTL

(* A supervisor that gave up (Health "Stopped") goes on only when a caller *)
(* reports the reply of a host that is no longer current (call, health).   *)
THEOREM GivesUp == HMSpec => LeftStopped
<1>1. ASSUME HMInv, HMNext, Health = "Stopped", Health' # "Stopped"
      PROVE  /\ Health' = "Restarting"
             /\ \E c \in Callers : caller[c] = "replied" /\ with[c] # host
  <2>1. host = NoHost /\ (failures >= MaxFailures \/ stopped)
    BY <1>1 DEF Health
  <2>2. host' # NoHost \/ ~(failures' >= MaxFailures \/ stopped')
    BY <1>1 DEF Health
  <2>3. \A c \in Callers : caller[c] \in {"replied", "failed"} => with[c] # host
    BY <1>1, <2>1 DEF HMInv, Holding
  <2>4. ASSUME NEW t \in HostId, Start(t) PROVE FALSE
    <3>1. thread[t] = "loading" => t = restarts /\ failures < MaxFailures
      BY <1>1 DEF HMInv, HMTypeOK, Newest, Active
    <3>2. ~StartOk(t)
      BY <1>1, <2>1, <2>2, <3>1 DEF StartOk, HMInv, HMTypeOK
    <3>. QED
      BY <1>1, <2>1, <2>2, <2>4, <3>2
         DEF Start, SpawnProcess, StartFail, Retry, run, HMInv, HMTypeOK
  <2>5. ASSUME NEW c \in Callers, Call(c) PROVE Served(c)
    <3>1. ~Exited(c)
      BY <2>1, <2>2, <2>3 DEF Exited
    <3>. QED
      BY <2>1, <2>2, <2>5, <3>1 DEF Call, Begin, TakeHost, RefusedStopped, Sleep,
         Reply, Refused, Failed, HangUp, run
  <2>6. ASSUME NEW h \in HostId, Die(h) PROVE FALSE
    BY <2>1, <2>2, <2>6 DEF Die, run
  <2>7. ~Stop
    BY <2>1, <2>2 DEF Stop
  <2>8. PICK c \in Callers : Served(c)
    BY <1>1, <2>4, <2>5, <2>6, <2>7 DEF HMNext
  <2>9. caller[c] = "replied" /\ host' = NoHost
    BY <2>1, <2>8 DEF Served
  <2>10. Health' = "Restarting"
    BY <2>2, <2>9 DEF Health
  <2>. QED
    BY <2>3, <2>9, <2>10
<1>2. HMInv /\ [HMNext]_HMvars =>
        [Health = "Stopped" /\ Health' # "Stopped" =>
           /\ Health' = "Restarting"
           /\ \E c \in Callers : caller[c] = "replied" /\ with[c] # host]_HMvars
  BY <1>1
<1>. QED
  BY <1>2, HMInductive, PTL DEF HMSpec, LeftStopped
=============================================================================
