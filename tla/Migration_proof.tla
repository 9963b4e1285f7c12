--------------------------- MODULE Migration_proof ---------------------------
(***************************************************************************)
(* A request that moves between engines is in one place and is continued   *)
(* with what it had, for any requests, engines, weights and bounds.        *)
(*                                                                         *)
(* The place: a request is submitted once, and every other sequence of it  *)
(* continues one that was handed off to its client (Rooted).  Counting     *)
(* the sequences that were not refused and those they continue, one at     *)
(* least is continued by none, and only one unless a hand-off was resumed  *)
(* twice (IInvPlaces).                                                     *)
(*                                                                         *)
(* What is continued: what was exported of a sequence is cut from what it  *)
(* has, every blob naming the one before it by its digest (Sound), and all *)
(* that clients hold was exported by someone (Received).  A chain an       *)
(* engine accepts (Linked) is therefore, followed backwards by the         *)
(* digests, the beginning of one sequence's exports (Traced), and folding  *)
(* it gives back what that sequence had (Rebuilds).                        *)
(***************************************************************************)
EXTENDS Migration, NatFacts

Fields == {"stage", "engine", "request", "from", "chain", "resident", "next",
           "ready", "exported_to", "last"}

Live == {"waiting", "running", "resuming", "finished", "failed"}

Gone == {"refused", "rejected"}

Stages == Live \cup Gone \cup {"handed off"}

Handoffs == {"none", "held", "lost"}

Known(x) ==
  /\ DOMAIN x = Fields
  /\ x.stage \in Stages /\ x.engine \in Engines /\ x.request \in Requests

Typed ==
  /\ DOMAIN seq = Ticket /\ \A t \in Used : Known(seq[t])
  /\ handoff \in [Ticket -> Handoffs]
  /\ resumes \in [Engines -> Seq(Ticket)]

\* Tickets are given out in order.
Allocated == \E n \in 0 .. Tickets : Used = 1 .. n

Handed == \A t \in Ticket : handoff[t] # "none" <=> t \in Used /\ seq[t].stage = "handed off"

Resuming(t) == t \in Used /\ seq[t].stage = "resuming"

Listed ==
  /\ \A e \in Engines : \A i, j \in 1 .. Len(resumes[e]) :
       resumes[e][i] = resumes[e][j] => i = j
  /\ \A e \in Engines : \A i \in 1 .. Len(resumes[e]) :
       Resuming(resumes[e][i]) /\ seq[resumes[e][i]].engine = e

\* A request is submitted once; every other sequence of it continues one that
\* was handed off to its client, and only those can be refused.
Rooted ==
  /\ \A t \in Used : seq[t].from # 0 =>
       /\ seq[t].from \in Used /\ handoff[seq[t].from] = "held"
       /\ seq[seq[t].from].request = seq[t].request
  /\ \A t \in Used : seq[t].from = 0 => seq[t].stage \notin Gone \cup {"resuming"}
  /\ \A t \in Used : \E u \in Used : seq[u].request = seq[t].request /\ seq[u].from = 0
  /\ \A t, u \in Used :
       seq[t].request = seq[u].request /\ seq[t].from = 0 /\ seq[u].from = 0 => t = u

IInv == Typed /\ Allocated /\ Handed /\ Listed /\ Rooted

\* Every sequence of a request that was not refused but the first continues
\* another, so at least one is continued by none, and no more than one unless
\* two continue the same.
LEMMA IInvPlaces == IInv => OnePlace
<1>. SUFFICES ASSUME IInv, NEW r \in Requests, Of(r) # {}
              PROVE  /\ Places(r) = {} => Lost(r) # {}
                     /\ \A t, u \in Places(r) \cup Lost(r) : t # u => ResumedTwice(r)
  BY DEF OnePlace
<1>1. PICK N : N = {t \in Used : seq[t].request = r /\ seq[t].stage \notin Gone}
  OBVIOUS
<1>2. PICK C : C = {t \in N : seq[t].from # 0}
  OBVIOUS
<1>3. PICK f : f = [t \in C |-> seq[t].from]
  OBVIOUS
<1>4. PICK P : P = {f[t] : t \in C}
  OBVIOUS
<1>5. PICK root \in Used : seq[root].request = r /\ seq[root].from = 0
  BY DEF IInv, Rooted, Of
<1>6. root \in N /\ root \notin C /\ N = C \cup {root}
  BY <1>1, <1>2, <1>5 DEF IInv, Rooted
<1>7. IsFiniteSet(Used)
  <2>1. PICK n \in 0 .. Tickets : Used = 1 .. n
    BY DEF IInv, Allocated
  <2>2. n \in Nat
    BY <2>1, MigrationAssumption
  <2>. QED
    BY <2>1, <2>2, FS_Interval
<1>8. IsFiniteSet(N) /\ IsFiniteSet(C)
  BY <1>1, <1>2, <1>7, FS_Subset
<1>9. PICK k \in Nat : k = Cardinality(C) /\ Cardinality(N) = k + 1
  BY <1>6, <1>8, FS_AddElement, FS_CardinalityType
<1>10. P \subseteq N
  <2>1. SUFFICES ASSUME NEW t \in C PROVE f[t] \in N
    BY <1>4
  <2>2. /\ seq[t].from \in Used /\ handoff[seq[t].from] = "held"
        /\ seq[seq[t].from].request = r /\ seq[t].from \in Ticket
    BY <1>1, <1>2 DEF IInv, Rooted, Used
  <2>3. seq[seq[t].from].stage = "handed off"
    BY <2>2 DEF IInv, Handed
  <2>. QED
    BY <1>1, <1>3, <2>2, <2>3 DEF Gone
<1>11. f \in Surjection(C, P)
  BY <1>3, <1>4 DEF Surjection
<1>12. PICK p \in Nat : p = Cardinality(P) /\ p <= k /\ (p = k <=> f \in Injection(C, P))
  BY <1>8, <1>9, <1>11, FS_Surjection, FS_CardinalityType
<1>13. IsFiniteSet(N \ P) /\ Cardinality(N \ P) = k + 1 - p
  <2>1. N \cap P = P
    BY <1>10
  <2>2. IsFiniteSet(N \ P) /\ Cardinality(N \ P) = Cardinality(N) - Cardinality(N \cap P)
    BY <1>8, FS_Difference
  <2>3. Cardinality(N \cap P) = p /\ Cardinality(N) = k + 1
    BY <1>9, <1>12, <2>1
  <2>. QED
    BY <2>2, <2>3
<1>14. Places(r) \cup Lost(r) = N \ P
  <2>1. ASSUME NEW t \in Used, seq[t].request = r
        PROVE  t \in Places(r) \cup Lost(r) <=> t \in N \ P
    <3>1. t \in Ticket /\ t # 0 /\ seq[t].stage \in Stages /\ handoff[t] \in Handoffs
      BY DEF IInv, Typed, Used, Known, Ticket
    <3>2. t \in P <=> \E u \in C : seq[u].from = t
      BY <1>3, <1>4
    <3>3. t \in P <=> \E u \in Used : seq[u].from = t /\ seq[u].stage \notin Gone
      BY <1>1, <1>2, <2>1, <3>1, <3>2 DEF IInv, Rooted
    <3>4. t \in P <=> Continuations(t) # {}
      BY <3>3 DEF Continuations, Gone
    <3>5. t \in P => handoff[t] = "held"
      BY <1>2, <1>1, <3>1, <3>2 DEF IInv, Rooted
    <3>6. handoff[t] # "none" <=> seq[t].stage = "handed off"
      BY <3>1 DEF IInv, Handed
    <3>7. t \in Places(r) \cup Lost(r) <=>
            \/ seq[t].stage \in Live
            \/ handoff[t] = "held" /\ Continuations(t) = {}
            \/ handoff[t] = "lost"
      BY <2>1 DEF Places, Lost, Of, Live
    <3>8. t \in N <=> seq[t].stage \in Live \/ seq[t].stage = "handed off"
      BY <1>1, <2>1, <3>1 DEF Stages, Gone, Live
    <3>9. seq[t].stage = "handed off" => seq[t].stage \notin Live
      BY DEF Live
    <3>. QED
      BY <3>1, <3>4, <3>5, <3>6, <3>7, <3>8, <3>9 DEF Handoffs
  <2>2. \A t \in Places(r) \cup Lost(r) : t \in Used /\ seq[t].request = r
    BY DEF Places, Lost, Of
  <2>3. \A t \in N \ P : t \in Used /\ seq[t].request = r
    BY <1>1
  <2>. QED
    BY <2>1, <2>2, <2>3
<1>15. Places(r) = {} => Lost(r) # {}
  <2>1. N \ P # {}
    BY <1>9, <1>12, <1>13, FS_EmptySet
  <2>. QED
    BY <1>14, <2>1
<1>16. ASSUME NEW t \in Places(r) \cup Lost(r), NEW u \in Places(r) \cup Lost(r), t # u
       PROVE  ResumedTwice(r)
  <2>1. Cardinality(N \ P) # 1
    <3>1. ~ \E x : N \ P = {x}
      BY <1>14, <1>16
    <3>. QED
      BY <1>13, <3>1, FS_Singleton
  <2>2. f \notin Injection(C, P)
    BY <1>9, <1>12, <1>13, <2>1
  <2>3. PICK a, b \in C : f[a] = f[b] /\ a # b
    BY <1>3, <1>4, <2>2 DEF Injection, IsInjective
  <2>4. PICK s : s = seq[a].from /\ s = seq[b].from
    BY <1>3, <2>3
  <2>5. s \in Of(r)
    BY <1>1, <1>2, <2>3, <2>4 DEF IInv, Rooted, Of
  <2>6. a \in Continuations(s) /\ b \in Continuations(s)
    BY <1>1, <1>2, <2>3, <2>4 DEF Continuations, Gone
  <2>. QED
    BY <2>3, <2>5, <2>6 DEF ResumedTwice
<1>. QED
  BY <1>15, <1>16

LEMMA InitIInv == Init => IInv
<1>. SUFFICES ASSUME Init PROVE IInv
  OBVIOUS
<1>1. Used = {}
  BY DEF Init, Used
<1>2. Allocated
  BY <1>1, MigrationAssumption DEF Allocated
<1>3. Typed
  BY <1>1 DEF Typed, Init, Handoffs
<1>4. Handed /\ Rooted
  BY <1>1 DEF Handed, Rooted, Init
<1>5. Listed
  BY <1>1 DEF Listed, Init, Resuming
<1>. QED
  BY <1>2, <1>3, <1>4, <1>5 DEF IInv

-----------------------------------------------------------------------------
(* Steps of the sequences there are.                                       *)

LEMMA KnownUsed == \A x : Known(x) => x # Unused
<1>1. Unused.stage = "unused"
  BY DEF Unused
<1>. QED
  BY <1>1 DEF Known, Stages, Live, Gone

LEMMA UsedKnown == IInv => \A t \in Used : Known(seq[t]) /\ t \in Ticket
BY DEF IInv, Typed, Used

\* No sequence is added: what continues what stays.
LEMMA RootsStay ==
  ASSUME IInv, Used' = Used,
         \A t \in Used : /\ seq'[t].request = seq[t].request /\ seq'[t].from = seq[t].from
                         /\ seq'[t].stage \in Gone \cup {"resuming"} =>
                              seq[t].stage \in Gone \cup {"resuming"}
                         /\ handoff[t] = "held" => handoff'[t] = "held"
  PROVE  Rooted'
BY DEF IInv, Rooted

\* Those to rebuild go on waiting for it.
LEMMA ListsStay ==
  ASSUME IInv, resumes' = resumes,
         \A t \in Used : Resuming(t) => Resuming(t)' /\ seq'[t].engine = seq[t].engine
  PROVE  Listed'
<1>1. ASSUME NEW e \in Engines, NEW i \in 1 .. Len(resumes[e])
      PROVE  Resuming(resumes[e][i])' /\ seq'[resumes[e][i]].engine = e
  <2>1. PICK t : t = resumes[e][i]
    OBVIOUS
  <2>2. t \in Used /\ Resuming(t) /\ seq[t].engine = e
    BY <2>1 DEF IInv, Listed, Resuming
  <2>3. Resuming(t)' /\ seq'[t].engine = e
    BY <2>2
  <2>4. t' = t
    BY <2>1
  <2>. QED
    BY <2>1, <2>3
<1>. QED
  BY <1>1 DEF IInv, Listed

LEMMA UnchangedKeeps ==
  ASSUME IInv, UNCHANGED << seq, resumes, handoff >>
  PROVE  IInv'
<1>1. Used' = Used
  BY DEF Used
<1>2. Typed' /\ Allocated' /\ Handed'
  BY <1>1 DEF IInv, Typed, Allocated, Handed
<1>3. Listed'
  BY <1>1, ListsStay DEF Resuming
<1>4. Rooted'
  BY <1>1, RootsStay
<1>. QED
  BY <1>2, <1>3, <1>4 DEF IInv

\* A sequence that waits for its slot or runs does what it does next.
LEMMA OneGoes ==
  ASSUME IInv, NEW t \in Used, NEW y, Known(y),
         y.request = seq[t].request, y.engine = seq[t].engine, y.from = seq[t].from,
         seq[t].stage \in {"waiting", "running"},
         y.stage \in {"running", "finished", "handed off"},
         seq' = [seq EXCEPT ![t] = y], resumes' = resumes,
         IF y.stage = "handed off"
         THEN \E h \in {"held", "lost"} : handoff' = [handoff EXCEPT ![t] = h]
         ELSE handoff' = handoff
  PROVE  IInv'
<1>1. DOMAIN seq = Ticket /\ t \in Ticket /\ Used \subseteq Ticket
  BY DEF IInv, Typed, Used
<1>2. DOMAIN seq' = Ticket /\ seq'[t] = y /\ \A u \in Ticket \ {t} : seq'[u] = seq[u]
  BY <1>1
<1>3. Used' = Used
  BY <1>1, <1>2, KnownUsed DEF Used
<1>4. /\ handoff[t] = "none" /\ handoff' \in [Ticket -> Handoffs]
      /\ \A u \in Ticket \ {t} : handoff'[u] = handoff[u]
      /\ handoff'[t] # "none" <=> y.stage = "handed off"
  <2>1. handoff[t] = "none" /\ handoff \in [Ticket -> Handoffs]
    BY <1>1 DEF IInv, Typed, Handed
  <2>2. CASE y.stage = "handed off"
    BY <1>1, <2>1, <2>2 DEF Handoffs
  <2>3. CASE y.stage # "handed off"
    BY <1>1, <2>1, <2>3
  <2>. QED
    BY <2>2, <2>3
<1>5. Typed'
  BY <1>1, <1>2, <1>3, <1>4 DEF IInv, Typed
<1>6. Handed'
  BY <1>1, <1>2, <1>3, <1>4 DEF IInv, Handed
<1>7. Listed'
  <2>1. \A u \in Used : Resuming(u) => Resuming(u)' /\ seq'[u].engine = seq[u].engine
    BY <1>1, <1>2, <1>3 DEF Resuming
  <2>. QED
    BY <2>1, ListsStay
<1>8. Rooted'
  <2>1. \A u \in Used : /\ seq'[u].request = seq[u].request /\ seq'[u].from = seq[u].from
                        /\ seq'[u].stage \in Gone \cup {"resuming"} =>
                             seq[u].stage \in Gone \cup {"resuming"}
                        /\ handoff[u] = "held" => handoff'[u] = "held"
    BY <1>1, <1>2, <1>4 DEF Gone
  <2>. QED
    BY <1>3, <2>1, RootsStay
<1>. QED
  BY <1>3, <1>5, <1>6, <1>7, <1>8 DEF IInv, Allocated

LEMMA SteadyKeeps ==
  ASSUME IInv, NEW t \in Ticket, Start(t) \/ Decode(t) \/ Finish(t)
  PROVE  IInv'
<1>1. t \in Used /\ Known(seq[t]) /\ seq[t].stage \in {"waiting", "running"}
  BY UsedKnown DEF Start, Decode, Finish
<1>2. resumes' = resumes /\ handoff' = handoff
  BY DEF Start, Decode, Finish
<1>3. CASE Start(t) \/ Finish(t)
  <2>1. PICK s \in {"running", "finished"} : seq' = [seq EXCEPT ![t] = [seq[t] EXCEPT !.stage = s]]
    BY <1>3 DEF Start, Finish
  <2>2. PICK y : y = [seq[t] EXCEPT !.stage = s]
    OBVIOUS
  <2>3. /\ Known(y) /\ y.stage = s /\ y.request = seq[t].request
        /\ y.engine = seq[t].engine /\ y.from = seq[t].from
    BY <1>1, <2>2 DEF Known, Fields, Stages, Live
  <2>. QED
    BY <1>1, <1>2, <2>1, <2>2, <2>3, OneGoes
<1>4. CASE Decode(t)
  <2>1. PICK ready, res, nxt :
          seq' = [seq EXCEPT ![t] = [seq[t] EXCEPT !.resident = res, !.next = nxt, !.ready = ready]]
    <3>. DEFINE res == IF seq[t].next = 0 THEN [i \in 1 .. Prompt |-> Token(t, i)]
                       ELSE Append(seq[t].resident, Token(t, seq[t].next))
                nxt == IF seq[t].next = 0 THEN Prompt + 1 ELSE seq[t].next + 1
    <3>1. PICK ready \in BOOLEAN :
            seq' = [seq EXCEPT ![t].resident = res, ![t].next = nxt, ![t].ready = ready]
      BY <1>4 DEF Decode
    <3>. QED
      BY <3>1
  <2>2. PICK y : y = [seq[t] EXCEPT !.resident = res, !.next = nxt, !.ready = ready]
    OBVIOUS
  <2>3. /\ Known(y) /\ y.stage = "running" /\ y.request = seq[t].request
        /\ y.engine = seq[t].engine /\ y.from = seq[t].from
    BY <1>1, <1>4, <2>2 DEF Decode, Known, Fields
  <2>. QED
    BY <1>1, <1>2, <2>1, <2>2, <2>3, OneGoes
<1>. QED
  BY <1>3, <1>4

LEMMA ServeDeltaKeeps ==
  ASSUME IInv, NEW e \in Engines, NEW i \in 1 .. Asked, ServeDelta(e, i)
  PROVE  IInv'
<1>1. PICK t, y : t = exports[e][i].ticket /\ y = Exported(t)
  OBVIOUS
<1>2. t \in Used /\ Known(seq[t]) /\ seq[t].stage = "running"
  BY <1>1, UsedKnown DEF ServeDelta, Holder, Running
<1>3. /\ Known(y) /\ y.stage = "running" /\ y.request = seq[t].request
      /\ y.engine = seq[t].engine /\ y.from = seq[t].from
  BY <1>1, <1>2 DEF Exported, Known, Fields
<1>4. seq' = [seq EXCEPT ![t] = y] /\ resumes' = resumes /\ handoff' = handoff
  BY <1>1 DEF ServeDelta
<1>. QED
  BY <1>2, <1>3, <1>4, OneGoes

LEMMA ServeHandoffKeeps ==
  ASSUME IInv, NEW e \in Engines, NEW i \in 1 .. Asked, ServeHandoff(e, i)
  PROVE  IInv'
<1>1. PICK t, y : t = exports[e][i].ticket /\ y = HandedOff(t)
  OBVIOUS
<1>2. t \in Used /\ Known(seq[t]) /\ seq[t].stage = "running"
  BY <1>1, UsedKnown DEF ServeHandoff, Holder, Running
<1>3. /\ Known(y) /\ y.stage = "handed off" /\ y.request = seq[t].request
      /\ y.engine = seq[t].engine /\ y.from = seq[t].from
  BY <1>1, <1>2 DEF HandedOff, Exported, Known, Fields, Stages
<1>4. /\ seq' = [seq EXCEPT ![t] = y] /\ resumes' = resumes
      /\ \E h \in {"held", "lost"} : handoff' = [handoff EXCEPT ![t] = h]
  BY <1>1 DEF ServeHandoff
<1>. QED
  BY <1>2, <1>3, <1>4, OneGoes

-----------------------------------------------------------------------------
(* Sequences that are added, rebuilt and refused.                          *)

LEMMA NewOne ==
  ASSUME IInv, NewTicket \in Ticket
  PROVE  NewTicket \notin Used /\ \E n \in 0 .. Tickets : Used \cup {NewTicket} = 1 .. n
<1>1. PICK n \in 0 .. Tickets : Used = 1 .. n
  BY DEF IInv, Allocated
<1>2. Cardinality(1 .. n) = n
  BY MigrationAssumption, FS_Interval
<1>3. NewTicket = n + 1
  BY <1>1, <1>2 DEF NewTicket
<1>4. n + 1 \in 0 .. Tickets /\ (1 .. n) \cup {n + 1} = 1 .. n + 1
  BY <1>3, MigrationAssumption DEF Ticket
<1>. QED
  BY <1>1, <1>3, <1>4

LEMMA Added ==
  ASSUME IInv, NewTicket \in Ticket, NEW y, Known(y),
         seq' = [seq EXCEPT ![NewTicket] = y]
  PROVE  /\ NewTicket \notin Used /\ handoff[NewTicket] = "none"
         /\ Used' = Used \cup {NewTicket} /\ DOMAIN seq' = Ticket
         /\ seq'[NewTicket] = y /\ \A t \in Used : seq'[t] = seq[t]
         /\ Allocated' /\ \A t \in Used' : Known(seq'[t])
<1>1. /\ NewTicket \notin Used
      /\ \E n \in 0 .. Tickets : Used \cup {NewTicket} = 1 .. n
  BY NewOne
<1>2. DOMAIN seq = Ticket /\ Used \subseteq Ticket
  BY DEF IInv, Typed, Used
<1>3. DOMAIN seq' = Ticket /\ seq'[NewTicket] = y
  BY <1>2
<1>4. \A t \in Ticket : t # NewTicket => seq'[t] = seq[t]
  BY <1>2
<1>5. Used' = Used \cup {NewTicket}
  BY <1>3, <1>4, KnownUsed DEF Used
<1>6. handoff[NewTicket] = "none"
  BY <1>1 DEF IInv, Handed, Typed
<1>7. Allocated'
  BY <1>1, <1>5 DEF Allocated
<1>. QED
  BY <1>1, <1>2, <1>3, <1>4, <1>5, <1>6, <1>7, UsedKnown

LEMMA SubmitKeeps ==
  ASSUME IInv, NEW r \in Requests, NEW e \in Engines, Submit(r, e)
  PROVE  IInv'
<1>0. PICK n, y : n = NewTicket /\ y = Sequence("waiting", e, r)
  OBVIOUS
<1>1. /\ n \in Ticket /\ \A t \in Used : seq[t].request # r
      /\ seq' = [seq EXCEPT ![n] = y]
      /\ resumes' = resumes /\ handoff' = handoff
  BY <1>0 DEF Submit
<1>2. Known(y) /\ y.stage = "waiting" /\ y.request = r /\ y.from = 0
  BY <1>0 DEF Sequence, Known, Fields, Stages, Live
<1>3. /\ n \notin Used /\ handoff[n] = "none"
      /\ Used' = Used \cup {n} /\ DOMAIN seq' = Ticket
      /\ seq'[n] = y /\ \A t \in Used : seq'[t] = seq[t]
      /\ Allocated' /\ \A t \in Used' : Known(seq'[t])
  BY <1>0, <1>1, <1>2, Added
<1>4. Typed'
  BY <1>1, <1>3 DEF IInv, Typed
<1>5. Handed'
  BY <1>1, <1>2, <1>3 DEF IInv, Handed
<1>6. Listed'
  <2>1. \A t \in Used : Resuming(t) => Resuming(t)' /\ seq'[t].engine = seq[t].engine
    BY <1>3 DEF Resuming
  <2>. QED
    BY <1>1, <2>1, ListsStay
<1>7. Rooted'
  <2>1. ASSUME NEW t \in Used
        PROVE  /\ seq'[t].from # 0 =>
                    /\ seq'[t].from \in Used' /\ handoff'[seq'[t].from] = "held"
                    /\ seq'[seq'[t].from].request = seq'[t].request
               /\ seq'[t].from = 0 => seq'[t].stage \notin Gone \cup {"resuming"}
               /\ \E u \in Used' : seq'[u].request = seq'[t].request /\ seq'[u].from = 0
               /\ seq'[t].request # r
    BY <1>1, <1>3 DEF IInv, Rooted
  <2>2. \A t, u \in Used :
          seq'[t].request = seq'[u].request /\ seq'[t].from = 0 /\ seq'[u].from = 0 => t = u
    BY <1>3 DEF IInv, Rooted
  <2>3. seq'[n].request = r /\ seq'[n].from = 0 /\ seq'[n].stage \notin Gone \cup {"resuming"}
    BY <1>2, <1>3 DEF Gone
  <2>. QED
    BY <1>3, <2>1, <2>2, <2>3 DEF Rooted
<1>. QED
  BY <1>3, <1>4, <1>5, <1>6, <1>7 DEF IInv

LEMMA ResumeKeeps ==
  ASSUME IInv, NEW t \in Ticket, NEW e \in Engines, Resume(t, e)
  PROVE  IInv'
<1>0. PICK n : n = NewTicket
  OBVIOUS
<1>1. PICK y :
        /\ n \in Ticket /\ handoff[t] = "held"
        /\ seq' = [seq EXCEPT ![n] = y]
        /\ resumes' = [resumes EXCEPT ![e] = Append(@, n)]
        /\ handoff' = handoff
        /\ \E chain : y = [Sequence("resuming", e, seq[t].request) EXCEPT
             !.from = t, !.chain = chain, !.next = seq[t].next]
  BY <1>0 DEF Resume
<1>2. t \in Used /\ seq[t].stage = "handed off" /\ Known(seq[t]) /\ t # 0
  <2>1. t # 0
    BY DEF Ticket
  <2>2. t \in Used /\ seq[t].stage = "handed off"
    BY <1>1 DEF IInv, Handed
  <2>. QED
    BY <2>1, <2>2, UsedKnown
<1>3. /\ Known(y) /\ y.stage = "resuming" /\ y.request = seq[t].request
      /\ y.engine = e /\ y.from = t
  BY <1>1, <1>2 DEF Sequence, Known, Fields, Stages, Live
<1>4. /\ n \notin Used /\ handoff[n] = "none"
      /\ Used' = Used \cup {n} /\ DOMAIN seq' = Ticket
      /\ seq'[n] = y /\ \A u \in Used : seq'[u] = seq[u]
      /\ Allocated' /\ \A u \in Used' : Known(seq'[u])
  BY <1>0, <1>1, <1>3, Added
<1>6. /\ resumes \in [Engines -> Seq(Ticket)]
      /\ resumes' \in [Engines -> Seq(Ticket)]
      /\ resumes'[e] = Append(resumes[e], n)
      /\ \A d \in Engines \ {e} : resumes'[d] = resumes[d]
  BY <1>1 DEF IInv, Typed
<1>7. Typed'
  BY <1>1, <1>4, <1>6 DEF IInv, Typed
<1>8. Handed'
  BY <1>1, <1>3, <1>4 DEF IInv, Handed
<1>9. \A d \in Engines : \A j \in 1 .. Len(resumes'[d]) :
        \/ j \in 1 .. Len(resumes[d]) /\ resumes'[d][j] = resumes[d][j]
        \/ d = e /\ j = Len(resumes[e]) + 1 /\ resumes'[d][j] = n
  <2>1. \A j \in 1 .. Len(resumes'[e]) :
         \/ j \in 1 .. Len(resumes[e]) /\ resumes'[e][j] = resumes[e][j]
         \/ j = Len(resumes[e]) + 1 /\ resumes'[e][j] = n
    BY <1>1, <1>6
  <2>. QED
    BY <1>6, <2>1
<1>10. Listed'
  <2>1. \A d \in Engines : \A j \in 1 .. Len(resumes[d]) :
          resumes[d][j] \in Used /\ Resuming(resumes[d][j]) /\ seq[resumes[d][j]].engine = d
    BY DEF IInv, Listed, Resuming
  <2>2. \A u \in Used : Resuming(u) => Resuming(u)' /\ seq'[u] = seq[u]
    BY <1>4 DEF Resuming
  <2>3. Resuming(n)' /\ seq'[n].engine = e
    BY <1>3, <1>4 DEF Resuming
  <2>4. ASSUME NEW d \in Engines, NEW j \in 1 .. Len(resumes'[d])
        PROVE  \E u : u = resumes'[d][j] /\ Resuming(u)' /\ seq'[u].engine = d
    <3>1. CASE j \in 1 .. Len(resumes[d]) /\ resumes'[d][j] = resumes[d][j]
      <4>1. PICK u \in Used : u = resumes[d][j] /\ Resuming(u) /\ seq[u].engine = d
        BY <2>1, <3>1
      <4>2. Resuming(u)' /\ seq'[u].engine = d
        BY <2>2, <4>1
      <4>. QED
        BY <3>1, <4>1, <4>2
    <3>2. CASE d = e /\ j = Len(resumes[e]) + 1 /\ resumes'[d][j] = n
      BY <2>3, <3>2
    <3>. QED
      BY <1>9, <3>1, <3>2
  <2>5. ASSUME NEW d \in Engines, NEW j \in 1 .. Len(resumes'[d]), NEW k \in 1 .. Len(resumes'[d]),
               resumes'[d][j] = resumes'[d][k]
        PROVE  j = k
    <3>1. \A a, b \in 1 .. Len(resumes[d]) : resumes[d][a] = resumes[d][b] => a = b
      BY DEF IInv, Listed
    <3>2. \A a \in 1 .. Len(resumes[d]) : resumes[d][a] # n
      BY <1>4, <2>1
    <3>. QED
      BY <1>9, <2>5, <3>1, <3>2
  <2>. QED
    BY <2>4, <2>5 DEF Listed
<1>11. Rooted'
  <2>1. ASSUME NEW u \in Used
        PROVE  /\ seq'[u].from # 0 =>
                    /\ seq'[u].from \in Used' /\ handoff'[seq'[u].from] = "held"
                    /\ seq'[seq'[u].from].request = seq'[u].request
               /\ seq'[u].from = 0 => seq'[u].stage \notin Gone \cup {"resuming"}
               /\ \E v \in Used' : seq'[v].request = seq'[u].request /\ seq'[v].from = 0
    BY <1>1, <1>4 DEF IInv, Rooted
  <2>2. \A u, v \in Used :
          seq'[u].request = seq'[v].request /\ seq'[u].from = 0 /\ seq'[v].from = 0 => u = v
    BY <1>4 DEF IInv, Rooted
  <2>3. seq'[n].from = t /\ seq'[n].request = seq'[t].request
    BY <1>2, <1>3, <1>4
  <2>4. \E v \in Used' : seq'[v].request = seq'[n].request /\ seq'[v].from = 0
    BY <1>2, <2>1, <2>3
  <2>5. /\ seq'[n].from # 0 /\ seq'[n].from \in Used' /\ handoff'[seq'[n].from] = "held"
        /\ seq'[seq'[n].from].request = seq'[n].request
    BY <1>1, <1>2, <1>4, <2>3
  <2>. QED
    BY <1>4, <2>1, <2>2, <2>4, <2>5 DEF Rooted
<1>. QED
  BY <1>4, <1>7, <1>8, <1>10, <1>11 DEF IInv

\* What becomes of the sequence that is rebuilt next.
LEMMA Admitted ==
  ASSUME NEW e, AdmitResume(e), NEW t, t = Head(resumes[e]), Known(seq[t])
  PROVE  \E y : /\ seq' = [seq EXCEPT ![t] = y] /\ Known(y)
                /\ y.request = seq[t].request /\ y.engine = seq[t].engine /\ y.from = seq[t].from
                /\ y.stage \in Gone \cup {"running"}
<1>1. CASE /\ Usable(t)
           /\ seq' = [seq EXCEPT ![t].stage = "running", ![t].ready = TRUE,
                                 ![t].resident = Rebuilt(seq[t].chain, e).resident]
  <2>1. PICK res : res = Rebuilt(seq[t].chain, e).resident
    OBVIOUS
  <2>2. seq' = [seq EXCEPT ![t].stage = "running", ![t].ready = TRUE, ![t].resident = res]
    BY <1>1, <2>1
  <2>3. PICK y : y = [seq[t] EXCEPT !.stage = "running", !.ready = TRUE, !.resident = res]
    OBVIOUS
  <2>4. seq' = [seq EXCEPT ![t] = y]
    BY <2>2, <2>3
  <2>5. /\ Known(y) /\ y.stage = "running" /\ y.request = seq[t].request
        /\ y.engine = seq[t].engine /\ y.from = seq[t].from
    BY <2>3 DEF Known, Fields, Stages, Live
  <2>. QED
    BY <2>4, <2>5
<1>2. CASE \E s \in Gone : seq' = [seq EXCEPT ![t].stage = s]
  <2>1. PICK s \in Gone : seq' = [seq EXCEPT ![t].stage = s]
    BY <1>2
  <2>2. PICK y : y = [seq[t] EXCEPT !.stage = s]
    OBVIOUS
  <2>3. /\ Known(y) /\ y.stage = s /\ y.request = seq[t].request
        /\ y.engine = seq[t].engine /\ y.from = seq[t].from
    BY <2>2 DEF Known, Fields, Stages
  <2>. QED
    BY <2>1, <2>2, <2>3
<1>. QED
  BY <1>1, <1>2 DEF AdmitResume, Gone

LEMMA AdmitResumeKeeps ==
  ASSUME IInv, NEW e \in Engines, AdmitResume(e)
  PROVE  IInv'
<1>1. PICK t : t = Head(resumes[e])
  OBVIOUS
<1>2. /\ resumes \in [Engines -> Seq(Ticket)] /\ resumes[e] # << >>
      /\ resumes' = [resumes EXCEPT ![e] = Tail(@)] /\ handoff' = handoff
  BY DEF AdmitResume, IInv, Typed
<1>3. /\ t \in Ticket /\ 1 \in 1 .. Len(resumes[e]) /\ t = resumes[e][1]
      /\ resumes'[e] \in Seq(Ticket) /\ Len(resumes'[e]) = Len(resumes[e]) - 1
      /\ \A j \in 1 .. Len(resumes'[e]) :
           j + 1 \in 1 .. Len(resumes[e]) /\ resumes'[e][j] = resumes[e][j + 1]
  BY <1>1, <1>2
<1>4. \A d \in Engines \ {e} : resumes'[d] = resumes[d]
  BY <1>2
<1>5. resumes' \in [Engines -> Seq(Ticket)]
  BY <1>2, <1>3, <1>4
<1>6. /\ Resuming(t) /\ t \in Used /\ seq[t].engine = e /\ Known(seq[t])
      /\ seq[t].stage = "resuming" /\ handoff[t] = "none"
  <2>1. Resuming(t) /\ seq[t].engine = e
    BY <1>3 DEF IInv, Listed
  <2>. QED
    BY <1>3, <2>1, UsedKnown DEF IInv, Handed, Resuming
<1>7. PICK y : /\ seq' = [seq EXCEPT ![t] = y] /\ Known(y)
               /\ y.request = seq[t].request /\ y.engine = seq[t].engine /\ y.from = seq[t].from
               /\ y.stage \in Gone \cup {"running"}
  BY <1>1, <1>6, Admitted
<1>8. /\ DOMAIN seq' = Ticket /\ seq'[t] = y /\ Used \subseteq Ticket
      /\ \A u \in Ticket \ {t} : seq'[u] = seq[u]
  BY <1>3, <1>7 DEF IInv, Typed, Used
<1>9. Used' = Used
  BY <1>3, <1>6, <1>7, <1>8, KnownUsed DEF Used
<1>10. Typed'
  BY <1>2, <1>5, <1>7, <1>8, <1>9 DEF IInv, Typed
<1>11. Handed'
  BY <1>2, <1>6, <1>7, <1>8, <1>9 DEF IInv, Handed, Gone
<1>12. \A d \in Engines : \A i, j \in 1 .. Len(resumes[d]) : resumes[d][i] = resumes[d][j] => i = j
  BY DEF IInv, Listed
<1>13. ASSUME NEW d \in Engines, NEW j \in 1 .. Len(resumes'[d])
       PROVE  \E i \in 1 .. Len(resumes[d]) :
                /\ resumes'[d][j] = resumes[d][i] /\ resumes[d][i] # t
                /\ i = IF d = e THEN j + 1 ELSE j
  <2>1. CASE d = e
    <3>1. j + 1 \in 1 .. Len(resumes[e]) /\ resumes'[e][j] = resumes[e][j + 1]
      BY <1>3, <1>13, <2>1
    <3>2. j + 1 # 1
      BY <1>5, <1>13
    <3>3. resumes[e][j + 1] # t
      BY <1>3, <1>12, <3>1, <3>2
    <3>. QED
      BY <2>1, <3>1, <3>3
  <2>2. CASE d # e
    <3>1. resumes'[d] = resumes[d]
      BY <1>4, <2>2
    <3>2. seq[resumes[d][j]].engine = d
      BY <1>13, <3>1 DEF IInv, Listed
    <3>. QED
      BY <1>6, <1>13, <2>2, <3>1, <3>2
  <2>. QED
    BY <2>1, <2>2
<1>14. Listed'
  <2>1. ASSUME NEW d \in Engines, NEW j \in 1 .. Len(resumes'[d]), NEW k \in 1 .. Len(resumes'[d]),
               resumes'[d][j] = resumes'[d][k]
        PROVE  j = k
    <3>1. PICK i \in 1 .. Len(resumes[d]) :
            resumes'[d][j] = resumes[d][i] /\ i = IF d = e THEN j + 1 ELSE j
      BY <1>13
    <3>2. PICK l \in 1 .. Len(resumes[d]) :
            resumes'[d][k] = resumes[d][l] /\ l = IF d = e THEN k + 1 ELSE k
      BY <1>13
    <3>3. i = l
      BY <1>12, <2>1, <3>1, <3>2
    <3>4. j \in Int /\ k \in Int
      BY <1>5, <2>1
    <3>. QED
      BY <3>1, <3>2, <3>3, <3>4
  <2>2. ASSUME NEW d \in Engines, NEW j \in 1 .. Len(resumes'[d])
        PROVE  \E u : u = resumes'[d][j] /\ Resuming(u)' /\ seq'[u].engine = d
    <3>1. PICK i \in 1 .. Len(resumes[d]) : resumes'[d][j] = resumes[d][i] /\ resumes[d][i] # t
      BY <1>13
    <3>2. PICK u : u = resumes[d][i]
      OBVIOUS
    <3>3. Resuming(u) /\ seq[u].engine = d /\ u \in Used /\ u \in Ticket
      BY <3>2 DEF IInv, Listed, Resuming, Used
    <3>4. Resuming(u)' /\ seq'[u].engine = d
      BY <1>8, <1>9, <3>1, <3>2, <3>3 DEF Resuming
    <3>. QED
      BY <3>1, <3>2, <3>4
  <2>. QED
    BY <2>1, <2>2 DEF Listed
<1>15. Rooted'
  <2>1. \A u \in Used : /\ seq'[u].request = seq[u].request /\ seq'[u].from = seq[u].from
                        /\ seq'[u].stage \in Gone \cup {"resuming"} =>
                             seq[u].stage \in Gone \cup {"resuming"}
                        /\ handoff[u] = "held" => handoff'[u] = "held"
    BY <1>2, <1>6, <1>7, <1>8
  <2>. QED
    BY <1>9, <2>1, RootsStay
<1>. QED
  BY <1>9, <1>10, <1>11, <1>14, <1>15 DEF IInv, Allocated

LEMMA StopKeeps ==
  ASSUME IInv, NEW e \in Engines, Stop(e)
  PROVE  IInv'
<1>2. Used \subseteq Ticket /\ \A t \in Used : Known(seq[t])
  BY UsedKnown DEF Used
<1>6. /\ handoff' = handoff /\ DOMAIN seq' = Ticket
      /\ resumes \in [Engines -> Seq(Ticket)] /\ resumes' \in [Engines -> Seq(Ticket)]
      /\ resumes'[e] = << >> /\ \A d \in Engines \ {e} : resumes'[d] = resumes[d]
  BY DEF Stop, IInv, Typed
<1>7. \A t \in Ticket : t \notin Used \/ seq[t].engine # e => seq'[t] = seq[t]
  BY DEF Stop
<1>8. ASSUME NEW t \in Used, seq[t].engine = e
      PROVE  /\ Known(seq'[t]) /\ seq'[t].request = seq[t].request
             /\ seq'[t].engine = e /\ seq'[t].from = seq[t].from
             /\ seq'[t].stage \in Gone \cup {"resuming"} => seq[t].stage \in Gone \cup {"resuming"}
             /\ seq'[t].stage = "handed off" <=> seq[t].stage = "handed off"
  <2>1. PICK s : s = CASE seq[t].stage \in {"waiting", "running"} -> "failed"
                       [] seq[t].stage = "resuming" -> "refused" [] OTHER -> seq[t].stage
    OBVIOUS
  <2>2. seq'[t] = [seq[t] EXCEPT !.stage = s]
    BY <1>2, <1>8, <2>1 DEF Stop
  <2>3. /\ s \in Stages
        /\ s \in Gone \cup {"resuming"} => seq[t].stage \in Gone \cup {"resuming"}
        /\ s = "handed off" <=> seq[t].stage = "handed off"
    BY <1>2, <2>1 DEF Known, Stages, Live, Gone
  <2>. QED
    BY <1>2, <1>8, <2>2, <2>3 DEF Known, Fields
<1>9. Used' = Used
  BY <1>2, <1>6, <1>7, <1>8, KnownUsed DEF Used
<1>10. \A t \in Used :
         /\ Known(seq'[t]) /\ seq'[t].request = seq[t].request
         /\ seq'[t].engine = seq[t].engine /\ seq'[t].from = seq[t].from
         /\ seq'[t].stage \in Gone \cup {"resuming"} => seq[t].stage \in Gone \cup {"resuming"}
         /\ (seq'[t].stage = "handed off") <=> (seq[t].stage = "handed off")
  BY <1>2, <1>7, <1>8
<1>11. Typed'
  BY <1>6, <1>9, <1>10 DEF IInv, Typed
<1>12. Handed'
  BY <1>6, <1>9, <1>10 DEF IInv, Handed
<1>13. Listed'
  <2>0. 1 .. Len(resumes'[e]) = {}
    BY <1>6
  <2>1. \A d \in Engines : \A i, j \in 1 .. Len(resumes'[d]) :
          resumes'[d][i] = resumes'[d][j] => i = j
    BY <1>6, <2>0 DEF IInv, Listed
  <2>2. ASSUME NEW d \in Engines, NEW j \in 1 .. Len(resumes'[d])
        PROVE  \E u : u = resumes'[d][j] /\ Resuming(u)' /\ seq'[u].engine = d
    <3>1. d # e /\ resumes'[d] = resumes[d]
      BY <1>6
    <3>2. PICK u : u = resumes[d][j]
      OBVIOUS
    <3>3. Resuming(u) /\ seq[u].engine = d /\ u \in Used /\ u \in Ticket
      BY <3>1, <3>2 DEF IInv, Listed, Resuming, Used
    <3>4. seq'[u] = seq[u]
      BY <1>7, <3>1, <3>3
    <3>5. Resuming(u)' /\ seq'[u].engine = d
      BY <1>9, <3>3, <3>4 DEF Resuming
    <3>. QED
      BY <3>1, <3>2, <3>5
  <2>. QED
    BY <2>1, <2>2 DEF Listed
<1>14. Rooted'
  BY <1>6, <1>9, <1>10, RootsStay
<1>. QED
  BY <1>9, <1>11, <1>12, <1>13, <1>14 DEF IInv, Allocated

LEMMA StepIInv == IInv /\ [Next]_vars => IInv'
<1>. SUFFICES ASSUME IInv, [Next]_vars PROVE IInv'
  OBVIOUS
<1>1. CASE \E r \in Requests, e \in Engines : Submit(r, e)
  BY <1>1, SubmitKeeps
<1>2. CASE \E t \in Ticket : Start(t) \/ Decode(t) \/ Finish(t)
  BY <1>2, SteadyKeeps
<1>3. CASE \E t \in Ticket, kind \in {"delta", "handoff"} : Ask(t, kind)
  BY <1>3, UnchangedKeeps DEF Ask
<1>4. ASSUME NEW e \in Engines, NEW i \in 1 .. Asked,
             \/ HangUp(e, i) \/ Refuse(e, i)
             \/ ServeDelta(e, i) \/ ServeHandoff(e, i) \/ ServeFails(e, i)
      PROVE  IInv'
  <2>1. CASE HangUp(e, i) \/ Refuse(e, i) \/ ServeFails(e, i)
    BY <2>1, UnchangedKeeps DEF HangUp, Refuse, ServeFails
  <2>2. CASE ServeDelta(e, i)
    BY <2>2, ServeDeltaKeeps
  <2>3. CASE ServeHandoff(e, i)
    BY <2>3, ServeHandoffKeeps
  <2>. QED
    BY <1>4, <2>1, <2>2, <2>3
<1>5. CASE \E t \in Ticket, e \in Engines : Resume(t, e)
  BY <1>5, ResumeKeeps
<1>6. CASE \E e \in Engines : AdmitResume(e) \/ Stop(e)
  BY <1>6, AdmitResumeKeeps, StopKeeps
<1>7. CASE UNCHANGED vars
  BY <1>7, UnchangedKeeps DEF vars
<1>. QED
  BY <1>1, <1>2, <1>3, <1>4, <1>5, <1>6, <1>7 DEF Next

\* Whatever the exports, hand-offs, refusals and shutdowns, a request that was
\* submitted is somewhere unless serve_exports sent its hand-off to nobody, and
\* in two places only when its client resumed one hand-off twice.
THEOREM InOnePlace == Spec => []OnePlace
<1>1. Init => IInv
  BY InitIInv
<1>2. IInv /\ [Next]_vars => IInv'
  BY StepIInv
<1>3. IInv => OnePlace
  BY IInvPlaces
<1>. QED
  BY <1>1, <1>2, <1>3, PTL DEF Spec

-----------------------------------------------------------------------------
(* What a chain rebuilds: the fold of Rebuilt, one blob after another.     *)

Empty == [ok |-> TRUE, next_pos |-> 0, last |-> << >>, resident |-> << >>]

\* The function the fold chooses.
Folded(iter, c, e) ==
  iter = [s \in SUBSET (DOMAIN c) |->
            IF s = {} THEN Empty ELSE Apply(iter[s \ {Max(s)}], c[Max(s)], e)]

\* Sets of indices are finite.
LEMMA InInterval ==
  ASSUME NEW n \in Nat, NEW s \in SUBSET (1 .. n)
  PROVE  IsFiniteSet(s) /\ Cardinality(s) \in Nat
<1>1. PICK I : I = 1 .. n
  OBVIOUS
<1>2. IsFiniteSet(I)
  BY <1>1, FS_Interval
<1>3. IsFiniteSet(s)
  BY <1>1, <1>2, FS_Subset
<1>. QED
  BY <1>3, FS_CardinalityType

\* A set without its greatest element is smaller.
LEMMA MaxSmaller ==
  ASSUME NEW n \in Nat, NEW s \in SUBSET (1 .. n), s # {}
  PROVE  /\ Max(s) \in s
         /\ IsFiniteSet(s) /\ Cardinality(s) \in Nat
         /\ Cardinality(s \ {Max(s)}) = Cardinality(s) - 1
<1>1. s \in SUBSET Nat /\ \A x \in s : x <= n
  OBVIOUS
<1>2. Max(s) \in s
  BY <1>1, MaxNat
<1>. QED
  BY <1>2, InInterval, FS_RemoveElement

\* There is one.
LEMMA FoldExists ==
  ASSUME NEW n \in Nat, NEW c, DOMAIN c = 1 .. n, NEW e
  PROVE  \E iter : Folded(iter, c, e)
<1>. DEFINE S == 1 .. n
            To(g, s) == IF s = {} THEN Empty ELSE Apply(g[s \ {Max(s)}], c[Max(s)], e)
            Up(g, k) == \A s \in SUBSET S : Cardinality(s) <= k => g[s] = To(g, s)
            N == {k \in Nat : \E g : g = [s \in SUBSET S |-> g[s]] /\ Up(g, k)}
<1>1. \A s \in SUBSET S : IsFiniteSet(s) /\ Cardinality(s) \in Nat
  BY InInterval
<1>2. 0 \in N
  <2>1. PICK g : g = [s \in SUBSET S |-> Empty]
    OBVIOUS
  <2>2. \A s \in SUBSET S : Cardinality(s) <= 0 => s = {}
    BY <1>1, FS_EmptySet
  <2>3. Up(g, 0)
    BY <2>1, <2>2
  <2>4. g = [s \in SUBSET S |-> g[s]]
    BY <2>1
  <2>. HIDE DEF Up
  <2>. QED
    BY <2>3, <2>4
<1>3. ASSUME NEW k \in Nat, k \in N PROVE k + 1 \in N
  <2>1. PICK g : g = [s \in SUBSET S |-> g[s]] /\ Up(g, k)
    BY <1>3
  <2>2. PICK h : h = [s \in SUBSET S |-> IF Cardinality(s) <= k THEN g[s] ELSE To(g, s)]
    OBVIOUS
  <2>3. ASSUME NEW s \in SUBSET S, Cardinality(s) <= k + 1 PROVE h[s] = To(h, s)
    <3>1. CASE s = {}
      <4>1. Cardinality(s) <= k
        BY <3>1, FS_EmptySet
      <4>. QED
        BY <2>1, <2>2, <3>1, <4>1
    <3>2. CASE s # {}
      <4>1. PICK t \in SUBSET S : t = s \ {Max(s)}
        OBVIOUS
      <4>2. Cardinality(t) <= k
        <5>1. Cardinality(s) \in Nat /\ Cardinality(t) = Cardinality(s) - 1
          BY <3>2, <4>1, MaxSmaller
        <5>. QED
          BY <2>3, <5>1
      <4>3. h[t] = g[t]
        BY <2>2, <4>1, <4>2
      <4>4. h[s] = To(g, s)
        <5>1. CASE Cardinality(s) <= k
          BY <2>1, <2>2, <5>1
        <5>2. CASE ~(Cardinality(s) <= k)
          BY <2>2, <5>2
        <5>. QED
          BY <5>1, <5>2
      <4>. QED
        BY <3>2, <4>1, <4>3, <4>4
    <3>. QED
      BY <3>1, <3>2
  <2>4. Up(h, k + 1) /\ h = [s \in SUBSET S |-> h[s]]
    BY <2>2, <2>3
  <2>. HIDE DEF Up
  <2>. QED
    BY <2>4
<1>4. Cardinality(S) \in N
  <2>. HIDE DEF N
  <2>1. \A k \in Nat : k \in N
    BY <1>2, <1>3, NatSet
  <2>. QED
    BY <1>1, <2>1
<1>5. PICK g : g = [s \in SUBSET S |-> g[s]] /\ Up(g, Cardinality(S))
  BY <1>4
<1>6. \A s \in SUBSET S : Cardinality(s) <= Cardinality(S)
  <2>1. IsFiniteSet(S)
    BY <1>1
  <2>. QED
    BY <2>1, FS_Subset
<1>7. \A s \in SUBSET S : g[s] = To(g, s)
  BY <1>5, <1>6
<1>8. g = [s \in SUBSET S |-> To(g, s)]
  BY <1>5, <1>7
<1>. QED
  BY <1>8 DEF Folded

\* What has been rebuilt after each blob.
Rebuilds(state, c, e) ==
  /\ state[0] = Empty /\ Rebuilt(c, e) = state[Len(c)]
  /\ \A k \in 1 .. Len(c) : state[k] = Apply(state[k - 1], c[k], e)

\* A chain has states that rebuild it, whether it is empty or not.
LEMMA RebuildsOne ==
  ASSUME NEW B, NEW c \in Seq(B), NEW e
  PROVE  \E state : Rebuilds(state, c, e)
<1>. DEFINE n == Len(c)
<1>1. n \in Nat /\ DOMAIN c = 1 .. n
  OBVIOUS
<1>2. Rebuilt(c, e) = (CHOOSE iter : Folded(iter, c, e))[DOMAIN c]
  BY Zenon DEF Rebuilt, FoldLeft, MapThenFoldSet, Folded, Empty
<1>3. PICK iter : iter = CHOOSE i : Folded(i, c, e)
  OBVIOUS
<1>4. Folded(iter, c, e)
  BY <1>1, <1>3, FoldExists
<1>5. PICK To : To = [s \in SUBSET (DOMAIN c) |->
                   IF s = {} THEN Empty ELSE Apply(iter[s \ {Max(s)}], c[Max(s)], e)]
  OBVIOUS
<1>6. iter = To
  BY <1>4, <1>5 DEF Folded
<1>7. \A s \in SUBSET (1 .. n) :
        iter[s] = IF s = {} THEN Empty ELSE Apply(iter[s \ {Max(s)}], c[Max(s)], e)
  BY <1>1, <1>5, <1>6
<1>8. PICK state : state = [k \in 0 .. n |-> iter[1 .. k]]
  OBVIOUS
<1>9. state[0] = Empty
  <2>1. 1 .. 0 = {} /\ {} \in SUBSET (1 .. n)
    OBVIOUS
  <2>. QED
    BY <1>1, <1>7, <1>8, <2>1
<1>10. ASSUME NEW k \in 1 .. n PROVE state[k] = Apply(state[k - 1], c[k], e)
  <2>1. 1 .. k \in SUBSET (1 .. n) /\ 1 .. k # {} /\ k \in 1 .. k
    <3>1. k \in Nat /\ 1 <= k /\ k <= n
      BY <1>1
    <3>. HIDE DEF n
    <3>. QED
      BY <1>1, <3>1
  <2>2. Max(1 .. k) = k
    <3>1. k \in Nat /\ (1 .. k) \in SUBSET Nat /\ \A x \in 1 .. k : x <= k
      BY <1>1
    <3>2. Max(1 .. k) \in 1 .. k /\ k <= Max(1 .. k)
      BY <2>1, <3>1, MaxNat
    <3>. QED
      BY <3>1, <3>2
  <2>3. (1 .. k) \ {k} = 1 .. (k - 1)
    BY <1>1
  <2>4. iter[1 .. k] = Apply(iter[1 .. (k - 1)], c[k], e)
    BY <1>7, <2>1, <2>2, <2>3
  <2>. QED
    BY <1>1, <1>8, <2>4
<1>11. Rebuilt(c, e) = state[n]
  BY <1>1, <1>2, <1>3, <1>8
<1>. QED
  BY <1>9, <1>10, <1>11 DEF Rebuilds

-----------------------------------------------------------------------------
(* A chain is accepted when each of its blobs follows the one before.      *)

Cells == Requests \X Nat

\* What blobs and tokens are, of some set of blobs.
IsBlobs(B) == \A b \in B : b.base_pos \in Nat /\ b.tokens \in Seq(Cells)

\* Where the first k blobs of a chain end, and the digest of the k-th.
EndOf(c, k) == IF k = 0 THEN 0 ELSE c[k].base_pos + Len(c[k].tokens)
SealOf(c, k) == IF k = 0 THEN << >> ELSE Digest(c[k])

Follows(c, i) == c[i].base_pos = EndOf(c, i - 1) /\ c[i].prev = SealOf(c, i - 1)

\* A blob of an engine's model, when that can be exported and imported at all.
IsOf(blob, e) == blob.model = Weights[e] /\ Copyable(e)

Linked(c, k, e) == \A i \in 1 .. k : IsOf(c[i], e) /\ Follows(c, i)

\* The blobs are slices of the tokens r.
Slices(c, k, r) ==
  \A i \in 1 .. k :
    EndOf(c, i) <= Len(r) /\ c[i].tokens = SubSeq(r, c[i].base_pos + 1, EndOf(c, i))

\* Two slices that meet are one.
LEMMA SlicesJoin ==
  ASSUME NEW T, NEW r \in Seq(T), NEW a \in Nat, NEW b \in Nat, a <= b, b <= Len(r)
  PROVE  SubSeq(r, 1, a) \o SubSeq(r, a + 1, b) = SubSeq(r, 1, b)
<1>. DEFINE p == SubSeq(r, 1, a)
            q == SubSeq(r, a + 1, b)
            w == SubSeq(r, 1, b)
<1>0. \A i \in 1 .. b : i \in 1 .. Len(r)
  OBVIOUS
<1>1. p \in Seq(T) /\ Len(p) = a /\ \A i \in 1 .. a : p[i] = r[i]
  <2>1. \A i \in 1 .. a : i \in 1 .. Len(r)
    OBVIOUS
  <2>. QED
    BY <2>1, SubSeqProperties
<1>2. q \in Seq(T) /\ Len(q) = b - a /\ \A i \in 1 .. b - a : q[i] = r[a + i]
  <2>1. \A i \in a + 1 .. b : i \in 1 .. Len(r)
    OBVIOUS
  <2>. QED
    BY <2>1, SubSeqProperties
<1>3. w \in Seq(T) /\ Len(w) = b /\ \A i \in 1 .. b : w[i] = r[i]
  BY <1>0, SubSeqProperties
<1>. HIDE DEF p, q, w
<1>4. /\ p \o q \in Seq(T) /\ Len(p \o q) = b
      /\ \A i \in 1 .. b : (p \o q)[i] = IF i <= a THEN p[i] ELSE q[i - a]
  <2>1. p \in Seq(T) /\ q \in Seq(T)
    BY <1>1, <1>2
  <2>2. /\ p \o q \in Seq(T) /\ Len(p \o q) = Len(p) + Len(q)
        /\ \A i \in 1 .. Len(p) + Len(q) :
             (p \o q)[i] = IF i <= Len(p) THEN p[i] ELSE q[i - Len(p)]
    BY <2>1, ConcatProperties
  <2>3. Len(p) = a /\ Len(p) + Len(q) = b
    BY <1>1, <1>2
  <2>. QED
    BY <2>2, <2>3, Zenon
<1>5. \A i \in 1 .. b : (p \o q)[i] = w[i]
  <2>. SUFFICES ASSUME NEW i \in 1 .. b PROVE (p \o q)[i] = w[i]
    OBVIOUS
  <2>1. CASE i <= a
    BY <1>1, <1>3, <1>4, <2>1
  <2>2. CASE ~(i <= a)
    <3>1. i - a \in 1 .. b - a /\ a + (i - a) = i
      BY <2>2
    <3>. QED
      BY <1>2, <1>3, <1>4, <2>2, <3>1
  <2>. QED
    BY <2>1, <2>2
<1>6. PICK z : z = p \o q
  OBVIOUS
<1>7. z \in Seq(T) /\ w \in Seq(T) /\ Len(z) = Len(w) /\ \A i \in 1 .. Len(z) : z[i] = w[i]
  BY <1>3, <1>4, <1>5, <1>6
<1>8. z = w
  BY <1>7, SameSeq
<1>. QED
  BY <1>6, <1>8 DEF p, q, w

\* After k blobs: an import that is still ok has been through a linked chain
\* and stands where it ends, and one that is not has not.
Stands(state, c, k, e) ==
  /\ DOMAIN state[k] = {"ok", "next_pos", "last", "resident"}
  /\ state[k].ok \in BOOLEAN
  /\ state[k].ok <=> Linked(c, k, e)
  /\ state[k].ok => /\ state[k].next_pos = EndOf(c, k) /\ state[k].last = SealOf(c, k)
                    /\ state[k].resident \in Seq(Cells)
                    /\ Len(state[k].resident) = EndOf(c, k)

\* Before the first blob nothing is rebuilt, and nothing is wrong.
LEMMA StandsFirst ==
  ASSUME NEW c, NEW e, NEW state, state[0] = Empty
  PROVE  Stands(state, c, 0, e)
<1>1. Linked(c, 0, e)
  BY DEF Linked
<1>2. << >> \in Seq(Cells) /\ Len(<< >>) = 0
  OBVIOUS
<1>. QED
  BY <1>1, <1>2 DEF Stands, Empty, EndOf, SealOf

\* A blob that follows is appended; one that does not is the end of it.
LEMMA StandsNext ==
  ASSUME NEW B, IsBlobs(B), NEW c \in Seq(B), NEW e, NEW state, NEW k \in 1 .. Len(c),
         Stands(state, c, k - 1, e), state[k] = Apply(state[k - 1], c[k], e)
  PROVE  Stands(state, c, k, e)
<1>1. PICK x : x = state[k - 1]
  OBVIOUS
<1>2. PICK b \in B : b = c[k]
  OBVIOUS
<1>3. b.base_pos \in Nat /\ b.tokens \in Seq(Cells) /\ Len(b.tokens) \in Nat
  BY DEF IsBlobs
<1>4. /\ DOMAIN x = {"ok", "next_pos", "last", "resident"} /\ x.ok \in BOOLEAN
      /\ x.ok <=> Linked(c, k - 1, e)
      /\ x.ok => /\ x.next_pos = EndOf(c, k - 1) /\ x.last = SealOf(c, k - 1)
                 /\ x.resident \in Seq(Cells) /\ Len(x.resident) = EndOf(c, k - 1)
  BY <1>1 DEF Stands
<1>5. Linked(c, k, e) <=> Linked(c, k - 1, e) /\ IsOf(b, e) /\ Follows(c, k)
  <2>1. k \in Nat /\ \A i : i \in 1 .. k <=> i \in 1 .. k - 1 \/ i = k
    OBVIOUS
  <2>. QED
    BY <1>2, <2>1 DEF Linked
<1>6. Accepts(x, b, e) <=> Linked(c, k, e)
  BY <1>2, <1>4, <1>5 DEF Accepts, Follows, IsOf
<1>7. state[k] = IF Accepts(x, b, e)
                 THEN [ok |-> TRUE, next_pos |-> b.base_pos + Len(b.tokens),
                       last |-> Digest(b), resident |-> x.resident \o b.tokens]
                 ELSE [x EXCEPT !.ok = FALSE]
  BY <1>1, <1>2 DEF Apply
<1>8. k # 0 /\ EndOf(c, k) = b.base_pos + Len(b.tokens) /\ SealOf(c, k) = Digest(b)
  BY <1>2 DEF EndOf, SealOf
<1>9. CASE Accepts(x, b, e)
  <2>1. x.ok /\ b.base_pos = EndOf(c, k - 1)
    BY <1>2, <1>5, <1>6, <1>9 DEF Accepts, Follows
  <2>2. x.resident \in Seq(Cells) /\ Len(x.resident) = b.base_pos
    BY <1>4, <2>1
  <2>3. PICK y : y = x.resident \o b.tokens
    OBVIOUS
  <2>4. y \in Seq(Cells) /\ Len(y) = b.base_pos + Len(b.tokens)
    <3>1. PICK u \in Seq(Cells) : u = x.resident
      BY <2>2
    <3>2. PICK v \in Seq(Cells) : v = b.tokens
      BY <1>3
    <3>3. y \in Seq(Cells) /\ Len(y) = Len(u) + Len(v)
      BY <2>3, <3>1, <3>2, ConcatProperties
    <3>. QED
      BY <2>2, <3>1, <3>2, <3>3
  <2>5. state[k] = [ok |-> TRUE, next_pos |-> b.base_pos + Len(b.tokens),
                    last |-> Digest(b), resident |-> y]
    BY <1>7, <1>9, <2>3
  <2>. QED
    BY <1>6, <1>8, <1>9, <2>4, <2>5 DEF Stands
<1>10. CASE ~Accepts(x, b, e)
  <2>1. state[k] = [x EXCEPT !.ok = FALSE]
    BY <1>7, <1>10
  <2>. QED
    BY <1>4, <1>6, <1>10, <2>1 DEF Stands
<1>. QED
  BY <1>9, <1>10

\* So it is after every blob of a chain.
LEMMA AllStand ==
  ASSUME NEW B, IsBlobs(B), NEW c \in Seq(B), NEW e, NEW state, Rebuilds(state, c, e)
  PROVE  \A k \in 0 .. Len(c) : Stands(state, c, k, e)
<1>. DEFINE Q == {k \in Nat : k <= Len(c) => Stands(state, c, k, e)}
<1>1. 0 \in Q
  BY StandsFirst DEF Rebuilds
<1>2. ASSUME NEW k \in Nat, k \in Q PROVE k + 1 \in Q
  <2>. SUFFICES ASSUME k + 1 <= Len(c) PROVE Stands(state, c, k + 1, e)
    OBVIOUS
  <2>1. PICK j \in 1 .. Len(c) : j = k + 1 /\ j - 1 = k
    OBVIOUS
  <2>2. Stands(state, c, j - 1, e)
    BY <1>2, <2>1
  <2>3. state[j] = Apply(state[j - 1], c[j], e)
    BY DEF Rebuilds
  <2>. QED
    BY <2>1, <2>2, <2>3, StandsNext
<1>. HIDE DEF Q
<1>3. \A k \in Nat : k \in Q
  BY <1>1, <1>2, NatSet
<1>. QED
  BY <1>3 DEF Q

\* A chain is rebuilt when it is linked, to where it ends.
LEMMA RebuiltLinked ==
  ASSUME NEW B, IsBlobs(B), NEW c \in Seq(B), NEW e
  PROVE  /\ Rebuilt(c, e).ok <=> Linked(c, Len(c), e)
         /\ Rebuilt(c, e).ok => /\ Rebuilt(c, e).resident \in Seq(Cells)
                                /\ Len(Rebuilt(c, e).resident) = EndOf(c, Len(c))
<1>1. PICK state : Rebuilds(state, c, e)
  BY RebuildsOne
<1>2. Len(c) \in 0 .. Len(c)
  OBVIOUS
<1>3. Stands(state, c, Len(c), e) /\ Rebuilt(c, e) = state[Len(c)]
  BY <1>1, <1>2, AllStand DEF Rebuilds
<1>. QED
  BY <1>3 DEF Stands

\* If its blobs are slices of r, it is rebuilt to the beginning of r.
LEMMA RebuiltSlices ==
  ASSUME NEW B, IsBlobs(B), NEW c \in Seq(B), NEW e, Rebuilt(c, e).ok,
         NEW r \in Seq(Cells), Slices(c, Len(c), r)
  PROVE  Rebuilt(c, e).resident = SubSeq(r, 1, EndOf(c, Len(c)))
<1>1. PICK state : Rebuilds(state, c, e)
  BY RebuildsOne
<1>2. Linked(c, Len(c), e)
  BY RebuiltLinked
<1>. DEFINE Q == {k \in Nat : k <= Len(c) =>
                    state[k].resident = SubSeq(r, 1, EndOf(c, k)) /\ EndOf(c, k) \in Nat}
<1>3. 0 \in Q
  <2>1. SubSeq(r, 1, 0) = << >>
    OBVIOUS
  <2>2. state[0].resident = << >>
    BY <1>1 DEF Rebuilds, Empty
  <2>3. EndOf(c, 0) = 0
    BY DEF EndOf
  <2>4. state[0].resident = SubSeq(r, 1, EndOf(c, 0)) /\ EndOf(c, 0) \in Nat
    BY <2>1, <2>2, <2>3
  <2>. QED
    BY <2>4
<1>4. ASSUME NEW k \in Nat, k \in Q PROVE k + 1 \in Q
  <2>. SUFFICES ASSUME k + 1 <= Len(c)
                PROVE  /\ state[k + 1].resident = SubSeq(r, 1, EndOf(c, k + 1))
                       /\ EndOf(c, k + 1) \in Nat
    OBVIOUS
  <2>1. PICK j \in 1 .. Len(c) : j = k + 1 /\ j - 1 = k /\ j # 0
    OBVIOUS
  <2>2. state[j - 1].resident = SubSeq(r, 1, EndOf(c, j - 1)) /\ EndOf(c, j - 1) \in Nat
    BY <1>4, <2>1
  <2>3. PICK b \in B : b = c[j]
    OBVIOUS
  <2>4. IsOf(b, e) /\ b.base_pos = EndOf(c, j - 1)
    BY <1>2, <2>3 DEF Linked, Follows
  <2>5. b.base_pos \in Nat /\ Len(b.tokens) \in Nat
    BY DEF IsBlobs
  <2>6. EndOf(c, j) = b.base_pos + Len(b.tokens)
    BY <2>1, <2>3 DEF EndOf
  <2>7. EndOf(c, j) <= Len(r) /\ b.tokens = SubSeq(r, b.base_pos + 1, EndOf(c, j))
    BY <2>3 DEF Slices
  <2>8. state[j].ok
    <3>1. \A i \in 1 .. j : i \in 1 .. Len(c)
      OBVIOUS
    <3>2. Linked(c, j, e)
      BY <1>2, <3>1 DEF Linked
    <3>3. Stands(state, c, j, e)
      BY <1>1, AllStand
    <3>. QED
      BY <3>2, <3>3 DEF Stands
  <2>9. state[j].resident = state[j - 1].resident \o b.tokens
    <3>1. PICK x : x = state[j - 1]
      OBVIOUS
    <3>2. DOMAIN x = {"ok", "next_pos", "last", "resident"}
      <4>1. j - 1 \in 0 .. Len(c)
        OBVIOUS
      <4>. QED
        BY <1>1, <3>1, <4>1, AllStand DEF Stands
    <3>3. state[j] = Apply(x, b, e)
      BY <1>1, <2>3, <3>1 DEF Rebuilds
    <3>4. CASE Accepts(x, b, e)
      <4>1. PICK w : w = x.resident \o b.tokens
        OBVIOUS
      <4>2. state[j] = [ok |-> TRUE, next_pos |-> b.base_pos + Len(b.tokens),
                        last |-> Digest(b), resident |-> w]
        BY <3>3, <3>4, <4>1 DEF Apply
      <4>3. state[j].resident = w
        BY <4>2
      <4>4. w = state[j - 1].resident \o b.tokens
        BY <3>1, <4>1, Zenon
      <4>. QED
        BY <4>3, <4>4, Zenon
    <3>5. CASE ~Accepts(x, b, e)
      <4>1. state[j] = [x EXCEPT !.ok = FALSE]
        BY <3>3, <3>5 DEF Apply
      <4>. QED
        BY <2>8, <3>2, <4>1
    <3>. QED
      BY <3>4, <3>5
  <2>10. state[j].resident = SubSeq(r, 1, EndOf(c, j))
    <3>1. PICK m \in Nat : m = EndOf(c, j)
      BY <2>5, <2>6
    <3>2. b.base_pos <= m /\ m <= Len(r)
      <4>1. PICK v \in Nat : v = Len(b.tokens)
        BY <2>5
      <4>2. m = b.base_pos + v
        BY <2>6, <3>1, <4>1
      <4>. QED
        BY <2>5, <2>7, <3>1, <4>2
    <3>3. state[j].resident = SubSeq(r, 1, b.base_pos) \o SubSeq(r, b.base_pos + 1, m)
      BY <2>2, <2>4, <2>7, <2>9, <3>1
    <3>. QED
      BY <2>5, <3>1, <3>2, <3>3, SlicesJoin
  <2>. QED
    BY <2>1, <2>5, <2>6, <2>10
<1>. HIDE DEF Q
<1>5. Len(c) \in Q
  BY <1>3, <1>4, NatSet
<1>. QED
  BY <1>1, <1>5 DEF Q, Rebuilds

-----------------------------------------------------------------------------
(* A linked chain of exported blobs is the beginning of one sequence's.    *)

\* A prefix, place by place.
LEMMA PrefixIs ==
  ASSUME NEW B, NEW s \in Seq(B), NEW t \in Seq(B)
  PROVE  IsPrefix(s, t) <=> Len(s) <= Len(t) /\ \A i \in 1 .. Len(s) : s[i] = t[i]
<1>1. PICK n \in Nat : n = Len(s)
  OBVIOUS
<1>2. SUFFICES ASSUME n <= Len(t)
               PROVE  SubSeq(s, 1, n) = SubSeq(t, 1, n) <=> \A i \in 1 .. n : s[i] = t[i]
  BY <1>1 DEF IsPrefix
<1>3. PICK p : p = SubSeq(s, 1, n)
  OBVIOUS
<1>4. PICK q : q = SubSeq(t, 1, n)
  OBVIOUS
<1>5. p \in Seq(B) /\ Len(p) = n /\ \A i \in 1 .. n : p[i] = s[i]
  <2>1. \A i \in 1 .. n : i \in 1 .. Len(s)
    BY <1>1
  <2>. QED
    BY <1>3, <2>1, SubSeqProperties
<1>6. q \in Seq(B) /\ Len(q) = n /\ \A i \in 1 .. n : q[i] = t[i]
  <2>1. \A i \in 1 .. n : i \in 1 .. Len(t)
    BY <1>2
  <2>. QED
    BY <1>4, <2>1, SubSeqProperties
<1>7. p = q <=> \A i \in 1 .. n : p[i] = q[i]
  BY <1>5, <1>6, SameSeq
<1>. QED
  BY <1>3, <1>4, <1>5, <1>6, <1>7

\* From the last blob backwards: a digest is of one blob only.
LEMMA Traced ==
  ASSUME NEW B, NEW w \in Seq(B), \A i \in 1 .. Len(w) : Follows(w, i),
         NEW c \in Seq(B), c # << >>, \A i \in 1 .. Len(c) : Follows(c, i),
         NEW j \in 1 .. Len(w), c[Len(c)] = w[j]
  PROVE  Len(c) <= Len(w) /\ \A i \in 1 .. Len(c) : c[i] = w[i]
<1>1. \A i \in 1 .. Len(w) : Follows(w, i)
  OBVIOUS
<1>2. PICK n \in Nat : n = Len(c) /\ n >= 1
  OBVIOUS
<1>3. j \in 1 .. Len(w) /\ c[n] = w[j]
  BY <1>1, <1>2
<1>. DEFINE Q == {k \in Nat : k < n => k < j /\ c[n - k] = w[j - k]}
<1>4. 0 \in Q
  BY <1>2, <1>3
<1>5. ASSUME NEW k \in Nat, k \in Q PROVE k + 1 \in Q
  <2>. SUFFICES ASSUME k + 1 < n PROVE k + 1 < j /\ c[n - (k + 1)] = w[j - (k + 1)]
    OBVIOUS
  <2>1. k < j /\ c[n - k] = w[j - k]
    BY <1>5
  <2>2. PICK a \in 1 .. n : a = n - k /\ a # 1 /\ a - 1 # 0 /\ a - 1 = n - (k + 1)
    <3>1. n - k \in 1 .. n /\ n - k # 1 /\ (n - k) - 1 # 0 /\ (n - k) - 1 = n - (k + 1)
      BY <1>2
    <3>. QED
      BY <3>1
  <2>3. PICK b \in 1 .. Len(w) : b = j - k /\ b - 1 = j - (k + 1)
    BY <1>3, <2>1
  <2>4. c[a] = w[b]
    BY <2>1, <2>2, <2>3
  <2>5. c[a].prev = << c[a - 1] >>
    BY <1>2, <2>2 DEF Follows, SealOf, Digest
  <2>6. w[b].prev = IF b - 1 = 0 THEN << >> ELSE << w[b - 1] >>
    BY <1>1 DEF Follows, SealOf, Digest
  <2>7. << c[a - 1] >> # << >>
    OBVIOUS
  <2>8. b - 1 # 0 /\ << c[a - 1] >> = << w[b - 1] >>
    BY <2>4, <2>5, <2>6, <2>7
  <2>9. c[a - 1] = w[b - 1]
    BY <2>8
  <2>. QED
    BY <2>2, <2>3, <2>8, <2>9
<1>. HIDE DEF Q
<1>6. \A k \in Nat : k \in Q
  BY <1>4, <1>5, NatSet
<1>7. \A k \in 0 .. n - 1 : k < j /\ c[n - k] = w[j - k]
  BY <1>6 DEF Q
<1>8. j = n
  <2>1. n - 1 \in 0 .. n - 1 /\ n - (n - 1) = 1
    BY <1>2
  <2>2. n - 1 < j /\ c[1] = w[j - (n - 1)]
    BY <1>7, <2>1
  <2>3. PICK b \in 1 .. Len(w) : b = j - (n - 1)
    BY <1>2, <1>3, <2>2
  <2>4. c[1].prev = << >>
    <3>1. 1 \in 1 .. Len(c) /\ 1 - 1 = 0
      BY <1>2
    <3>. QED
      BY <3>1 DEF Follows, SealOf
  <2>5. w[b].prev = IF b - 1 = 0 THEN << >> ELSE << w[b - 1] >>
    BY <1>1 DEF Follows, SealOf, Digest
  <2>6. << w[b - 1] >> # << >>
    OBVIOUS
  <2>7. b - 1 = 0
    BY <2>2, <2>3, <2>4, <2>5, <2>6
  <2>. QED
    BY <1>2, <1>3, <2>3, <2>7
<1>9. ASSUME NEW i \in 1 .. n PROVE c[i] = w[i]
  <2>1. n - i \in 0 .. n - 1 /\ n - (n - i) = i
    BY <1>2
  <2>2. c[n - (n - i)] = w[j - (n - i)]
    BY <1>7, <2>1
  <2>. QED
    BY <1>8, <2>1, <2>2
<1>. QED
  BY <1>1, <1>2, <1>3, <1>8, <1>9

\* What is read of a sequence stays what it is when it grows.
LEMMA SliceGrows ==
  ASSUME NEW T, NEW r \in Seq(T), NEW a \in T, NEW i \in Nat, NEW j \in Nat, j <= Len(r)
  PROVE  SubSeq(Append(r, a), i + 1, j) = SubSeq(r, i + 1, j)
<1>0. PICK s : s = Append(r, a)
  OBVIOUS
<1>1. s \in Seq(T) /\ Len(s) = Len(r) + 1 /\ \A k \in 1 .. Len(r) : s[k] = r[k]
  BY <1>0, AppendProperties
<1>2. PICK p : p = SubSeq(s, i + 1, j)
  OBVIOUS
<1>3. PICK q : q = SubSeq(r, i + 1, j)
  OBVIOUS
<1>4. \A k \in i + 1 .. j : k \in 1 .. Len(r) /\ k \in 1 .. Len(s)
  BY <1>1
<1>5. CASE i >= j
  <2>1. p = << >> /\ q = << >>
    BY <1>2, <1>3, <1>5
  <2>. QED
    BY <1>0, <1>2, <1>3, <2>1
<1>6. CASE i < j
  <2>1. p \in Seq(T) /\ Len(p) = j - i /\ \A k \in 1 .. j - i : p[k] = s[i + k]
    BY <1>1, <1>2, <1>4, <1>6, SubSeqProperties
  <2>2. q \in Seq(T) /\ Len(q) = j - i /\ \A k \in 1 .. j - i : q[k] = r[i + k]
    BY <1>3, <1>4, <1>6, SubSeqProperties
  <2>3. \A k \in 1 .. j - i : i + k \in 1 .. Len(r)
    BY <1>4, <1>6
  <2>4. \A k \in 1 .. Len(p) : p[k] = q[k]
    BY <1>1, <2>1, <2>2, <2>3
  <2>5. p = q
    BY <2>1, <2>2, <2>4, SameSeq
  <2>. QED
    BY <1>0, <1>2, <1>3, <2>5
<1>. QED
  BY <1>5, <1>6

-----------------------------------------------------------------------------
(* What has been exported of a sequence, and what its clients have of it.  *)

\* Where a sequence stands with what was exported of it: m are the blobs.
Sound(x, m) ==
  /\ x.resident \in Seq(Cells) /\ x.next \in Nat
  /\ \A i \in 1 .. Len(m) : IsOf(m[i], x.engine) /\ Follows(m, i)
  /\ Slices(m, Len(m), x.resident)
  /\ x.exported_to = EndOf(m, Len(m)) /\ x.last = SealOf(m, Len(m))
  /\ x.exported_to <= Len(x.resident)
  /\ x.next = 0 => x.resident = << >> /\ m = << >> /\ ~x.ready
  /\ x.stage = "resuming" => m = << >> /\ x.next # 0
  /\ x.stage = "handed off" => x.next # 0 /\ x.exported_to = Len(x.resident)

\* A blob some sequence has exported.
OfSome(b, m) == \E u \in Ticket : \E j \in 1 .. Len(m[u]) : b = m[u][j]

Kinds(B) ==
  /\ IsBlobs(B)
  /\ made \in [Ticket -> Seq(B)] /\ kept \in [Ticket -> Seq(B)]
  /\ \A t \in Used : seq[t].chain \in Seq(B)

Exports == \A t \in Used : Sound(seq[t], made[t])

Received ==
  /\ \A t \in Ticket : \A i \in 1 .. Len(kept[t]) : OfSome(kept[t][i], made)
  /\ \A t \in Used : \A i \in 1 .. Len(seq[t].chain) : OfSome(seq[t].chain[i], made)

Continues == \A t \in Used : seq[t].stage = "resuming" => seq[t].next = seq[seq[t].from].next

Untouched == \A t \in Ticket : t \notin Used => made[t] = << >>

EInv == (\E B : Kinds(B)) /\ Exports /\ Received /\ Continues /\ Untouched

\* A sequence to rebuild came from one that was handed off.
LEMMA FromHanded ==
  IInv => \A t \in Used : seq[t].stage = "resuming" =>
            seq[t].from \in Used /\ seq[seq[t].from].stage = "handed off"
<1>. SUFFICES ASSUME IInv, NEW t \in Used, seq[t].stage = "resuming"
              PROVE  seq[t].from \in Used /\ seq[seq[t].from].stage = "handed off"
  OBVIOUS
<1>1. t \in Ticket /\ Resuming(t)
  BY DEF Used, Resuming
<1>2. seq[t].from \in Used /\ handoff[seq[t].from] = "held"
  BY <1>1 DEF IInv, Rooted
<1>3. seq[t].from \in Ticket /\ handoff[seq[t].from] # "none"
  BY <1>2 DEF Used
<1>. QED
  BY <1>2, <1>3 DEF IInv, Handed

\* Nothing is exported; the sequences may go on.
LEMMA NothingExported ==
  ASSUME IInv, EInv, made' = made, kept' = kept, Used' = Used,
         \A t \in Used :
           /\ Sound(seq'[t], made[t]) /\ seq'[t].chain = seq[t].chain
           /\ seq'[t].stage = "resuming" =>
                /\ seq[t].stage = "resuming"
                /\ seq'[t].next = seq[t].next /\ seq'[t].from = seq[t].from
           /\ seq[t].stage = "handed off" => seq'[t].next = seq[t].next
  PROVE  EInv'
<1>1. \E B : Kinds(B)'
  <2>1. PICK B : Kinds(B)
    BY DEF EInv
  <2>2. Kinds(B)'
    BY <2>1 DEF Kinds
  <2>. QED
    BY <2>2
<1>2. Exports'
  BY DEF Exports
<1>3. Received'
  BY DEF EInv, Received
<1>4. Continues'
  <2>. SUFFICES ASSUME NEW t \in Used, seq'[t].stage = "resuming"
                PROVE  seq'[t].next = seq'[seq'[t].from].next
    BY DEF Continues
  <2>1. /\ seq[t].stage = "resuming"
        /\ seq'[t].next = seq[t].next /\ seq'[t].from = seq[t].from
    OBVIOUS
  <2>2. seq[t].from \in Used /\ seq[seq[t].from].stage = "handed off"
    BY <2>1, FromHanded
  <2>3. seq'[seq[t].from].next = seq[seq[t].from].next
    BY <2>2
  <2>4. seq[t].next = seq[seq[t].from].next
    BY <2>1 DEF EInv, Continues
  <2>. QED
    BY <2>1, <2>3, <2>4
<1>5. Untouched'
  BY DEF EInv, Untouched
<1>. QED
  BY <1>1, <1>2, <1>3, <1>4, <1>5 DEF EInv

\* A step that leaves sequences and blobs alone.
LEMMA EUnchanged ==
  ASSUME IInv, EInv, UNCHANGED << seq, made, kept >>
  PROVE  EInv'
<1>1. Used' = Used
  BY DEF Used
<1>2. \A t \in Used : Sound(seq'[t], made[t])
  BY DEF EInv, Exports
<1>. QED
  BY <1>1, <1>2, NothingExported

\* A sequence that only its stage is changed of.
LEMMA SoundStage ==
  ASSUME NEW x, NEW m, Sound(x, m), NEW y,
         y.resident = x.resident, y.next = x.next, y.engine = x.engine, y.ready = x.ready,
         y.exported_to = x.exported_to, y.last = x.last,
         y.stage \in {"resuming", "handed off"} => y.stage = x.stage
  PROVE  Sound(y, m)
BY DEF Sound

\* A step of one sequence that exports nothing.
LEMMA OneGoesOn ==
  ASSUME IInv, EInv, made' = made, kept' = kept,
         NEW t \in Used, NEW y, seq' = [seq EXCEPT ![t] = y],
         y.stage \notin {"unused", "resuming"}, seq[t].stage # "handed off",
         Sound(y, made[t]), y.chain = seq[t].chain
  PROVE  EInv'
<1>1. DOMAIN seq = Ticket /\ t \in Ticket
  BY DEF IInv, Typed, Used
<1>2. seq'[t] = y /\ \A u \in Ticket \ {t} : seq'[u] = seq[u]
  BY <1>1
<1>3. Unused.stage = "unused"
  BY DEF Unused
<1>4. Used' = Used
  BY <1>1, <1>2, <1>3 DEF Used
<1>5. ASSUME NEW u \in Used
      PROVE  /\ Sound(seq'[u], made[u]) /\ seq'[u].chain = seq[u].chain
             /\ seq'[u].stage = "resuming" =>
                  /\ seq[u].stage = "resuming"
                  /\ seq'[u].next = seq[u].next /\ seq'[u].from = seq[u].from
             /\ seq[u].stage = "handed off" => seq'[u].next = seq[u].next
  <2>1. CASE u = t
    BY <1>2, <2>1
  <2>2. CASE u # t
    <3>1. seq'[u] = seq[u]
      BY <1>2, <2>2 DEF Used
    <3>. QED
      BY <3>1 DEF EInv, Exports
  <2>. QED
    BY <2>1, <2>2
<1>. QED
  BY <1>4, <1>5, NothingExported

\* Chains end at a position.
LEMMA EndNat ==
  ASSUME NEW B, IsBlobs(B), NEW c \in Seq(B), NEW k \in 0 .. Len(c)
  PROVE  EndOf(c, k) \in Nat
<1>1. CASE k = 0
  BY <1>1 DEF EndOf
<1>2. CASE k # 0
  <2>1. PICK b \in B : b = c[k]
    BY <1>2
  <2>2. b.base_pos \in Nat /\ Len(b.tokens) \in Nat
    BY DEF IsBlobs
  <2>3. EndOf(c, k) = b.base_pos + Len(b.tokens)
    BY <1>2, <2>1 DEF EndOf
  <2>. QED
    BY <2>2, <2>3
<1>. QED
  BY <1>1, <1>2

\* A sequence decoded further.
Grown(y, x, a) ==
  /\ y.resident = Append(x.resident, a) /\ y.next \in Nat \ {0} /\ y.engine = x.engine
  /\ y.exported_to = x.exported_to /\ y.last = x.last
  /\ y.stage \notin {"resuming", "handed off"}

\* What was exported stays sound when a token is appended.
LEMMA SoundGrows ==
  ASSUME NEW B, IsBlobs(B), NEW m \in Seq(B), NEW x, Sound(x, m), NEW a \in Cells,
         NEW y, Grown(y, x, a)
  PROVE  Sound(y, m)
<1>1. PICK r \in Seq(Cells) : r = x.resident
  BY DEF Sound
<1>2. PICK s : s = Append(r, a)
  OBVIOUS
<1>3. s \in Seq(Cells) /\ Len(s) = Len(r) + 1
  BY <1>2, AppendProperties
<1>4. y.resident = s
  BY <1>1, <1>2 DEF Grown
<1>5. Slices(m, Len(m), s)
  <2>. SUFFICES ASSUME NEW i \in 1 .. Len(m)
                PROVE  /\ EndOf(m, i) <= Len(s)
                       /\ m[i].tokens = SubSeq(s, m[i].base_pos + 1, EndOf(m, i))
    BY DEF Slices
  <2>1. EndOf(m, i) <= Len(r) /\ m[i].tokens = SubSeq(r, m[i].base_pos + 1, EndOf(m, i))
    BY <1>1 DEF Sound, Slices
  <2>2. m[i] \in B
    OBVIOUS
  <2>3. PICK b \in Nat : b = m[i].base_pos
    BY <2>2 DEF IsBlobs
  <2>4. PICK k \in Nat : k = EndOf(m, i)
    BY EndNat
  <2>5. SubSeq(s, b + 1, k) = SubSeq(r, b + 1, k)
    BY <1>2, <2>1, <2>4, SliceGrows
  <2>6. EndOf(m, i) <= Len(s)
    <3>1. PICK n \in Nat : n = Len(r)
      OBVIOUS
    <3>2. k <= n /\ Len(s) = n + 1
      BY <1>3, <2>1, <2>4, <3>1
    <3>. QED
      BY <2>4, <3>2
  <2>7. m[i].tokens = SubSeq(s, m[i].base_pos + 1, EndOf(m, i))
    BY <2>1, <2>3, <2>4, <2>5
  <2>. QED
    BY <2>6, <2>7
<1>6. y.exported_to <= Len(s)
  <2>1. PICK k : k = x.exported_to
    OBVIOUS
  <2>2. k <= Len(r) /\ k = EndOf(m, Len(m))
    BY <1>1, <2>1 DEF Sound
  <2>3. k \in Nat
    <3>1. Len(m) \in 0 .. Len(m)
      OBVIOUS
    <3>. QED
      BY <2>2, <3>1, EndNat
  <2>4. PICK n \in Nat : n = Len(r)
    OBVIOUS
  <2>5. k <= n + 1 /\ Len(s) = n + 1
    BY <1>3, <2>2, <2>3, <2>4
  <2>6. y.exported_to = k
    BY <2>1 DEF Grown
  <2>. QED
    BY <2>5, <2>6
<1>7. \A i \in 1 .. Len(m) : IsOf(m[i], y.engine) /\ Follows(m, i)
  BY DEF Sound, Grown
<1>8. y.exported_to = EndOf(m, Len(m)) /\ y.last = SealOf(m, Len(m))
  BY DEF Sound, Grown
<1>9. y.next \in Nat /\ y.next # 0 /\ y.stage # "resuming" /\ y.stage # "handed off"
  BY DEF Grown
<1>. QED
  BY <1>3, <1>4, <1>5, <1>6, <1>7, <1>8, <1>9 DEF Sound

\* One of which nothing was exported may hold anything.
Fresh(y) ==
  /\ y.resident \in Seq(Cells) /\ y.next \in Nat
  /\ y.exported_to = 0 /\ y.last = << >>
  /\ y.next = 0 => y.resident = << >> /\ ~y.ready
  /\ y.stage # "handed off" /\ (y.stage = "resuming" => y.next # 0)

\* A new sequence of which nothing was exported is sound.
LEMMA SoundFresh ==
  ASSUME NEW y, Fresh(y)
  PROVE  Sound(y, << >>)
<1>1. Len(<< >>) = 0
  OBVIOUS
<1>2. EndOf(<< >>, 0) = 0 /\ SealOf(<< >>, 0) = << >>
  BY DEF EndOf, SealOf
<1>3. PICK r \in Seq(Cells) : r = y.resident
  BY DEF Fresh
<1>4. 0 <= Len(r)
  OBVIOUS
<1>5. Slices(<< >>, 0, r)
  BY DEF Slices
<1>. QED
  <2>1. y.resident \in Seq(Cells) /\ y.next \in Nat /\ y.exported_to <= Len(y.resident)
    BY <1>3, <1>4 DEF Fresh
  <2>2. \A i \in 1 .. 0 : IsOf(<< >>[i], y.engine) /\ Follows(<< >>, i)
    OBVIOUS
  <2>3. Slices(<< >>, 0, y.resident)
    BY <1>3, <1>5
  <2>4. /\ y.next = 0 => y.resident = << >> /\ << >> = << >> /\ ~y.ready
        /\ y.stage = "resuming" => << >> = << >> /\ y.next # 0
        /\ y.stage # "handed off"
    BY DEF Fresh
  <2>5. y.exported_to = EndOf(<< >>, 0) /\ y.last = SealOf(<< >>, 0)
    BY <1>2 DEF Fresh
  <2>. QED
    BY <1>1, <2>1, <2>2, <2>3, <2>4, <2>5 DEF Sound

\* A sequence of which nothing was exported begins its chain.
LEMMA FreshExport ==
  ASSUME NEW x, Sound(x, << >>)
  PROVE  x.exported_to = 0 /\ x.last = << >>
<1>1. Len(<< >>) = 0
  OBVIOUS
<1>. QED
  BY <1>1 DEF Sound, EndOf, SealOf

\* A sequence is started, decodes a token or finishes.
LEMMA ESteady ==
  ASSUME IInv, EInv, NEW t \in Ticket, Start(t) \/ Decode(t) \/ Finish(t)
  PROVE  EInv'
<1>1. /\ t \in Used /\ Known(seq[t]) /\ made' = made /\ kept' = kept
      /\ seq[t].stage \in {"waiting", "running"}
  BY UsedKnown DEF Start, Decode, Finish
<1>2. PICK x : x = seq[t]
  OBVIOUS
<1>3. Sound(x, made[t]) /\ DOMAIN x = Fields /\ x.request \in Requests
  BY <1>1, <1>2 DEF EInv, Exports, Known
<1>4. CASE Start(t) \/ Finish(t)
  <2>1. PICK s \in {"running", "finished"} : seq' = [seq EXCEPT ![t] = [x EXCEPT !.stage = s]]
    BY <1>2, <1>4 DEF Start, Finish
  <2>2. PICK y : y = [x EXCEPT !.stage = s]
    OBVIOUS
  <2>3. /\ y.resident = x.resident /\ y.next = x.next /\ y.engine = x.engine
        /\ y.ready = x.ready /\ y.exported_to = x.exported_to /\ y.last = x.last
        /\ y.stage = s /\ y.chain = x.chain
    BY <1>3, <2>2 DEF Fields
  <2>4. Sound(y, made[t])
    BY <1>3, <2>3, SoundStage
  <2>. QED
    BY <1>1, <1>2, <2>1, <2>2, <2>3, <2>4, OneGoesOn
<1>5. CASE Decode(t)
  <2>0. PICK ready \in BOOLEAN : \E res, nxt :
          /\ seq' = [seq EXCEPT ![t] =
                       [x EXCEPT !.resident = res, !.next = nxt, !.ready = ready]]
          /\ IF x.next = 0
             THEN res = [i \in 1 .. Prompt |-> << x.request, i >>] /\ nxt = Prompt + 1
             ELSE res = Append(x.resident, << x.request, x.next >>) /\ nxt = x.next + 1
    <3>. DEFINE res == IF x.next = 0 THEN [i \in 1 .. Prompt |-> << x.request, i >>]
                       ELSE Append(x.resident, << x.request, x.next >>)
                nxt == IF x.next = 0 THEN Prompt + 1 ELSE x.next + 1
    <3>1. PICK ready \in BOOLEAN :
            seq' = [seq EXCEPT ![t].resident = res, ![t].next = nxt, ![t].ready = ready]
      BY <1>2, <1>5 DEF Decode, Token
    <3>. QED
      BY <1>2, <3>1
  <2>1. PICK res, nxt :
          /\ seq' = [seq EXCEPT ![t] =
                       [x EXCEPT !.resident = res, !.next = nxt, !.ready = ready]]
          /\ IF x.next = 0
             THEN res = [i \in 1 .. Prompt |-> << x.request, i >>] /\ nxt = Prompt + 1
             ELSE res = Append(x.resident, << x.request, x.next >>) /\ nxt = x.next + 1
    BY <2>0
  <2>2. PICK y : y = [x EXCEPT !.resident = res, !.next = nxt, !.ready = ready]
    OBVIOUS
  <2>3. /\ y.resident = res /\ y.next = nxt /\ y.engine = x.engine
        /\ y.exported_to = x.exported_to /\ y.last = x.last
        /\ y.stage = x.stage /\ y.stage = "running" /\ y.chain = x.chain
    <3>1. x.stage = "running"
      BY <1>2, <1>5 DEF Decode
    <3>. QED
      BY <1>3, <2>2, <3>1 DEF Fields
  <2>4. Sound(y, made[t])
    <3>1. CASE x.next = 0
      <4>1. made[t] = << >>
        BY <1>3, <3>1 DEF Sound
      <4>2. x.exported_to = 0 /\ x.last = << >>
        BY <1>3, <4>1, FreshExport
      <4>3. Prompt \in Nat
        BY MigrationAssumption
      <4>4. res \in Seq(Cells) /\ nxt \in Nat \ {0}
        <5>1. \A i \in 1 .. Prompt : << x.request, i >> \in Cells
          BY <1>3, <4>3 DEF Cells
        <5>. QED
          BY <2>1, <3>1, <4>3, <5>1
      <4>. QED
        BY <2>3, <3>1, <4>1, <4>2, <4>4, SoundFresh DEF Fresh
    <3>2. CASE x.next # 0
      <4>1. x.next \in Nat
        BY <1>3 DEF Sound
      <4>2. PICK a \in Cells : a = << x.request, x.next >>
        BY <1>3, <4>1 DEF Cells
      <4>3. res = Append(x.resident, a) /\ nxt = x.next + 1 /\ nxt \in Nat \ {0}
        BY <2>1, <3>2, <4>1, <4>2
      <4>4. PICK B : Kinds(B)
        BY DEF EInv
      <4>5. IsBlobs(B) /\ made[t] \in Seq(B)
        BY <4>4 DEF Kinds
      <4>. QED
        BY <1>3, <2>3, <4>3, <4>5, SoundGrows DEF Grown
    <3>. QED
      BY <3>1, <3>2
  <2>. QED
    BY <1>1, <1>2, <2>1, <2>2, <2>3, <2>4, OneGoesOn
<1>. QED
  BY <1>4, <1>5

\* A blob of a sequence that goes on from the last one, and the sequence then.
NextBlob(x) ==
  [model |-> Weights[x.engine], prev |-> x.last, base_pos |-> x.exported_to,
   tokens |-> SubSeq(x.resident, x.exported_to + 1, Len(x.resident))]

After(y, x) ==
  /\ y.resident = x.resident /\ y.next = x.next /\ y.engine = x.engine
  /\ y.exported_to = Len(x.resident) /\ y.last = Digest(NextBlob(x))
  /\ y.stage \in {"running", "handed off"}

\* The next blob is sound behind those before it.
LEMMA SoundExport ==
  ASSUME NEW B, IsBlobs(B), NEW m \in Seq(B), NEW x, Sound(x, m), x.next # 0,
         Copyable(x.engine), NEW y, After(y, x)
  PROVE  /\ Sound(y, Append(m, NextBlob(x)))
         /\ NextBlob(x).base_pos \in Nat /\ NextBlob(x).tokens \in Seq(Cells)
<1>1. PICK r \in Seq(Cells) : r = x.resident
  BY DEF Sound
<1>2. PICK n \in Nat : n = Len(r)
  OBVIOUS
<1>3. PICK k \in Nat : k = Len(m)
  OBVIOUS
<1>4. x.exported_to = EndOf(m, k) /\ x.last = SealOf(m, k) /\ x.exported_to <= n
  BY <1>1, <1>2, <1>3 DEF Sound
<1>5. PICK p \in Nat : p = x.exported_to
  BY <1>3, <1>4, EndNat
<1>6. PICK s : s = SubSeq(r, p + 1, n)
  OBVIOUS
<1>7. p <= n /\ s \in Seq(Cells) /\ Len(s) = n - p
  <2>1. \A i \in p + 1 .. n : i \in 1 .. Len(r)
    BY <1>2
  <2>2. s \in Seq(Cells) /\ Len(s) = IF p + 1 <= n THEN n - (p + 1) + 1 ELSE 0
    BY <1>6, <2>1, SubSeqProperties
  <2>. QED
    BY <1>4, <1>5, <2>2
<1>8. PICK b : b = NextBlob(x)
  OBVIOUS
<1>9. IsOf(b, x.engine) /\ b.prev = x.last /\ b.base_pos = p /\ b.tokens = s
  BY <1>1, <1>2, <1>5, <1>6, <1>8 DEF NextBlob, IsOf
<1>10. PICK C : C = B \cup {b}
  OBVIOUS
<1>11. IsBlobs(C) /\ b \in C /\ m \in Seq(C)
  <2>1. B \subseteq C /\ b \in C
    BY <1>10
  <2>2. m \in Seq(C)
    BY <2>1
  <2>3. IsBlobs(C)
    BY <1>7, <1>9, <1>10 DEF IsBlobs
  <2>. QED
    BY <2>1, <2>2, <2>3
<1>12. PICK w : w = Append(m, b)
  OBVIOUS
<1>13. /\ w \in Seq(C) /\ Len(w) = k + 1 /\ w[k + 1] = b
       /\ \A i \in 1 .. k : w[i] = m[i]
  BY <1>3, <1>11, <1>12, AppendProperties
<1>14. \A i \in 0 .. k : EndOf(w, i) = EndOf(m, i) /\ SealOf(w, i) = SealOf(m, i)
  BY <1>13 DEF EndOf, SealOf
<1>15. EndOf(w, k + 1) = n /\ SealOf(w, k + 1) = Digest(b)
  <2>1. k + 1 # 0
    OBVIOUS
  <2>2. EndOf(w, k + 1) = p + (n - p)
    BY <1>7, <1>9, <1>13, <2>1 DEF EndOf
  <2>. QED
    BY <1>13, <2>1, <2>2 DEF SealOf
<1>16. ASSUME NEW i \in 1 .. k + 1
       PROVE  /\ IsOf(w[i], y.engine) /\ Follows(w, i)
              /\ EndOf(w, i) <= n
              /\ w[i].tokens = SubSeq(r, w[i].base_pos + 1, EndOf(w, i))
  <2>1. CASE i \in 1 .. k
    <3>1. w[i] = m[i] /\ i - 1 \in 0 .. k /\ i \in 0 .. k
      BY <1>13, <2>1
    <3>2. IsOf(m[i], x.engine) /\ Follows(m, i)
      BY <1>3, <2>1 DEF Sound
    <3>3. EndOf(m, i) <= n /\ m[i].tokens = SubSeq(r, m[i].base_pos + 1, EndOf(m, i))
      BY <1>1, <1>2, <1>3, <2>1 DEF Sound, Slices
    <3>4. EndOf(w, i) = EndOf(m, i) /\ EndOf(w, i - 1) = EndOf(m, i - 1)
          /\ SealOf(w, i - 1) = SealOf(m, i - 1)
      BY <1>14, <3>1
    <3>5. Follows(w, i)
      BY <3>1, <3>2, <3>4 DEF Follows
    <3>6. IsOf(w[i], y.engine)
      BY <3>1, <3>2 DEF After
    <3>7. EndOf(w, i) <= n /\ w[i].tokens = SubSeq(r, w[i].base_pos + 1, EndOf(w, i))
      BY <3>1, <3>3, <3>4
    <3>. QED
      BY <3>5, <3>6, <3>7
  <2>2. CASE i = k + 1
    <3>1. w[i] = b /\ i - 1 = k /\ k \in 0 .. k
      BY <1>13, <2>2
    <3>2. EndOf(w, i - 1) = p /\ SealOf(w, i - 1) = x.last
      BY <1>4, <1>5, <1>14, <3>1
    <3>3. Follows(w, i)
      BY <1>9, <3>1, <3>2 DEF Follows
    <3>4. IsOf(w[i], y.engine)
      BY <1>9, <3>1 DEF After
    <3>5. EndOf(w, i) <= n /\ w[i].tokens = SubSeq(r, w[i].base_pos + 1, EndOf(w, i))
      BY <1>6, <1>9, <1>15, <2>2, <3>1
    <3>. QED
      BY <3>3, <3>4, <3>5
  <2>. QED
    BY <2>1, <2>2
<1>17. Sound(y, w)
  <2>1. y.resident = r /\ y.exported_to = n /\ y.last = Digest(b) /\ y.next = x.next
        /\ y.stage # "resuming" /\ y.resident \in Seq(Cells) /\ Len(y.resident) = n
    BY <1>1, <1>2, <1>8 DEF After
  <2>2. y.next \in Nat /\ y.next # 0
    BY <2>1 DEF Sound
  <2>3. Slices(w, Len(w), y.resident)
    BY <1>2, <1>13, <1>16, <2>1 DEF Slices
  <2>4. \A i \in 1 .. Len(w) : IsOf(w[i], y.engine) /\ Follows(w, i)
    BY <1>13, <1>16
  <2>5. y.exported_to = EndOf(w, Len(w)) /\ y.last = SealOf(w, Len(w))
    BY <1>13, <1>15, <2>1
  <2>6. y.exported_to <= Len(y.resident) /\ y.exported_to = Len(y.resident)
    BY <2>1
  <2>. QED
    BY <2>1, <2>2, <2>3, <2>4, <2>5, <2>6 DEF Sound
<1>. QED
  BY <1>7, <1>8, <1>9, <1>12, <1>17

\* An export, heard by the client or not.
LEMMA ExportKeeps ==
  ASSUME IInv, EInv, NEW t \in Used, seq[t].ready, NEW y, After(y, seq[t]),
         Copyable(seq[t].engine), y.chain = seq[t].chain, seq[t].stage = "running",
         seq' = [seq EXCEPT ![t] = y],
         made' = [made EXCEPT ![t] = Append(@, NextBlob(seq[t]))],
         kept' = kept \/ kept' = [kept EXCEPT ![t] = Append(@, NextBlob(seq[t]))]
  PROVE  EInv'
<1>1. DOMAIN seq = Ticket /\ t \in Ticket
  BY DEF IInv, Typed, Used
<1>2. PICK B : Kinds(B)
  BY DEF EInv
<1>3. PICK b : b = NextBlob(seq[t])
  OBVIOUS
<1>4. PICK m \in Seq(B) : m = made[t]
  BY <1>1, <1>2 DEF Kinds
<1>5. Sound(seq[t], m)
  BY <1>4 DEF EInv, Exports
<1>6. seq[t].next # 0
  BY <1>5 DEF Sound
<1>7. Sound(y, Append(m, b)) /\ b.base_pos \in Nat /\ b.tokens \in Seq(Cells)
  BY <1>2, <1>3, <1>5, <1>6, SoundExport DEF Kinds
<1>8. seq'[t] = y /\ \A u \in Ticket \ {t} : seq'[u] = seq[u]
  BY <1>1
<1>9. y.stage \in {"running", "handed off"}
  BY DEF After
<1>10. Used' = Used
  <2>1. Unused.stage = "unused"
    BY DEF Unused
  <2>. QED
    BY <1>1, <1>8, <1>9, <2>1 DEF Used
<1>11. PICK C : C = B \cup {b}
  OBVIOUS
<1>12. IsBlobs(C) /\ b \in C /\ \A s \in Seq(B) : s \in Seq(C)
  <2>1. B \subseteq C /\ b \in C
    BY <1>11
  <2>2. \A s \in Seq(B) : s \in Seq(C)
    BY <2>1
  <2>3. IsBlobs(C)
    BY <1>2, <1>7, <1>11 DEF IsBlobs, Kinds
  <2>. QED
    BY <2>1, <2>2, <2>3
<1>13. made \in [Ticket -> Seq(C)] /\ kept \in [Ticket -> Seq(C)]
  BY <1>2, <1>12 DEF Kinds
<1>14. made' = [made EXCEPT ![t] = Append(@, b)]
  BY <1>3
<1>15. kept' = kept \/ kept' = [kept EXCEPT ![t] = Append(@, b)]
  BY <1>3
<1>16. /\ made'[t] = Append(made[t], b) /\ \A u \in Ticket \ {t} : made'[u] = made[u]
       /\ made' \in [Ticket -> Seq(C)]
  <2>1. PICK w : w = Append(made[t], b)
    OBVIOUS
  <2>2. w \in Seq(C)
    BY <1>1, <1>12, <1>13, <2>1, AppendProperties
  <2>3. made' = [made EXCEPT ![t] = w]
    BY <1>14, <2>1
  <2>. QED
    BY <1>1, <1>13, <2>1, <2>2, <2>3
<1>17. /\ \A u \in Ticket \ {t} : kept'[u] = kept[u]
       /\ kept'[t] = kept[t] \/ kept'[t] = Append(kept[t], b)
       /\ kept' \in [Ticket -> Seq(C)]
  <2>1. PICK w : w = Append(kept[t], b)
    OBVIOUS
  <2>2. w \in Seq(C)
    BY <1>1, <1>12, <1>13, <2>1, AppendProperties
  <2>3. kept' = kept \/ kept' = [kept EXCEPT ![t] = w]
    BY <1>15, <2>1
  <2>. QED
    BY <1>1, <1>13, <2>1, <2>2, <2>3
<1>18. \A u \in Used : seq'[u].chain = seq[u].chain
  BY <1>8 DEF Used
<1>19. Kinds(C)'
  BY <1>2, <1>10, <1>12, <1>16, <1>17, <1>18 DEF Kinds
<1>20. Exports'
  <2>. SUFFICES ASSUME NEW u \in Used PROVE Sound(seq'[u], made'[u])
    BY <1>10 DEF Exports
  <2>1. CASE u = t
    BY <1>4, <1>7, <1>8, <1>16, <2>1
  <2>2. CASE u # t
    <3>1. seq'[u] = seq[u] /\ made'[u] = made[u]
      BY <1>8, <1>16, <2>2 DEF Used
    <3>. QED
      BY <3>1 DEF EInv, Exports
  <2>. QED
    BY <2>1, <2>2
<1>21. \A x : OfSome(x, made) => OfSome(x, made')
  <2>. SUFFICES ASSUME NEW x, NEW u \in Ticket, NEW j \in 1 .. Len(made[u]), x = made[u][j]
                PROVE  j \in 1 .. Len(made'[u]) /\ x = made'[u][j]
    BY DEF OfSome
  <2>1. CASE u = t
    <3>1. /\ Len(made'[t]) = Len(made[t]) + 1
          /\ \A i \in 1 .. Len(made[t]) : made'[t][i] = made[t][i]
      BY <1>1, <1>12, <1>13, <1>16, AppendProperties
    <3>2. Len(made[t]) \in Nat
      BY <1>1, <1>13
    <3>. QED
      BY <2>1, <3>1, <3>2
  <2>2. CASE u # t
    BY <1>16, <2>2
  <2>. QED
    BY <2>1, <2>2
<1>22. OfSome(b, made')
  <2>1. Len(made[t]) \in Nat /\ Len(made'[t]) = Len(made[t]) + 1
        /\ made'[t][Len(made[t]) + 1] = b
    BY <1>1, <1>12, <1>13, <1>16, AppendProperties
  <2>. QED
    BY <1>1, <2>1 DEF OfSome
<1>23. Received'
  <2>1. ASSUME NEW u \in Ticket, NEW i \in 1 .. Len(kept'[u]) PROVE OfSome(kept'[u][i], made')
    <3>1. CASE kept'[u] = kept[u]
      <4>1. OfSome(kept[u][i], made)
        BY <3>1 DEF EInv, Received
      <4>. QED
        BY <1>21, <3>1, <4>1
    <3>2. CASE u = t /\ kept'[u] = Append(kept[t], b)
      <4>1. PICK n \in Nat : n = Len(kept[t])
        BY <1>1, <1>13
      <4>2. /\ Len(kept'[t]) = n + 1 /\ kept'[t][n + 1] = b
            /\ \A k \in 1 .. n : kept'[t][k] = kept[t][k]
        BY <1>1, <1>12, <1>13, <3>2, <4>1, AppendProperties
      <4>3. CASE i = n + 1
        BY <1>22, <3>2, <4>2, <4>3
      <4>4. CASE i # n + 1
        <5>1. i \in 1 .. Len(kept[t])
          BY <3>2, <4>1, <4>2, <4>4
        <5>2. OfSome(kept[t][i], made)
          BY <1>1, <5>1 DEF EInv, Received
        <5>. QED
          BY <1>21, <3>2, <4>1, <4>2, <5>1, <5>2
      <4>. QED
        BY <4>3, <4>4
    <3>. QED
      BY <1>17, <3>1, <3>2
  <2>2. ASSUME NEW u \in Used, NEW i \in 1 .. Len(seq'[u].chain)
        PROVE  OfSome(seq'[u].chain[i], made')
    <3>1. seq'[u].chain = seq[u].chain
      BY <1>18
    <3>2. OfSome(seq[u].chain[i], made)
      BY <3>1 DEF EInv, Received
    <3>. QED
      BY <1>21, <3>1, <3>2
  <2>. QED
    BY <1>10, <2>1, <2>2 DEF Received
<1>24. Continues'
  <2>. SUFFICES ASSUME NEW u \in Used, seq'[u].stage = "resuming"
                PROVE  seq'[u].next = seq'[seq'[u].from].next
    BY <1>10 DEF Continues
  <2>1. u # t /\ seq'[u] = seq[u]
    BY <1>8, <1>9 DEF Used
  <2>2. seq[u].from \in Used /\ seq[seq[u].from].stage = "handed off"
    BY <2>1, FromHanded
  <2>3. seq'[seq[u].from] = seq[seq[u].from]
    BY <1>8, <2>2 DEF Used
  <2>4. seq[u].next = seq[seq[u].from].next
    BY <2>1 DEF EInv, Continues
  <2>. QED
    BY <2>1, <2>3, <2>4
<1>25. Untouched'
  BY <1>10, <1>16 DEF EInv, Untouched
<1>. QED
  BY <1>19, <1>20, <1>23, <1>24, <1>25 DEF EInv

\* A request submitted, or a sequence to rebuild: a new ticket.
LEMMA AddedKeeps ==
  ASSUME IInv, EInv, made' = made, kept' = kept,
         NEW t \in Ticket, t \notin Used, NEW y, seq' = [seq EXCEPT ![t] = y],
         y.stage \in {"waiting", "resuming"}, Fresh(y),
         \A B : Kinds(B) => y.chain \in Seq(B),
         \A i \in 1 .. Len(y.chain) : OfSome(y.chain[i], made),
         y.stage = "resuming" => y.from \in Used /\ y.next = seq[y.from].next
  PROVE  EInv'
<1>1. DOMAIN seq = Ticket
  BY DEF IInv, Typed
<1>2. seq'[t] = y /\ \A u \in Ticket \ {t} : seq'[u] = seq[u]
  BY <1>1
<1>3. Used' = Used \cup {t}
  <2>1. Unused.stage = "unused"
    BY DEF Unused
  <2>. QED
    BY <1>2, <2>1 DEF Used
<1>4. \A u \in Used : u \in Ticket /\ u # t /\ seq'[u] = seq[u]
  BY <1>2 DEF Used
<1>5. PICK B : Kinds(B)
  BY DEF EInv
<1>6. Kinds(B)'
  BY <1>2, <1>3, <1>4, <1>5 DEF Kinds
<1>7. Exports'
  <2>1. made[t] = << >>
    BY DEF EInv, Untouched
  <2>2. Sound(seq'[t], made[t])
    BY <1>2, <2>1, SoundFresh
  <2>3. \A u \in Used : Sound(seq'[u], made[u])
    BY <1>4 DEF EInv, Exports
  <2>. QED
    BY <1>3, <2>2, <2>3 DEF Exports
<1>8. Received'
  <2>1. \A u \in Ticket : \A i \in 1 .. Len(kept[u]) : OfSome(kept[u][i], made)
    BY DEF EInv, Received
  <2>2. ASSUME NEW u \in Used' PROVE \A i \in 1 .. Len(seq'[u].chain) : OfSome(seq'[u].chain[i], made)
    <3>1. CASE u = t
      BY <1>2, <3>1
    <3>2. CASE u # t
      <4>1. u \in Used /\ seq'[u] = seq[u]
        BY <1>3, <1>4, <3>2
      <4>. QED
        BY <4>1 DEF EInv, Received
    <3>. QED
      BY <3>1, <3>2
  <2>. QED
    BY <2>1, <2>2 DEF Received
<1>9. Continues'
  <2>. SUFFICES ASSUME NEW u \in Used', seq'[u].stage = "resuming"
                PROVE  seq'[u].next = seq'[seq'[u].from].next
    BY DEF Continues
  <2>1. CASE u = t
    <3>1. y.from \in Used /\ y.next = seq[y.from].next
      BY <1>2, <2>1
    <3>. QED
      BY <1>2, <1>4, <2>1, <3>1
  <2>2. CASE u # t
    <3>1. u \in Used /\ seq'[u] = seq[u]
      BY <1>3, <1>4, <2>2
    <3>2. seq[u].from \in Used
      BY <3>1, FromHanded
    <3>3. seq[u].next = seq[seq[u].from].next
      BY <3>1 DEF EInv, Continues
    <3>. QED
      BY <1>4, <3>1, <3>2, <3>3
  <2>. QED
    BY <2>1, <2>2
<1>10. Untouched'
  BY <1>3 DEF EInv, Untouched
<1>. QED
  BY <1>6, <1>7, <1>8, <1>9, <1>10 DEF EInv

\* Initially nobody has exported anything.
LEMMA InitEInv == Init => EInv
<1>. SUFFICES ASSUME Init PROVE EInv
  OBVIOUS
<1>1. Used = {} /\ \A t \in Ticket : made[t] = << >> /\ kept[t] = << >>
  BY DEF Init, Used
<1>2. Kinds({})
  <2>1. made \in [Ticket -> Seq({})] /\ kept \in [Ticket -> Seq({})]
    BY DEF Init
  <2>. QED
    BY <1>1, <2>1 DEF Kinds, IsBlobs
<1>3. Exports /\ Continues /\ Untouched
  BY <1>1 DEF Exports, Continues, Untouched
<1>4. Received
  <2>1. \A t \in Ticket : Len(kept[t]) = 0
    BY <1>1
  <2>2. \A t \in Ticket : \A i \in 1 .. Len(kept[t]) : FALSE
    BY <2>1
  <2>. QED
    BY <1>1, <2>2 DEF Received
<1>. QED
  BY <1>2, <1>3, <1>4 DEF EInv

\* An export that is answered with a blob is of a running sequence that may be
\* copied.
LEMMA ServedReady ==
  ASSUME IInv, NEW e \in Engines, NEW i \in 1 .. Asked, NEW t, t = exports[e][i].ticket,
         Served(e, i), ~exports[e][i].closed, Holder(e, i)
  PROVE  /\ t \in Used /\ seq[t].stage = "running" /\ seq[t].ready /\ Known(seq[t])
         /\ Blob(t) = NextBlob(seq[t])
<1>1. t \in Used /\ seq[t].stage = "running"
  BY DEF Holder, Running
<1>2. seq[t].ready
  BY DEF Served, Postponed
<1>3. Blob(t) = NextBlob(seq[t])
  BY DEF Blob, NextBlob
<1>. QED
  BY <1>1, <1>2, <1>3, UsedKnown

\* A delta or a hand-off is exported, and its client keeps it or loses it.
LEMMA EServe ==
  ASSUME IInv, EInv, NEW e \in Engines, NEW i \in 1 .. Asked,
         ServeDelta(e, i) \/ ServeHandoff(e, i)
  PROVE  EInv'
<1>1. PICK t : t = exports[e][i].ticket
  OBVIOUS
<1>2. Served(e, i) /\ ~exports[e][i].closed /\ Holder(e, i)
  BY DEF ServeDelta, ServeHandoff
<1>3. /\ t \in Used /\ seq[t].stage = "running" /\ seq[t].ready /\ Known(seq[t])
      /\ Blob(t) = NextBlob(seq[t]) /\ Copyable(seq[t].engine)
  <2>1. seq[t].engine = e /\ Copyable(e)
    BY <1>1 DEF ServeDelta, ServeHandoff, Holder, Running
  <2>. QED
    BY <1>1, <1>2, <2>1, ServedReady
<1>4. PICK x : x = seq[t]
  OBVIOUS
<1>5. PICK b : b = NextBlob(x)
  OBVIOUS
<1>6. PICK n : n = Len(x.resident)
  OBVIOUS
<1>7. PICK s \in {"running", "handed off"} :
        seq' = [seq EXCEPT ![t] = [x EXCEPT !.exported_to = n, !.last = Digest(b), !.stage = s]]
  <2>1. CASE ServeDelta(e, i)
    <3>1. seq' = [seq EXCEPT ![t] = [x EXCEPT !.exported_to = n, !.last = Digest(b)]]
      BY <1>1, <1>3, <1>4, <1>5, <1>6, <2>1 DEF ServeDelta, Exported
    <3>2. [x EXCEPT !.exported_to = n, !.last = Digest(b), !.stage = "running"]
            = [x EXCEPT !.exported_to = n, !.last = Digest(b)]
      BY <1>3, <1>4 DEF Known, Fields
    <3>. QED
      BY <3>1, <3>2
  <2>2. CASE ServeHandoff(e, i)
    BY <1>1, <1>3, <1>4, <1>5, <1>6, <2>2 DEF ServeHandoff, HandedOff, Exported
  <2>. QED
    BY <2>1, <2>2
<1>8. PICK y : y = [x EXCEPT !.exported_to = n, !.last = Digest(b), !.stage = s]
  OBVIOUS
<1>9. /\ y.resident = x.resident /\ y.next = x.next /\ y.engine = x.engine
      /\ y.exported_to = n /\ y.last = Digest(b) /\ y.stage = s /\ y.chain = x.chain
  BY <1>3, <1>4, <1>8 DEF Known, Fields
<1>10. After(y, seq[t])
  BY <1>4, <1>5, <1>6, <1>9 DEF After
<1>11. made' = [made EXCEPT ![t] = Append(@, NextBlob(seq[t]))]
  BY <1>1, <1>3 DEF ServeDelta, ServeHandoff
<1>12. kept' = kept \/ kept' = [kept EXCEPT ![t] = Append(@, NextBlob(seq[t]))]
  <2>1. PICK heard \in BOOLEAN :
          kept' = [kept EXCEPT ![t] = IF heard THEN Append(@, NextBlob(seq[t])) ELSE @]
    BY <1>1, <1>3 DEF ServeDelta, ServeHandoff
  <2>2. CASE heard
    BY <2>1, <2>2
  <2>3. CASE ~heard
    <3>1. kept' = [kept EXCEPT ![t] = @]
      BY <2>1, <2>3
    <3>2. kept = [u \in Ticket |-> kept[u]]
      BY DEF EInv, Kinds
    <3>. QED
      BY <3>1, <3>2
  <2>. QED
    BY <2>2, <2>3
<1>. QED
  BY <1>3, <1>4, <1>7, <1>8, <1>9, <1>10, <1>11, <1>12, ExportKeeps

\* A new request.
LEMMA ESubmit ==
  ASSUME IInv, EInv, NEW r \in Requests, NEW e \in Engines, Submit(r, e)
  PROVE  EInv'
<1>1. PICK n, y : n = NewTicket /\ y = Sequence("waiting", e, r)
  OBVIOUS
<1>2. n \in Ticket /\ n \notin Used /\ seq' = [seq EXCEPT ![n] = y] /\ made' = made /\ kept' = kept
  BY <1>1, NewOne DEF Submit
<1>3. /\ y.stage = "waiting" /\ y.chain = << >> /\ y.resident = << >> /\ y.next = 0
      /\ y.ready = FALSE /\ y.exported_to = 0 /\ y.last = << >>
  BY <1>1 DEF Sequence
<1>4. Fresh(y)
  <2>1. y.resident \in Seq(Cells)
    BY <1>3
  <2>. QED
    BY <1>3, <2>1 DEF Fresh
<1>5. \A B : Kinds(B) => y.chain \in Seq(B)
  BY <1>3
<1>6. \A i \in 1 .. Len(y.chain) : OfSome(y.chain[i], made)
  <2>1. Len(y.chain) = 0
    BY <1>3
  <2>. QED
    BY <2>1
<1>. QED
  BY <1>2, <1>3, <1>4, <1>5, <1>6, AddedKeeps

\* A client hands over a chain of the blobs it kept.
LEMMA EResume ==
  ASSUME IInv, EInv, NEW t \in Ticket, NEW e \in Engines, Resume(t, e)
  PROVE  EInv'
<1>1. PICK n : n = NewTicket
  OBVIOUS
<1>0. PICK chain \in Chains(t) : \E y :
        /\ n \in Ticket /\ handoff[t] = "held" /\ seq' = [seq EXCEPT ![n] = y]
        /\ y = [Sequence("resuming", e, seq[t].request) EXCEPT
                  !.from = t, !.chain = chain, !.next = seq[t].next]
        /\ made' = made /\ kept' = kept
  BY <1>1 DEF Resume
<1>2. PICK y :
        /\ n \in Ticket /\ handoff[t] = "held" /\ seq' = [seq EXCEPT ![n] = y]
        /\ y = [Sequence("resuming", e, seq[t].request) EXCEPT
                  !.from = t, !.chain = chain, !.next = seq[t].next]
        /\ made' = made /\ kept' = kept
  BY <1>0
<1>3. n \notin Used
  BY <1>1, <1>2, NewOne
<1>4. t \in Used /\ seq[t].stage = "handed off"
  BY <1>2 DEF IInv, Handed
<1>5. Sound(seq[t], made[t])
  BY <1>4 DEF EInv, Exports
<1>6. PICK k \in Nat : k = seq[t].next /\ k # 0
  BY <1>4, <1>5 DEF Sound
<1>7. /\ y.stage = "resuming" /\ y.chain = chain /\ y.resident = << >> /\ y.next = k
      /\ y.exported_to = 0 /\ y.last = << >> /\ y.from = t
  BY <1>2, <1>6 DEF Sequence
<1>8. Fresh(y)
  <2>1. y.resident \in Seq(Cells)
    BY <1>7
  <2>. QED
    BY <1>6, <1>7, <2>1 DEF Fresh
<1>9. PICK blobs : blobs = UNION {ToSet(kept[u]) : u \in Ticket}
  OBVIOUS
<1>10. \/ chain = kept[t]
       \/ \E m \in 0 .. Mixed : chain \in [1 .. m -> blobs]
  BY <1>9 DEF Chains
<1>11. ASSUME NEW B, Kinds(B) PROVE chain \in Seq(B)
  <2>1. kept \in [Ticket -> Seq(B)]
    BY <1>11 DEF Kinds
  <2>2. blobs \subseteq B
    <3>. SUFFICES ASSUME NEW u \in Ticket, NEW x \in ToSet(kept[u]) PROVE x \in B
      BY <1>9
    <3>1. kept[u] \in Seq(B)
      BY <2>1
    <3>2. PICK i \in DOMAIN kept[u] : x = kept[u][i]
      BY DEF ToSet
    <3>. QED
      BY <3>1, <3>2
  <2>3. CASE chain = kept[t]
    BY <2>1, <2>3
  <2>4. CASE \E m \in 0 .. Mixed : chain \in [1 .. m -> blobs]
    <3>1. PICK m \in 0 .. Mixed : chain \in [1 .. m -> blobs]
      BY <2>4
    <3>2. m \in Nat /\ chain \in [1 .. m -> B]
      BY <2>2, <3>1, MigrationAssumption
    <3>. QED
      BY <3>2
  <2>. QED
    BY <1>10, <2>3, <2>4
<1>12. PICK B : Kinds(B)
  BY DEF EInv
<1>13. kept \in [Ticket -> Seq(B)] /\ chain \in Seq(B)
  BY <1>11, <1>12 DEF Kinds
<1>14. ASSUME NEW i \in 1 .. Len(chain) PROVE OfSome(chain[i], made)
  <2>1. \A u \in Ticket : \A j \in 1 .. Len(kept[u]) : OfSome(kept[u][j], made)
    BY DEF EInv, Received
  <2>2. CASE chain = kept[t]
    BY <2>1, <2>2
  <2>3. CASE \E m \in 0 .. Mixed : chain \in [1 .. m -> blobs]
    <3>1. chain[i] \in blobs
      BY <1>13, <2>3
    <3>2. PICK u \in Ticket : chain[i] \in ToSet(kept[u])
      BY <1>9, <3>1
    <3>3. PICK j \in 1 .. Len(kept[u]) : chain[i] = kept[u][j]
      BY <1>13, <3>2 DEF ToSet
    <3>. QED
      BY <2>1, <3>3
  <2>. QED
    BY <1>10, <2>2, <2>3
<1>15. \A D : Kinds(D) => y.chain \in Seq(D)
  BY <1>7, <1>11
<1>16. \A i \in 1 .. Len(y.chain) : OfSome(y.chain[i], made)
  BY <1>7, <1>14
<1>17. y.from \in Used /\ y.next = seq[y.from].next /\ y.stage \in {"waiting", "resuming"}
  BY <1>4, <1>6, <1>7
<1>. QED
  BY <1>2, <1>3, <1>8, <1>15, <1>16, <1>17, AddedKeeps

\* The sequence that is admitted or refused next.
LEMMA HeadResuming ==
  ASSUME IInv, NEW e \in Engines, AdmitResume(e), NEW t, t = Head(resumes[e])
  PROVE  t \in Used /\ seq[t].stage = "resuming" /\ seq[t].engine = e /\ Known(seq[t])
<1>1. resumes[e] \in Seq(Ticket) /\ resumes[e] # << >>
  BY DEF AdmitResume, IInv, Typed
<1>2. 1 \in 1 .. Len(resumes[e]) /\ t = resumes[e][1]
  BY <1>1
<1>. QED
  BY <1>2, UsedKnown DEF IInv, Listed, Resuming

\* A chain is rebuilt, or refused.
LEMMA EAdmit ==
  ASSUME IInv, EInv, NEW e \in Engines, AdmitResume(e)
  PROVE  EInv'
<1>1. PICK t : t = Head(resumes[e])
  OBVIOUS
<1>2. t \in Used /\ seq[t].stage = "resuming" /\ seq[t].engine = e /\ Known(seq[t])
  BY <1>1, HeadResuming
<1>3. PICK x : x = seq[t]
  OBVIOUS
<1>4. Sound(x, made[t]) /\ made[t] = << >> /\ x.next # 0 /\ x.next \in Nat /\ DOMAIN x = Fields
  BY <1>2, <1>3 DEF EInv, Exports, Sound, Known
<1>5. x.exported_to = 0 /\ x.last = << >>
  BY <1>4, FreshExport
<1>6. made' = made /\ kept' = kept
  BY DEF AdmitResume
<1>7. CASE /\ Usable(t)
           /\ seq' = [seq EXCEPT ![t].stage = "running", ![t].ready = TRUE,
                                 ![t].resident = Rebuilt(x.chain, e).resident]
  <2>1. PICK res : res = Rebuilt(x.chain, e).resident
    OBVIOUS
  <2>2. res \in Seq(Cells)
    <3>1. Rebuilt(x.chain, e).ok
      BY <1>2, <1>3, <1>7 DEF Usable
    <3>2. PICK B : Kinds(B)
      BY DEF EInv
    <3>3. IsBlobs(B) /\ x.chain \in Seq(B)
      BY <1>2, <1>3, <3>2 DEF Kinds
    <3>. QED
      BY <2>1, <3>1, <3>3, RebuiltLinked
  <2>3. seq' = [seq EXCEPT ![t].stage = "running", ![t].ready = TRUE, ![t].resident = res]
    BY <1>7, <2>1
  <2>4. PICK y : y = [x EXCEPT !.stage = "running", !.ready = TRUE, !.resident = res]
    OBVIOUS
  <2>5. seq' = [seq EXCEPT ![t] = y]
    BY <1>3, <2>3, <2>4
  <2>6. /\ y.stage = "running" /\ y.resident = res /\ y.next = x.next /\ y.chain = x.chain
        /\ y.exported_to = 0 /\ y.last = << >>
    BY <1>4, <1>5, <2>4 DEF Fields
  <2>7. Fresh(y)
    BY <1>4, <2>2, <2>6 DEF Fresh
  <2>8. Sound(y, made[t])
    BY <1>4, <2>7, SoundFresh
  <2>. QED
    BY <1>2, <1>3, <1>6, <2>5, <2>6, <2>8, OneGoesOn
<1>8. CASE \E g \in Gone : seq' = [seq EXCEPT ![t].stage = g]
  <2>0. PICK g \in Gone : seq' = [seq EXCEPT ![t].stage = g]
    BY <1>8
  <2>1. PICK y : y = [x EXCEPT !.stage = g]
    OBVIOUS
  <2>2. seq' = [seq EXCEPT ![t] = y]
    BY <1>3, <2>0, <2>1
  <2>3. /\ y.resident = x.resident /\ y.next = x.next /\ y.engine = x.engine
        /\ y.ready = x.ready /\ y.exported_to = x.exported_to /\ y.last = x.last
        /\ y.stage \in Gone /\ y.chain = x.chain
    BY <1>4, <2>1 DEF Fields
  <2>4. Sound(y, made[t])
    BY <1>4, <2>3, SoundStage DEF Gone
  <2>. QED
    BY <1>2, <1>3, <1>6, <2>2, <2>3, <2>4, OneGoesOn DEF Gone
<1>. QED
  BY <1>1, <1>3, <1>7, <1>8 DEF AdmitResume, Gone

\* An engine stops: what it had fails.
LEMMA EStop ==
  ASSUME IInv, EInv, NEW e \in Engines, Stop(e)
  PROVE  EInv'
<1>1. made' = made /\ kept' = kept /\ DOMAIN seq' = Ticket
  BY DEF Stop
<1>2. ASSUME NEW t \in Used
      PROVE  /\ seq'[t] # Unused
             /\ Sound(seq'[t], made[t]) /\ seq'[t].chain = seq[t].chain
             /\ seq'[t].stage = "resuming" =>
                  /\ seq[t].stage = "resuming"
                  /\ seq'[t].next = seq[t].next /\ seq'[t].from = seq[t].from
             /\ seq[t].stage = "handed off" => seq'[t].next = seq[t].next
  <2>1. PICK x : x = seq[t]
    OBVIOUS
  <2>2. t \in Ticket /\ Known(x) /\ Sound(x, made[t]) /\ x # Unused
    BY <2>1, UsedKnown DEF EInv, Exports, Used
  <2>3. CASE x.engine # e
    <3>1. seq'[t] = x
      BY <2>1, <2>2, <2>3 DEF Stop
    <3>. QED
      BY <2>1, <2>2, <3>1
  <2>4. CASE x.engine = e
    <3>1. PICK s : s = CASE x.stage \in {"waiting", "running"} -> "failed"
                         [] x.stage = "resuming" -> "refused" [] OTHER -> x.stage
      OBVIOUS
    <3>2. s \in Stages /\ s # "resuming" /\ (s = "handed off" => x.stage = "handed off")
      BY <2>2, <3>1 DEF Known, Stages, Live, Gone
    <3>3. PICK y : y = [x EXCEPT !.stage = s]
      OBVIOUS
    <3>4. seq'[t] = y
      BY <2>1, <2>2, <2>4, <3>1, <3>3 DEF Stop
    <3>5. /\ y.resident = x.resident /\ y.next = x.next /\ y.engine = x.engine
          /\ y.ready = x.ready /\ y.exported_to = x.exported_to /\ y.last = x.last
          /\ y.stage = s /\ y.chain = x.chain
      BY <2>2, <3>3 DEF Known, Fields
    <3>6. Sound(y, made[t])
      BY <2>2, <3>2, <3>5, SoundStage
    <3>7. y # Unused
      <4>1. Unused.stage = "unused"
        BY DEF Unused
      <4>. QED
        BY <3>2, <3>5, <4>1 DEF Stages, Live, Gone
    <3>. QED
      BY <2>1, <3>2, <3>4, <3>5, <3>6, <3>7
  <2>. QED
    BY <2>3, <2>4
<1>3. Used' = Used
  <2>1. \A t \in Ticket : t \notin Used => seq'[t] = seq[t]
    BY DEF Stop
  <2>. QED
    BY <1>2, <2>1 DEF Used
<1>. QED
  BY <1>1, <1>2, <1>3, NothingExported

\* Every step keeps what was exported true.
LEMMA StepEInv == IInv /\ EInv /\ [Next]_vars => EInv'
<1>. SUFFICES ASSUME IInv, EInv, [Next]_vars PROVE EInv'
  OBVIOUS
<1>1. CASE \E r \in Requests, e \in Engines : Submit(r, e)
  BY <1>1, ESubmit
<1>2. CASE \E t \in Ticket : Start(t) \/ Decode(t) \/ Finish(t)
  BY <1>2, ESteady
<1>3. CASE \E t \in Ticket, kind \in {"delta", "handoff"} : Ask(t, kind)
  BY <1>3, EUnchanged DEF Ask
<1>4. ASSUME NEW e \in Engines, NEW i \in 1 .. Asked,
             \/ HangUp(e, i) \/ Refuse(e, i)
             \/ ServeDelta(e, i) \/ ServeHandoff(e, i) \/ ServeFails(e, i)
      PROVE  EInv'
  <2>1. CASE HangUp(e, i) \/ Refuse(e, i) \/ ServeFails(e, i)
    BY <2>1, EUnchanged DEF HangUp, Refuse, ServeFails
  <2>2. CASE ServeDelta(e, i) \/ ServeHandoff(e, i)
    BY <2>2, EServe
  <2>. QED
    BY <1>4, <2>1, <2>2
<1>5. CASE \E t \in Ticket, e \in Engines : Resume(t, e)
  BY <1>5, EResume
<1>6. CASE \E e \in Engines : AdmitResume(e) \/ Stop(e)
  BY <1>6, EAdmit, EStop
<1>7. CASE UNCHANGED vars
  BY <1>7, EUnchanged DEF vars
<1>. QED
  BY <1>1, <1>2, <1>3, <1>4, <1>5, <1>6, <1>7 DEF Next

-----------------------------------------------------------------------------
(* What is accepted.                                                       *)

\* A sequence that waits to be rebuilt goes on waiting but for its admission.
LEMMA OnlyAdmit ==
  ASSUME IInv, [Next]_vars, stopped' = stopped,
         NEW t \in Used, seq[t].stage = "resuming", seq'[t].stage # "resuming"
  PROVE  \E e \in Engines : AdmitResume(e) /\ t = Head(resumes[e])
<1>1. t \in Ticket /\ Known(seq[t]) /\ DOMAIN seq = Ticket
  BY UsedKnown DEF IInv, Typed
<1>2. seq'[t] # seq[t]
  OBVIOUS
<1>3. ASSUME NEW u, NEW y, seq' = [seq EXCEPT ![u] = y], u # t PROVE FALSE
  BY <1>1, <1>2, <1>3
<1>4. CASE \E r \in Requests, e \in Engines : Submit(r, e)
  <2>1. NewTicket \in Ticket /\ NewTicket # t
    BY <1>4, NewOne DEF Submit
  <2>. QED
    BY <1>3, <1>4, <2>1 DEF Submit
<1>5. CASE \E u \in Ticket : Start(u) \/ Decode(u) \/ Finish(u)
  <2>1. PICK u \in Ticket : Start(u) \/ Decode(u) \/ Finish(u)
    BY <1>5
  <2>2. u # t
    BY <2>1 DEF Start, Decode, Finish
  <2>3. \A v \in Ticket : v # u => seq'[v] = seq[v]
    BY <1>1, <2>1 DEF Start, Decode, Finish
  <2>. QED
    BY <1>1, <1>2, <2>2, <2>3
<1>6. CASE \E u \in Ticket, kind \in {"delta", "handoff"} : Ask(u, kind)
  BY <1>2, <1>6 DEF Ask
<1>7. ASSUME NEW e \in Engines, NEW i \in 1 .. Asked,
             \/ HangUp(e, i) \/ Refuse(e, i)
             \/ ServeDelta(e, i) \/ ServeHandoff(e, i) \/ ServeFails(e, i)
      PROVE  FALSE
  <2>1. CASE HangUp(e, i) \/ Refuse(e, i) \/ ServeFails(e, i)
    BY <1>2, <2>1 DEF HangUp, Refuse, ServeFails
  <2>2. CASE ServeDelta(e, i) \/ ServeHandoff(e, i)
    <3>1. PICK u : u = exports[e][i].ticket
      OBVIOUS
    <3>2. u # t
      BY <3>1, <2>2 DEF ServeDelta, ServeHandoff, Holder, Running
    <3>3. \A v \in Ticket : v # u => seq'[v] = seq[v]
      BY <1>1, <2>2, <3>1 DEF ServeDelta, ServeHandoff
    <3>. QED
      BY <1>1, <1>2, <3>2, <3>3
  <2>. QED
    BY <1>7, <2>1, <2>2
<1>8. CASE \E u \in Ticket, e \in Engines : Resume(u, e)
  <2>1. NewTicket \in Ticket /\ NewTicket # t
    BY <1>8, NewOne DEF Resume
  <2>2. PICK y : seq' = [seq EXCEPT ![NewTicket] = y]
    BY <1>8 DEF Resume
  <2>. QED
    BY <1>3, <2>1, <2>2
<1>9. ASSUME NEW e \in Engines, Stop(e) PROVE FALSE
  BY <1>9 DEF Stop
<1>10. CASE UNCHANGED vars
  BY <1>2, <1>10 DEF vars
<1>11. ASSUME NEW e \in Engines, AdmitResume(e) PROVE t = Head(resumes[e])
  <2>1. PICK u : u = Head(resumes[e])
    OBVIOUS
  <2>2. PICK y : seq' = [seq EXCEPT ![u] = y]
    BY <1>11, <2>1, Admitted, HeadResuming
  <2>. QED
    BY <1>3, <2>1, <2>2
<1>. QED
  BY <1>4, <1>5, <1>6, <1>7, <1>8, <1>9, <1>10, <1>11 DEF Next

\* The chains a sequence's engine accepts.
LEMMA AcceptsChain ==
  ASSUME IInv, EInv, NEW t \in Used
  PROVE  LET c == seq[t].chain
             e == seq[t].engine
         IN /\ Usable(t) <=> Exporters(t) # {} /\ Carried(c) \in 1 .. Context[e] - 1
            /\ Usable(t) => \A s \in Exporters(t) :
                 Rebuilt(c, e).resident = SubSeq(seq[s].resident, 1, Carried(c))
            /\ Usable(t) => c # << >> /\ IsOf(c[1], e)
<1>1. PICK B : Kinds(B)
  BY DEF EInv
<1>2. PICK c, e : c = seq[t].chain /\ e = seq[t].engine
  OBVIOUS
<1>3. /\ IsBlobs(B) /\ c \in Seq(B) /\ made \in [Ticket -> Seq(B)]
      /\ e \in Engines /\ Context[e] \in Nat /\ t \in Ticket
  BY <1>1, <1>2, UsedKnown, MigrationAssumption DEF Kinds, Known
<1>4. PICK n \in Nat : n = Len(c)
  BY <1>3
<1>5. PICK built : built = Rebuilt(c, e)
  OBVIOUS
<1>6. /\ built.ok <=> Linked(c, n, e)
      /\ built.ok => built.resident \in Seq(Cells) /\ Len(built.resident) = EndOf(c, n)
  BY <1>3, <1>4, <1>5, RebuiltLinked
<1>7. Usable(t) <=> built.ok /\ built.resident # << >> /\ Len(built.resident) < Context[e]
  BY <1>2, <1>5 DEF Usable
<1>8. \A s \in Used : s \in Ticket /\ made[s] \in Seq(B) /\ Sound(seq[s], made[s])
  BY <1>3, UsedKnown DEF EInv, Exports
<1>9. \A s : s \in Exporters(t) <=>
        /\ s \in Used /\ Weights[seq[s].engine] = Weights[e]
        /\ n <= Len(made[s]) /\ \A i \in 1 .. n : c[i] = made[s][i]
  <2>1. \A s \in Used : IsPrefix(c, made[s]) <=>
          n <= Len(made[s]) /\ \A i \in 1 .. n : c[i] = made[s][i]
    BY <1>3, <1>4, <1>8, PrefixIs
  <2>. QED
    BY <1>2, <2>1 DEF Exporters
<1>10. Carried(c) = EndOf(c, n)
  <2>1. c = << >> <=> n = 0
    BY <1>3, <1>4
  <2>. QED
    BY <1>4, <2>1 DEF Carried, EndOf, Last
<1>11. PICK k \in Nat : k = EndOf(c, n)
  <2>1. n \in 0 .. Len(c)
    BY <1>4
  <2>. QED
    BY <1>3, <2>1, EndNat
<1>12. ASSUME NEW s \in Exporters(t)
       PROVE  Linked(c, n, e) /\ Slices(c, n, seq[s].resident) /\ seq[s].resident \in Seq(Cells)
  <2>1. PICK m \in Seq(B) : m = made[s]
    BY <1>8, <1>9
  <2>2. Sound(seq[s], m) /\ n <= Len(m) /\ \A i \in 1 .. n : c[i] = m[i]
    BY <1>8, <1>9, <2>1
  <2>3. \A i \in 0 .. n : EndOf(c, i) = EndOf(m, i) /\ SealOf(c, i) = SealOf(m, i)
    <3>1. \A i \in 0 .. n : i = 0 \/ i \in 1 .. n
      OBVIOUS
    <3>. QED
      BY <2>2, <3>1 DEF EndOf, SealOf
  <2>4. ASSUME NEW i \in 1 .. n PROVE IsOf(c[i], e) /\ Follows(c, i)
    <3>1. i \in 1 .. Len(m) /\ i - 1 \in 0 .. n
      BY <2>2
    <3>2. IsOf(m[i], seq[s].engine) /\ Follows(m, i)
      BY <2>2, <3>1 DEF Sound
    <3>3. c[i] = m[i] /\ EndOf(c, i - 1) = EndOf(m, i - 1) /\ SealOf(c, i - 1) = SealOf(m, i - 1)
      BY <2>2, <2>3, <3>1
    <3>4. Follows(c, i)
      BY <3>2, <3>3 DEF Follows
    <3>. QED
      BY <1>9, <3>2, <3>3, <3>4 DEF IsOf, Copyable
  <2>5. ASSUME NEW i \in 1 .. n
        PROVE  /\ EndOf(c, i) <= Len(seq[s].resident)
               /\ c[i].tokens = SubSeq(seq[s].resident, c[i].base_pos + 1, EndOf(c, i))
    <3>1. i \in 1 .. Len(m) /\ i \in 0 .. n
      BY <2>2
    <3>2. /\ EndOf(m, i) <= Len(seq[s].resident)
          /\ m[i].tokens = SubSeq(seq[s].resident, m[i].base_pos + 1, EndOf(m, i))
      BY <2>2, <3>1 DEF Sound, Slices
    <3>3. c[i] = m[i] /\ EndOf(c, i) = EndOf(m, i)
      BY <2>2, <2>3, <3>1
    <3>. QED
      BY <3>2, <3>3
  <2>6. seq[s].resident \in Seq(Cells)
    BY <2>2 DEF Sound
  <2>. QED
    BY <2>4, <2>5, <2>6 DEF Linked, Slices
<1>13. ASSUME built.ok, n # 0 PROVE Exporters(t) # {}
  <2>1. \A i \in 1 .. n : IsOf(c[i], e) /\ Follows(c, i)
    BY <1>6, <1>13 DEF Linked
  <2>2. PICK u \in Ticket : \E j \in 1 .. Len(made[u]) : c[n] = made[u][j]
    <3>1. n \in 1 .. Len(c)
      BY <1>4, <1>13
    <3>2. OfSome(c[n], made)
      BY <1>2, <3>1 DEF EInv, Received
    <3>. QED
      BY <3>2 DEF OfSome
  <2>0. PICK j \in 1 .. Len(made[u]) : c[n] = made[u][j]
    BY <2>2
  <2>3. u \in Used
    <3>1. made[u] # << >>
      BY <1>3, <2>0
    <3>. QED
      BY <3>1 DEF EInv, Untouched
  <2>4. PICK w \in Seq(B) : w = made[u]
    BY <1>8, <2>3
  <2>5. \A i \in 1 .. Len(w) : Follows(w, i)
    BY <1>8, <2>3, <2>4 DEF Sound
  <2>6. c # << >> /\ \A i \in 1 .. Len(c) : Follows(c, i)
    BY <1>3, <1>4, <1>13, <2>1
  <2>7. j \in 1 .. Len(w) /\ c[Len(c)] = w[j]
    BY <1>4, <2>0, <2>4
  <2>8. Len(c) <= Len(w) /\ \A i \in 1 .. Len(c) : c[i] = w[i]
    BY <1>3, <2>5, <2>6, <2>7, Traced
  <2>10. n <= Len(made[u]) /\ \A i \in 1 .. n : c[i] = made[u][i]
    BY <1>4, <2>4, <2>8
  <2>11. Weights[seq[u].engine] = Weights[e]
    <3>1. IsOf(made[u][j], seq[u].engine)
      BY <1>8, <2>0, <2>3 DEF Sound
    <3>2. IsOf(c[n], e)
      BY <1>13, <2>1
    <3>. QED
      BY <2>0, <3>1, <3>2 DEF IsOf
  <2>. QED
    BY <1>9, <2>3, <2>10, <2>11
<1>14. built.ok => (built.resident # << >> <=> k # 0) /\ Len(built.resident) = k
  BY <1>6, <1>11
<1>15. k # 0 => n # 0
  BY <1>11 DEF EndOf
<1>16. Usable(t) <=> Exporters(t) # {} /\ k \in 1 .. Context[e] - 1
  <2>1. ASSUME Usable(t) PROVE Exporters(t) # {} /\ k \in 1 .. Context[e] - 1
    BY <1>3, <1>7, <1>13, <1>14, <1>15, <2>1
  <2>2. ASSUME Exporters(t) # {}, k \in 1 .. Context[e] - 1 PROVE Usable(t)
    <3>1. built.ok
      BY <1>6, <1>12, <2>2
    <3>. QED
      BY <1>3, <1>7, <1>14, <2>2, <3>1
  <2>. QED
    BY <2>1, <2>2
<1>17. ASSUME Usable(t), NEW s \in Exporters(t)
       PROVE  built.resident = SubSeq(seq[s].resident, 1, k)
  <2>1. PICK r \in Seq(Cells) : r = seq[s].resident /\ Slices(c, n, r)
    BY <1>12
  <2>2. Rebuilt(c, e).ok
    BY <1>5, <1>7, <1>17
  <2>. QED
    BY <1>3, <1>4, <1>5, <1>11, <2>1, <2>2, RebuiltSlices
<1>18. ASSUME Usable(t) PROVE c # << >> /\ IsOf(c[1], e)
  <2>1. built.ok /\ n # 0
    BY <1>7, <1>14, <1>15, <1>18
  <2>2. 1 \in 1 .. n
    BY <2>1
  <2>. QED
    BY <1>3, <1>4, <1>6, <2>1, <2>2 DEF Linked
<1>. QED
  BY <1>2, <1>5, <1>10, <1>11, <1>16, <1>17, <1>18

\* admit_resume rebuilds only chains that are the first blobs of one sequence of
\* its weights and leave room, to what that sequence had then, and the chain that
\* is all a hand-off gave its client to the sequence that was handed off; its
\* checks refuse no such chain.
THEOREM Continued == Spec => AcceptsWhole
<1>1. ASSUME IInv, EInv, [Next]_vars, NEW t \in Used, seq[t].stage = "resuming",
             stopped' = stopped, seq'[t].stage # "resuming"
      PROVE  LET n == Carried(seq[t].chain)
                 whole == Exporters(t) # {} /\ n \in 1 .. Context[seq[t].engine] - 1
                 resumed == seq'[t].stage = "running"
             IN /\ resumed => whole
                /\ seq'[t].stage = "refused" => ~whole
                /\ resumed => \A s \in Exporters(t) :
                     seq'[t].resident = SubSeq(seq[s].resident, 1, n)
                /\ resumed /\ seq[t].chain = made[seq[t].from] =>
                     /\ seq'[t].resident = seq[seq[t].from].resident
                     /\ seq'[t].next = seq[seq[t].from].next
  <2>1. PICK e \in Engines : AdmitResume(e) /\ t = Head(resumes[e])
    BY <1>1, OnlyAdmit
  <2>2. seq[t].engine = e /\ Known(seq[t]) /\ t \in Ticket /\ DOMAIN seq = Ticket
    BY <1>1, <2>1, HeadResuming, UsedKnown DEF IInv, Typed
  <2>3. PICK c, x, from, n : c = x.chain /\ x = seq[t] /\ from = x.from /\ n = Carried(c)
    OBVIOUS
  <2>4. PICK res : res = Rebuilt(c, e).resident
    OBVIOUS
  <2>5. /\ Usable(t) <=> Exporters(t) # {} /\ n \in 1 .. Context[e] - 1
        /\ Usable(t) => \A s \in Exporters(t) : res = SubSeq(seq[s].resident, 1, n)
        /\ Usable(t) => c # << >> /\ IsOf(c[1], e)
    BY <1>1, <2>2, <2>3, <2>4, AcceptsChain
  <2>6. seq'[t].stage = "running" =>
          Usable(t) /\ seq'[t].resident = res /\ seq'[t].next = x.next
    <3>1. CASE /\ Usable(t)
               /\ seq' = [seq EXCEPT ![t].stage = "running", ![t].ready = TRUE, ![t].resident = res]
      <4>1. seq'[t] = [x EXCEPT !.stage = "running", !.ready = TRUE, !.resident = res]
        BY <2>2, <2>3, <3>1
      <4>. QED
        BY <2>2, <2>3, <3>1, <4>1 DEF Known, Fields
    <3>2. CASE \E g \in Gone : seq' = [seq EXCEPT ![t].stage = g]
      <4>1. PICK g \in Gone : seq' = [seq EXCEPT ![t].stage = g]
        BY <3>2
      <4>2. seq'[t].stage = g
        BY <2>2, <4>1 DEF Known, Fields
      <4>. QED
        BY <4>1, <4>2 DEF Gone
    <3>. QED
      BY <2>1, <2>3, <2>4, <3>1, <3>2 DEF AdmitResume, Gone
  <2>7. seq'[t].stage = "refused" => ~Usable(t)
    <3>1. ASSUME NEW g, seq' = [seq EXCEPT ![t].stage = g] PROVE seq'[t].stage = g
      BY <2>2, <3>1 DEF Known, Fields
    <3>2. CASE ~Usable(t)
      BY <3>2
    <3>3. CASE seq' = [seq EXCEPT ![t].stage = "rejected"]
      BY <3>1, <3>3
    <3>4. CASE \E r : seq' = [seq EXCEPT ![t].stage = "running", ![t].ready = TRUE,
                                       ![t].resident = r]
      BY <2>2, <3>4 DEF Known, Fields
    <3>. QED
      BY <2>1, <3>2, <3>3, <3>4 DEF AdmitResume
  <2>9. ASSUME Usable(t), c = made[from]
        PROVE  res = seq[from].resident /\ x.next = seq[from].next
    <3>1. from \in Used /\ seq[from].stage = "handed off" /\ x.next = seq[from].next
      BY <1>1, <2>3, FromHanded DEF EInv, Continues
    <3>2. PICK B : Kinds(B)
      BY <1>1 DEF EInv
    <3>3. PICK m \in Seq(B) : m = made[from]
      BY <3>1, <3>2, UsedKnown, <1>1 DEF Kinds
    <3>4. Sound(seq[from], m)
      BY <1>1, <3>1, <3>3 DEF EInv, Exports
    <3>5. m # << >> /\ IsOf(m[1], e)
      BY <2>5, <2>9, <3>3
    <3>6. Weights[seq[from].engine] = Weights[e]
      <4>1. 1 \in 1 .. Len(m)
        BY <3>5
      <4>. QED
        BY <3>4, <3>5, <4>1 DEF Sound, IsOf
    <3>7. from \in Exporters(t)
      <4>1. IsPrefix(c, m)
        BY <2>9, <3>3, PrefixIs
      <4>. QED
        BY <2>2, <2>3, <3>1, <3>3, <3>6, <4>1 DEF Exporters
    <3>8. res = SubSeq(seq[from].resident, 1, n)
      BY <2>5, <2>9, <3>7
    <3>9. PICK r \in Seq(Cells) : r = seq[from].resident
      BY <3>4 DEF Sound
    <3>10. n = Len(r)
      <4>1. n = EndOf(m, Len(m))
        BY <2>3, <2>9, <3>3, <3>5 DEF Carried, EndOf, Last
      <4>2. seq[from].exported_to = EndOf(m, Len(m)) /\ seq[from].exported_to = Len(r)
        BY <3>1, <3>4, <3>9 DEF Sound
      <4>. QED
        BY <4>1, <4>2
    <3>11. SubSeq(r, 1, Len(r)) = r
      OBVIOUS
    <3>. QED
      BY <3>1, <3>8, <3>9, <3>10, <3>11
  <2>. QED
    BY <2>2, <2>3, <2>5, <2>6, <2>7, <2>9
<1>2. IInv /\ EInv /\ [Next]_vars =>
        [\A t \in Used : seq[t].stage = "resuming" /\ UNCHANGED stopped =>
           LET n == Carried(seq[t].chain)
               whole == Exporters(t) # {} /\ n \in 1 .. Context[seq[t].engine] - 1
               resumed == seq'[t].stage = "running"
           IN seq'[t].stage # "resuming" =>
              /\ resumed => whole
              /\ seq'[t].stage = "refused" => ~whole
              /\ resumed => \A s \in Exporters(t) :
                   seq'[t].resident = SubSeq(seq[s].resident, 1, n)
              /\ resumed /\ seq[t].chain = made[seq[t].from] =>
                   /\ seq'[t].resident = seq[seq[t].from].resident
                   /\ seq'[t].next = seq[seq[t].from].next]_vars
  BY <1>1
<1>. QED
  BY InitIInv, StepIInv, InitEInv, StepEInv, <1>2, PTL DEF Spec, AcceptsWhole
=============================================================================
