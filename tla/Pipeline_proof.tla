---------------------------- MODULE Pipeline_proof ----------------------------
(***************************************************************************)
(* Proofs about Pipeline, for any number of stages, micro-batches, calls   *)
(* and any room in the links.  Four arguments, each on those before it.    *)
(*                                                                         *)
(* Types: a call takes Chunks + Steps tickets at most (Spent), which keeps *)
(* every ticket in Tickets.                                                *)
(*                                                                         *)
(* Blame: no link closes and nothing is reported before a stage failed     *)
(* (Chain).  Where the open links end from then on is the stage that       *)
(* failed, or the report of it is already ahead (Heard): so whatever else  *)
(* is reported comes up behind that report (Sound), and the first the      *)
(* driver takes names the stage that failed.                               *)
(*                                                                         *)
(* One place: tickets ascend from the last stage to the driver             *)
(* (Ascending), so a ticket on its way down is at one place; it is not on  *)
(* its way up as well, and what comes up is in flight (Alone).  While no   *)
(* stage has failed every thread runs (Alive) and none is lost (Kept).     *)
(* Steps are stated by what they do to places (Shifted, Grown, BackSent),  *)
(* so that each argument is about places and not about sequences.          *)
(*                                                                         *)
(* The rows of a call: what stands between the driver and a stage tells    *)
(* what the stage will hold when a frame comes.  A truncate comes before   *)
(* the first ticket of a call and behind the rows of all calls before      *)
(* (Cleared, Parted); a ticket of the call that a stage will lack was      *)
(* refused by some stage (Accounted).  So an answer over a part of the     *)
(* sequence comes after a failure of the same call (Flags) that the call   *)
(* has not collected (Collected), and is not the answer it waits for.      *)
(***************************************************************************)
EXTENDS Pipeline, NatFacts

\* The tickets of one call.
Each == Chunks + Steps

\* Products keep order.
LEMMA Products ==
  \A m, n, e \in Nat : m <= n => m * e <= n * e
  OBVIOUS

\* Counting in batches of e: an earlier batch ends before a later one.
LEMMA Batches ==
  ASSUME NEW n \in Nat, NEW m \in Nat, NEW e \in Nat, n < m
  PROVE  n * e + e <= m * e /\ n * e \in Nat /\ m * e \in Nat
<1>1. n + 1 \in Nat /\ n + 1 <= m
  OBVIOUS
<1>2. (n + 1) * e <= m * e
  BY <1>1, Products
<1>3. (n + 1) * e = n * e + e
  OBVIOUS
<1>. QED
  BY <1>2, <1>3

\* Tickets are given out run by run.
Spent ==
  /\ Len(starts) <= Runs
  /\ \A n \in 1 .. Len(starts) : starts[n] <= (n - 1) * Each
  /\ next_ticket <= Len(starts) * Each
  /\ call.at = "run" =>
       /\ starts # << >> /\ next_ticket = starts[Len(starts)] + call.sent
       /\ call.got <= call.sent

\* TypeOK in parts.
TypedDriver ==
  /\ down \in BOOLEAN /\ failed \in 0 .. Last
  /\ culprit \in 0 .. Last /\ astray \in BOOLEAN
  /\ pending \subseteq Tickets /\ done \subseteq Answers
  /\ \A a \in done : a.ticket < next_ticket /\ a.ticket \notin pending
  /\ next_ticket \in Nat /\ starts \in Seq(0 .. next_ticket)
  /\ call \in [at : {"idle", "run", "refused", "drain", "dropped"},
               sent : 0 .. Chunks + Steps, got : 0 .. Chunks + Steps]

TypedFrames ==
  /\ inbox \in Seq(UpFrames \cup {Closed})
  /\ q \in [Stages -> Seq(DownFrames)] /\ up \in [Stages -> Seq(UpFrames)]
  /\ \A i \in Stages : Len(up[i]) <= Socket

TypedStages ==
  /\ link \in [Stages -> BOOLEAN] /\ serving \in [Stages -> BOOLEAN]
  /\ lost \in [Stages -> BOOLEAN]
  /\ writer \in [0 .. Last - 1 -> BOOLEAN] /\ relay \in [0 .. Last - 1 -> BOOLEAN]
  /\ cache \in [0 .. Last -> SUBSET Tickets]

\* A ticket in flight was given out.
Below == \A t \in pending : t < next_ticket

\* The type invariant in parts: the driver's state, the frames, the stages.
LEMMA Split == TypeOK <=> TypedDriver /\ TypedFrames /\ TypedStages
  BY DEF TypeOK, TypedDriver, TypedFrames, TypedStages

\* A micro-batch is submitted only within its call's share of the tickets.
LEMMA TicketFits ==
  ASSUME TypeOK, Spent, Submits
  PROVE  next_ticket \in Tickets /\ next_ticket + 1 <= Len(starts) * Each
<1>1. PICK n \in Nat : n = Len(starts) - 1 /\ Len(starts) \in Nat /\ Len(starts) \in 1 .. Len(starts)
  <2>1. starts # << >> /\ starts \in Seq(0 .. next_ticket)
    BY DEF TypeOK, Spent, Submits
  <2>. QED
    BY <2>1
<1>2. starts[Len(starts)] <= n * Each /\ starts[Len(starts)] \in Nat
  BY <1>1 DEF Spent, TypeOK
<1>3. n * Each + Each <= Len(starts) * Each /\ Each \in Nat
  BY <1>1, Batches, PipelineAssumption DEF Each
<1>4. Len(starts) * Each <= Runs * Each /\ n * Each \in Nat /\ Len(starts) * Each \in Nat /\ Runs * Each \in Nat
  <2>1. Len(starts) <= Runs /\ Runs \in Nat
    BY PipelineAssumption DEF Spent
  <2>2. PICK l \in Nat, r \in Nat, e \in Nat : l = Len(starts) /\ r = Runs /\ e = Each
    BY <1>1, <1>3, <2>1
  <2>3. l * e <= r * e /\ n * e \in Nat /\ l * e \in Nat /\ r * e \in Nat
    BY <2>1, <2>2, Products
  <2>. QED
    BY <2>2, <2>3
<1>5. next_ticket = starts[Len(starts)] + call.sent /\ call.sent < Each /\ call.sent \in Nat /\ next_ticket \in Nat
  BY PipelineAssumption DEF Spent, Submits, TypeOK, Each
<1>6. next_ticket + 1 <= Len(starts) * Each
  BY <1>1, <1>2, <1>3, <1>4, <1>5
<1>7. next_ticket <= Runs * Each - 1
  BY <1>1, <1>6, <1>4, <1>5
<1>8. \A t \in Nat : t <= Runs * Each - 1 => t \in Tickets
  BY <1>4, PipelineAssumption DEF Tickets, Each
<1>. QED
  BY <1>5, <1>6, <1>7, <1>8

\* No ticket is ALL_TICKETS.
LEMMA TicketTypes ==
  /\ Tickets \subseteq Nat /\ All \notin Tickets /\ All \in Int /\ \A t \in Nat : t # All
  BY DEF All, Tickets

\* Frames on the way down, and what their kinds say.
LEMMA DownTypes ==
  /\ \A t \in Tickets, w \in BOOLEAN : Forward(t, w) \in DownFrames
  /\ Truncate \in DownFrames
  /\ \A f \in DownFrames : f.kind = "forward" => f.ticket \in Tickets /\ f.whole \in BOOLEAN /\ f = Forward(f.ticket, f.whole)
  /\ \A f \in DownFrames : f.kind \in {"forward", "truncate"}
  BY DEF DownFrames, Forward, Truncate

\* Frames on the way up.
LEMMA UpTypes ==
  /\ \A t \in Tickets, w \in BOOLEAN : Logits(t, w) \in UpFrames /\ Logits(t, w) \in Answers
  /\ \A t \in Tickets, i \in Stages : Failure(t, i) \in UpFrames
  /\ \A i \in Stages : Failure(All, i) \in UpFrames
  BY DEF UpFrames, Answers

\* An answer is a failure of a stage or logits, to a ticket.
LEMMA AnswerTypes ==
  \A f \in Answers :
    /\ f \in UpFrames /\ f.ticket \in Tickets /\ f.kind \in {"logits", "failure"}
    /\ f.kind = "failure" => f.stage \in Stages /\ f = Failure(f.ticket, f.stage)
    /\ f.kind = "logits" => f.whole \in BOOLEAN /\ f = Logits(f.ticket, f.whole)
<1>. SUFFICES ASSUME NEW f \in Answers
     PROVE /\ f \in UpFrames /\ f.ticket \in Tickets /\ f.kind \in {"logits", "failure"}
           /\ f.kind = "failure" => f.stage \in Stages /\ f = Failure(f.ticket, f.stage)
           /\ f.kind = "logits" => f.whole \in BOOLEAN /\ f = Logits(f.ticket, f.whole)
  OBVIOUS
<1>1. f \in UpFrames
  BY DEF UpFrames
<1>2. CASE \E t \in Tickets, w \in BOOLEAN : f = Logits(t, w)
  BY <1>1, <1>2 DEF Logits
<1>3. CASE \E t \in Tickets, i \in Stages : f = Failure(t, i)
  BY <1>1, <1>3 DEF Failure
<1>. QED
  BY <1>2, <1>3 DEF Answers

\* What is no answer on the way up blames a stage for every ticket.
LEMMA FrameTypes ==
  \A f \in UpFrames :
    /\ f \in Answers \/ f.ticket = All
    /\ f.ticket = All => f.kind = "failure" /\ f.stage \in Stages /\ f = Failure(All, f.stage)
    /\ f.kind \in {"logits", "failure"} /\ f.ticket \in Tickets \cup {All}
<1>. SUFFICES ASSUME NEW f \in UpFrames
     PROVE /\ f \in Answers \/ f.ticket = All
           /\ f.ticket = All => f.kind = "failure" /\ f.stage \in Stages /\ f = Failure(All, f.stage)
           /\ f.kind \in {"logits", "failure"} /\ f.ticket \in Tickets \cup {All}
  OBVIOUS
<1>1. CASE f \in Answers
  BY <1>1, AnswerTypes, TicketTypes
<1>2. CASE \E i \in Stages : f = Failure(All, i)
  BY <1>2 DEF Failure
<1>. QED
  BY <1>1, <1>2 DEF UpFrames

\* The item for a closed link is no frame.
LEMMA ClosedType == Closed.kind = "closed" /\ Closed \notin UpFrames
<1>1. Closed.kind = "closed"
  BY DEF Closed
<1>. QED
  BY <1>1, FrameTypes

\* Whole holds or does not.
LEMMA WholeTypes == \A i, t : Whole(i, t) \in BOOLEAN
  BY DEF Whole

\* Taking the first of a sequence and putting one after the last.
LEMMA TailIs ==
  ASSUME NEW L, NEW s \in Seq(L), s # << >>
  PROVE  /\ Tail(s) \in Seq(L) /\ Len(Tail(s)) = Len(s) - 1 /\ Len(s) \in Nat \ {0}
         /\ \A k \in 1 .. Len(s) - 1 : Tail(s)[k] = s[k + 1]
         /\ Head(s) \in L /\ Head(s) = s[1]
<1>1. Len(s) \in Nat \ {0} /\ Head(s) = s[1]
  OBVIOUS
<1>. QED
  BY <1>1, HeadTailProperties

\* One more after the last.
LEMMA AppendIs ==
  ASSUME NEW L, NEW s \in Seq(L), NEW x \in L
  PROVE  /\ Append(s, x) \in Seq(L) /\ Len(Append(s, x)) = Len(s) + 1 /\ Len(s) \in Nat
         /\ \A k \in 1 .. Len(s) : Append(s, x)[k] = s[k]
         /\ Append(s, x)[Len(s) + 1] = x
  BY AppendProperties

\* A sequence without its first ones.
LEMMA SuffixIs ==
  ASSUME NEW L, NEW s \in Seq(L), NEW n \in 1 .. Len(s) + 1
  PROVE  /\ SubSeq(s, n, Len(s)) \in Seq(L)
         /\ Len(SubSeq(s, n, Len(s))) = Len(s) - n + 1 /\ Len(s) \in Nat
         /\ \A k \in 1 .. Len(s) - n + 1 : SubSeq(s, n, Len(s))[k] = s[n + k - 1]
<1>1. Len(s) \in Nat /\ \A k \in n .. Len(s) : s[k] \in L
  OBVIOUS
<1>2. n \in Int /\ n >= 1 /\ n <= Len(s) + 1
  BY <1>1
<1>3. n .. Len(s) \subseteq 1 .. Len(s)
  BY <1>1, <1>2
<1>. QED
  BY <1>1, <1>2, <1>3, SubSeqProperties

\* The queues after a frame is added, taken, or passed on.
LEMMA SendsQ ==
  ASSUME TypedFrames, NEW f \in DownFrames, NEW i \in Stages, NEW r, r = [q EXCEPT ![i] = Append(@, f)]
  PROVE  /\ r \in [Stages -> Seq(DownFrames)]
         /\ \A j \in Stages : j # i => r[j] = q[j]
         /\ r[i] = Append(q[i], f) /\ Len(r[i]) = Len(q[i]) + 1 /\ Len(q[i]) \in Nat
         /\ \A k \in 1 .. Len(q[i]) : r[i][k] = q[i][k]
         /\ r[i][Len(q[i]) + 1] = f
<1>1. q[i] \in Seq(DownFrames) /\ q \in [Stages -> Seq(DownFrames)]
  BY DEF TypedFrames
<1>2. r[i] = Append(q[i], f) /\ \A j \in Stages : j # i => r[j] = q[j]
  BY <1>1
<1>3. r[i] \in Seq(DownFrames)
  BY <1>1, <1>2, AppendIs
<1>. QED
  BY <1>1, <1>2, <1>3, AppendIs

\* A stage takes the first frame on its way to it.
LEMMA TakesQ ==
  ASSUME TypedFrames, NEW i \in Stages, q[i] # << >>
  PROVE  /\ Took(i) \in [Stages -> Seq(DownFrames)]
         /\ \A j \in Stages : j # i => Took(i)[j] = q[j]
         /\ Len(Took(i)[i]) = Len(q[i]) - 1 /\ Len(q[i]) \in Nat \ {0}
         /\ \A k \in 1 .. Len(q[i]) - 1 : Took(i)[i][k] = q[i][k + 1]
         /\ Frame(i) \in DownFrames /\ Frame(i) = q[i][1]
<1>1. q[i] \in Seq(DownFrames) /\ q \in [Stages -> Seq(DownFrames)]
  BY DEF TypedFrames
<1>2. Took(i)[i] = Tail(q[i]) /\ \A j \in Stages : j # i => Took(i)[j] = q[j]
  BY <1>1 DEF Took
<1>3. Took(i)[i] \in Seq(DownFrames)
  BY <1>1, <1>2, TailIs
<1>. QED
  BY <1>1, <1>2, <1>3, TailIs DEF Took, Frame

PassedOn(r, i, f) ==
  /\ i + 1 \in Stages
  /\ r \in [Stages -> Seq(DownFrames)]
  /\ \A j \in Stages : j # i /\ j # i + 1 => r[j] = q[j]
  /\ Len(r[i]) = Len(q[i]) - 1 /\ Len(q[i]) \in Nat \ {0}
  /\ \A k \in 1 .. Len(q[i]) - 1 : r[i][k] = q[i][k + 1]
  /\ Len(r[i + 1]) = Len(q[i + 1]) + 1 /\ Len(q[i + 1]) \in Nat
  /\ \A k \in 1 .. Len(q[i + 1]) : r[i + 1][k] = q[i + 1][k]
  /\ r[i + 1][Len(q[i + 1]) + 1] = f

\* A stage takes a frame and passes one on.
LEMMA PassesQ ==
  ASSUME TypedFrames, NEW i \in Stages, i < Last, q[i] # << >>, NEW f \in DownFrames
  PROVE  PassedOn(Passed(i, f), i, f)
<1>0. i + 1 \in Stages /\ i + 1 # i
  BY PipelineAssumption DEF Stages
<1>1. q[i + 1] \in Seq(DownFrames)
  BY <1>0 DEF TypedFrames
<1>2. PICK t : t = Took(i)
  OBVIOUS
<1>3. t \in [Stages -> Seq(DownFrames)] /\ t[i + 1] = q[i + 1]
  BY <1>0, <1>2, TakesQ
<1>4. Passed(i, f) = [t EXCEPT ![i + 1] = Append(@, f)]
  BY <1>2 DEF Passed
<1>5. /\ Passed(i, f)[i + 1] = Append(q[i + 1], f)
      /\ \A j \in Stages : j # i + 1 => Passed(i, f)[j] = t[j]
  BY <1>0, <1>3, <1>4
<1>6. Passed(i, f)[i + 1] \in Seq(DownFrames)
  BY <1>1, <1>5, AppendIs
<1>7. Passed(i, f) \in [Stages -> Seq(DownFrames)]
  BY <1>0, <1>3, <1>4, <1>5, <1>6
<1>8. /\ Len(Passed(i, f)[i + 1]) = Len(q[i + 1]) + 1 /\ Len(q[i + 1]) \in Nat
      /\ \A k \in 1 .. Len(q[i + 1]) : Passed(i, f)[i + 1][k] = q[i + 1][k]
      /\ Passed(i, f)[i + 1][Len(q[i + 1]) + 1] = f
  BY <1>1, <1>5, AppendIs
<1>9. Passed(i, f)[i] = t[i]
  BY <1>0, <1>5
<1>. QED
  BY <1>0, <1>2, <1>5, <1>7, <1>8, <1>9, TakesQ DEF PassedOn

\* A stage that ends loses the first frames on their way to it.
LEMMA LosesQ ==
  ASSUME TypedFrames, NEW i \in Stages, LosesSome(i)
  PROVE  /\ q' \in [Stages -> Seq(DownFrames)]
         /\ \A j \in Stages : j # i => q'[j] = q[j]
         /\ \E n \in 1 .. Len(q[i]) + 1 :
              /\ Len(q'[i]) = Len(q[i]) - n + 1 /\ Len(q[i]) \in Nat
              /\ \A k \in 1 .. Len(q[i]) - n + 1 : q'[i][k] = q[i][n + k - 1]
<1>1. q[i] \in Seq(DownFrames) /\ q \in [Stages -> Seq(DownFrames)]
  BY DEF TypedFrames
<1>2. Len(q[i]) \in Nat
  BY <1>1
<1>3. CASE q' = q
  <2>1. \A n \in Nat : n - 1 + 1 = n /\ (\A k \in 1 .. n : 1 + k - 1 = k) /\ 1 \in 1 .. n + 1
    OBVIOUS
  <2>. QED
    BY <1>1, <1>2, <1>3, <2>1
<1>4. CASE q' = [q EXCEPT ![i] = << >>]
  <2>1. q'[i] = << >> /\ Len(q'[i]) = 0 /\ << >> \in Seq(DownFrames) /\ \A j \in Stages : j # i => q'[j] = q[j]
    BY <1>1, <1>4
  <2>2. q' \in [Stages -> Seq(DownFrames)]
    BY <1>1, <1>4, <2>1
  <2>3. \A n \in Nat : n - (n + 1) + 1 = 0 /\ 1 .. n - (n + 1) + 1 = {} /\ n + 1 \in 1 .. n + 1
    OBVIOUS
  <2>. QED
    BY <1>2, <2>1, <2>2, <2>3
<1>. QED
  BY <1>3, <1>4 DEF LosesSome

\* The frames sent up after one is added, read, or relayed.
LEMMA SendsUp ==
  ASSUME TypedFrames, NEW f \in UpFrames, NEW i \in Stages, Len(up[i]) < Socket,
         NEW r, r = [up EXCEPT ![i] = Append(@, f)]
  PROVE  /\ r \in [Stages -> Seq(UpFrames)] /\ \A j \in Stages : Len(r[j]) <= Socket
         /\ \A j \in Stages : j # i => r[j] = up[j]
         /\ Len(r[i]) = Len(up[i]) + 1 /\ Len(up[i]) \in Nat
         /\ \A k \in 1 .. Len(up[i]) : r[i][k] = up[i][k]
         /\ r[i][Len(up[i]) + 1] = f
<1>1. up[i] \in Seq(UpFrames) /\ up \in [Stages -> Seq(UpFrames)]
  BY DEF TypedFrames
<1>2. r[i] = Append(up[i], f) /\ \A j \in Stages : j # i => r[j] = up[j]
  BY <1>1
<1>3. r[i] \in Seq(UpFrames) /\ Len(r[i]) = Len(up[i]) + 1 /\ Len(up[i]) \in Nat
  BY <1>1, <1>2, AppendIs
<1>4. r \in [Stages -> Seq(UpFrames)]
  BY <1>1, <1>3
<1>5. \A j \in Stages : Len(r[j]) <= Socket
  BY <1>2, <1>3, PipelineAssumption DEF TypedFrames
<1>. QED
  BY <1>1, <1>2, <1>3, <1>4, <1>5, AppendIs

\* The first frame sent up a link is taken.
LEMMA TakesUp ==
  ASSUME TypedFrames, NEW i \in Stages, up[i] # << >>, NEW r, r = [up EXCEPT ![i] = Tail(@)]
  PROVE  /\ r \in [Stages -> Seq(UpFrames)] /\ \A j \in Stages : Len(r[j]) <= Socket
         /\ \A j \in Stages : j # i => r[j] = up[j]
         /\ Len(r[i]) = Len(up[i]) - 1 /\ Len(up[i]) \in Nat \ {0}
         /\ \A k \in 1 .. Len(up[i]) - 1 : r[i][k] = up[i][k + 1]
         /\ Head(up[i]) \in UpFrames /\ Head(up[i]) = up[i][1]
<1>1. up[i] \in Seq(UpFrames) /\ up \in [Stages -> Seq(UpFrames)]
  BY DEF TypedFrames
<1>2. r[i] = Tail(up[i]) /\ \A j \in Stages : j # i => r[j] = up[j]
  BY <1>1
<1>3. r[i] \in Seq(UpFrames) /\ Len(r[i]) = Len(up[i]) - 1 /\ Len(up[i]) \in Nat \ {0}
  BY <1>1, <1>2, TailIs
<1>4. r \in [Stages -> Seq(UpFrames)]
  BY <1>1, <1>3
<1>5. \A j \in Stages : Len(r[j]) <= Socket
  BY <1>2, <1>3, PipelineAssumption DEF TypedFrames
<1>. QED
  BY <1>1, <1>2, <1>3, <1>4, <1>5, TailIs

Relayed(r, i) ==
  /\ i + 1 \in Stages
  /\ r \in [Stages -> Seq(UpFrames)] /\ \A j \in Stages : Len(r[j]) <= Socket
  /\ \A j \in Stages : j # i /\ j # i + 1 => r[j] = up[j]
  /\ Len(r[i]) = Len(up[i]) + 1 /\ Len(up[i]) \in Nat
  /\ \A k \in 1 .. Len(up[i]) : r[i][k] = up[i][k]
  /\ r[i][Len(up[i]) + 1] = up[i + 1][1] /\ up[i + 1][1] \in UpFrames
  /\ Len(r[i + 1]) = Len(up[i + 1]) - 1 /\ Len(up[i + 1]) \in Nat \ {0}
  /\ \A k \in 1 .. Len(up[i + 1]) - 1 : r[i + 1][k] = up[i + 1][k + 1]

\* A stage passes on the first of what comes up to it.
LEMMA RelaysUp ==
  ASSUME TypedFrames, NEW i \in Stages, i < Last, up[i + 1] # << >>, Len(up[i]) < Socket,
         NEW r, r = [up EXCEPT ![i] = Append(@, Head(up[i + 1])), ![i + 1] = Tail(@)]
  PROVE  Relayed(r, i)
<1>0. i + 1 \in Stages /\ i + 1 # i
  BY PipelineAssumption DEF Stages
<1>1. up[i] \in Seq(UpFrames) /\ up[i + 1] \in Seq(UpFrames) /\ up \in [Stages -> Seq(UpFrames)]
  BY <1>0 DEF TypedFrames
<1>2. /\ r[i] = Append(up[i], Head(up[i + 1])) /\ r[i + 1] = Tail(up[i + 1])
      /\ \A j \in Stages : j # i /\ j # i + 1 => r[j] = up[j]
  BY <1>0, <1>1
<1>3. /\ Tail(up[i + 1]) \in Seq(UpFrames) /\ Len(Tail(up[i + 1])) = Len(up[i + 1]) - 1
      /\ Len(up[i + 1]) \in Nat \ {0} /\ Head(up[i + 1]) \in UpFrames /\ Head(up[i + 1]) = up[i + 1][1]
      /\ \A k \in 1 .. Len(up[i + 1]) - 1 : Tail(up[i + 1])[k] = up[i + 1][k + 1]
  BY <1>1, TailIs
<1>4. /\ r[i] \in Seq(UpFrames) /\ Len(r[i]) = Len(up[i]) + 1 /\ Len(up[i]) \in Nat
      /\ \A k \in 1 .. Len(up[i]) : r[i][k] = up[i][k]
      /\ r[i][Len(up[i]) + 1] = Head(up[i + 1])
  <2>1. PICK f \in UpFrames : f = Head(up[i + 1])
    BY <1>3
  <2>2. PICK a \in Seq(UpFrames) : a = up[i]
    BY <1>1
  <2>3. /\ Append(a, f) \in Seq(UpFrames) /\ Len(Append(a, f)) = Len(a) + 1 /\ Len(a) \in Nat
        /\ \A k \in 1 .. Len(a) : Append(a, f)[k] = a[k]
        /\ Append(a, f)[Len(a) + 1] = f
    BY AppendIs
  <2>4. r[i] = Append(a, f)
    BY <1>2, <2>1, <2>2
  <2>. QED
    BY <2>1, <2>2, <2>3, <2>4
<1>5. r \in [Stages -> Seq(UpFrames)]
  <2>1. \A j \in Stages : r[j] \in Seq(UpFrames)
    BY <1>1, <1>2, <1>3, <1>4 DEF TypedFrames
  <2>2. DOMAIN r = Stages /\ r = [j \in Stages |-> r[j]]
    BY <1>1
  <2>. QED
    BY <2>1, <2>2
<1>6. \A j \in Stages : Len(r[j]) <= Socket
  <2>1. Len(up[i + 1]) <= Socket /\ \A j \in Stages : Len(up[j]) <= Socket
    BY <1>0 DEF TypedFrames
  <2>2. Len(r[i + 1]) <= Socket /\ Len(r[i]) <= Socket
    <3>1. Len(r[i + 1]) = Len(up[i + 1]) - 1
      BY <1>2, <1>3
    <3>2. Len(r[i]) = Len(up[i]) + 1 /\ Len(up[i]) \in Nat /\ Len(up[i + 1]) \in Nat /\ Socket \in Nat
      BY <1>3, <1>4, PipelineAssumption
    <3>. QED
      BY <2>1, <3>1, <3>2
  <2>. QED
    BY <1>2, <2>1, <2>2
<1>. QED
  BY <1>0, <1>2, <1>3, <1>4, <1>5, <1>6 DEF Relayed

\* One more item in the driver's channel.
LEMMA AddsIn ==
  ASSUME TypedFrames, NEW f \in UpFrames \cup {Closed}, NEW r, r = Append(inbox, f)
  PROVE  /\ r \in Seq(UpFrames \cup {Closed}) /\ Len(r) = Len(inbox) + 1 /\ Len(inbox) \in Nat
         /\ \A k \in 1 .. Len(inbox) : r[k] = inbox[k]
         /\ r[Len(inbox) + 1] = f
<1>1. inbox \in Seq(UpFrames \cup {Closed})
  BY DEF TypedFrames
<1>. QED
  BY <1>1, AppendIs

\* The driver takes the first item of its channel.
LEMMA TakesIn ==
  ASSUME TypedFrames, inbox # << >>
  PROVE  /\ Tail(inbox) \in Seq(UpFrames \cup {Closed}) /\ Len(Tail(inbox)) = Len(inbox) - 1
         /\ Len(inbox) \in Nat \ {0}
         /\ \A k \in 1 .. Len(inbox) - 1 : Tail(inbox)[k] = inbox[k + 1]
         /\ Head(inbox) \in UpFrames \cup {Closed} /\ Head(inbox) = inbox[1]
<1>1. inbox \in Seq(UpFrames \cup {Closed})
  BY DEF TypedFrames
<1>. QED
  BY <1>1, TailIs

-----------------------------------------------------------------------------

\* A link of the stage closes.
Closes(i) == SessionEnds(i) \/ GivesUp(i) \/ UpCloses(i) \/ Dies(i)

\* What closing a link leaves as it is.
LEMMA ClosingKeeps ==
  ASSUME NEW i \in Stages, Closes(i)
  PROVE  /\ UNCHANGED << down, pending, done, failed, next_ticket, call, starts, inbox, lost, cache, astray >>
         /\ LosesSome(i) /\ culprit' \in {culprit, i}
         /\ serving' \in {serving, [serving EXCEPT ![i] = FALSE]}
         /\ serving \in [Stages -> BOOLEAN] => ~serving'[i]
         /\ << writer, relay >>' \in {<< writer, relay >>, << Others(i, writer), Others(i, relay) >>}
         /\ UNCHANGED up \/ (culprit = 0 /\ culprit' = i /\ Room(i) /\ SendUp(i, Failure(All, i)))
  BY DEF Closes, SessionEnds, GivesUp, Ends, UpCloses, Dies, LosesSome, driverVars

\* Closing a link sends a report up it at most.
LEMMA ClosingSends ==
  ASSUME TypedFrames, NEW i \in Stages, Closes(i)
  PROVE  \/ UNCHANGED up
         \/ /\ culprit = 0 /\ culprit' = i
            /\ \E f \in UpFrames : /\ f = Failure(All, i) /\ f.ticket = All /\ Len(up[i]) < Socket
                                   /\ up' = [up EXCEPT ![i] = Append(@, f)]
<1>1. PICK f \in UpFrames : f = Failure(All, i) /\ f.ticket = All
  BY UpTypes DEF Failure
<1>. QED
  BY <1>1, ClosingKeeps DEF SendUp, Room

\* The actions, one by one.
LEMMA StepSplits ==
  ASSUME [Next]_vars
  PROVE  \/ UNCHANGED vars \/ Begin \/ Submit \/ Pump \/ Drain \/ Collect \/ SubmitFails \/ TimeOut
         \/ Drop \/ Read \/ WriteFails
         \/ \E i \in Stages : \/ StageDecodes(i) \/ StageTruncates(i) \/ Closes(i)
                              \/ StageWriteFails(i) \/ StageRelays(i) \/ StageFails(i)
  BY DEF Next, Caller, Threads, Closes

\* Reporting a lost stage keeps what is sent up typed.
LEMMA ReportsTyped ==
  ASSUME TypedFrames, NEW i \in Stages, i < Last, Reports(i)
  PROVE  up' \in [Stages -> Seq(UpFrames)] /\ \A j \in Stages : Len(up'[j]) <= Socket
<1>1. Failure(All, i + 1) \in UpFrames
  BY UpTypes, PipelineAssumption DEF Stages
<1>2. CASE link[i]
  <2>1. PICK f \in UpFrames : f = Failure(All, i + 1)
    BY <1>1
  <2>2. up' = [up EXCEPT ![i] = Append(@, f)] /\ Len(up[i]) < Socket
    BY <1>2, <2>1 DEF Reports, Room
  <2>. QED
    BY <2>2, SendsUp
<1>3. CASE ~link[i]
  BY <1>3 DEF Reports, TypedFrames
<1>. QED
  BY <1>2, <1>3

\* Every step keeps the frames typed.
LEMMA StepFrames ==
  ASSUME TypeOK, Spent, [Next]_vars
  PROVE  TypedFrames'
<1>0. TypedDriver /\ TypedFrames /\ TypedStages /\ 1 \in Stages
  BY Split, PipelineAssumption DEF Stages
<1>. DEFINE UpOK == up' \in [Stages -> Seq(UpFrames)] /\ \A j \in Stages : Len(up'[j]) <= Socket
            QOK == q' \in [Stages -> Seq(DownFrames)]
            InOK == inbox' \in Seq(UpFrames \cup {Closed})
<1>1. UNCHANGED up => UpOK
  BY <1>0 DEF TypedFrames
<1>2. UNCHANGED q => QOK
  BY <1>0 DEF TypedFrames
<1>3. UNCHANGED inbox => InOK
  BY <1>0 DEF TypedFrames
<1>4. UpOK /\ QOK /\ InOK => TypedFrames'
  BY DEF TypedFrames
<1>. HIDE DEF UpOK, QOK, InOK
<1>5. CASE UNCHANGED vars
  BY <1>1, <1>2, <1>3, <1>4, <1>5 DEF vars
<1>6. CASE Begin
  <2>1. QOK
    BY <1>0, <1>2, <1>6, SendsQ, DownTypes DEF Begin, Send, QOK
  <2>. QED
    BY <1>1, <1>3, <1>4, <1>6, <2>1 DEF Begin
<1>7. CASE Submit
  <2>1. PICK f \in DownFrames : f = Forward(next_ticket, Whole(0, next_ticket))
    BY <1>7, TicketFits, DownTypes, WholeTypes DEF Submit
  <2>2. QOK
    BY <1>0, <1>2, <1>7, <2>1, SendsQ DEF Submit, Send, QOK
  <2>. QED
    BY <1>1, <1>3, <1>4, <1>7, <2>2 DEF Submit
<1>8. CASE Pump
  <2>1. InOK
    BY <1>0, <1>8, TakesIn DEF Pump, InOK
  <2>. QED
    BY <1>1, <1>2, <1>4, <1>8, <2>1 DEF Pump
<1>9. CASE Drain
  <2>1. InOK
    BY <1>0, <1>3, <1>9, TakesIn DEF Drain, InOK
  <2>. QED
    BY <1>1, <1>2, <1>4, <1>9, <2>1 DEF Drain
<1>10. CASE Collect \/ SubmitFails \/ TimeOut \/ Drop
  BY <1>1, <1>2, <1>3, <1>4, <1>10 DEF Collect, SubmitFails, TimeOut, Drop
<1>11. CASE Read
  <2>1. CASE up[1] # << >> /\ inbox' = Append(inbox, Head(up[1])) /\ up' = [up EXCEPT ![1] = Tail(@)]
    <3>1. UpOK /\ Head(up[1]) \in UpFrames
      BY <1>0, <2>1, TakesUp DEF UpOK
    <3>2. InOK
      BY <1>0, <2>1, <3>1, AddsIn DEF InOK
    <3>. QED
      BY <1>2, <1>4, <1>11, <3>1, <3>2 DEF Read
  <2>2. CASE inbox' = Append(inbox, Closed) /\ UNCHANGED up
    <3>1. InOK
      BY <1>0, <2>2, AddsIn DEF InOK
    <3>. QED
      BY <1>1, <1>2, <1>4, <1>11, <2>2, <3>1 DEF Read
  <2>. QED
    BY <1>11, <2>1, <2>2 DEF Read
<1>12. CASE WriteFails
  <2>1. InOK
    BY <1>0, <1>12, AddsIn DEF WriteFails, InOK
  <2>. QED
    BY <1>1, <1>2, <1>4, <1>12, <2>1 DEF WriteFails
<1>13. ASSUME NEW i \in Stages, StageDecodes(i) PROVE TypedFrames'
  <2>1. /\ q[i] # << >> /\ Frame(i).ticket \in Tickets /\ Frame(i).whole \in BOOLEAN
        /\ Took(i) \in [Stages -> Seq(DownFrames)]
    BY <1>0, <1>13, TakesQ, DownTypes DEF StageDecodes
  <2>2. PICK w \in BOOLEAN : w = (Frame(i).whole /\ Whole(i, Frame(i).ticket))
    BY <2>1, WholeTypes
  <2>3. Forward(Frame(i).ticket, w) \in DownFrames /\ Logits(Frame(i).ticket, w) \in UpFrames
    BY <2>1, DownTypes, UpTypes
  <2>4. CASE i < Last /\ q' = Passed(i, Forward(Frame(i).ticket, w)) /\ UNCHANGED up
    <3>1. QOK
      BY <1>0, <2>1, <2>3, <2>4, PassesQ DEF QOK, PassedOn
    <3>. QED
      BY <1>1, <1>3, <1>4, <1>13, <2>4, <3>1 DEF StageDecodes
  <2>5. CASE Room(i) /\ SendUp(i, Logits(Frame(i).ticket, w)) /\ q' = Took(i)
    <3>1. UpOK
      <4>1. PICK f \in UpFrames : f = Logits(Frame(i).ticket, w)
        BY <2>3
      <4>2. up' = [up EXCEPT ![i] = Append(@, f)] /\ Len(up[i]) < Socket
        BY <2>5, <4>1 DEF SendUp, Room
      <4>. QED
        BY <1>0, <4>2, SendsUp DEF UpOK
    <3>. QED
      BY <1>3, <1>4, <1>13, <2>1, <2>5, <3>1 DEF StageDecodes, QOK
  <2>. QED
    BY <1>13, <2>2, <2>4, <2>5 DEF StageDecodes
<1>14. ASSUME NEW i \in Stages, StageTruncates(i) PROVE TypedFrames'
  <2>1. QOK
    BY <1>0, <1>14, TakesQ, PassesQ, DownTypes DEF StageTruncates, QOK, PassedOn
  <2>. QED
    BY <1>1, <1>3, <1>4, <1>14, <2>1 DEF StageTruncates
<1>15. ASSUME NEW i \in Stages, Closes(i) PROVE TypedFrames'
  <2>1. QOK /\ UNCHANGED inbox
    BY <1>0, <1>15, LosesQ, ClosingKeeps DEF QOK
  <2>2. UpOK
    BY <1>0, <1>1, <1>15, ClosingSends, SendsUp DEF UpOK
  <2>. QED
    BY <1>3, <1>4, <2>1, <2>2
<1>16. ASSUME NEW i \in Stages, StageWriteFails(i) PROVE TypedFrames'
  <2>1. UpOK
    BY <1>0, <1>16, ReportsTyped DEF StageWriteFails, UpOK
  <2>. QED
    BY <1>2, <1>3, <1>4, <1>16, <2>1 DEF StageWriteFails
<1>17. ASSUME NEW i \in Stages, StageRelays(i) PROVE TypedFrames'
  <2>1. UpOK
    <3>1. CASE UNCHANGED up
      BY <1>1, <3>1
    <3>2. CASE /\ up[i + 1] # << >> /\ Room(i)
               /\ up' = [up EXCEPT ![i] = Append(@, Head(up[i + 1])), ![i + 1] = Tail(@)]
      BY <1>0, <1>17, <3>2, RelaysUp DEF UpOK, Room, StageRelays, Relayed
    <3>3. CASE Reports(i)
      BY <1>0, <1>17, <3>3, ReportsTyped DEF StageRelays, UpOK
    <3>. QED
      BY <1>17, <3>1, <3>2, <3>3 DEF StageRelays
  <2>. QED
    BY <1>2, <1>3, <1>4, <1>17, <2>1 DEF StageRelays
<1>18. ASSUME NEW i \in Stages, StageFails(i) PROVE TypedFrames'
  <2>1. /\ q[i] # << >> /\ Failure(Frame(i).ticket, i) \in UpFrames
        /\ Took(i) \in [Stages -> Seq(DownFrames)]
    BY <1>0, <1>18, TakesQ, DownTypes, UpTypes DEF StageFails
  <2>2. UpOK
    <3>1. PICK f \in UpFrames : f = Failure(Frame(i).ticket, i)
      BY <2>1
    <3>2. up' = [up EXCEPT ![i] = Append(@, f)] /\ Len(up[i]) < Socket
      BY <1>18, <3>1 DEF StageFails, SendUp, Room
    <3>. QED
      BY <1>0, <3>2, SendsUp DEF UpOK
  <2>. QED
    BY <1>3, <1>4, <1>18, <2>1, <2>2 DEF StageFails, QOK
<1>. QED
  BY <1>5, <1>6, <1>7, <1>8, <1>9, <1>10, <1>11, <1>12, <1>13, <1>14, <1>15, <1>16, <1>17, <1>18,
     StepSplits

\* Calls take their tickets in order.
StartsRise == \A m, n \in 1 .. Len(starts) : m <= n => starts[m] <= starts[n]

\* Every step keeps the stages' state typed.
LEMMA StepStages ==
  ASSUME TypeOK, Spent, [Next]_vars
  PROVE  TypedStages'
<1>0. TypedStages /\ TypedFrames /\ 1 \in Stages /\ 0 \in 0 .. Last /\ Stages \subseteq 0 .. Last
  BY Split, PipelineAssumption DEF Stages
<1>. DEFINE Bools == [Stages -> BOOLEAN]
<1>1. CASE UNCHANGED vars
  BY <1>0, <1>1 DEF vars, TypedStages
<1>2. CASE Begin
  BY <1>0, <1>2 DEF Begin, TypedStages
<1>3. CASE Submit
  BY <1>0, <1>3, TicketFits DEF Submit, TypedStages
<1>4. CASE Pump \/ Drain \/ Collect \/ SubmitFails \/ TimeOut \/ Drop
  <2>1. link' = link \/ link' = [link EXCEPT ![1] = FALSE]
    BY <1>4 DEF Pump, Drain, Collect, SubmitFails, TimeOut, Drop, Fail, Settled
  <2>2. UNCHANGED << serving, lost, writer, relay, cache >>
    BY <1>4 DEF Pump, Drain, Collect, SubmitFails, TimeOut, Drop
  <2>. QED
    BY <1>0, <2>1, <2>2 DEF TypedStages
<1>5. CASE Read \/ WriteFails
  BY <1>0, <1>5 DEF Read, WriteFails, TypedStages
<1>6. ASSUME NEW i \in Stages, StageDecodes(i) PROVE TypedStages'
  <2>1. Frame(i).ticket \in Tickets
    BY <1>0, <1>6, TakesQ, DownTypes DEF StageDecodes
  <2>2. cache' = [cache EXCEPT ![i] = @ \cup {Frame(i).ticket}] /\ UNCHANGED << link, serving, lost, writer, relay >>
    BY <1>6 DEF StageDecodes
  <2>. QED
    BY <1>0, <2>1, <2>2 DEF TypedStages
<1>7. ASSUME NEW i \in Stages, StageTruncates(i) \/ StageFails(i) PROVE TypedStages'
  BY <1>0, <1>7 DEF StageTruncates, StageFails, TypedStages
<1>8. ASSUME NEW i \in Stages, Closes(i) PROVE TypedStages'
  <2>1. link' \in [Stages -> BOOLEAN]
    BY <1>0, <1>8 DEF Closes, SessionEnds, GivesUp, Ends, UpCloses, Dies, TypedStages
  <2>2. Others(i, writer) \in [0 .. Last - 1 -> BOOLEAN] /\ Others(i, relay) \in [0 .. Last - 1 -> BOOLEAN]
    BY <1>0 DEF Others, TypedStages
  <2>3. writer' \in [0 .. Last - 1 -> BOOLEAN] /\ relay' \in [0 .. Last - 1 -> BOOLEAN]
    BY <1>0, <1>8, <2>2, ClosingKeeps DEF TypedStages
  <2>. QED
    BY <1>0, <1>8, <2>1, <2>3, ClosingKeeps DEF TypedStages
<1>9. ASSUME NEW i \in Stages, StageWriteFails(i) \/ StageRelays(i) PROVE TypedStages'
  <2>1. lost' = lost \/ lost' = [lost EXCEPT ![i] = TRUE]
    BY <1>9 DEF StageWriteFails, StageRelays, Reports
  <2>2. /\ writer' = writer \/ writer' = [writer EXCEPT ![i] = FALSE]
        /\ relay' = relay \/ relay' = [relay EXCEPT ![i] = FALSE]
        /\ UNCHANGED << link, serving, cache >>
    BY <1>9 DEF StageWriteFails, StageRelays
  <2>. QED
    BY <1>0, <2>1, <2>2 DEF TypedStages
<1>. QED
  BY <1>1, <1>2, <1>3, <1>4, <1>5, <1>6, <1>7, <1>8, <1>9, StepSplits

\* What the driver keeps of its calls, unchanged by the threads.
LEMMA StepThreads ==
  ASSUME UNCHANGED vars \/ Read \/ WriteFails
         \/ \E i \in Stages : \/ StageDecodes(i) \/ StageTruncates(i) \/ Closes(i)
                              \/ StageWriteFails(i) \/ StageRelays(i) \/ StageFails(i)
  PROVE  UNCHANGED << down, pending, done, failed, next_ticket, call, starts >>
<1>1. ASSUME NEW i \in Stages, Closes(i) PROVE UNCHANGED << down, pending, done, failed, next_ticket, call, starts >>
  BY <1>1, ClosingKeeps
<1>. QED
  BY <1>1 DEF vars, driverVars, Read, WriteFails, StageDecodes, StageTruncates, StageWriteFails, StageRelays, StageFails

\* The caller's record.
CallType == [at : {"idle", "run", "refused", "drain", "dropped"},
             sent : 0 .. Chunks + Steps, got : 0 .. Chunks + Steps]

\* The caller's record stays typed as its fields change.
LEMMA CallTypes ==
  /\ Idle \in CallType
  /\ \A c \in CallType, a \in {"idle", "run", "refused", "drain", "dropped"} : [c EXCEPT !.at = a] \in CallType
  /\ \A c \in CallType : c.sent < Chunks + Steps => [c EXCEPT !.sent = @ + 1] \in CallType
  /\ \A c \in CallType : c.got < Chunks + Steps => [c EXCEPT !.got = @ + 1] \in CallType
<1>1. Chunks \in Nat /\ Steps \in Nat
  BY PipelineAssumption
<1>. QED
  BY <1>1 DEF Idle, CallType

\* What is astray stays so.
LEMMA StepAstray ==
  ASSUME [Next]_vars
  PROVE  /\ astray \in BOOLEAN => astray' \in BOOLEAN
         /\ astray => astray'
<1>1. ASSUME NEW i \in Stages, StageWriteFails(i) \/ StageRelays(i)
      PROVE astray' = astray \/ astray' = (astray \/ Astray(i))
  BY <1>1 DEF StageWriteFails, StageRelays, Reports
<1>2. ASSUME Drain
      PROVE astray' = astray \/ astray' = (astray \/ Reported(up[1]))
  BY <1>2 DEF Drain
<1>3. ASSUME NEW i \in Stages, Closes(i) PROVE astray' = astray
  BY <1>3, ClosingKeeps
<1>4. CASE \/ UNCHANGED vars \/ Begin \/ Submit \/ Pump \/ Collect \/ SubmitFails \/ TimeOut \/ Drop \/ Read \/ WriteFails
           \/ \E i \in Stages : StageDecodes(i) \/ StageTruncates(i) \/ StageFails(i)
  BY <1>4 DEF vars, Begin, Submit, Pump, Collect, SubmitFails, TimeOut, Drop, Read, WriteFails,
     StageDecodes, StageTruncates, StageFails
<1>. QED
  BY <1>1, <1>2, <1>3, <1>4, StepSplits

\* Every step keeps the driver's state typed, and its counts in order.
LEMMA StepDriver ==
  ASSUME TypeOK, Spent, Below, StartsRise, [Next]_vars
  PROVE  TypedDriver' /\ Spent' /\ Below' /\ StartsRise'
<1>0. /\ TypedDriver /\ TypedFrames /\ TypedStages /\ call \in CallType /\ 1 \in Stages
      /\ next_ticket \in Nat /\ starts \in Seq(0 .. next_ticket) /\ Len(starts) \in Nat
  BY Split, PipelineAssumption DEF TypedDriver, CallType, Stages
<1>a. astray' \in BOOLEAN
  BY <1>0, StepAstray DEF TypedDriver
<1>1. CASE UNCHANGED << down, pending, done, failed, next_ticket, call, starts >> /\ culprit' \in 0 .. Last
  BY <1>0, <1>1, <1>a DEF TypedDriver, Spent, Below, StartsRise
<1>2. CASE Begin
  <2>1. /\ starts' = Append(starts, next_ticket)
        /\ UNCHANGED << down, pending, done, failed, next_ticket, culprit >>
        /\ call' = [Idle EXCEPT !.at = "run"] \/ call' = [Idle EXCEPT !.at = "refused"]
        /\ Len(starts) < Runs
    BY <1>2 DEF Begin, Send
  <2>2. next_ticket \in 0 .. next_ticket
    BY <1>0
  <2>3. /\ starts' \in Seq(0 .. next_ticket) /\ Len(starts') = Len(starts) + 1
        /\ \A k \in 1 .. Len(starts) : starts'[k] = starts[k]
        /\ starts'[Len(starts) + 1] = next_ticket
    BY <1>0, <2>1, <2>2, AppendIs
  <2>4. call' \in CallType /\ call'.sent = 0 /\ call'.got = 0
    BY <2>1, CallTypes DEF Idle
  <2>5. TypedDriver'
    BY <1>0, <1>a, <2>1, <2>3, <2>4 DEF TypedDriver, CallType
  <2>6. \A k \in 1 .. Len(starts) : starts[k] \in 0 .. next_ticket
    BY <1>0
  <2>7. StartsRise'
    <3>. SUFFICES ASSUME NEW m \in 1 .. Len(starts'), NEW n \in 1 .. Len(starts'), m <= n
         PROVE starts'[m] <= starts'[n]
      BY DEF StartsRise
    <3>1. CASE n = Len(starts) + 1
      BY <1>0, <2>3, <2>6, <3>1
    <3>2. CASE n \in 1 .. Len(starts)
      <4>1. m \in 1 .. Len(starts)
        BY <1>0, <2>3, <3>2
      <4>2. starts'[m] = starts[m] /\ starts'[n] = starts[n]
        BY <2>3, <3>2, <4>1
      <4>. QED
        BY <3>2, <4>1, <4>2 DEF StartsRise
    <3>. QED
      BY <1>0, <2>3, <3>1, <3>2
  <2>8. Spent'
    <3>1. /\ next_ticket <= Len(starts) * Each
          /\ \A n \in 1 .. Len(starts) : starts[n] <= (n - 1) * Each
      BY DEF Spent
    <3>2. Each \in Nat
      BY PipelineAssumption DEF Each
    <3>3. PICK l \in Nat, e \in Nat, o \in Nat : l = Len(starts) /\ e = Each /\ o = l + 1
      BY <1>0, <3>2
    <3>4. l * e <= o * e /\ l * e \in Nat /\ o * e \in Nat
      BY <3>3, Products
    <3>5. next_ticket <= o * e
      BY <1>0, <3>1, <3>3, <3>4
    <3>6. \A n \in 1 .. Len(starts') : starts'[n] <= (n - 1) * Each
      <4>. SUFFICES ASSUME NEW n \in 1 .. Len(starts') PROVE starts'[n] <= (n - 1) * Each
        OBVIOUS
      <4>1. CASE n = Len(starts) + 1
        <5>1. n - 1 = Len(starts)
          BY <1>0, <4>1
        <5>. QED
          BY <2>3, <3>1, <4>1, <5>1
      <4>2. CASE n \in 1 .. Len(starts)
        BY <2>3, <3>1, <4>2
      <4>. QED
        BY <1>0, <2>3, <4>1, <4>2
    <3>7. Len(starts') <= Runs /\ Len(starts') * Each = o * e
      BY <1>0, <2>1, <2>3, <3>3, PipelineAssumption
    <3>8. starts' # << >> /\ Len(starts') = Len(starts) + 1
      BY <2>1, <2>3, <1>0
    <3>9. next_ticket' = starts'[Len(starts')] + call'.sent /\ call'.got <= call'.sent
      BY <1>0, <2>1, <2>3, <2>4
    <3>. QED
      BY <2>1, <3>3, <3>5, <3>6, <3>7, <3>8, <3>9 DEF Spent
  <2>9. Below'
    BY <2>1 DEF Below
  <2>. QED
    BY <2>5, <2>7, <2>8, <2>9
<1>3. CASE Submit
  <2>1. next_ticket \in Tickets /\ next_ticket + 1 <= Len(starts) * Each
    BY <1>3, TicketFits DEF Submit
  <2>2. /\ UNCHANGED << down, done, failed, starts, culprit >> /\ next_ticket' = next_ticket + 1
        /\ pending' = pending \cup {next_ticket} \/ pending' = pending
        /\ call.at = "run" /\ call.sent < Chunks + Steps
    BY <1>0, <1>3, PipelineAssumption DEF Submit, Submits, CallType
  <2>3. call' = [call EXCEPT !.sent = @ + 1] \/ call' = [Idle EXCEPT !.at = "refused"]
    BY <1>3 DEF Submit, Send
  <2>4. call' \in CallType
    BY <1>0, <2>2, <2>3, CallTypes
  <2>5. starts' \in Seq(0 .. next_ticket')
    <3>1. 0 .. next_ticket \subseteq 0 .. next_ticket + 1
      BY <1>0
    <3>2. \A k \in 1 .. Len(starts) : starts[k] \in 0 .. next_ticket + 1
      BY <1>0, <3>1
    <3>3. starts \in Seq(0 .. next_ticket + 1)
      BY <1>0, <3>2
    <3>. QED
      BY <2>2, <3>3
  <2>6. TypedDriver'
    <3>1. \A a \in done' : a.ticket < next_ticket' /\ a.ticket \notin pending'
      <4>. SUFFICES ASSUME NEW a \in done PROVE a.ticket < next_ticket + 1 /\ a.ticket \notin pending'
        BY <2>2
      <4>1. a.ticket < next_ticket /\ a.ticket \notin pending /\ a \in Answers
        BY <1>0 DEF TypedDriver
      <4>2. a.ticket \in Nat
        BY <4>1, AnswerTypes, TicketTypes
      <4>. QED
        BY <1>0, <2>2, <4>1, <4>2
    <3>2. pending' \subseteq Tickets /\ next_ticket' \in Nat
      <4>1. next_ticket' \in Nat
        BY <1>0, <2>2
      <4>2. pending \subseteq Tickets
        BY <1>0 DEF TypedDriver
      <4>. QED
        BY <2>1, <2>2, <4>1, <4>2
    <3>3. down' \in BOOLEAN /\ failed' \in 0 .. Last /\ culprit' \in 0 .. Last /\ done' \subseteq Answers
      BY <1>0, <2>2 DEF TypedDriver
    <3>. QED
      BY <1>a, <2>4, <2>5, <3>1, <3>2, <3>3 DEF TypedDriver, CallType
  <2>7. call'.at = "run" => /\ starts' # << >> /\ next_ticket' = starts'[Len(starts')] + call'.sent
                            /\ call'.got <= call'.sent
    <3>1. CASE call' = [call EXCEPT !.sent = @ + 1]
      <4>1. starts[Len(starts)] \in Nat /\ call.sent \in Nat /\ call.got \in Nat
        BY <1>0, <2>2 DEF Spent, CallType
      <4>2. call'.sent = call.sent + 1 /\ call'.got = call.got
        BY <1>0, <3>1 DEF CallType
      <4>. QED
        BY <1>0, <2>2, <4>1, <4>2 DEF Spent
    <3>2. CASE call' = [Idle EXCEPT !.at = "refused"]
      BY <3>2 DEF Idle
    <3>. QED
      BY <2>3, <3>1, <3>2
  <2>8. Spent'
    BY <2>1, <2>2, <2>7 DEF Spent
  <2>9. Below'
    <3>1. \A t \in pending : t \in Nat /\ t < next_ticket
      BY <1>0, TicketTypes DEF Below, TypedDriver
    <3>2. \A t \in pending' : t \in pending \/ t = next_ticket
      BY <2>2
    <3>. QED
      BY <1>0, <2>2, <3>1, <3>2 DEF Below
  <2>. QED
    BY <2>2, <2>6, <2>8, <2>9 DEF StartsRise
<1>4. CASE Pump \/ Drain \/ Collect \/ SubmitFails \/ TimeOut \/ Drop
  <2>1. UNCHANGED << next_ticket, starts, culprit >>
    BY <1>4 DEF Pump, Drain, Collect, SubmitFails, TimeOut, Drop
  <2>2. \/ UNCHANGED << failed, down >>
        \/ down' = FALSE /\ failed' \in 0 .. Last
    <3>1. CASE Pump
      <4>1. Head(inbox) \in UpFrames \cup {Closed}
        BY <1>0, <3>1, TakesIn DEF Pump
      <4>2. Head(inbox).kind = "failure" => Head(inbox).stage \in Stages
        BY <4>1, FrameTypes, AnswerTypes, ClosedType
      <4>. QED
        BY <3>1, <4>2, PipelineAssumption DEF Pump, Report, Fail, Settled, Stages
    <3>2. CASE Drain
      <4>1. inbox # << >> => Head(inbox) \in UpFrames \cup {Closed}
        BY <1>0, TakesIn
      <4>2. inbox # << >> /\ Head(inbox).kind = "failure" => Head(inbox).stage \in Stages
        BY <4>1, FrameTypes, AnswerTypes, ClosedType
      <4>. QED
        BY <3>2, <4>2, PipelineAssumption DEF Drain, Report, Fail, Stages
    <3>. QED
      BY <1>4, <3>1, <3>2, <1>0 DEF Collect, SubmitFails, TimeOut, Drop, TypedDriver
  <2>3. /\ pending' \subseteq pending /\ done' \subseteq Answers
        /\ \A a \in done' : a.ticket < next_ticket /\ a.ticket \notin pending'
    <3>1. CASE Pump
      <4>1. Head(inbox) \in UpFrames \cup {Closed}
        BY <1>0, <3>1, TakesIn DEF Pump
      <4>2. Head(inbox).kind # "closed" /\ Head(inbox).ticket # All => Head(inbox) \in Answers
        BY <4>1, FrameTypes, ClosedType
      <4>3. \/ UNCHANGED << pending, done >>
            \/ Head(inbox) \in Answers /\ Settled(Head(inbox))
        BY <3>1, <4>2 DEF Pump
      <4>. QED
        BY <1>0, <4>3 DEF Settled, TypedDriver, Below
    <3>2. CASE Collect
      BY <1>0, <3>2 DEF Collect, TypedDriver
    <3>. QED
      BY <1>0, <1>4, <3>1, <3>2 DEF Drain, SubmitFails, TimeOut, Drop, TypedDriver
  <2>4. /\ call' \in CallType
        /\ call'.at = "run" => call.at = "run" /\ call'.sent = call.sent /\ call'.got <= call'.sent
    <3>1. call.got \in Nat /\ call.sent \in Nat /\ call.got <= Chunks + Steps /\ call.sent <= Chunks + Steps /\ Chunks + Steps \in Nat
      BY <1>0, PipelineAssumption DEF CallType
    <3>2. CASE call' = Idle \/ call' = [call EXCEPT !.at = "drain"] \/ call' = [Idle EXCEPT !.at = "dropped"]
      BY <1>0, <3>2, CallTypes DEF Idle, CallType
    <3>3. CASE call' = call
      BY <1>0, <3>3 DEF Spent
    <3>4. CASE Waits /\ call' = [call EXCEPT !.got = @ + 1]
      <4>1. call.at = "run" /\ call.got < call.sent
        BY <3>4 DEF Waits
      <4>2. call' \in CallType
        BY <1>0, <3>1, <3>4, <4>1, CallTypes
      <4>3. call'.sent = call.sent /\ call'.got = call.got + 1
        BY <1>0, <3>4 DEF CallType
      <4>. QED
        BY <3>1, <4>1, <4>2, <4>3
    <3>. QED
      BY <1>4, <3>2, <3>3, <3>4 DEF Pump, Drain, Collect, SubmitFails, TimeOut, Drop, Returned
  <2>5. TypedDriver'
    BY <1>0, <1>a, <2>1, <2>2, <2>3, <2>4 DEF TypedDriver, CallType
  <2>6. Spent'
    BY <2>1, <2>4 DEF Spent
  <2>7. Below'
    BY <2>1, <2>3 DEF Below
  <2>. QED
    BY <2>1, <2>5, <2>6, <2>7 DEF StartsRise
<1>5. CASE \/ UNCHANGED vars \/ Read \/ WriteFails
           \/ \E i \in Stages : \/ StageDecodes(i) \/ StageTruncates(i) \/ Closes(i)
                                \/ StageWriteFails(i) \/ StageRelays(i) \/ StageFails(i)
  <2>1. ASSUME NEW i \in Stages, Closes(i) PROVE culprit' \in 0 .. Last
    BY <1>0, <2>1, ClosingKeeps, PipelineAssumption DEF Stages, TypedDriver
  <2>2. culprit' \in 0 .. Last
    BY <1>0, <1>5, <2>1 DEF vars, Read, WriteFails, StageDecodes, StageTruncates, StageWriteFails,
       StageRelays, StageFails, TypedDriver
  <2>. QED
    BY <1>1, <1>5, <2>2, StepThreads
<1>. QED
  BY <1>2, <1>3, <1>4, <1>5, StepSplits

\* A frame on its way up, and an answer the driver may still take or has taken.
Told(a) ==
  \/ \E i \in Stages : \E k \in 1 .. Len(up[i]) : up[i][k] = a
  \/ \E k \in 1 .. Len(inbox) : inbox[k] = a

\* a blames a stage whose link a stage before it found closed, or one that fails
\* as it opens.
Blamed(a) ==
  \E i \in Stages : \/ i < Last /\ link[i] /\ ~link[i + 1] /\ a = Failure(All, i + 1)
                    \/ culprit = 0 /\ culprit' = i /\ a = Failure(All, i)

\* a is what a stage answers in this step.
Answered(a) ==
  \E i \in Stages :
    \/ StageFails(i) /\ a = Failure(Frame(i).ticket, i)
    \/ /\ StageDecodes(i) /\ i = Last
       /\ a = Logits(Frame(i).ticket, Frame(i).whole /\ Whole(i, Frame(i).ticket))

\* What is told after a send was told before, or is what was sent.
LEMMA SendTold ==
  ASSUME TypedFrames, NEW f \in UpFrames, NEW i \in Stages, Len(up[i]) < Socket,
         up' = [up EXCEPT ![i] = Append(@, f)], UNCHANGED inbox, NEW a, Told(a)'
  PROVE  Told(a) \/ a = f
<1>1. /\ \A j \in Stages : j # i => up'[j] = up[j]
      /\ Len(up'[i]) = Len(up[i]) + 1 /\ Len(up[i]) \in Nat
      /\ \A k \in 1 .. Len(up[i]) : up'[i][k] = up[i][k]
      /\ up'[i][Len(up[i]) + 1] = f
  BY SendsUp
<1>2. CASE \E k \in 1 .. Len(inbox) : inbox'[k] = a
  BY <1>2 DEF Told
<1>3. ASSUME NEW j \in Stages, NEW k \in 1 .. Len(up'[j]), up'[j][k] = a PROVE Told(a) \/ a = f
  <2>1. CASE j # i
    BY <1>1, <1>3, <2>1 DEF Told
  <2>2. CASE j = i /\ k \in 1 .. Len(up[i])
    BY <1>1, <1>3, <2>2 DEF Told
  <2>3. CASE j = i /\ k = Len(up[i]) + 1
    BY <1>1, <1>3, <2>3
  <2>. QED
    BY <1>1, <2>1, <2>2, <2>3
<1>. QED
  BY <1>2, <1>3 DEF Told

\* What is told after a report was told before, or blames the next stage.
LEMMA ReportTold ==
  ASSUME TypedFrames, NEW i \in Stages, i < Last, ~link[i + 1], Reports(i), UNCHANGED inbox, NEW a, Told(a)'
  PROVE  Told(a) \/ Blamed(a)
<1>1. CASE link[i]
  <2>1. PICK f \in UpFrames : f = Failure(All, i + 1)
    BY UpTypes, PipelineAssumption DEF Stages
  <2>2. up' = [up EXCEPT ![i] = Append(@, f)] /\ Len(up[i]) < Socket
    BY <1>1, <2>1 DEF Reports, Room
  <2>. QED
    BY <1>1, <2>1, <2>2, SendTold DEF Blamed
<1>2. CASE ~link[i]
  BY <1>2 DEF Reports, Told
<1>. QED
  BY <1>1, <1>2

\* What is told after a step was told before, blames a stage whose link
\* is closed, answers a ticket, or says that the driver's link is.
LEMMA StepTold ==
  ASSUME TypeOK, Spent, [Next]_vars, NEW a, Told(a)'
  PROVE  Told(a) \/ Blamed(a) \/ Answered(a) \/ (a = Closed /\ ~link[1])
<1>0. TypedFrames /\ 1 \in Stages
  BY Split, PipelineAssumption DEF Stages
<1>1. CASE UNCHANGED << up, inbox >>
  BY <1>1 DEF Told
<1>2. CASE UNCHANGED up /\ inbox # << >> /\ inbox' = Tail(inbox)
  <2>1. Len(inbox') = Len(inbox) - 1 /\ Len(inbox) \in Nat \ {0} /\ \A k \in 1 .. Len(inbox) - 1 : inbox'[k] = inbox[k + 1]
    BY <1>0, <1>2, TakesIn
  <2>2. ASSUME NEW k \in 1 .. Len(inbox'), inbox'[k] = a PROVE Told(a)
    <3>1. k + 1 \in 1 .. Len(inbox) /\ inbox[k + 1] = a
      BY <2>1, <2>2
    <3>. QED
      BY <3>1 DEF Told
  <2>. QED
    BY <1>2, <2>2 DEF Told
<1>3. CASE Read
  <2>1. CASE up[1] # << >> /\ inbox' = Append(inbox, Head(up[1])) /\ up' = [up EXCEPT ![1] = Tail(@)]
    <3>1. /\ \A j \in Stages : j # 1 => up'[j] = up[j]
          /\ Len(up'[1]) = Len(up[1]) - 1 /\ Len(up[1]) \in Nat \ {0}
          /\ \A k \in 1 .. Len(up[1]) - 1 : up'[1][k] = up[1][k + 1]
          /\ Head(up[1]) \in UpFrames /\ Head(up[1]) = up[1][1]
      BY <1>0, <2>1, TakesUp
    <3>2. /\ Len(inbox') = Len(inbox) + 1 /\ Len(inbox) \in Nat
          /\ \A k \in 1 .. Len(inbox) : inbox'[k] = inbox[k]
          /\ inbox'[Len(inbox) + 1] = Head(up[1])
      BY <1>0, <2>1, <3>1, AddsIn
    <3>3. ASSUME NEW k \in 1 .. Len(inbox'), inbox'[k] = a PROVE Told(a)
      <4>1. CASE k \in 1 .. Len(inbox)
        BY <3>2, <3>3, <4>1 DEF Told
      <4>2. CASE k = Len(inbox) + 1
        <5>1. up[1][1] = a /\ 1 \in 1 .. Len(up[1])
          BY <3>1, <3>2, <3>3, <4>2
        <5>. QED
          BY <1>0, <5>1 DEF Told
      <4>. QED
        BY <3>2, <4>1, <4>2
    <3>4. ASSUME NEW j \in Stages, NEW k \in 1 .. Len(up'[j]), up'[j][k] = a PROVE Told(a)
      <4>1. CASE j # 1
        BY <3>1, <3>4, <4>1 DEF Told
      <4>2. CASE j = 1
        <5>1. k + 1 \in 1 .. Len(up[1]) /\ up[1][k + 1] = a
          BY <3>1, <3>4, <4>2
        <5>. QED
          BY <1>0, <5>1 DEF Told
      <4>. QED
        BY <4>1, <4>2
    <3>. QED
      BY <3>3, <3>4 DEF Told
  <2>2. CASE ~link[1] /\ inbox' = Append(inbox, Closed) /\ UNCHANGED up
    <3>1. /\ Len(inbox') = Len(inbox) + 1 /\ Len(inbox) \in Nat
          /\ \A k \in 1 .. Len(inbox) : inbox'[k] = inbox[k]
          /\ inbox'[Len(inbox) + 1] = Closed
      BY <1>0, <2>2, AddsIn
    <3>. QED
      BY <2>2, <3>1 DEF Told
  <2>. QED
    BY <1>3, <2>1, <2>2 DEF Read
<1>4. CASE WriteFails
  <2>1. /\ Len(inbox') = Len(inbox) + 1 /\ Len(inbox) \in Nat
        /\ \A k \in 1 .. Len(inbox) : inbox'[k] = inbox[k]
        /\ inbox'[Len(inbox) + 1] = Closed /\ UNCHANGED up /\ ~link[1]
    BY <1>0, <1>4, AddsIn DEF WriteFails
  <2>. QED
    BY <2>1 DEF Told
<1>5. CASE Pump \/ Drain
  BY <1>1, <1>2, <1>5 DEF Pump, Drain
<1>6. CASE UNCHANGED vars \/ Begin \/ Submit \/ Collect \/ SubmitFails \/ TimeOut \/ Drop
  BY <1>1, <1>6 DEF vars, Begin, Submit, Collect, SubmitFails, TimeOut, Drop
<1>7. ASSUME NEW i \in Stages, StageTruncates(i) PROVE UNCHANGED << up, inbox >>
  BY <1>7 DEF StageTruncates
<1>12. ASSUME NEW i \in Stages, Closes(i) PROVE Told(a) \/ Blamed(a)
  <2>0. UNCHANGED inbox
    BY <1>12, ClosingKeeps
  <2>1. CASE UNCHANGED up
    BY <1>12, <2>0, <2>1 DEF Told
  <2>2. CASE /\ culprit = 0 /\ culprit' = i
             /\ \E f \in UpFrames : /\ f = Failure(All, i) /\ Len(up[i]) < Socket
                                    /\ up' = [up EXCEPT ![i] = Append(@, f)]
    <3>1. PICK f \in UpFrames : f = Failure(All, i) /\ Len(up[i]) < Socket /\ up' = [up EXCEPT ![i] = Append(@, f)]
      BY <2>2
    <3>2. Told(a) \/ a = f
      BY <1>0, <2>0, <3>1, SendTold
    <3>. QED
      BY <2>2, <3>1, <3>2 DEF Blamed
  <2>. QED
    BY <1>0, <1>12, <2>1, <2>2, ClosingSends
<1>8. ASSUME NEW i \in Stages, StageDecodes(i) PROVE Told(a) \/ Answered(a)
  <2>0. i \in 1 .. Last /\ Last \in Nat
    BY PipelineAssumption DEF Stages
  <2>1. q[i] # << >> /\ Frame(i).ticket \in Tickets /\ Frame(i).whole \in BOOLEAN
    BY <1>0, <1>8, TakesQ, DownTypes DEF StageDecodes
  <2>2. PICK w \in BOOLEAN : w = (Frame(i).whole /\ Whole(i, Frame(i).ticket))
    BY <2>1, WholeTypes
  <2>3. CASE UNCHANGED up
    <3>1. UNCHANGED inbox
      BY <1>8 DEF StageDecodes
    <3>. QED
      BY <2>3, <3>1 DEF Told
  <2>4. CASE i = Last /\ Room(i) /\ SendUp(i, Logits(Frame(i).ticket, w))
    <3>1. PICK f \in UpFrames : f = Logits(Frame(i).ticket, w)
      BY <2>1, UpTypes
    <3>2. up' = [up EXCEPT ![i] = Append(@, f)] /\ Len(up[i]) < Socket /\ UNCHANGED inbox
      BY <1>8, <2>4, <3>1 DEF SendUp, Room, StageDecodes
    <3>3. Told(a) \/ a = f
      BY <1>0, <3>2, SendTold
    <3>. QED
      BY <1>8, <2>2, <2>4, <3>1, <3>3 DEF Answered
  <2>. QED
    BY <1>8, <2>0, <2>2, <2>3, <2>4 DEF StageDecodes
<1>9. ASSUME NEW i \in Stages, StageFails(i) PROVE Told(a) \/ Answered(a)
  <2>1. PICK f \in UpFrames : f = Failure(Frame(i).ticket, i)
    BY <1>0, <1>9, TakesQ, DownTypes, UpTypes DEF StageFails
  <2>2. up' = [up EXCEPT ![i] = Append(@, f)] /\ Len(up[i]) < Socket /\ UNCHANGED inbox
    BY <1>9, <2>1 DEF SendUp, Room, StageFails
  <2>3. Told(a) \/ a = f
    BY <1>0, <2>2, SendTold
  <2>. QED
    BY <1>9, <2>1, <2>3 DEF Answered
<1>10. ASSUME NEW i \in Stages, StageWriteFails(i) PROVE Told(a) \/ Blamed(a)
  BY <1>0, <1>10, ReportTold DEF StageWriteFails
<1>11. ASSUME NEW i \in Stages, StageRelays(i) PROVE Told(a) \/ Blamed(a)
  <2>0. i < Last /\ UNCHANGED inbox
    BY <1>11 DEF StageRelays
  <2>1. CASE UNCHANGED up
    BY <2>0, <2>1 DEF Told
  <2>2. CASE ~link[i + 1] /\ Reports(i)
    BY <1>0, <2>0, <2>2, ReportTold
  <2>3. CASE up[i + 1] # << >> /\ Room(i) /\ up' = [up EXCEPT ![i] = Append(@, Head(up[i + 1])), ![i + 1] = Tail(@)]
    <3>1. Len(up[i]) < Socket
      BY <2>3 DEF Room
    <3>2. /\ i + 1 \in Stages
          /\ \A j \in Stages : j # i /\ j # i + 1 => up'[j] = up[j]
          /\ Len(up'[i]) = Len(up[i]) + 1 /\ Len(up[i]) \in Nat
          /\ \A k \in 1 .. Len(up[i]) : up'[i][k] = up[i][k]
          /\ up'[i][Len(up[i]) + 1] = up[i + 1][1] /\ up[i + 1][1] \in UpFrames
          /\ Len(up'[i + 1]) = Len(up[i + 1]) - 1 /\ Len(up[i + 1]) \in Nat \ {0}
          /\ \A k \in 1 .. Len(up[i + 1]) - 1 : up'[i + 1][k] = up[i + 1][k + 1]
      <4>1. PICK r : r = up'
        OBVIOUS
      <4>2. up[i + 1] # << >> /\ r = [up EXCEPT ![i] = Append(@, Head(up[i + 1])), ![i + 1] = Tail(@)]
        BY <2>3, <4>1
      <4>3. Relayed(r, i)
        BY <1>0, <2>0, <3>1, <4>2, RelaysUp
      <4>. QED
        BY <4>1, <4>3 DEF Relayed
    <3>3. ASSUME NEW j \in Stages, NEW k \in 1 .. Len(up'[j]), up'[j][k] = a PROVE Told(a)
      <4>1. CASE j # i /\ j # i + 1
        BY <3>2, <3>3, <4>1 DEF Told
      <4>2. CASE j = i /\ k \in 1 .. Len(up[i])
        BY <3>2, <3>3, <4>2 DEF Told
      <4>3. CASE j = i /\ k = Len(up[i]) + 1
        <5>1. up[i + 1][1] = a /\ 1 \in 1 .. Len(up[i + 1])
          BY <3>2, <3>3, <4>3
        <5>. QED
          BY <3>2, <5>1 DEF Told
      <4>4. CASE j = i + 1
        <5>1. k + 1 \in 1 .. Len(up[i + 1]) /\ up[i + 1][k + 1] = a
          <6>1. k \in 1 .. Len(up'[i + 1]) /\ up'[i + 1][k] = a
            BY <3>3, <4>4
          <6>2. PICK n \in Nat \ {0} : n = Len(up[i + 1])
            BY <3>2
          <6>3. Len(up'[i + 1]) = n - 1 /\ \A m \in 1 .. n - 1 : up'[i + 1][m] = up[i + 1][m + 1]
            BY <3>2, <6>2
          <6>4. k \in 1 .. n - 1
            BY <6>1, <6>3
          <6>5. k + 1 \in 1 .. n
            BY <6>2, <6>4
          <6>. QED
            BY <6>1, <6>2, <6>3, <6>4, <6>5
        <5>. QED
          BY <3>2, <5>1 DEF Told
      <4>. QED
        BY <3>2, <4>1, <4>2, <4>3, <4>4
    <3>. QED
      BY <2>0, <3>3 DEF Told
  <2>. QED
    BY <1>11, <2>1, <2>2, <2>3 DEF StageRelays
<1>. QED
  BY <1>1, <1>3, <1>4, <1>5, <1>6, <1>7, <1>8, <1>9, <1>10, <1>11, <1>12, StepSplits

-----------------------------------------------------------------------------
(* Blame. *)

\* Nothing closes, is lost or blamed before a stage failed or the driver let go.
Chain ==
  /\ \A i \in Stages : i < Last /\ link[i] /\ ~link[i + 1] => culprit # 0
  /\ \A i \in Stages : lost[i] /\ link[i] => culprit # 0
  /\ \A n \in Stages : Told(Failure(All, n)) => culprit # 0
  /\ \A i \in Stages : ~serving[i] /\ link[i] => culprit = i \/ lost[i]
  /\ down /\ ~link[1] => culprit # 0
  /\ Told(Closed) => ~link[1]
  /\ ~down => failed # 0 \/ call.at = "dropped"
  /\ failed # 0 => call.at \in {"idle", "dropped"} /\ culprit # 0
  /\ call.at = "drain" => culprit # 0 /\ ~link[1]

\* Reports that blame stages are told apart, and from answers.
LEMMA FailuresDiffer ==
  /\ \A m, n \in Stages : Failure(All, m) = Failure(All, n) => m = n
  /\ \A n \in Stages : Failure(All, n) # Closed
  /\ \A n \in Stages, m \in Stages, t \in Tickets : Failure(All, n) # Failure(t, m)
  /\ \A n \in Stages, t \in Tickets, w \in BOOLEAN : Failure(All, n) # Logits(t, w)
<1>1. \A t \in Tickets : t # All
  BY TicketTypes
<1>2. "failure" # "logits"
  OBVIOUS
<1>. QED
  BY <1>1, <1>2 DEF Failure, Closed, Logits

\* What a stage answers is an answer.
LEMMA AnsweredTypes ==
  ASSUME TypedFrames, NEW a, Answered(a)
  PROVE  a \in Answers
<1>1. PICK i \in Stages : \/ StageFails(i) /\ a = Failure(Frame(i).ticket, i)
                          \/ /\ StageDecodes(i) /\ i = Last
                             /\ a = Logits(Frame(i).ticket, Frame(i).whole /\ Whole(i, Frame(i).ticket))
  BY DEF Answered
<1>2. Frame(i).ticket \in Tickets /\ Frame(i).whole \in BOOLEAN
  BY <1>1, TakesQ, DownTypes DEF StageFails, StageDecodes
<1>3. Failure(Frame(i).ticket, i) \in Answers
  BY <1>2 DEF Answers
<1>. QED
  BY <1>1, <1>2, <1>3, UpTypes, WholeTypes

\* The links and what closes them.
LEMMA StepLinks ==
  ASSUME TypeOK, [Next]_vars
  PROVE  /\ \A i \in Stages : link'[i] => link[i]
         /\ culprit' = culprit \/ (culprit = 0 /\ culprit' \in Stages)
         /\ \A i \in Stages : link[i] /\ ~link'[i] =>
              \/ i = 1 /\ ~down'
              \/ culprit = 0 /\ culprit' \in {i - 1, i} \cap Stages
              \/ culprit' = culprit /\ i - 1 \in Stages /\ (~link[i - 1] \/ lost[i - 1])
              \/ culprit' = culprit /\ ~serving[i]
<1>0. TypedStages /\ 1 \in Stages /\ Stages \subseteq Int
  BY Split, PipelineAssumption DEF Stages
<1>1. CASE UNCHANGED link /\ UNCHANGED culprit
  BY <1>1
<1>2. CASE link' = [link EXCEPT ![1] = FALSE] /\ down' = FALSE /\ UNCHANGED culprit
  BY <1>0, <1>2 DEF TypedStages
<1>3. CASE \/ UNCHANGED vars \/ Begin \/ Submit \/ Collect \/ SubmitFails \/ TimeOut \/ Read \/ WriteFails
           \/ \E i \in Stages : \/ StageDecodes(i) \/ StageTruncates(i)
                                \/ StageWriteFails(i) \/ StageRelays(i) \/ StageFails(i)
  BY <1>1, <1>3 DEF vars, Begin, Submit, Collect, SubmitFails, TimeOut, Read, WriteFails,
     StageDecodes, StageTruncates, StageWriteFails, StageRelays, StageFails
<1>4. CASE Pump \/ Drain \/ Drop
  BY <1>1, <1>2, <1>4 DEF Pump, Drain, Drop, Fail, Settled
<1>5. ASSUME NEW j \in Stages, SessionEnds(j) \/ GivesUp(j)
      PROVE /\ link' = [k \in Stages |-> link[k] /\ k # j + 1]
            /\ \/ culprit = 0 /\ culprit' = j
               \/ culprit' = culprit /\ (~link[j] \/ lost[j])
  BY <1>5 DEF SessionEnds, GivesUp, Ends
<1>6. CASE \E j \in Stages : SessionEnds(j) \/ GivesUp(j)
  <2>1. PICK j \in Stages : /\ link' = [k \in Stages |-> link[k] /\ k # j + 1]
                            /\ \/ culprit = 0 /\ culprit' = j
                               \/ culprit' = culprit /\ (~link[j] \/ lost[j])
    BY <1>5, <1>6
  <2>2. /\ \A i \in Stages : link'[i] => link[i]
        /\ \A i \in Stages : link[i] /\ ~link'[i] => i - 1 = j
    <3>1. \A i \in Stages : (link'[i] => link[i]) /\ (link[i] /\ ~link'[i] => i = j + 1)
      BY <2>1
    <3>. QED
      BY <1>0, <3>1
  <2>. QED
    BY <2>1, <2>2
<1>7. CASE \E j \in Stages : Dies(j)
  <2>1. PICK j \in Stages : link' = [k \in Stages |-> link[k] /\ k \notin {j, j + 1}] /\ culprit = 0 /\ culprit' = j
    BY <1>7 DEF Dies
  <2>2. /\ \A i \in Stages : link'[i] => link[i]
        /\ \A i \in Stages : link[i] /\ ~link'[i] => i = j \/ i - 1 = j
    <3>1. \A i \in Stages : (link'[i] => link[i]) /\ (link[i] /\ ~link'[i] => i \in {j, j + 1})
      BY <2>1
    <3>. QED
      BY <1>0, <3>1
  <2>. QED
    BY <2>1, <2>2
<1>8. CASE \E j \in Stages : UpCloses(j)
  BY <1>0, <1>8 DEF UpCloses, TypedStages
<1>. QED
  BY <1>3, <1>4, <1>6, <1>7, <1>8, StepSplits DEF Closes

\* A stage finds the one after it lost only when their link is closed.
LEMMA StepLost ==
  ASSUME TypeOK, [Next]_vars, NEW i \in Stages, lost'[i], ~lost[i]
  PROVE  i < Last /\ ~link[i + 1] /\ link' = link /\ culprit' = culprit
<1>0. TypedStages
  BY Split
<1>1. CASE UNCHANGED lost
  BY <1>1
<1>2. ASSUME NEW j \in Stages, StageWriteFails(j) \/ StageRelays(j)
      PROVE i < Last /\ ~link[i + 1] /\ link' = link /\ culprit' = culprit
  <2>1. /\ j < Last /\ link' = link /\ culprit' = culprit
        /\ lost' = lost \/ (~link[j + 1] /\ lost' = [lost EXCEPT ![j] = TRUE])
    BY <1>2 DEF StageWriteFails, StageRelays, Reports
  <2>2. lost \in [Stages -> BOOLEAN]
    BY <1>0 DEF TypedStages
  <2>. QED
    BY <2>1, <2>2
<1>3. CASE \/ UNCHANGED vars \/ Begin \/ Submit \/ Pump \/ Drain \/ Collect \/ SubmitFails \/ TimeOut
           \/ Drop \/ Read \/ WriteFails
           \/ \E j \in Stages : StageDecodes(j) \/ StageTruncates(j) \/ StageFails(j)
  BY <1>1, <1>3 DEF vars, Begin, Submit, Pump, Drain, Collect, SubmitFails, TimeOut, Drop, Read, WriteFails,
     StageDecodes, StageTruncates, StageFails
<1>4. ASSUME NEW j \in Stages, Closes(j) PROVE FALSE
  BY <1>4, ClosingKeeps
<1>. QED
  BY <1>2, <1>3, <1>4, StepSplits

\* What the item taken from the driver's channel says.
LEMMA ItemTold ==
  ASSUME TypedFrames, inbox # << >>
  PROVE  /\ Told(Head(inbox)) /\ Head(inbox) \in UpFrames \cup {Closed}
         /\ Head(inbox).kind = "closed" => Head(inbox) = Closed
         /\ Report(Head(inbox)) =>
              Head(inbox).stage \in Stages /\ Head(inbox) = Failure(All, Head(inbox).stage)
              /\ Told(Failure(All, Head(inbox).stage))
         /\ Head(inbox).kind # "closed" /\ Head(inbox).ticket # All => Head(inbox) \in Answers
<1>1. Head(inbox) \in UpFrames \cup {Closed} /\ Head(inbox) = inbox[1] /\ 1 \in 1 .. Len(inbox)
  BY TakesIn
<1>2. Told(Head(inbox))
  BY <1>1 DEF Told
<1>3. \A f \in UpFrames : f.kind # "closed"
  BY FrameTypes
<1>. QED
  BY <1>1, <1>2, <1>3, FrameTypes, ClosedType DEF Report

\* A compute loop that ends failed, or its link is closed or lost.
LEMMA StepServing ==
  ASSUME TypeOK, [Next]_vars, NEW i \in Stages
  PROVE  /\ serving[i] /\ ~serving'[i] => culprit' = i \/ ~link[i] \/ lost[i]
         /\ lost[i] => lost'[i]
         /\ serving'[i] => serving[i]
<1>0. TypedStages
  BY Split
<1>1. CASE UNCHANGED << lost, serving >>
  BY <1>1
<1>2. ASSUME NEW j \in Stages, StageWriteFails(j) \/ StageRelays(j)
      PROVE serving' = serving /\ (lost[i] => lost'[i])
  <2>1. serving' = serving /\ (lost' = lost \/ lost' = [lost EXCEPT ![j] = TRUE])
    BY <1>2 DEF StageWriteFails, StageRelays, Reports
  <2>2. lost \in [Stages -> BOOLEAN]
    BY <1>0 DEF TypedStages
  <2>. QED
    BY <2>1, <2>2
<1>3. CASE \/ UNCHANGED vars \/ Begin \/ Submit \/ Pump \/ Drain \/ Collect \/ SubmitFails \/ TimeOut
           \/ Drop \/ Read \/ WriteFails
           \/ \E j \in Stages : StageDecodes(j) \/ StageTruncates(j) \/ StageFails(j)
  BY <1>1, <1>3 DEF vars, Begin, Submit, Pump, Drain, Collect, SubmitFails, TimeOut, Drop, Read, WriteFails,
     StageDecodes, StageTruncates, StageFails
<1>4. ASSUME NEW j \in Stages, Closes(j)
      PROVE  /\ serving[i] /\ ~serving'[i] => culprit' = i \/ ~link[i] \/ lost[i]
             /\ lost' = lost /\ (serving'[i] => serving[i])
  <2>1. lost' = lost /\ serving' \in {serving, [serving EXCEPT ![j] = FALSE]}
    BY <1>4, ClosingKeeps
  <2>2. serving' = serving \/ culprit' = j \/ ~link[j] \/ lost[j]
    BY <1>4 DEF Closes, SessionEnds, GivesUp, UpCloses, Dies
  <2>3. serving \in [Stages -> BOOLEAN]
    BY <1>0 DEF TypedStages
  <2>. QED
    BY <2>1, <2>2, <2>3
<1>. QED
  BY <1>1, <1>2, <1>3, <1>4, StepSplits

\* Every step keeps what closes, is lost or blamed behind a failure.
LEMMA StepChain ==
  ASSUME TypeOK, Spent, Chain, [Next]_vars
  PROVE  Chain' /\ (down' => down)
<1>0. /\ TypedDriver /\ TypedFrames /\ TypedStages /\ 1 \in Stages /\ Last \in Nat
      /\ culprit \in 0 .. Last /\ failed \in 0 .. Last
      /\ Stages = 1 .. Last
  BY Split, PipelineAssumption DEF Stages, TypedDriver
<1>1. /\ \A i \in Stages : link'[i] => link[i]
      /\ culprit' = culprit \/ (culprit = 0 /\ culprit' \in Stages)
      /\ \A i \in Stages : link[i] /\ ~link'[i] =>
           \/ i = 1 /\ ~down'
           \/ culprit = 0 /\ culprit' \in {i - 1, i} \cap Stages
           \/ culprit' = culprit /\ i - 1 \in Stages /\ (~link[i - 1] \/ lost[i - 1])
           \/ culprit' = culprit /\ ~serving[i]
  BY StepLinks
<1>2. culprit # 0 => culprit' # 0
  BY <1>1
<1>a. 0 \notin Stages
  BY <1>0
<1>3. ASSUME NEW i \in Stages, i < Last, link'[i], ~link'[i + 1] PROVE culprit' # 0
  <2>0. i + 1 \in Stages /\ i + 1 # 1 /\ (i + 1) - 1 = i
    BY <1>0, <1>3
  <2>1. link[i]
    BY <1>1, <1>3
  <2>2. CASE ~link[i + 1]
    BY <1>2, <1>3, <2>1, <2>2 DEF Chain
  <2>3. CASE link[i + 1]
    <3>1. \/ culprit' \in Stages
          \/ culprit' = culprit /\ (~link[i] \/ lost[i])
          \/ culprit' = culprit /\ ~serving[i + 1]
      BY <1>1, <1>3, <2>0, <2>3
    <3>2. lost[i] => culprit # 0
      BY <2>1 DEF Chain
    <3>3. ~serving[i + 1] => culprit # 0
      BY <2>0, <2>3, <1>a DEF Chain
    <3>. QED
      BY <1>a, <2>1, <3>1, <3>2, <3>3
  <2>. QED
    BY <2>2, <2>3
<1>4. ASSUME NEW i \in Stages, lost'[i], link'[i] PROVE culprit' # 0
  <2>1. CASE lost[i]
    BY <1>1, <1>2, <1>4, <2>1 DEF Chain
  <2>2. CASE ~lost[i]
    <3>1. i < Last /\ ~link[i + 1] /\ link' = link /\ culprit' = culprit
      BY <1>4, <2>2, StepLost
    <3>. QED
      BY <1>4, <3>1 DEF Chain
  <2>. QED
    BY <2>1, <2>2
<1>5. ASSUME NEW n \in Stages, Told(Failure(All, n))' PROVE culprit' # 0
  <2>1. PICK a : a = Failure(All, n)
    OBVIOUS
  <2>2. Told(a)'
    BY <1>5, <2>1 DEF Told, Failure
  <2>3. Told(a) \/ Blamed(a) \/ Answered(a) \/ a = Closed
    BY <2>2, StepTold
  <2>4. a # Closed /\ a \notin Answers
    <3>1. a # Closed
      BY <2>1, FailuresDiffer
    <3>2. a.ticket = All
      BY <2>1 DEF Failure
    <3>. QED
      BY <3>1, <3>2, AnswerTypes, TicketTypes
  <2>5. CASE Told(a)
    BY <1>2, <2>1, <2>5 DEF Chain
  <2>6. CASE Blamed(a)
    BY <1>2, <1>a, <2>6 DEF Blamed, Chain
  <2>. QED
    BY <1>0, <2>3, <2>4, <2>5, <2>6, AnsweredTypes
<1>6. ASSUME Told(Closed)' PROVE ~link'[1]
  <2>1. PICK a : a = Closed
    OBVIOUS
  <2>2. Told(a)'
    BY <1>6, <2>1 DEF Told, Closed
  <2>3. Told(a) \/ Blamed(a) \/ Answered(a) \/ ~link[1]
    BY <2>2, StepTold
  <2>4. ~Blamed(a)
    <3>1. ASSUME NEW i \in Stages PROVE a # Failure(All, i) /\ (i < Last => a # Failure(All, i + 1))
      <4>1. i < Last => i + 1 \in Stages
        BY <1>0
      <4>. QED
        BY <2>1, <4>1, FailuresDiffer
    <3>. QED
      BY <3>1 DEF Blamed
  <2>5. ~Answered(a)
    BY <1>0, <2>1, AnsweredTypes, AnswerTypes, ClosedType
  <2>6. ~link[1]
    BY <2>1, <2>3, <2>4, <2>5 DEF Chain
  <2>. QED
    BY <1>0, <1>1, <2>6
<1>7. /\ down' => down
      /\ ~down' => failed' # 0 \/ call'.at = "dropped"
      /\ failed' # 0 => call'.at \in {"idle", "dropped"} /\ culprit' # 0
      /\ call'.at = "drain" => culprit' # 0 /\ ~link'[1]
  <2>0. call \in CallType /\ down \in BOOLEAN /\ Idle.at = "idle"
    BY <1>0 DEF TypedDriver, CallType, Idle
  <2>a. ~link[1] => ~link'[1]
    BY <1>0, <1>1
  <2>1. CASE UNCHANGED << down, failed, call >>
    BY <1>2, <2>a, <2>1 DEF Chain
  <2>2. CASE Begin \/ Submit
    <3>1. failed = 0 /\ UNCHANGED << down, failed, culprit >> /\ call.at # "dropped" /\ call.at # "drain"
      BY <2>2 DEF Begin, Submit, Submits
    <3>2. call'.at \in {"run", "refused"}
      BY <2>0, <2>2 DEF Begin, Submit, Submits, Send, CallType, Idle
    <3>. QED
      BY <3>1, <3>2 DEF Chain
  <2>3. CASE Pump
    <3>0. /\ Blocked /\ failed = 0 /\ inbox # << >> /\ UNCHANGED culprit
          /\ call.at # "dropped" /\ call.at # "drain" /\ down
      BY <2>3 DEF Pump, Blocked, Submits, Waits, Chain
    <3>1. CASE Head(inbox).kind = "closed" /\ call' = [call EXCEPT !.at = "drain"] /\ UNCHANGED << down, failed >>
      <4>1. ~link[1]
        BY <1>0, <3>0, <3>1, ItemTold DEF Chain
      <4>2. culprit # 0
        BY <3>0, <4>1 DEF Chain
      <4>. QED
        BY <2>0, <2>a, <3>0, <3>1, <4>1, <4>2 DEF CallType
    <3>2. CASE Report(Head(inbox)) /\ Fail(Head(inbox).stage) /\ Returned
      <4>1. Head(inbox).stage \in Stages /\ Told(Failure(All, Head(inbox).stage))
        BY <1>0, <3>0, <3>2, ItemTold
      <4>2. culprit # 0
        BY <4>1 DEF Chain
      <4>. QED
        BY <1>a, <2>0, <3>0, <3>2, <4>1, <4>2 DEF Fail, Returned
    <3>3. CASE call' \in {Idle, call} /\ UNCHANGED << down, failed >>
      BY <2>0, <3>0, <3>3 DEF Chain
    <3>. QED
      BY <2>3, <3>1, <3>2, <3>3 DEF Pump, Settled
  <2>4. CASE Drain
    <3>0. call.at = "drain" /\ culprit # 0 /\ failed = 0 /\ UNCHANGED culprit
      BY <2>4, <1>0 DEF Drain, Chain
    <3>1. CASE Fail(1) /\ Returned
      BY <1>0, <2>0, <3>0, <3>1 DEF Fail, Returned
    <3>2. CASE /\ inbox # << >> /\ Report(Head(inbox))
               /\ Fail(Head(inbox).stage) /\ Returned
      <4>1. Head(inbox).stage \in Stages
        BY <1>0, <3>2, ItemTold
      <4>. QED
        BY <1>a, <2>0, <3>0, <3>2, <4>1 DEF Fail, Returned
    <3>. QED
      BY <2>1, <2>4, <3>1, <3>2 DEF Drain
  <2>5. CASE Collect \/ SubmitFails \/ TimeOut
    <3>1. UNCHANGED << down, failed, culprit >> /\ call.at \in {"run", "refused"} /\ call'.at \in {"idle", "run"}
      BY <2>0, <2>5 DEF Collect, SubmitFails, TimeOut, Waits, Submits, Blocked, Returned, CallType
    <3>. QED
      BY <3>1 DEF Chain
  <2>6. CASE Drop
    BY <2>0, <2>6 DEF Drop, Chain, Idle
  <2>7. CASE \/ UNCHANGED vars \/ Read \/ WriteFails
             \/ \E i \in Stages : \/ StageDecodes(i) \/ StageTruncates(i) \/ Closes(i)
                                  \/ StageWriteFails(i) \/ StageRelays(i) \/ StageFails(i)
    BY <2>1, <2>7, StepThreads
  <2>. QED
    BY <2>2, <2>3, <2>4, <2>5, <2>6, <2>7, StepSplits
<1>8. down' /\ ~link'[1] => culprit' # 0
  <2>1. CASE ~link[1]
    BY <1>2, <1>7, <2>1 DEF Chain
  <2>2. CASE link[1] /\ ~link'[1] /\ down'
    <3>1. culprit' \in Stages \/ (culprit' = culprit /\ ~serving[1])
      BY <1>0, <1>1, <1>a, <2>2
    <3>2. ~serving[1] => culprit # 0
      BY <1>0, <2>2 DEF Chain
    <3>. QED
      BY <1>a, <3>1, <3>2
  <2>. QED
    BY <2>1, <2>2
<1>9. ASSUME NEW i \in Stages, ~serving'[i], link'[i] PROVE culprit' = i \/ lost'[i]
  <2>1. link[i]
    BY <1>1, <1>9
  <2>2. CASE serving[i]
    BY <1>9, <2>1, <2>2, StepServing
  <2>3. CASE ~serving[i]
    <3>1. culprit = i \/ lost[i]
      BY <2>1, <2>3 DEF Chain
    <3>. QED
      BY <1>1, <1>a, <3>1, StepServing
  <2>. QED
    BY <2>2, <2>3
<1>. QED
  BY <1>3, <1>4, <1>5, <1>6, <1>7, <1>8, <1>9 DEF Chain

-----------------------------------------------------------------------------
(* The stage that failed. *)

Has(s, c) == \E k \in 1 .. Len(s) : s[k] = c

\* Whatever blames another than c comes behind c.
Leads(s, c) == \A k \in 1 .. Len(s) : Report(s[k]) /\ s[k] # c => \E m \in 1 .. k - 1 : s[m] = c

\* c is closer to the driver than what is sent up to stage i from now on.
Before(c, i) == Has(inbox, c) \/ \E j \in Stages : j < i /\ Has(up[j], c)

Known(c, i) == Before(c, i) \/ Has(up[i], c)

\* The driver meets c before any other report.
Sound(c) == Leads(inbox, c) /\ \A i \in Stages : Leads(up[i], c) \/ Before(c, i)

\* Where the open links end is the stage that failed, or its report is ahead.
Heard(c) ==
  /\ \A i \in Stages : ~link[i] /\ (i > 1 => link[i - 1]) => culprit \in {i - 1, i} \/ Known(c, i)
  /\ \A i \in Stages : lost[i] /\ link[i] => Known(c, i)

Blame == down /\ ~astray /\ culprit # 0 => Sound(Failure(All, culprit)) /\ Heard(Failure(All, culprit))

\* One more behind the others.
LEMMA AppendLeads ==
  ASSUME NEW L, NEW s \in Seq(L), NEW x \in L, NEW c
  PROVE  /\ Has(s, c) \/ x = c => Has(Append(s, x), c)
         /\ Leads(s, c) /\ (Report(x) => x = c \/ Has(s, c)) => Leads(Append(s, x), c)
<1>1. PICK r : r = Append(s, x)
  OBVIOUS
<1>2. /\ Len(r) = Len(s) + 1 /\ Len(s) \in Nat
      /\ \A k \in 1 .. Len(s) : r[k] = s[k]
      /\ r[Len(s) + 1] = x
  BY <1>1, AppendIs
<1>3. Has(s, c) \/ x = c => Has(r, c)
  BY <1>2 DEF Has
<1>4. ASSUME Leads(s, c), Report(x) => x = c \/ Has(s, c) PROVE Leads(r, c)
  <2>1. ASSUME NEW k \in 1 .. Len(r), Report(r[k]), r[k] # c PROVE \E m \in 1 .. k - 1 : r[m] = c
    <3>1. CASE k = Len(s) + 1
      <4>1. PICK m \in 1 .. Len(s) : s[m] = c
        BY <1>2, <1>4, <2>1, <3>1 DEF Has
      <4>. QED
        BY <1>2, <3>1, <4>1
    <3>2. CASE k \in 1 .. Len(s)
      <4>1. PICK m \in 1 .. k - 1 : s[m] = c
        BY <1>2, <1>4, <2>1, <3>2 DEF Leads
      <4>2. m \in 1 .. Len(s)
        BY <1>2, <3>2, <4>1
      <4>. QED
        BY <1>2, <4>1, <4>2
    <3>. QED
      BY <1>2, <2>1, <3>1, <3>2
  <2>. QED
    BY <2>1 DEF Leads
<1>. QED
  BY <1>1, <1>3, <1>4

\* The first one taken.
LEMMA TailLeads ==
  ASSUME NEW L, NEW s \in Seq(L), s # << >>, NEW c
  PROVE  /\ Has(s, c) => Head(s) = c \/ Has(Tail(s), c)
         /\ Leads(s, c) => Head(s) = c \/ Leads(Tail(s), c)
         /\ Leads(s, c) /\ Report(Head(s)) => Head(s) = c
<1>1. PICK r, h : r = Tail(s) /\ h = Head(s)
  OBVIOUS
<1>2. /\ Len(r) = Len(s) - 1 /\ Len(s) \in Nat \ {0}
      /\ \A k \in 1 .. Len(s) - 1 : r[k] = s[k + 1]
      /\ h = s[1]
  BY <1>1, TailIs
<1>3. ASSUME NEW k \in 1 .. Len(s), s[k] = c, h # c PROVE k - 1 \in 1 .. Len(r) /\ r[k - 1] = c
  <2>1. k # 1 /\ k - 1 \in 1 .. Len(s) - 1 /\ (k - 1) + 1 = k
    BY <1>2, <1>3
  <2>. QED
    BY <1>2, <1>3, <2>1
<1>4. Has(s, c) => h = c \/ Has(r, c)
  BY <1>3 DEF Has
<1>5. ASSUME Leads(s, c), h # c PROVE Leads(r, c)
  <2>1. ASSUME NEW k \in 1 .. Len(r), Report(r[k]), r[k] # c PROVE \E m \in 1 .. k - 1 : r[m] = c
    <3>1. k + 1 \in 1 .. Len(s) /\ r[k] = s[k + 1] /\ k \in Nat
      BY <1>2, <2>1
    <3>2. PICK m \in 1 .. (k + 1) - 1 : s[m] = c
      BY <1>5, <2>1, <3>1 DEF Leads
    <3>3. m \in 1 .. Len(s) /\ m - 1 \in 1 .. k - 1
      BY <1>2, <1>5, <3>1, <3>2
    <3>4. r[m - 1] = c
      BY <1>3, <1>5, <3>2, <3>3
    <3>. QED
      BY <3>3, <3>4
  <2>. QED
    BY <2>1 DEF Leads
<1>6. ASSUME Leads(s, c), Report(h) PROVE h = c
  <2>1. 1 \in 1 .. Len(s) /\ 1 .. 1 - 1 = {}
    BY <1>2
  <2>. QED
    BY <1>2, <1>6, <2>1 DEF Leads
<1>. QED
  BY <1>1, <1>4, <1>5, <1>6

\* What a step does to the queues on the way up, when it blames nobody but c
\* ahead of c.
Moves(c) ==
  \/ UNCHANGED << up, inbox >>
  \/ \E x \in UpFrames \cup {Closed} : ~Report(x) /\ inbox' = Append(inbox, x) /\ UNCHANGED up
  \/ up[1] # << >> /\ inbox' = Append(inbox, Head(up[1])) /\ up' = [up EXCEPT ![1] = Tail(@)]
  \/ inbox # << >> /\ ~Report(Head(inbox)) /\ inbox' = Tail(inbox) /\ UNCHANGED up
  \/ \E i \in Stages, f \in UpFrames :
       /\ up' = [up EXCEPT ![i] = Append(@, f)] /\ UNCHANGED inbox
       /\ Report(f) => f = c \/ Known(c, i)
  \/ \E i \in Stages :
       /\ i < Last /\ up[i + 1] # << >> /\ UNCHANGED inbox
       /\ up' = [up EXCEPT ![i] = Append(@, Head(up[i + 1])), ![i + 1] = Tail(@)]

\* Such a step keeps c ahead of the other reports.
LEMMA MovesKeep ==
  ASSUME TypedFrames, NEW c, Report(c), Sound(c), Moves(c)
  PROVE  Sound(c)' /\ \A i \in Stages : Known(c, i) => Known(c, i)'
<1>0. /\ 1 \in Stages /\ Last \in Nat /\ Stages = 1 .. Last
      /\ inbox \in Seq(UpFrames \cup {Closed})
      /\ up \in [Stages -> Seq(UpFrames)] /\ \A i \in Stages : up[i] \in Seq(UpFrames)
  BY PipelineAssumption DEF Stages, TypedFrames
<1>a. PICK u, b : u = up' /\ b = inbox'
  OBVIOUS
<1>. DEFINE Ahead(i) == Has(b, c) \/ \E j \in Stages : j < i /\ Has(u[j], c)
            Goal == /\ Leads(b, c) /\ \A i \in Stages : Leads(u[i], c) \/ Ahead(i)
                    /\ \A i \in Stages : Known(c, i) => Ahead(i) \/ Has(u[i], c)
<1>b. Goal => Sound(c)' /\ \A i \in Stages : Known(c, i) => Known(c, i)'
  BY <1>a DEF Sound, Known, Before
<1>1. ASSUME u = up, b = inbox PROVE Goal
  BY <1>1 DEF Sound, Known, Before
<1>2. ASSUME NEW x \in UpFrames \cup {Closed}, ~Report(x), b = Append(inbox, x), u = up PROVE Goal
  <2>1. Leads(b, c) /\ (Has(inbox, c) => Has(b, c)) /\ u = up
    BY <1>0, <1>2, AppendLeads DEF Sound
  <2>. QED
    BY <2>1 DEF Sound, Known, Before
<1>3. ASSUME up[1] # << >>, b = Append(inbox, Head(up[1])), u = [up EXCEPT ![1] = Tail(@)] PROVE Goal
  <2>0. u[1] = Tail(up[1]) /\ \A j \in Stages : j # 1 => u[j] = up[j]
    BY <1>0, <1>3
  <2>1. PICK h \in UpFrames : h = Head(up[1])
    BY <1>0, <1>3, TailIs
  <2>2. /\ Has(up[1], c) => h = c \/ Has(u[1], c)
        /\ Leads(up[1], c) => h = c \/ Leads(u[1], c)
        /\ Leads(up[1], c) /\ Report(h) => h = c
    BY <1>0, <1>3, <2>0, <2>1, TailLeads
  <2>3. /\ Has(inbox, c) \/ h = c => Has(b, c)
        /\ Leads(inbox, c) /\ (Report(h) => h = c \/ Has(inbox, c)) => Leads(b, c)
    <3>1. h \in UpFrames \cup {Closed} /\ b = Append(inbox, h)
      BY <1>3, <2>1
    <3>. QED
      BY <1>0, <3>1, AppendLeads
  <2>4. Before(c, 1) => Has(inbox, c)
    BY <1>0 DEF Before
  <2>5. Leads(b, c)
    BY <1>0, <2>2, <2>3, <2>4 DEF Sound
  <2>6. \A i \in Stages : Before(c, i) => Ahead(i)
    BY <1>0, <2>0, <2>2, <2>3 DEF Before
  <2>7. \A i \in Stages : Has(up[i], c) => Ahead(i) \/ Has(u[i], c)
    BY <2>0, <2>2, <2>3
  <2>8. \A i \in Stages : Leads(up[i], c) => Leads(u[i], c) \/ Ahead(i)
    BY <2>0, <2>2, <2>3
  <2>. HIDE DEF Ahead
  <2>. QED
    BY <2>5, <2>6, <2>7, <2>8 DEF Sound, Known
<1>4. ASSUME inbox # << >>, ~Report(Head(inbox)), b = Tail(inbox), u = up PROVE Goal
  <2>1. Head(inbox) # c
    BY <1>4
  <2>2. Leads(b, c) /\ (Has(inbox, c) => Has(b, c)) /\ u = up
    BY <1>0, <1>4, <2>1, TailLeads DEF Sound
  <2>. QED
    BY <2>2 DEF Sound, Known, Before
<1>5. ASSUME NEW i \in Stages, NEW f \in UpFrames, u = [up EXCEPT ![i] = Append(@, f)], b = inbox,
             Report(f) => f = c \/ Known(c, i)
      PROVE Goal
  <2>0. u[i] = Append(up[i], f) /\ \A j \in Stages : j # i => u[j] = up[j]
    BY <1>0, <1>5
  <2>1. /\ Has(up[i], c) \/ f = c => Has(u[i], c)
        /\ Leads(up[i], c) /\ (Report(f) => f = c \/ Has(up[i], c)) => Leads(u[i], c)
    BY <1>0, <2>0, AppendLeads
  <2>2. \A j \in Stages : Has(up[j], c) => Has(u[j], c)
    BY <2>0, <2>1
  <2>3. \A j \in Stages : Before(c, j) => Ahead(j)
    BY <1>5, <2>2 DEF Before
  <2>4. Leads(u[i], c) \/ Ahead(i)
    <3>. HIDE DEF Ahead
    <3>. QED
      BY <1>5, <2>1, <2>3 DEF Sound, Known
  <2>5. \A j \in Stages : Leads(u[j], c) \/ Ahead(j)
    <3>. HIDE DEF Ahead
    <3>. QED
      BY <2>0, <2>3, <2>4 DEF Sound
  <2>6. Leads(b, c)
    BY <1>5 DEF Sound
  <2>. HIDE DEF Ahead
  <2>. QED
    BY <2>2, <2>3, <2>5, <2>6 DEF Known
<1>6. ASSUME NEW i \in Stages, i < Last, up[i + 1] # << >>, b = inbox,
             u = [up EXCEPT ![i] = Append(@, Head(up[i + 1])), ![i + 1] = Tail(@)]
      PROVE Goal
  <2>a. i + 1 \in Stages /\ i + 1 # i /\ i < i + 1
    BY <1>0, <1>6
  <2>0. /\ u[i] = Append(up[i], Head(up[i + 1])) /\ u[i + 1] = Tail(up[i + 1])
        /\ \A j \in Stages : j # i /\ j # i + 1 => u[j] = up[j]
    BY <1>0, <1>6, <2>a
  <2>1. PICK h \in UpFrames : h = Head(up[i + 1])
    BY <1>0, <1>6, <2>a, TailIs
  <2>2. /\ Has(up[i + 1], c) => h = c \/ Has(u[i + 1], c)
        /\ Leads(up[i + 1], c) => h = c \/ Leads(u[i + 1], c)
        /\ Leads(up[i + 1], c) /\ Report(h) => h = c
    BY <1>0, <1>6, <2>a, <2>0, <2>1, TailLeads
  <2>3. /\ Has(up[i], c) \/ h = c => Has(u[i], c)
        /\ Leads(up[i], c) /\ (Report(h) => h = c \/ Has(up[i], c)) => Leads(u[i], c)
    BY <1>0, <2>0, <2>1, AppendLeads
  <2>4. Before(c, i + 1) => Before(c, i) \/ Has(up[i], c)
    BY <1>0 DEF Before
  <2>5. \A j \in Stages : Has(up[j], c) => Has(u[j], c) \/ (j = i + 1 /\ Has(u[i], c))
    BY <2>0, <2>2, <2>3
  <2>6. \A j \in Stages : Before(c, j) => Ahead(j)
    <3>1. ASSUME NEW j \in Stages, NEW l \in Stages, l < j, Has(up[l], c) PROVE Ahead(j)
      <4>1. l = i + 1 => i < j
        BY <1>0, <3>1
      <4>. QED
        BY <2>5, <3>1, <4>1
    <3>. QED
      BY <1>6, <3>1 DEF Before
  <2>7. Has(u[i], c) => Ahead(i + 1)
    BY <2>a
  <2>8. Leads(u[i + 1], c) \/ Ahead(i + 1)
    <3>1. Leads(up[i + 1], c) \/ Before(c, i + 1)
      BY <2>a DEF Sound
    <3>. HIDE DEF Ahead
    <3>. QED
      BY <2>a, <2>2, <2>3, <2>6, <2>7, <3>1
  <2>9. Leads(u[i], c) \/ Ahead(i)
    <3>1. /\ Leads(up[i + 1], c) \/ Before(c, i + 1)
          /\ Leads(up[i], c) \/ Before(c, i)
      BY <2>a DEF Sound
    <3>. HIDE DEF Ahead
    <3>. QED
      BY <2>2, <2>3, <2>4, <2>6, <3>1
  <2>10. \A j \in Stages : Leads(u[j], c) \/ Ahead(j)
    <3>. HIDE DEF Ahead
    <3>. QED
      BY <2>0, <2>6, <2>8, <2>9 DEF Sound
  <2>11. Leads(b, c)
    BY <1>6 DEF Sound
  <2>. HIDE DEF Ahead
  <2>. QED
    BY <2>5, <2>6, <2>7, <2>10, <2>11 DEF Known
<1>. HIDE DEF Goal
<1>7. Goal
  BY <1>a, <1>1, <1>2, <1>3, <1>4, <1>5, <1>6 DEF Moves
<1>. QED
  BY <1>7, <1>b

\* A report of a lost stage is of the one that failed, or its own is ahead.
LEMMA ReportsMove ==
  ASSUME TypedFrames, TypedStages, NEW i \in Stages, i < Last, ~link[i + 1], Reports(i), UNCHANGED inbox, ~astray',
         NEW c, c = Failure(All, culprit), culprit \in Stages, Heard(c)
  PROVE  Moves(c) /\ (link[i] => Known(c, i) \/ Has(up'[i], c))
<1>0. i + 1 \in Stages /\ i + 1 > 1 /\ (i + 1) - 1 = i /\ Stages = 1 .. Last
  BY PipelineAssumption DEF Stages
<1>1. CASE ~link[i]
  BY <1>1 DEF Reports, Moves
<1>2. CASE link[i]
  <2>1. PICK f \in UpFrames : f = Failure(All, i + 1)
    BY <1>0, UpTypes
  <2>2. up' = [up EXCEPT ![i] = Append(@, f)] /\ ~Astray(i)
    BY <1>2, <2>1 DEF Reports
  <2>3. culprit \in {i, i + 1} \/ Known(c, i + 1)
    BY <1>0, <1>2 DEF Heard
  <2>4. culprit # i /\ ~Has(up[i + 1], c)
    <3>1. Report(c)
      BY DEF Report, Failure
    <3>2. up[i + 1] \in Seq(UpFrames)
      BY <1>0 DEF TypedFrames
    <3>3. Has(up[i + 1], c) => Reported(up[i + 1])
      BY <3>1, <3>2 DEF Has, Reported
    <3>. QED
      BY <2>2, <3>3 DEF Astray
  <2>5. Before(c, i + 1) => Known(c, i)
    BY <1>0 DEF Before, Known
  <2>6. f = c \/ Known(c, i)
    BY <2>1, <2>3, <2>4, <2>5 DEF Known
  <2>7. up[i] \in Seq(UpFrames) /\ up'[i] = Append(up[i], f)
    BY <2>2 DEF TypedFrames
  <2>8. f = c => Has(up'[i], c)
    BY <2>7, AppendLeads
  <2>. QED
    BY <2>2, <2>6, <2>8 DEF Moves
<1>. QED
  BY <1>1, <1>2

\* Every step that does not fail the chain moves what is on its way up so.
LEMMA StepMoves ==
  ASSUME TypeOK, Spent, [Next]_vars, down', ~astray', culprit' = culprit, culprit \in Stages,
         NEW c, c = Failure(All, culprit), Heard(c)
  PROVE  Moves(c) /\ \A i \in Stages : lost'[i] /\ ~lost[i] /\ link[i] => Known(c, i) \/ Has(up'[i], c)
<1>0. TypedDriver /\ TypedFrames /\ TypedStages /\ 1 \in Stages
  BY Split, PipelineAssumption DEF Stages
<1>a. ~Report(Closed) /\ \A a \in Answers : ~Report(a)
  BY ClosedType, AnswerTypes, TicketTypes DEF Report
<1>1. ASSUME NEW i \in Stages, StageWriteFails(i) \/ StageRelays(i)
      PROVE Moves(c) /\ \A j \in Stages : lost'[j] /\ ~lost[j] /\ link[j] => Known(c, j) \/ Has(up'[j], c)
  <2>1. i < Last /\ UNCHANGED inbox
    BY <1>1 DEF StageWriteFails, StageRelays
  <2>2. CASE ~link[i + 1] /\ Reports(i)
    <3>1. Moves(c) /\ (link[i] => Known(c, i) \/ Has(up'[i], c))
      BY <1>0, <2>1, <2>2, ReportsMove
    <3>2. \A j \in Stages : lost'[j] /\ ~lost[j] => j = i
      BY <1>0, <2>2 DEF Reports, TypedStages
    <3>. QED
      BY <3>1, <3>2
  <2>3. CASE UNCHANGED << up, lost >>
    BY <2>1, <2>3 DEF Moves
  <2>4. CASE /\ up[i + 1] # << >> /\ UNCHANGED lost
             /\ up' = [up EXCEPT ![i] = Append(@, Head(up[i + 1])), ![i + 1] = Tail(@)]
    BY <2>1, <2>4 DEF Moves
  <2>. QED
    BY <1>1, <2>2, <2>3, <2>4 DEF StageWriteFails, StageRelays
<1>2. CASE \/ UNCHANGED vars \/ Begin \/ Submit \/ Collect \/ SubmitFails \/ TimeOut \/ Drop
           \/ \E i \in Stages : StageTruncates(i)
  BY <1>2 DEF vars, Begin, Submit, Collect, SubmitFails, TimeOut, Drop, StageTruncates, Moves
<1>3. CASE Pump \/ Drain
  <2>1. UNCHANGED << up, lost >>
    BY <1>3 DEF Pump, Drain
  <2>2. inbox' = inbox \/ (inbox # << >> /\ ~Report(Head(inbox)) /\ inbox' = Tail(inbox))
    BY <1>3 DEF Pump, Drain, Fail, Report
  <2>. QED
    BY <2>1, <2>2 DEF Moves
<1>4. CASE Read
  <2>1. UNCHANGED lost
    BY <1>4 DEF Read
  <2>2. Moves(c)
    BY <1>4, <1>a DEF Read, Moves
  <2>. QED
    BY <2>1, <2>2
<1>5. CASE WriteFails
  BY <1>5, <1>a DEF WriteFails, Moves
<1>6. ASSUME NEW i \in Stages, StageDecodes(i) \/ StageFails(i) PROVE Moves(c) /\ UNCHANGED lost
  <2>0. UNCHANGED << lost, inbox >>
    BY <1>6 DEF StageDecodes, StageFails
  <2>1. CASE UNCHANGED up
    BY <2>0, <2>1 DEF Moves
  <2>2. CASE \E f \in Answers : up' = [up EXCEPT ![i] = Append(@, f)]
    BY <1>a, <2>0, <2>2 DEF Moves, UpFrames
  <2>3. q[i] # << >> /\ Frame(i).ticket \in Tickets /\ Frame(i).whole \in BOOLEAN
    BY <1>0, <1>6, TakesQ, DownTypes DEF StageDecodes, StageFails
  <2>4. PICK w \in BOOLEAN : w = (Frame(i).whole /\ Whole(i, Frame(i).ticket))
    BY <2>3, WholeTypes
  <2>5. Logits(Frame(i).ticket, w) \in Answers /\ Failure(Frame(i).ticket, i) \in Answers
    BY <2>3 DEF Answers
  <2>6. UNCHANGED up \/ SendUp(i, Logits(Frame(i).ticket, w)) \/ SendUp(i, Failure(Frame(i).ticket, i))
    BY <1>6, <2>4 DEF StageDecodes, StageFails
  <2>. QED
    BY <2>0, <2>1, <2>2, <2>5, <2>6 DEF SendUp
<1>7. ASSUME NEW i \in Stages, Closes(i) PROVE UNCHANGED << up, inbox, lost >>
  <2>1. culprit # 0
    BY DEF Stages
  <2>. QED
    BY <1>7, <2>1, ClosingKeeps
<1>8. CASE \E i \in Stages : Closes(i)
  BY <1>7, <1>8 DEF Moves
<1>. QED
  BY <1>1, <1>2, <1>3, <1>4, <1>5, <1>6, <1>8, StepSplits

\* While none has failed nothing is reported; then the stage that fails is the
\* one the closed links and a report point at.
LEMMA StepCulprit ==
  ASSUME TypeOK, Spent, Chain, [Next]_vars, down, down', culprit = 0, culprit' # 0,
         NEW c, c = Failure(All, culprit')
  PROVE  Sound(c)' /\ Heard(c)'
<1>0. /\ TypedDriver /\ TypedFrames /\ TypedStages /\ 1 \in Stages /\ Last \in Nat
      /\ Stages = 1 .. Last /\ \A i \in Stages : up[i] \in Seq(UpFrames)
      /\ inbox \in Seq(UpFrames \cup {Closed}) /\ up \in [Stages -> Seq(UpFrames)]
  BY Split, PipelineAssumption DEF Stages, TypedFrames
<1>1. /\ \A k \in 1 .. Len(inbox) : ~Report(inbox[k])
      /\ \A i \in Stages : \A k \in 1 .. Len(up[i]) : ~Report(up[i][k])
  <2>1. ASSUME NEW a, Told(a), Report(a), a \in UpFrames \cup {Closed} PROVE FALSE
    <3>1. a \in UpFrames /\ a.ticket = All
      BY <2>1, ClosedType DEF Report
    <3>2. a.stage \in Stages /\ a = Failure(All, a.stage)
      BY <3>1, FrameTypes
    <3>. QED
      BY <2>1, <3>2 DEF Chain
  <2>2. /\ \A k \in 1 .. Len(inbox) : inbox[k] \in UpFrames \cup {Closed} /\ Told(inbox[k])
        /\ \A i \in Stages : \A k \in 1 .. Len(up[i]) : up[i][k] \in UpFrames /\ Told(up[i][k])
    <3>1. ASSUME NEW k \in 1 .. Len(inbox) PROVE inbox[k] \in UpFrames \cup {Closed} /\ Told(inbox[k])
      BY <1>0, <3>1 DEF Told
    <3>2. ASSUME NEW i \in Stages, NEW k \in 1 .. Len(up[i]) PROVE up[i][k] \in UpFrames /\ Told(up[i][k])
      <4>1. up[i] \in Seq(UpFrames)
        BY <1>0
      <4>2. up[i][k] \in UpFrames
        BY <4>1
      <4>3. \E j \in Stages : \E m \in 1 .. Len(up[j]) : up[j][m] = up[i][k]
        OBVIOUS
      <4>. QED
        BY <4>2, <4>3 DEF Told
    <3>. QED
      BY <3>1, <3>2
  <2>. QED
    BY <2>1, <2>2
<1>2. PICK i \in Stages : Closes(i)
  <2>1. ~(\/ UNCHANGED vars \/ Begin \/ Submit \/ Pump \/ Drain \/ Collect \/ SubmitFails \/ TimeOut
          \/ Drop \/ Read \/ WriteFails)
    BY DEF vars, Begin, Submit, Pump, Drain, Collect, SubmitFails, TimeOut, Drop, Read, WriteFails
  <2>2. \A i \in Stages : ~(\/ StageDecodes(i) \/ StageTruncates(i) \/ StageWriteFails(i) \/ StageRelays(i)
                            \/ StageFails(i))
    BY DEF StageDecodes, StageTruncates, StageWriteFails, StageRelays, StageFails
  <2>. QED
    BY <2>1, <2>2, StepSplits
<1>3. culprit' = i /\ UNCHANGED << inbox, lost >>
  BY <1>2, ClosingKeeps
<1>4. /\ Leads(inbox, c) /\ \A j \in Stages : Leads(up[j], c)
  BY <1>1 DEF Leads
<1>5. Leads(inbox', c) /\ \A j \in Stages : Leads(up'[j], c)
  <2>1. CASE UNCHANGED up
    BY <1>3, <1>4, <2>1
  <2>2. CASE SendUp(i, Failure(All, i))
    <3>1. PICK f \in UpFrames : f = Failure(All, i)
      BY UpTypes
    <3>2. up'[i] = Append(up[i], f) /\ f = c /\ \A j \in Stages : j # i => up'[j] = up[j]
      BY <1>0, <1>3, <2>2, <3>1 DEF SendUp
    <3>3. Leads(up'[i], c)
      BY <1>0, <1>4, <3>2, AppendLeads
    <3>. QED
      BY <1>3, <1>4, <3>2, <3>3
  <2>. QED
    BY <1>2, <2>1, <2>2, ClosingKeeps
<1>6. Sound(c)'
  BY <1>5 DEF Sound
<1>7. /\ \A j \in Stages : link'[j] => link[j]
      /\ \A j \in Stages : link[j] /\ ~link'[j] =>
           \/ j = 1 /\ ~down'
           \/ culprit = 0 /\ culprit' \in {j - 1, j} \cap Stages
           \/ culprit' = culprit /\ j - 1 \in Stages /\ (~link[j - 1] \/ lost[j - 1])
           \/ culprit' = culprit /\ ~serving[j]
  BY StepLinks
<1>8. ASSUME NEW j \in Stages, ~link'[j], j > 1 => link'[j - 1] PROVE culprit' \in {j - 1, j}
  <2>1. CASE link[j]
    BY <1>7, <1>8, <2>1
  <2>2. CASE ~link[j] /\ j = 1
    BY <2>2 DEF Chain
  <2>3. CASE ~link[j] /\ j > 1
    <3>1. j - 1 \in Stages /\ j - 1 < Last /\ (j - 1) + 1 = j
      BY <1>0, <2>3
    <3>2. link[j - 1]
      BY <1>7, <1>8, <2>3, <3>1
    <3>. QED
      BY <2>3, <3>1, <3>2 DEF Chain
  <2>. QED
    BY <1>0, <2>1, <2>2, <2>3
<1>9. ASSUME NEW j \in Stages, lost'[j], link'[j] PROVE FALSE
  BY <1>3, <1>7, <1>9 DEF Chain
<1>. QED
  BY <1>6, <1>8, <1>9 DEF Heard

\* Every step keeps the blame on the stage that failed.
LEMMA StepBlame ==
  ASSUME TypeOK, Spent, Chain, Blame, [Next]_vars
  PROVE  Blame'
<1>. SUFFICES ASSUME down', ~astray', culprit' # 0
     PROVE Sound(Failure(All, culprit))' /\ Heard(Failure(All, culprit))'
  BY DEF Blame
<1>0. /\ TypedDriver /\ TypedFrames /\ TypedStages /\ Last \in Nat /\ Stages = 1 .. Last /\ 1 \in Stages
      /\ culprit \in 0 .. Last
  BY Split, PipelineAssumption DEF Stages, TypedDriver
<1>1. down /\ ~astray
  BY StepChain, StepAstray
<1>2. PICK c : c = Failure(All, culprit')
  OBVIOUS
<1>3. Sound(c)' /\ Heard(c)'
  <2>1. CASE culprit = 0
    BY <1>1, <1>2, <2>1, StepCulprit
  <2>2. CASE culprit # 0
    <3>1. culprit' = culprit /\ culprit \in Stages /\ c = Failure(All, culprit)
      BY <1>0, <1>2, <2>2, StepLinks
    <3>2. Sound(c) /\ Heard(c) /\ Report(c)
      BY <1>1, <2>2, <3>1 DEF Blame, Report, Failure
    <3>3. Moves(c) /\ \A i \in Stages : lost'[i] /\ ~lost[i] /\ link[i] => Known(c, i) \/ Has(up'[i], c)
      BY <3>1, <3>2, StepMoves
    <3>4. Sound(c)' /\ \A i \in Stages : Known(c, i) => Known(c, i)'
      BY <1>0, <3>2, <3>3, MovesKeep
    <3>5. \A i \in Stages : Has(up'[i], c) => Known(c, i)'
      BY DEF Known
    <3>6. /\ \A j \in Stages : link'[j] => link[j]
          /\ \A j \in Stages : link[j] /\ ~link'[j] =>
               \/ j = 1 /\ ~down'
               \/ culprit = 0 /\ culprit' \in {j - 1, j} \cap Stages
               \/ culprit' = culprit /\ j - 1 \in Stages /\ (~link[j - 1] \/ lost[j - 1])
               \/ culprit' = culprit /\ ~serving[j]
      BY StepLinks
    <3>7. ASSUME NEW j \in Stages, lost'[j], link'[j] PROVE Known(c, j)'
      <4>1. CASE lost[j]
        BY <3>2, <3>4, <3>6, <3>7, <4>1 DEF Heard
      <4>2. CASE ~lost[j]
        BY <3>3, <3>4, <3>5, <3>6, <3>7, <4>2
      <4>. QED
        BY <4>1, <4>2
    <3>8. ASSUME NEW j \in Stages, ~link'[j], j > 1 => link'[j - 1]
          PROVE culprit \in {j - 1, j} \/ Known(c, j)'
      <4>0. j > 1 => j - 1 \in Stages /\ link[j - 1]
        BY <1>0, <3>6, <3>8
      <4>1. CASE ~link[j]
        BY <3>2, <3>4, <4>0, <4>1 DEF Heard
      <4>2. CASE link[j] /\ ~serving[j]
        <5>1. culprit = j \/ lost[j]
          BY <4>2 DEF Chain
        <5>. QED
          BY <3>2, <3>4, <4>2, <5>1 DEF Heard
      <4>3. CASE link[j] /\ j - 1 \in Stages /\ (~link[j - 1] \/ lost[j - 1])
        <5>1. lost[j - 1] /\ link[j - 1] /\ j - 1 < j
          BY <1>0, <4>0, <4>3
        <5>2. Known(c, j - 1)
          BY <3>2, <4>3, <5>1 DEF Heard
        <5>3. \A l \in Stages : l < j - 1 => l < j
          BY <1>0
        <5>4. Known(c, j)
          BY <4>3, <5>1, <5>2, <5>3 DEF Known, Before
        <5>. QED
          BY <3>4, <5>4
      <4>. QED
        BY <2>2, <3>6, <3>8, <4>1, <4>2, <4>3
    <3>. QED
      BY <3>1, <3>4, <3>7, <3>8 DEF Heard
  <2>. QED
    BY <2>1, <2>2
<1>. QED
  BY <1>2, <1>3 DEF Sound, Heard, Known, Before, Has, Leads, Failure

\* The first report that the driver takes is of the stage that failed.
LEMMA StepBlames ==
  ASSUME TypeOK, Spent, Chain, Blame, BlamesTheFailed, [Next]_vars
  PROVE  BlamesTheFailed'
<1>0. /\ TypedDriver /\ TypedFrames /\ TypedStages /\ Last \in Nat /\ Stages = 1 .. Last /\ 1 \in Stages
      /\ culprit \in 0 .. Last
      /\ inbox \in Seq(UpFrames \cup {Closed}) /\ up[1] \in Seq(UpFrames)
  BY Split, PipelineAssumption DEF Stages, TypedDriver, TypedFrames
<1>1. CASE failed' = failed
  <2>1. failed # 0 => culprit # 0
    BY DEF Chain
  <2>2. culprit' = culprit \/ culprit = 0
    BY StepLinks
  <2>. QED
    BY <1>1, <2>1, <2>2, StepAstray DEF BlamesTheFailed
<1>2. PICK c : c = Failure(All, culprit)
  OBVIOUS
<1>3. ASSUME failed = 0, inbox # << >>, Report(Head(inbox)), Fail(Head(inbox).stage), down, ~astray,
             culprit' = culprit
      PROVE failed' = culprit /\ culprit # 0
  <2>1. /\ Head(inbox).stage \in Stages /\ Head(inbox) = Failure(All, Head(inbox).stage)
        /\ Told(Failure(All, Head(inbox).stage))
    BY <1>0, <1>3, ItemTold
  <2>2. culprit # 0
    BY <2>1 DEF Chain
  <2>3. Leads(inbox, c)
    BY <1>2, <1>3, <2>2 DEF Blame, Sound
  <2>4. Head(inbox) = c
    BY <1>0, <1>3, <2>3, TailLeads
  <2>5. Head(inbox).stage = culprit
    BY <1>2, <2>4 DEF Failure
  <2>. QED
    BY <1>3, <2>2, <2>5 DEF Fail
<1>4. CASE Pump
  <2>0. failed = 0 /\ inbox # << >> /\ UNCHANGED << culprit, astray >> /\ down
    BY <1>4 DEF Pump, Blocked, Submits, Waits, Chain
  <2>1. CASE Report(Head(inbox)) /\ Fail(Head(inbox).stage)
    <3>1. culprit # 0
      BY <1>0, <2>0, <2>1, ItemTold DEF Chain
    <3>. QED
      BY <1>3, <2>0, <2>1, <3>1 DEF BlamesTheFailed
  <2>. QED
    BY <1>1, <1>4, <2>1 DEF Pump, Settled
<1>5. CASE Drain
  <2>0. call.at = "drain" /\ culprit # 0 /\ failed = 0 /\ UNCHANGED culprit /\ down /\ ~link[1]
    BY <1>5, <1>0 DEF Drain, Chain
  <2>1. CASE inbox # << >> /\ Report(Head(inbox)) /\ Fail(Head(inbox).stage) /\ UNCHANGED astray
    BY <1>3, <2>0, <2>1 DEF BlamesTheFailed
  <2>2. CASE inbox = << >> /\ Fail(1) /\ astray' = (astray \/ Reported(up[1]))
    <3>1. CASE astray'
      BY <2>0, <3>1 DEF BlamesTheFailed
    <3>2. CASE ~astray'
      <4>1. Heard(c) /\ Report(c)
        BY <1>2, <2>0, <2>2, <3>2 DEF Blame, Report, Failure
      <4>2. culprit \in {0, 1} \/ Known(c, 1)
        BY <1>0, <2>0, <4>1 DEF Heard
      <4>3. ~Has(inbox, c)
        BY <2>2 DEF Has
      <4>4. ~Has(up[1], c)
        <5>1. Has(up[1], c) => Reported(up[1])
          BY <1>0, <4>1 DEF Has, Reported
        <5>. QED
          BY <2>2, <3>2, <5>1
      <4>5. ~Known(c, 1)
        BY <1>0, <4>3, <4>4 DEF Known, Before
      <4>. QED
        BY <2>0, <2>2, <4>2, <4>5 DEF BlamesTheFailed, Fail
    <3>. QED
      BY <2>2, <3>1, <3>2
  <2>. QED
    BY <1>1, <1>5, <2>1, <2>2 DEF Drain
<1>6. CASE \/ Begin \/ Submit \/ Collect \/ SubmitFails \/ TimeOut \/ Drop
  BY <1>1, <1>6 DEF Begin, Submit, Collect, SubmitFails, TimeOut, Drop
<1>7. CASE \/ UNCHANGED vars \/ Read \/ WriteFails
           \/ \E i \in Stages : \/ StageDecodes(i) \/ StageTruncates(i) \/ Closes(i)
                                \/ StageWriteFails(i) \/ StageRelays(i) \/ StageFails(i)
  BY <1>1, <1>7, StepThreads
<1>. QED
  BY <1>4, <1>5, <1>6, <1>7, StepSplits

\* Types, counts and blame.
CInv == TypeOK /\ Spent /\ Below /\ StartsRise /\ Chain /\ Blame /\ BlamesTheFailed

\* What the program starts in.
LEMMA InitCInv == Init => CInv
<1>. SUFFICES ASSUME Init PROVE CInv
  OBVIOUS
<1>0. Last \in Nat \ {0} /\ Chunks \in Nat /\ Steps \in Nat /\ Runs \in Nat /\ Socket \in Nat /\ 1 \in Stages
  BY PipelineAssumption DEF Stages
<1>1. /\ down = TRUE /\ failed = 0 /\ culprit = 0 /\ pending = {} /\ done = {} /\ next_ticket = 0
      /\ starts = << >> /\ inbox = << >> /\ call = Idle
      /\ q = [i \in Stages |-> << >>] /\ up = [i \in Stages |-> << >>]
      /\ link = [i \in Stages |-> TRUE] /\ lost = [i \in Stages |-> FALSE]
      /\ serving = [i \in Stages |-> TRUE] /\ astray = FALSE
  BY DEF Init
<1>2. TypedDriver
  <2>1. starts \in Seq(0 .. next_ticket) /\ call \in CallType
    BY <1>1, CallTypes
  <2>. QED
    <3>1. pending \subseteq Tickets /\ done \subseteq Answers /\ next_ticket \in Nat /\ failed \in 0 .. Last /\ culprit \in 0 .. Last
      BY <1>0, <1>1
    <3>2. \A a \in done : a.ticket < next_ticket /\ a.ticket \notin pending
      BY <1>1
    <3>. QED
      BY <1>1, <2>1, <3>1, <3>2 DEF TypedDriver, CallType
<1>3. TypedFrames
  <2>1. \A L : << >> \in Seq(L) /\ Len(<< >>) = 0
    OBVIOUS
  <2>. QED
    BY <1>0, <1>1, <2>1 DEF TypedFrames
<1>4. TypedStages
  BY <1>0 DEF Init, TypedStages
<1>5. Spent /\ Below /\ StartsRise /\ Blame /\ BlamesTheFailed
  <2>1. call.at = "idle" /\ Len(starts) = 0
    BY <1>1 DEF Idle
  <2>2. Each \in Nat
    BY <1>0 DEF Each
  <2>3. 0 * Each = 0
    BY <2>2
  <2>4. Len(starts) * Each = 0 /\ 1 .. Len(starts) = {}
    BY <2>1, <2>3
  <2>. QED
    BY <1>0, <1>1, <2>1, <2>4 DEF Spent, Below, StartsRise, Blame, BlamesTheFailed
<1>6. Chain
  <2>1. \A a : ~Told(a)
    BY <1>1 DEF Told
  <2>. QED
    <3>1. call.at = "idle"
      BY <1>1 DEF Idle
    <3>2. \A i \in Stages : i < Last => i + 1 \in Stages
      BY <1>0 DEF Stages
    <3>. QED
      BY <1>0, <1>1, <2>1, <3>1, <3>2 DEF Chain
<1>. QED
  BY <1>2, <1>3, <1>4, <1>5, <1>6, Split DEF CInv

\* Every step keeps types, counts and blame.
LEMMA StepCInv == CInv /\ [Next]_vars => CInv'
<1>. SUFFICES ASSUME CInv, [Next]_vars PROVE CInv'
  OBVIOUS
<1>1. TypedDriver' /\ TypedStages' /\ TypedFrames'
  BY StepDriver, StepStages, StepFrames DEF CInv
<1>2. TypeOK'
  BY <1>1 DEF TypeOK, TypedDriver, TypedFrames, TypedStages
<1>. QED
  BY <1>2, StepDriver, StepChain, StepBlame, StepBlames DEF CInv

\* What the driver, the links and the stages hold is well typed, every ticket
\* is one that was given out, and an answer that is kept is to a ticket no
\* longer in flight.
THEOREM TypesKept == Spec => []TypeOK
<1>1. CInv => TypeOK
  BY DEF CInv
<1>. QED
  BY <1>1, InitCInv, StepCInv, PTL DEF Spec

\* The driver blames the stage that failed, and no stage when none has; but for
\* the cases where a closed link is read for more than it says (astray).
THEOREM BlamesTheStage == Spec => []BlamesTheFailed
<1>1. CInv => BlamesTheFailed
  BY DEF CInv
<1>. QED
  BY <1>1, InitCInv, StepCInv, PTL DEF Spec

-----------------------------------------------------------------------------
(* Places on the way down. *)

\* Ticket t's frame, or a truncate, is k-th on its way to stage i.
Fwd(i, k, t) ==
  i \in Stages /\ k \in 1 .. Len(q[i]) /\ q[i][k].kind = "forward" /\ q[i][k].ticket = t

Cut(i, k) == i \in Stages /\ k \in 1 .. Len(q[i]) /\ q[i][k].kind = "truncate"

\* Places in a queue.
Pos == Nat \ {0}

\* The first d frames on their way to stage i are gone.
From(j, k, i, d) == IF j = i THEN k + d ELSE k

Shifted(i, d) ==
  \A j \in Stages, k \in Pos :
    /\ \A t \in Nat : Fwd(j, k, t)' <=> Fwd(j, From(j, k, i, d), t)
    /\ Cut(j, k)' <=> Cut(j, From(j, k, i, d))

\* And f comes n-th and last on its way to stage a.
Grown(i, d, a, f, n) ==
  /\ n \in Pos
  /\ \A k \in Pos : k >= n => ~Cut(a, k) /\ \A t \in Nat : ~Fwd(a, k, t)
  /\ \A j \in Stages, k \in Pos :
       /\ \A t \in Nat : Fwd(j, k, t)' <=>
            \/ Fwd(j, From(j, k, i, d), t)
            \/ j = a /\ k = n /\ f.kind = "forward" /\ f.ticket = t
       /\ Cut(j, k)' <=> Cut(j, From(j, k, i, d)) \/ (j = a /\ k = n /\ f.kind = "truncate")

\* With the queues untouched every frame keeps its place.
LEMMA StaysShape ==
  ASSUME TypedFrames, UNCHANGED q, NEW i \in Stages
  PROVE  Shifted(i, 0)
<1>1. \A j \in Stages, k \in Pos : From(j, k, i, 0) = k
  BY DEF From, Pos
<1>2. \A j \in Stages, k \in Pos, t \in Nat : (Fwd(j, k, t)' <=> Fwd(j, k, t)) /\ (Cut(j, k)' <=> Cut(j, k))
  BY DEF Fwd, Cut
<1>. QED
  BY <1>1, <1>2 DEF Shifted

\* Lengths are numbers.
LEMMA LensNat == TypedFrames => \A i \in Stages : Len(q[i]) \in Nat /\ Len(up[i]) \in Nat
  BY DEF TypedFrames

\* A queue that loses its first d frames.
LEMMA DropsShape ==
  ASSUME TypedFrames, NEW i \in Stages, NEW d \in Nat, d <= Len(q[i]),
         \A j \in Stages : j # i => q'[j] = q[j],
         Len(q'[i]) = Len(q[i]) - d,
         \A k \in 1 .. Len(q[i]) - d : q'[i][k] = q[i][k + d]
  PROVE  Shifted(i, d)
<1>. SUFFICES ASSUME NEW j \in Stages, NEW k \in Pos
     PROVE /\ \A t \in Nat : Fwd(j, k, t)' <=> Fwd(j, From(j, k, i, d), t)
           /\ Cut(j, k)' <=> Cut(j, From(j, k, i, d))
  BY DEF Shifted
<1>0. Len(q[i]) \in Nat /\ k \in Nat /\ k > 0
  BY LensNat DEF Pos
<1>1. CASE j # i
  BY <1>1 DEF From, Fwd, Cut
<1>2. CASE j = i
  <2>1. k \in 1 .. Len(q'[i]) <=> k + d \in 1 .. Len(q[i])
    BY <1>0
  <2>2. k \in 1 .. Len(q'[i]) => q'[i][k] = q[i][k + d]
    BY <1>0
  <2>3. From(j, k, i, d) = k + d
    BY <1>2 DEF From
  <2>. QED
    BY <1>2, <2>1, <2>2, <2>3 DEF Fwd, Cut
<1>. QED
  BY <1>1, <1>2

\* A queue that one more frame joins.
LEMMA SendsShape ==
  ASSUME TypedFrames, NEW f \in DownFrames, NEW i \in Stages, q' = [q EXCEPT ![i] = Append(@, f)]
  PROVE  Grown(i, 0, i, f, Len(q[i]) + 1)
<1>0. /\ \A j \in Stages : j # i => q'[j] = q[j]
      /\ Len(q'[i]) = Len(q[i]) + 1 /\ Len(q[i]) \in Nat
      /\ \A k \in 1 .. Len(q[i]) : q'[i][k] = q[i][k]
      /\ q'[i][Len(q[i]) + 1] = f
  BY SendsQ
<1>. DEFINE n == Len(q[i]) + 1
<1>1. n \in Pos
  BY <1>0 DEF Pos
<1>2. \A k \in Pos : k >= n => ~Cut(i, k) /\ \A t \in Nat : ~Fwd(i, k, t)
  BY <1>0 DEF Pos, Fwd, Cut
<1>3. ASSUME NEW j \in Stages, NEW k \in Pos
      PROVE /\ \A t \in Nat : Fwd(j, k, t)' <=>
                 \/ Fwd(j, From(j, k, i, 0), t)
                 \/ j = i /\ k = n /\ f.kind = "forward" /\ f.ticket = t
            /\ Cut(j, k)' <=> Cut(j, From(j, k, i, 0)) \/ (j = i /\ k = n /\ f.kind = "truncate")
  <2>0. From(j, k, i, 0) = k /\ k \in Nat /\ k > 0
    BY DEF From, Pos
  <2>1. CASE j # i
    BY <1>0, <2>0, <2>1 DEF Fwd, Cut
  <2>2. CASE j = i /\ k = n
    BY <1>0, <2>0, <2>2 DEF Fwd, Cut
  <2>3. CASE j = i /\ k # n
    <3>1. k \in 1 .. Len(q'[i]) <=> k \in 1 .. Len(q[i])
      BY <1>0, <2>0, <2>3
    <3>. QED
      BY <1>0, <2>0, <2>3, <3>1 DEF Fwd, Cut
  <2>. QED
    BY <2>1, <2>2, <2>3
<1>. QED
  BY <1>1, <1>2, <1>3 DEF Grown

\* A queue whose first frame is taken.
LEMMA TakesShape ==
  ASSUME TypedFrames, NEW i \in Stages, q[i] # << >>, q' = Took(i)
  PROVE  Shifted(i, 1)
<1>1. /\ \A j \in Stages : j # i => q'[j] = q[j]
      /\ Len(q'[i]) = Len(q[i]) - 1 /\ Len(q[i]) \in Nat \ {0}
      /\ \A k \in 1 .. Len(q[i]) - 1 : q'[i][k] = q[i][k + 1]
  BY TakesQ
<1>2. 1 \in Nat /\ 1 <= Len(q[i])
  BY <1>1
<1>. QED
  BY <1>1, <1>2, DropsShape

\* A queue that loses some of its first frames.
LEMMA LosesShape ==
  ASSUME TypedFrames, NEW i \in Stages, LosesSome(i)
  PROVE  \E d \in Nat : Shifted(i, d)
<1>0. Len(q[i]) \in Nat
  BY LensNat
<1>1. PICK n \in 1 .. Len(q[i]) + 1 :
              /\ Len(q'[i]) = Len(q[i]) - n + 1
              /\ \A k \in 1 .. Len(q[i]) - n + 1 : q'[i][k] = q[i][n + k - 1]
  BY LosesQ
<1>2. \A j \in Stages : j # i => q'[j] = q[j]
  BY LosesQ
<1>3. PICK d \in Nat : d = n - 1
  BY <1>0
<1>4. d <= Len(q[i]) /\ Len(q'[i]) = Len(q[i]) - d
  BY <1>0, <1>1, <1>3
<1>5. \A k \in 1 .. Len(q[i]) - d : q'[i][k] = q[i][k + d]
  <2>. SUFFICES ASSUME NEW k \in 1 .. Len(q[i]) - d PROVE q'[i][k] = q[i][k + d]
    OBVIOUS
  <2>1. k \in 1 .. Len(q[i]) - n + 1 /\ n + k - 1 = k + d
    BY <1>0, <1>3
  <2>2. q'[i][k] = q[i][n + k - 1]
    BY <1>1, <2>1
  <2>. QED
    BY <2>1, <2>2
<1>. QED
  BY <1>2, <1>4, <1>5, DropsShape

\* A frame passed on goes from the head of one queue to the end of the next.
LEMMA PassesShape ==
  ASSUME TypedFrames, NEW i \in Stages, i < Last, q[i] # << >>, NEW f \in DownFrames, q' = Passed(i, f)
  PROVE  Grown(i, 1, i + 1, f, Len(q[i + 1]) + 1)
<1>0. /\ i + 1 \in Stages /\ i + 1 # i
      /\ \A j \in Stages : j # i /\ j # i + 1 => q'[j] = q[j]
      /\ Len(q'[i]) = Len(q[i]) - 1 /\ Len(q[i]) \in Nat \ {0}
      /\ \A k \in 1 .. Len(q[i]) - 1 : q'[i][k] = q[i][k + 1]
      /\ Len(q'[i + 1]) = Len(q[i + 1]) + 1 /\ Len(q[i + 1]) \in Nat
      /\ \A k \in 1 .. Len(q[i + 1]) : q'[i + 1][k] = q[i + 1][k]
      /\ q'[i + 1][Len(q[i + 1]) + 1] = f
  <2>1. PassedOn(q', i, f)
    BY PassesQ
  <2>2. i + 1 # i
    BY PipelineAssumption DEF Stages
  <2>. QED
    BY <2>1, <2>2 DEF PassedOn
<1>. DEFINE n == Len(q[i + 1]) + 1
<1>1. n \in Pos
  BY <1>0 DEF Pos
<1>2. \A k \in Pos : k >= n => ~Cut(i + 1, k) /\ \A t \in Nat : ~Fwd(i + 1, k, t)
  BY <1>0 DEF Pos, Fwd, Cut
<1>3. ASSUME NEW j \in Stages, NEW k \in Pos
      PROVE /\ \A t \in Nat : Fwd(j, k, t)' <=>
                 \/ Fwd(j, From(j, k, i, 1), t)
                 \/ j = i + 1 /\ k = n /\ f.kind = "forward" /\ f.ticket = t
            /\ Cut(j, k)' <=> Cut(j, From(j, k, i, 1)) \/ (j = i + 1 /\ k = n /\ f.kind = "truncate")
  <2>0. k \in Nat /\ k > 0
    BY DEF Pos
  <2>1. CASE j # i /\ j # i + 1
    <3>1. From(j, k, i, 1) = k
      BY <2>1 DEF From
    <3>. QED
      BY <1>0, <2>0, <2>1, <3>1 DEF Fwd, Cut
  <2>2. CASE j = i + 1 /\ k = n
    <3>1. From(j, k, i, 1) = k
      BY <1>0, <2>2 DEF From
    <3>2. k \notin 1 .. Len(q[j]) /\ k \in 1 .. Len(q'[j]) /\ q'[j][k] = f
      BY <1>0, <2>0, <2>2
    <3>. QED
      BY <1>0, <2>0, <2>2, <3>1, <3>2 DEF Fwd, Cut
  <2>3. CASE j = i + 1 /\ k # n
    <3>1. k \in 1 .. Len(q'[j]) <=> k \in 1 .. Len(q[j])
      BY <1>0, <2>0, <2>3
    <3>2. From(j, k, i, 1) = k
      BY <1>0, <2>3 DEF From
    <3>3. k \in 1 .. Len(q[j]) => q'[j][k] = q[j][k]
      BY <1>0, <2>3
    <3>. QED
      BY <2>0, <2>3, <3>1, <3>2, <3>3 DEF Fwd, Cut
  <2>4. CASE j = i
    <3>1. k \in 1 .. Len(q'[i]) <=> k + 1 \in 1 .. Len(q[i])
      BY <1>0, <2>0
    <3>2. k \in 1 .. Len(q'[i]) => q'[i][k] = q[i][k + 1]
      BY <1>0
    <3>3. From(j, k, i, 1) = k + 1
      BY <2>4 DEF From
    <3>. QED
      BY <1>0, <2>4, <3>1, <3>2, <3>3 DEF Fwd, Cut
  <2>. QED
    BY <2>1, <2>2, <2>3, <2>4
<1>. QED
  BY <1>1, <1>2, <1>3 DEF Grown

\* Place k on the way to stage j is ahead of place m on the way to stage i.
Older(j, k, i, m) == j > i \/ (j = i /\ k < m)

\* Tickets come to a stage in the order they were given out.
Ascending ==
  /\ \A i, j \in Stages, k, m \in Pos, t, c \in Nat :
       Fwd(i, k, t) /\ Fwd(j, m, c) /\ Older(j, m, i, k) => c < t
  /\ \A i, j \in Stages, k \in Pos, t, c \in Nat : Fwd(i, k, t) /\ j >= i /\ c \in cache[j] => c < t
  /\ \A i \in Stages, k \in Pos, t \in Nat : Fwd(i, k, t) => t < next_ticket
  /\ \A i \in Stages, t \in Nat : t \in cache[i] => t < next_ticket

\* The stages' caches stay as they are.
SameCaches == \A j \in Stages : cache'[j] = cache[j]

\* Where a place was is a place.
LEMMA FromPos == \A i, j \in Stages, k \in Pos, d \in Nat : From(j, k, i, d) \in Pos /\ From(j, k, i, d) >= k
  BY DEF From, Pos

\* Places keep their order.
LEMMA OlderFrom ==
  \A i, j, x \in Stages, k, m \in Pos, d \in Nat :
    Older(j, k, i, m) => Older(j, From(j, k, x, d), i, From(i, m, x, d))
  BY DEF Older, From, Pos, Stages

\* A frame is at a place.
LEMMA FwdIs ==
  /\ \A i, k, t : Fwd(i, k, t) => k \in Pos /\ i \in Stages
  /\ \A i, k : Cut(i, k) => k \in Pos /\ i \in Stages
<1>1. ASSUME NEW i, NEW k, k \in 1 .. Len(q[i]) PROVE k \in Pos
  BY <1>1 DEF Pos
<1>. QED
  BY <1>1 DEF Fwd, Cut

\* Frames that only move keep their order.
LEMMA ShiftedAscends ==
  ASSUME Ascending, NEW i \in Stages, NEW d \in Nat, Shifted(i, d), next_ticket \in Nat, next_ticket' = next_ticket,
         \A x, j \in Stages, k \in Pos, t, c \in Nat : Fwd(x, k, t)' /\ j >= x /\ c \in cache'[j] => c < t,
         \A j \in Stages, c \in Nat : c \in cache'[j] => c < next_ticket
  PROVE  Ascending'
<1>1. ASSUME NEW x \in Stages, NEW y \in Stages, NEW k \in Pos, NEW m \in Pos, NEW t \in Nat, NEW c \in Nat,
             Fwd(x, k, t)', Fwd(y, m, c)', Older(y, m, x, k)
      PROVE c < t
  <2>1. PICK k2 \in Pos, m2 \in Pos : k2 = From(x, k, i, d) /\ m2 = From(y, m, i, d)
    BY FromPos
  <2>2. Fwd(x, k2, t) /\ Fwd(y, m2, c)
    BY <1>1, <2>1 DEF Shifted
  <2>3. Older(y, m2, x, k2)
    BY <1>1, <2>1, OlderFrom
  <2>. QED
    BY <2>2, <2>3 DEF Ascending
<1>2. ASSUME NEW x \in Stages, NEW k \in Pos, NEW t \in Nat, Fwd(x, k, t)' PROVE t < next_ticket
  <2>1. PICK k2 \in Pos : k2 = From(x, k, i, d)
    BY FromPos
  <2>2. Fwd(x, k2, t)
    BY <1>2, <2>1 DEF Shifted
  <2>. QED
    BY <2>2 DEF Ascending
<1>3. \A x, y \in Stages, k, m \in Pos, t, c \in Nat :
       Fwd(x, k, t)' /\ Fwd(y, m, c)' /\ Older(y, m, x, k) => c < t
  BY <1>1
<1>. QED
  BY <1>2, <1>3 DEF Ascending, Older

\* A frame that comes last may be the newest of those before it, or older
\* than everything nearer the driver.
LEMMA GrownAscends ==
  ASSUME Ascending, NEW i \in Stages, NEW a \in Stages, NEW d \in Nat, NEW f, NEW n, Grown(i, d, a, f, n),
         next_ticket \in Nat, next_ticket' \in Nat, next_ticket <= next_ticket',
         \A x, j \in Stages, k \in Pos, t, c \in Nat : Fwd(x, k, t)' /\ j >= x /\ c \in cache'[j] => c < t,
         \A j \in Stages, c \in Nat : c \in cache'[j] => c < next_ticket',
         f.kind = "forward" =>
           /\ f.ticket \in Nat /\ f.ticket < next_ticket'
           /\ \A x \in Stages, k \in Pos, c \in Nat : Fwd(x, k, c)' /\ (x # a \/ k # n) =>
                IF x < a THEN f.ticket < c ELSE c < f.ticket
  PROVE  Ascending'
<1>0. /\ n \in Pos
      /\ \A j \in Stages, k \in Pos :
           \A t \in Nat : Fwd(j, k, t)' <=>
            \/ Fwd(j, From(j, k, i, d), t)
            \/ j = a /\ k = n /\ f.kind = "forward" /\ f.ticket = t
      /\ \A k \in Pos : k >= n => \A t \in Nat : ~Fwd(a, k, t)
  BY DEF Grown
<1>a. ASSUME NEW k \in Pos, NEW t \in Nat, Fwd(a, k, t)' PROVE k <= n
  <2>1. PICK k2 \in Pos : k2 = From(a, k, i, d) /\ k2 >= k
    BY FromPos
  <2>2. Fwd(a, k2, t) \/ k = n
    BY <1>0, <1>a, <2>1
  <2>3. k2 >= n => ~Fwd(a, k2, t)
    BY <1>0
  <2>. QED
    BY <1>0, <2>1, <2>2, <2>3 DEF Pos
<1>1. ASSUME NEW x \in Stages, NEW y \in Stages, NEW k \in Pos, NEW m \in Pos, NEW t \in Nat, NEW c \in Nat,
             Fwd(x, k, t)', Fwd(y, m, c)', Older(y, m, x, k)
      PROVE c < t
  <2>1. PICK k2 \in Pos, m2 \in Pos : k2 = From(x, k, i, d) /\ m2 = From(y, m, i, d)
    BY FromPos
  <2>2. Older(y, m2, x, k2)
    BY <1>1, <2>1, OlderFrom
  <2>3. CASE Fwd(x, k2, t) /\ Fwd(y, m2, c)
    BY <2>2, <2>3 DEF Ascending
  <2>4. CASE x = a /\ k = n /\ f.kind = "forward" /\ f.ticket = t
    <3>1. y # a \/ m # n
      BY <1>1, <2>4 DEF Older, Pos, Stages
    <3>2. ~(y < a)
      BY <1>1, <2>4 DEF Older, Stages
    <3>. QED
      BY <1>1, <2>4, <3>1, <3>2
  <2>5. CASE y = a /\ m = n /\ f.kind = "forward" /\ f.ticket = c
    <3>1. x # a
      <4>1. CASE x = a
        <5>1. k <= n /\ m < k
          BY <1>1, <1>a, <2>5, <4>1 DEF Older, Stages
        <5>. QED
          BY <1>0, <2>5, <5>1 DEF Pos
      <4>. QED
        BY <4>1
    <3>2. x < a
      BY <1>1, <2>5, <3>1 DEF Older, Stages
    <3>. QED
      BY <1>1, <2>5, <3>1, <3>2
  <2>. QED
    BY <1>0, <1>1, <2>1, <2>3, <2>4, <2>5
<1>2. ASSUME NEW x \in Stages, NEW k \in Pos, NEW t \in Nat, Fwd(x, k, t)' PROVE t < next_ticket'
  <2>1. PICK k2 \in Pos : k2 = From(x, k, i, d)
    BY FromPos
  <2>2. Fwd(x, k2, t) \/ (f.kind = "forward" /\ f.ticket = t)
    BY <1>0, <1>2, <2>1
  <2>3. Fwd(x, k2, t) => t < next_ticket
    BY DEF Ascending
  <2>. QED
    BY <2>2, <2>3
<1>3. \A x, y \in Stages, k, m \in Pos, t, c \in Nat :
       Fwd(x, k, t)' /\ Fwd(y, m, c)' /\ Older(y, m, x, k) => c < t
  BY <1>1
<1>. QED
  BY <1>2, <1>3 DEF Ascending, Older

\* The fields of frames.
LEMMA FrameFields ==
  /\ \A t, w : Forward(t, w).kind = "forward" /\ Forward(t, w).ticket = t /\ Forward(t, w).whole = w
  /\ Truncate.kind = "truncate"
  BY DEF Forward, Truncate

\* What each step does to the frames on their way down, and to the caches.
DecodeShape(i, u, w) ==
  /\ u \in Nat /\ u \in Tickets /\ Fwd(i, 1, u) /\ q[i][1] = Forward(u, w) /\ Frame(i).ticket = u /\ Frame(i).whole = w
  /\ w \in BOOLEAN /\ serving[i]
  /\ \A j \in Stages : cache'[j] = IF j = i THEN cache[i] \cup {u} ELSE cache[j]
  /\ \/ /\ i < Last /\ writer[i] /\ i + 1 \in Stages /\ UNCHANGED up
        /\ \E n : Grown(i, 1, i + 1, Forward(u, w /\ Whole(i, u)), n)
     \/ /\ i = Last /\ Shifted(i, 1) /\ Len(up[i]) < Socket
        /\ up' = [up EXCEPT ![i] = Append(@, Logits(u, w /\ Whole(i, u)))]

\* What a decode does.
LEMMA DecodesShape ==
  ASSUME TypeOK, NEW i \in Stages, StageDecodes(i)
  PROVE  \E u, w : DecodeShape(i, u, w)
<1>0. TypedFrames /\ TypedStages /\ Last \in Nat /\ i \in 1 .. Last /\ i \in 0 .. Last
  BY Split, PipelineAssumption DEF Stages
<1>1. q[i] # << >> /\ Frame(i).kind = "forward" /\ serving[i]
  BY <1>0 DEF StageDecodes
<1>2. PICK u, w : u = Frame(i).ticket /\ w = Frame(i).whole
  OBVIOUS
<1>3. /\ Frame(i) = q[i][1] /\ Frame(i) \in DownFrames /\ Len(q[i]) \in Nat \ {0}
  BY <1>0, <1>1, TakesQ
<1>4. u \in Tickets /\ w \in BOOLEAN /\ Frame(i) = Forward(u, w)
  BY <1>1, <1>2, <1>3, DownTypes
<1>5. Fwd(i, 1, u) /\ u \in Nat /\ q[i][1] = Forward(u, w)
  BY <1>1, <1>2, <1>3, <1>4, TicketTypes DEF Fwd
<1>6. \A j \in Stages : cache'[j] = IF j = i THEN cache[i] \cup {u} ELSE cache[j]
  <2>1. cache' = [cache EXCEPT ![i] = @ \cup {u}]
    BY <1>2 DEF StageDecodes
  <2>. QED
    BY <1>0, <2>1, PipelineAssumption DEF TypedStages, Stages
<1>7. PICK v \in BOOLEAN : v = (w /\ Whole(i, u))
  BY <1>4, WholeTypes
<1>8. \/ i < Last /\ writer[i] /\ q' = Passed(i, Forward(u, v)) /\ UNCHANGED up
      \/ i = Last /\ Room(i) /\ SendUp(i, Logits(u, v)) /\ q' = Took(i)
  BY <1>2, <1>7 DEF StageDecodes
<1>9. CASE i < Last /\ writer[i] /\ q' = Passed(i, Forward(u, v)) /\ UNCHANGED up
  <2>1. Forward(u, v) \in DownFrames
    BY <1>4, <1>7, DownTypes
  <2>2. Grown(i, 1, i + 1, Forward(u, v), Len(q[i + 1]) + 1)
    BY <1>0, <1>1, <1>9, <2>1, PassesShape
  <2>3. i + 1 \in Stages
    BY <1>0, <1>9 DEF Stages
  <2>. QED
    BY <1>1, <1>2, <1>4, <1>5, <1>6, <1>7, <1>9, <2>2, <2>3 DEF DecodeShape
<1>10. CASE i = Last /\ Room(i) /\ SendUp(i, Logits(u, v)) /\ q' = Took(i)
  <2>1. Shifted(i, 1)
    BY <1>0, <1>1, <1>10, TakesShape
  <2>2. Len(up[i]) < Socket /\ up' = [up EXCEPT ![i] = Append(@, Logits(u, v))]
    BY <1>10 DEF Room, SendUp
  <2>. QED
    BY <1>1, <1>2, <1>4, <1>5, <1>6, <1>7, <1>10, <2>1, <2>2 DEF DecodeShape
<1>. QED
  BY <1>8, <1>9, <1>10

FailShape(i, u) ==
  /\ u \in Nat /\ u \in Tickets /\ Fwd(i, 1, u) /\ Shifted(i, 1) /\ Frame(i).ticket = u
  /\ Len(up[i]) < Socket /\ up' = [up EXCEPT ![i] = Append(@, Failure(u, i))]

\* What a refused micro-batch does.
LEMMA FailsShape ==
  ASSUME TypeOK, NEW i \in Stages, StageFails(i)
  PROVE  \E u : FailShape(i, u)
<1>0. TypedFrames
  BY Split
<1>1. q[i] # << >> /\ Frame(i).kind = "forward" /\ q' = Took(i)
  BY DEF StageFails
<1>2. PICK u : u = Frame(i).ticket
  OBVIOUS
<1>3. /\ Frame(i) = q[i][1] /\ Frame(i) \in DownFrames /\ Len(q[i]) \in Nat \ {0}
  BY <1>0, <1>1, TakesQ
<1>4. u \in Tickets /\ u \in Nat
  BY <1>1, <1>2, <1>3, DownTypes, TicketTypes
<1>5. Fwd(i, 1, u)
  BY <1>1, <1>2, <1>3 DEF Fwd
<1>6. Shifted(i, 1)
  BY <1>0, <1>1, TakesShape
<1>7. Len(up[i]) < Socket /\ up' = [up EXCEPT ![i] = Append(@, Failure(u, i))]
  BY <1>2 DEF StageFails, Room, SendUp
<1>. QED
  BY <1>2, <1>4, <1>5, <1>6, <1>7 DEF FailShape

TruncateShape(i) ==
  /\ Cut(i, 1)
  /\ \A j \in Stages : cache'[j] = IF j = i THEN {} ELSE cache[j]
  /\ \/ /\ i < Last /\ writer[i] /\ i + 1 \in Stages
        /\ \E n : Grown(i, 1, i + 1, Truncate, n)
     \/ ~(i < Last /\ writer[i]) /\ Shifted(i, 1)

\* What a truncate does.
LEMMA TruncatesShape ==
  ASSUME TypeOK, NEW i \in Stages, StageTruncates(i)
  PROVE  TruncateShape(i)
<1>0. TypedFrames /\ TypedStages /\ Last \in Nat /\ i \in 1 .. Last /\ i \in 0 .. Last
  BY Split, PipelineAssumption DEF Stages
<1>1. q[i] # << >> /\ Frame(i).kind = "truncate"
  BY DEF StageTruncates
<1>3. /\ Frame(i) = q[i][1] /\ Len(q[i]) \in Nat \ {0}
  BY <1>0, <1>1, TakesQ
<1>5. Cut(i, 1)
  BY <1>1, <1>3 DEF Cut
<1>6. \A j \in Stages : cache'[j] = IF j = i THEN {} ELSE cache[j]
  <2>1. cache' = [cache EXCEPT ![i] = {}]
    BY DEF StageTruncates
  <2>. QED
    BY <1>0, <2>1, PipelineAssumption DEF TypedStages, Stages
<1>9. CASE i < Last /\ writer[i]
  <2>1. Truncate \in DownFrames /\ q' = Passed(i, Truncate)
    BY <1>9, DownTypes DEF StageTruncates
  <2>2. Grown(i, 1, i + 1, Truncate, Len(q[i + 1]) + 1)
    BY <1>0, <1>1, <1>9, <2>1, PassesShape
  <2>3. i + 1 \in Stages
    BY <1>0, <1>9 DEF Stages
  <2>. QED
    BY <1>5, <1>6, <1>9, <2>2, <2>3 DEF TruncateShape
<1>10. CASE ~(i < Last /\ writer[i])
  <2>1. Shifted(i, 1)
    BY <1>0, <1>1, <1>10, TakesShape DEF StageTruncates
  <2>. QED
    BY <1>5, <1>6, <1>10, <2>1 DEF TruncateShape
<1>. QED
  BY <1>9, <1>10

\* What a submit does to the frames on their way down.
LEMMA SubmitShape ==
  ASSUME TypeOK, Spent, Submit
  PROVE  /\ SameCaches /\ next_ticket' = next_ticket + 1 /\ next_ticket \in Tickets /\ next_ticket \in Nat
         /\ \/ Sendable /\ \E n : Grown(1, 0, 1, Forward(next_ticket, Whole(0, next_ticket)), n)
            \/ ~Sendable /\ Shifted(1, 0)
<1>0. TypedFrames /\ TypedStages /\ 1 \in Stages /\ next_ticket \in Tickets
  BY Split, TicketFits, PipelineAssumption DEF Stages, Submit
<1>1. SameCaches
  <2>1. cache' = [cache EXCEPT ![0] = @ \cup {next_ticket}]
    BY DEF Submit
  <2>2. \A j \in Stages : j # 0 /\ j \in 0 .. Last
    BY PipelineAssumption DEF Stages
  <2>. QED
    BY <1>0, <2>1, <2>2 DEF SameCaches, TypedStages
<1>2. CASE Sendable
  <2>1. PICK f \in DownFrames : f = Forward(next_ticket, Whole(0, next_ticket))
    BY <1>0, DownTypes, WholeTypes
  <2>2. q' = [q EXCEPT ![1] = Append(@, f)]
    BY <1>2, <2>1 DEF Submit, Send
  <2>3. Grown(1, 0, 1, f, Len(q[1]) + 1)
    BY <1>0, <2>2, SendsShape
  <2>. QED
    BY <1>0, <1>1, <1>2, <2>1, <2>3, TicketTypes DEF Submit
<1>3. CASE ~Sendable
  <2>1. Shifted(1, 0)
    BY <1>0, <1>3, StaysShape DEF Submit, Send
  <2>. QED
    BY <1>0, <1>1, <1>3, <2>1, TicketTypes DEF Submit
<1>. QED
  BY <1>2, <1>3

\* What the start of a call does to them.
LEMMA BeginShape ==
  ASSUME TypeOK, Begin
  PROVE  /\ SameCaches /\ next_ticket' = next_ticket
         /\ \/ Sendable /\ \E n : Grown(1, 0, 1, Truncate, n)
            \/ ~Sendable /\ Shifted(1, 0)
<1>0. TypedFrames /\ TypedStages /\ 1 \in Stages
  BY Split, PipelineAssumption DEF Stages
<1>1. SameCaches
  <2>1. cache' = [cache EXCEPT ![0] = {}]
    BY DEF Begin
  <2>2. \A j \in Stages : j # 0 /\ j \in 0 .. Last
    BY PipelineAssumption DEF Stages
  <2>. QED
    BY <1>0, <2>1, <2>2 DEF SameCaches, TypedStages
<1>2. CASE Sendable
  <2>1. Truncate \in DownFrames /\ q' = [q EXCEPT ![1] = Append(@, Truncate)]
    BY <1>2, DownTypes DEF Begin, Send
  <2>3. Grown(1, 0, 1, Truncate, Len(q[1]) + 1)
    BY <1>0, <2>1, SendsShape
  <2>. QED
    BY <1>1, <1>2, <2>3 DEF Begin
<1>3. CASE ~Sendable
  <2>1. Shifted(1, 0)
    BY <1>0, <1>3, StaysShape DEF Begin, Send
  <2>. QED
    BY <1>1, <1>3, <2>1 DEF Begin
<1>. QED
  BY <1>2, <1>3

\* Every other step leaves the frames where they are, or loses the first of a dead stage's.
LEMMA OtherShape ==
  ASSUME TypeOK,
         \/ UNCHANGED vars \/ Pump \/ Drain \/ Collect \/ SubmitFails \/ TimeOut \/ Drop \/ Read \/ WriteFails
         \/ \E i \in Stages : Closes(i) \/ StageWriteFails(i) \/ StageRelays(i)
  PROVE  /\ UNCHANGED << cache, next_ticket >>
         /\ \/ UNCHANGED << q, serving >> /\ Shifted(1, 0)
            \/ \E i \in Stages, d \in Nat : Shifted(i, d) /\ ~serving'[i]
<1>0. TypedFrames /\ TypedStages /\ 1 \in Stages
  BY Split, PipelineAssumption DEF Stages
<1>1. CASE \/ UNCHANGED vars \/ Pump \/ Drain \/ Collect \/ SubmitFails \/ TimeOut \/ Drop \/ Read \/ WriteFails
           \/ \E i \in Stages : StageWriteFails(i) \/ StageRelays(i)
  <2>1. UNCHANGED << q, serving, cache, next_ticket >>
    BY <1>1 DEF vars, driverVars, Pump, Drain, Collect, SubmitFails, TimeOut, Drop, Read, WriteFails, StageWriteFails, StageRelays
  <2>. QED
    BY <1>0, <2>1, StaysShape
<1>2. ASSUME NEW i \in Stages, Closes(i)
      PROVE UNCHANGED << cache, next_ticket >> /\ ~serving'[i] /\ \E d \in Nat : Shifted(i, d)
  <2>1. LosesSome(i) /\ ~serving'[i] /\ UNCHANGED << cache, next_ticket >>
    BY <1>0, <1>2, ClosingKeeps DEF TypedStages
  <2>. QED
    BY <1>0, <2>1, LosesShape DEF TypedStages
<1>. QED
  BY <1>1, <1>2

\* A stage's own step changes no part of the driver's.
LEMMA StageSteps ==
  ASSUME NEW i \in Stages, StageDecodes(i) \/ StageFails(i) \/ StageTruncates(i)
  PROVE  UNCHANGED << down, pending, done, failed, next_ticket, call, starts, inbox, link, serving, lost, writer, relay, culprit >>
  BY DEF StageDecodes, StageFails, StageTruncates, driverVars

\* Caches hold tickets.
LEMMA CachesNat ==
  ASSUME TypeOK PROVE \A j \in Stages : cache[j] \subseteq Nat
<1>1. TypedStages /\ \A j \in Stages : j \in 0 .. Last
  BY Split, PipelineAssumption DEF Stages
<1>. QED
  BY <1>1, TicketTypes DEF TypedStages

\* Every step keeps the tickets ascending toward the driver.
LEMMA StepAscending ==
  ASSUME TypeOK, Spent, Ascending, [Next]_vars
  PROVE  Ascending'
<1>0. /\ next_ticket \in Nat /\ 1 \in Stages /\ 0 \in Nat /\ 1 \in Nat /\ 1 \in Pos
      /\ \A j \in Stages, k \in Pos : From(j, k, 1, 0) = k
  BY PipelineAssumption DEF TypeOK, Stages, From, Pos
<1>1. \A i, j \in Stages, k \in Pos, t, c \in Nat : Fwd(i, k, t) /\ j >= i /\ c \in cache[j] => c < t
  BY DEF Ascending
<1>2. \A i \in Stages, t \in Nat : t \in cache[i] => t < next_ticket
  BY DEF Ascending
\* Frames that move, with no ticket added to a cache
<1>3. ASSUME NEW i \in Stages, NEW d \in Nat, Shifted(i, d), next_ticket' = next_ticket,
             \A j \in Stages : cache'[j] \subseteq cache[j]
      PROVE Ascending'
  <2>1. \A x, j \in Stages, k \in Pos, t, c \in Nat : Fwd(x, k, t)' /\ j >= x /\ c \in cache'[j] => c < t
    <3>1. \A x \in Stages, k \in Pos, t \in Nat : Fwd(x, k, t)' => Fwd(x, From(x, k, i, d), t) /\ From(x, k, i, d) \in Pos
      BY <1>3, FromPos DEF Shifted
    <3>. QED
      BY <1>1, <1>3, <3>1
  <2>. QED
    BY <1>0, <1>2, <1>3, <2>1, ShiftedAscends
<1>4. CASE Begin
  <2>0. SameCaches /\ next_ticket' = next_ticket
    BY <1>4, BeginShape
  <2>1. CASE Shifted(1, 0)
    BY <1>0, <1>3, <2>0, <2>1 DEF SameCaches
  <2>2. ASSUME NEW n, Grown(1, 0, 1, Truncate, n) PROVE Ascending'
    <3>1. Truncate.kind # "forward"
      BY FrameFields
    <3>2. \A x \in Stages, k \in Pos, t \in Nat : Fwd(x, k, t)' => Fwd(x, k, t)
      BY <1>0, <2>2, <3>1 DEF Grown
    <3>3. \A x, j \in Stages, k \in Pos, t, c \in Nat : Fwd(x, k, t)' /\ j >= x /\ c \in cache'[j] => c < t
      BY <1>1, <2>0, <3>2 DEF SameCaches
    <3>4. \A j \in Stages, c \in Nat : c \in cache'[j] => c < next_ticket'
      BY <1>2, <2>0 DEF SameCaches
    <3>. QED
      BY <1>0, <2>0, <2>2, <3>1, <3>3, <3>4, GrownAscends
  <2>. QED
    BY <1>4, <2>1, <2>2, BeginShape
<1>5. CASE Submit
  <2>0. SameCaches /\ next_ticket' = next_ticket + 1 /\ next_ticket' \in Nat /\ next_ticket <= next_ticket'
    BY <1>0, <1>5, SubmitShape
  <2>3. \A j \in Stages, c \in Nat : c \in cache'[j] => c < next_ticket /\ c < next_ticket'
    BY <1>0, <1>2, <2>0 DEF SameCaches
  <2>1. CASE Shifted(1, 0)
    <3>1. \A x \in Stages, k \in Pos, t \in Nat : Fwd(x, k, t)' => Fwd(x, k, t)
      BY <1>0, <2>1 DEF Shifted
    <3>. QED
      BY <1>0, <2>0, <2>3, <3>1 DEF Ascending, SameCaches
  <2>2. ASSUME NEW n, Grown(1, 0, 1, Forward(next_ticket, Whole(0, next_ticket)), n) PROVE Ascending'
    <3>0. PICK f : f = Forward(next_ticket, Whole(0, next_ticket)) /\ f.kind = "forward" /\ f.ticket = next_ticket
      BY FrameFields
    <3>1. \A x \in Stages, k \in Pos, t \in Nat : Fwd(x, k, t)' => Fwd(x, k, t) \/ (x = 1 /\ k = n /\ t = next_ticket)
      BY <1>0, <2>2, <3>0 DEF Grown
    <3>2. \A x \in Stages, k \in Pos, t \in Nat : Fwd(x, k, t) => t < next_ticket
      BY DEF Ascending
    <3>3. \A x, j \in Stages, k \in Pos, t, c \in Nat : Fwd(x, k, t)' /\ j >= x /\ c \in cache'[j] => c < t
      BY <1>1, <2>0, <2>3, <3>1 DEF SameCaches
    <3>4. \A x \in Stages, k \in Pos, c \in Nat : Fwd(x, k, c)' /\ (x # 1 \/ k # n) =>
                IF x < 1 THEN f.ticket < c ELSE c < f.ticket
      <4>1. \A x \in Stages : ~(x < 1)
        BY PipelineAssumption DEF Stages
      <4>. QED
        BY <3>0, <3>1, <3>2, <4>1
    <3>5. Grown(1, 0, 1, f, n) /\ f.ticket \in Nat /\ f.ticket < next_ticket'
      BY <1>0, <2>0, <2>2, <3>0
    <3>6. \A j \in Stages, c \in Nat : c \in cache'[j] => c < next_ticket'
      BY <2>3
    <3>. QED
      BY <1>0, <2>0, <3>3, <3>4, <3>5, <3>6, GrownAscends
  <2>. QED
    BY <1>5, <2>1, <2>2, SubmitShape
<1>6. ASSUME NEW i \in Stages, StageDecodes(i) PROVE Ascending'
  <2>1. PICK u, w : DecodeShape(i, u, w)
    BY <1>6, DecodesShape
  <2>2. u \in Nat /\ Fwd(i, 1, u) /\ \A j \in Stages : cache'[j] = IF j = i THEN cache[i] \cup {u} ELSE cache[j]
    BY <2>1 DEF DecodeShape
  <2>3. next_ticket' = next_ticket /\ u < next_ticket
    BY <1>0, <1>6, <2>2, StageSteps DEF Ascending
  <2>4. \A j \in Stages, c \in Nat : c \in cache'[j] => c < next_ticket
    BY <1>2, <2>2, <2>3
  <2>5. ASSUME NEW x \in Stages, NEW k \in Pos, NEW t \in Nat, Fwd(x, From(x, k, i, 1), t)
        PROVE /\ x <= i => u < t
              /\ x > i => t < u
    <3>1. PICK k2 \in Pos : k2 = From(x, k, i, 1)
      BY <1>0, FromPos
    <3>2. x = i => k2 > 1
      BY <3>1 DEF From, Pos
    <3>3. x <= i => Older(i, 1, x, k2)
      BY <3>2 DEF Older, Stages
    <3>4. x > i => Older(x, k2, i, 1)
      BY DEF Older
    <3>. QED
      BY <1>0, <2>2, <2>5, <3>1, <3>3, <3>4 DEF Ascending
  <2>6. ASSUME NEW x \in Stages, NEW j \in Stages, NEW k \in Pos, NEW t \in Nat, NEW c \in Nat,
               Fwd(x, From(x, k, i, 1), t), j >= x, c \in cache'[j]
        PROVE c < t
    <3>1. PICK k2 \in Pos : k2 = From(x, k, i, 1)
      BY <1>0, FromPos
    <3>2. CASE c \in cache[j]
      BY <1>1, <2>6, <3>1, <3>2
    <3>3. CASE j = i /\ c = u
      BY <2>5, <2>6, <3>3
    <3>. QED
      BY <2>2, <2>6, <3>2, <3>3
  <2>7. CASE Shifted(i, 1)
    <3>1. \A x, j \in Stages, k \in Pos, t, c \in Nat : Fwd(x, k, t)' /\ j >= x /\ c \in cache'[j] => c < t
      BY <2>6, <2>7 DEF Shifted
    <3>. QED
      BY <1>0, <2>3, <2>4, <2>7, <3>1, ShiftedAscends
  <2>8. ASSUME NEW n, i + 1 \in Stages, Grown(i, 1, i + 1, Forward(u, w /\ Whole(i, u)), n) PROVE Ascending'
    <3>0. PICK f : f = Forward(u, w /\ Whole(i, u)) /\ f.kind = "forward" /\ f.ticket = u
      BY FrameFields
    <3>1. \A x \in Stages, k \in Pos, t \in Nat : Fwd(x, k, t)' =>
             Fwd(x, From(x, k, i, 1), t) \/ (x = i + 1 /\ k = n /\ t = u)
      BY <2>8, <3>0 DEF Grown
    <3>2. \A x, j \in Stages, k \in Pos, t, c \in Nat : Fwd(x, k, t)' /\ j >= x /\ c \in cache'[j] => c < t
      <4>. SUFFICES ASSUME NEW x \in Stages, NEW j \in Stages, NEW k \in Pos, NEW t \in Nat, NEW c \in Nat,
                           Fwd(x, k, t)', j >= x, c \in cache'[j]
           PROVE c < t
        OBVIOUS
      <4>1. CASE Fwd(x, From(x, k, i, 1), t)
        BY <2>6, <4>1
      <4>2. CASE x = i + 1 /\ t = u
        <5>1. j # i /\ j >= i
          BY <4>2 DEF Stages
        <5>. QED
          BY <1>0, <1>1, <2>2, <4>2, <5>1
      <4>. QED
        BY <3>1, <4>1, <4>2
    <3>4. \A x \in Stages, k \in Pos, c \in Nat : Fwd(x, k, c)' /\ (x # i + 1 \/ k # n) =>
                IF x < i + 1 THEN f.ticket < c ELSE c < f.ticket
      <4>1. \A x \in Stages : (x < i + 1 <=> x <= i) /\ (~(x < i + 1) => x > i)
        BY PipelineAssumption DEF Stages
      <4>. QED
        BY <2>5, <3>0, <3>1, <4>1
    <3>5. Grown(i, 1, i + 1, f, n) /\ f.ticket \in Nat /\ f.ticket < next_ticket'
      BY <2>2, <2>3, <2>8, <3>0
    <3>6. \A j \in Stages, c \in Nat : c \in cache'[j] => c < next_ticket'
      BY <2>3, <2>4
    <3>7. next_ticket' \in Nat /\ next_ticket <= next_ticket'
      BY <1>0, <2>3
    <3>. QED
      BY <1>0, <2>8, <3>2, <3>4, <3>5, <3>6, <3>7, GrownAscends
  <2>. QED
    BY <2>1, <2>7, <2>8 DEF DecodeShape
<1>7. ASSUME NEW i \in Stages, StageFails(i) PROVE Ascending'
  <2>1. PICK u : FailShape(i, u)
    BY <1>7, FailsShape
  <2>2. UNCHANGED << cache, next_ticket >>
    BY <1>7 DEF StageFails, driverVars
  <2>. QED
    BY <1>0, <1>3, <2>1, <2>2 DEF FailShape
<1>8. ASSUME NEW i \in Stages, StageTruncates(i) PROVE Ascending'
  <2>0. next_ticket' = next_ticket /\ TruncateShape(i)
    BY <1>8, StageSteps, TruncatesShape
  <2>1. \A j \in Stages : cache'[j] \subseteq cache[j]
    BY <2>0 DEF TruncateShape
  <2>2. CASE Shifted(i, 1)
    BY <1>0, <1>3, <2>0, <2>1, <2>2
  <2>3. ASSUME NEW n, i + 1 \in Stages, Grown(i, 1, i + 1, Truncate, n) PROVE Ascending'
    <3>1. Truncate.kind # "forward"
      BY FrameFields
    <3>2. \A x \in Stages, k \in Pos, t \in Nat : Fwd(x, k, t)' => Fwd(x, From(x, k, i, 1), t) /\ From(x, k, i, 1) \in Pos
      BY <1>0, <2>3, <3>1, FromPos DEF Grown
    <3>3. \A x, j \in Stages, k \in Pos, t, c \in Nat : Fwd(x, k, t)' /\ j >= x /\ c \in cache'[j] => c < t
      BY <1>1, <2>1, <3>2
    <3>4. \A j \in Stages, c \in Nat : c \in cache'[j] => c < next_ticket'
      BY <1>2, <2>0, <2>1
    <3>5. next_ticket' \in Nat /\ next_ticket <= next_ticket'
      BY <1>0, <2>0
    <3>. QED
      BY <1>0, <2>3, <3>1, <3>3, <3>4, <3>5, GrownAscends
  <2>. QED
    BY <2>0, <2>2, <2>3 DEF TruncateShape
<1>9. CASE \/ UNCHANGED vars \/ Pump \/ Drain \/ Collect \/ SubmitFails \/ TimeOut \/ Drop \/ Read \/ WriteFails
           \/ \E i \in Stages : Closes(i) \/ StageWriteFails(i) \/ StageRelays(i)
  <2>1. UNCHANGED << cache, next_ticket >> /\ \E i \in Stages, d \in Nat : Shifted(i, d)
    BY <1>0, <1>9, OtherShape
  <2>. QED
    BY <1>3, <2>1
<1>. QED
  BY <1>4, <1>5, <1>6, <1>7, <1>8, <1>9, StepSplits

-----------------------------------------------------------------------------
(* Places on the way up: level 0 is the driver's own channel. *)

\* The driver and the stages.
Level == 0 .. Last

\* Ticket t's answer is k-th of what stage i sent up, or of the driver's channel.
Back(i, k, t) ==
  IF i = 0 THEN k \in 1 .. Len(inbox) /\ inbox[k].kind # "closed" /\ inbox[k].ticket = t
  ELSE i \in Stages /\ k \in 1 .. Len(up[i]) /\ up[i][k].ticket = t

BackStill == \A j \in Level, k \in Pos, t \in Nat : Back(j, k, t)' <=> Back(j, k, t)

\* Stage i's answer to ticket u comes n-th and last.
BackSent(i, u, n) ==
  /\ n \in Pos
  /\ \A k \in Pos, t \in Nat : k >= n => ~Back(i, k, t)
  /\ \A j \in Level, k \in Pos, t \in Nat :
       Back(j, k, t)' <=> Back(j, k, t) \/ (j = i /\ k = n /\ t = u)

\* The first answer stage i + 1 sent comes n-th and last of level i's.
BackRelayed(i, n) ==
  /\ n \in Pos
  /\ \A k \in Pos, t \in Nat : k >= n => ~Back(i, k, t)
  /\ \A j \in Level, k \in Pos, t \in Nat :
       Back(j, k, t)' <=> \/ Back(j, From(j, k, i + 1, 1), t)
                          \/ j = i /\ k = n /\ Back(i + 1, 1, t)

\* The driver takes the first of its channel.
BackTaken == \A j \in Level, k \in Pos, t \in Nat : Back(j, k, t)' <=> Back(j, From(j, k, 0, 1), t)

\* The driver is level 0, the stages follow.
LEMMA Levels ==
  /\ \A i \in Level : i = 0 \/ i \in Stages
  /\ \A i \in Stages : i # 0 /\ i \in Level
  /\ 0 \in Level /\ 0 \notin Stages
  BY PipelineAssumption DEF Level, Stages

\* An answer is at a place.
LEMMA BackIs == \A i, k, t : Back(i, k, t) => k \in Pos
<1>1. ASSUME NEW i, NEW k, NEW n, k \in 1 .. n PROVE k \in Pos
  BY <1>1 DEF Pos
<1>. QED
  BY <1>1 DEF Back

\* With nothing sent or taken answers keep their places.
LEMMA BackStays == UNCHANGED << up, inbox >> => BackStill
  BY DEF BackStill, Back

\* A stage's answer comes last of what it sent up.
LEMMA BackSends ==
  ASSUME TypedFrames, NEW i \in Stages, NEW f \in UpFrames, Len(up[i]) < Socket,
         up' = [up EXCEPT ![i] = Append(@, f)], UNCHANGED inbox
  PROVE  BackSent(i, f.ticket, Len(up[i]) + 1)
<1>0. /\ \A j \in Stages : j # i => up'[j] = up[j]
      /\ Len(up'[i]) = Len(up[i]) + 1 /\ Len(up[i]) \in Nat
      /\ \A k \in 1 .. Len(up[i]) : up'[i][k] = up[i][k]
      /\ up'[i][Len(up[i]) + 1] = f
  BY SendsUp
<1>. DEFINE n == Len(up[i]) + 1
<1>1. n \in Pos
  BY <1>0 DEF Pos
<1>2. \A k \in Pos, t \in Nat : k >= n => ~Back(i, k, t)
  BY <1>0, Levels DEF Pos, Back
<1>3. ASSUME NEW j \in Level, NEW k \in Pos, NEW t \in Nat
      PROVE Back(j, k, t)' <=> Back(j, k, t) \/ (j = i /\ k = n /\ t = f.ticket)
  <2>0. k \in Nat /\ k > 0
    BY DEF Pos
  <2>1. CASE j # i
    BY <1>0, <2>1, Levels DEF Back
  <2>2. CASE j = i /\ k = n
    <3>1. k \notin 1 .. Len(up[i]) /\ k \in 1 .. Len(up'[i]) /\ up'[i][k] = f
      BY <1>0, <2>0, <2>2
    <3>. QED
      BY <2>2, <3>1, Levels DEF Back
  <2>3. CASE j = i /\ k # n
    <3>1. k \in 1 .. Len(up'[i]) <=> k \in 1 .. Len(up[i])
      BY <1>0, <2>0, <2>3
    <3>2. k \in 1 .. Len(up[i]) => up'[i][k] = up[i][k]
      BY <1>0
    <3>. QED
      BY <2>3, <3>1, <3>2, Levels DEF Back
  <2>. QED
    BY <2>1, <2>2, <2>3
<1>. QED
  BY <1>1, <1>2, <1>3 DEF BackSent

\* A relayed answer comes last at the stage that relays it.
LEMMA BackRelays ==
  ASSUME TypedFrames, NEW i \in Stages, i < Last, up[i + 1] # << >>, Len(up[i]) < Socket,
         up' = [up EXCEPT ![i] = Append(@, Head(up[i + 1])), ![i + 1] = Tail(@)], UNCHANGED inbox
  PROVE  BackRelayed(i, Len(up[i]) + 1)
<1>0. Relayed(up', i) /\ i + 1 # i
  <2>1. PICK r : r = up'
    OBVIOUS
  <2>2. Relayed(r, i)
    BY <2>1, RelaysUp
  <2>. QED
    BY <2>1, <2>2, PipelineAssumption DEF Stages
<1>r. /\ i + 1 \in Stages
      /\ \A j \in Stages : j # i /\ j # i + 1 => up'[j] = up[j]
      /\ Len(up'[i]) = Len(up[i]) + 1 /\ Len(up[i]) \in Nat
      /\ \A k \in 1 .. Len(up[i]) : up'[i][k] = up[i][k]
      /\ up'[i][Len(up[i]) + 1] = up[i + 1][1]
      /\ Len(up'[i + 1]) = Len(up[i + 1]) - 1 /\ Len(up[i + 1]) \in Nat \ {0}
      /\ \A k \in 1 .. Len(up[i + 1]) - 1 : up'[i + 1][k] = up[i + 1][k + 1]
  BY <1>0 DEF Relayed
<1>l. Len(up'[i]) = Len(up[i]) + 1 /\ Len(up[i]) \in Nat
  BY <1>r
<1>m. Len(up'[i + 1]) = Len(up[i + 1]) - 1 /\ Len(up[i + 1]) \in Nat \ {0}
  BY <1>r
<1>. DEFINE n == Len(up[i]) + 1
<1>1. n \in Pos
  BY <1>r DEF Pos
<1>2. \A k \in Pos, t \in Nat : k >= n => ~Back(i, k, t)
  BY <1>r, Levels DEF Pos, Back
<1>3. ASSUME NEW j \in Level, NEW k \in Pos, NEW t \in Nat
      PROVE Back(j, k, t)' <=> Back(j, From(j, k, i + 1, 1), t) \/ (j = i /\ k = n /\ Back(i + 1, 1, t))
  <2>0. k \in Nat /\ k > 0
    BY DEF Pos
  <2>1. CASE j # i /\ j # i + 1
    <3>1. From(j, k, i + 1, 1) = k
      BY <2>1 DEF From
    <3>. QED
      BY <1>r, <2>1, <3>1, Levels DEF Back
  <2>2. CASE j = i /\ k = n
    <3>1. k \notin 1 .. Len(up[i]) /\ k \in 1 .. Len(up'[i]) /\ up'[i][k] = up[i + 1][1] /\ 1 \in 1 .. Len(up[i + 1])
      BY <1>r, <2>0, <2>2
    <3>2. From(j, k, i + 1, 1) = k
      BY <1>0, <2>2 DEF From
    <3>. QED
      BY <1>r, <2>2, <3>1, <3>2, Levels DEF Back
  <2>3. CASE j = i /\ k # n
    <3>1. k \in 1 .. Len(up'[i]) <=> k \in 1 .. Len(up[i])
      BY <1>l, <2>0, <2>3
    <3>2. k \in 1 .. Len(up[i]) => up'[i][k] = up[i][k]
      BY <1>r
    <3>3. From(j, k, i + 1, 1) = k
      BY <1>0, <2>3 DEF From
    <3>. QED
      BY <2>3, <3>1, <3>2, <3>3, Levels DEF Back
  <2>4. CASE j = i + 1
    <3>1. k \in 1 .. Len(up'[i + 1]) <=> k + 1 \in 1 .. Len(up[i + 1])
      BY <1>m, <2>0
    <3>2. k \in 1 .. Len(up'[i + 1]) => up'[i + 1][k] = up[i + 1][k + 1]
      BY <1>r
    <3>3. From(j, k, i + 1, 1) = k + 1
      BY <2>4 DEF From
    <3>. QED
      BY <1>0, <1>r, <2>4, <3>1, <3>2, <3>3, Levels DEF Back
  <2>. QED
    BY <2>1, <2>2, <2>3, <2>4
<1>. QED
  BY <1>1, <1>2, <1>3 DEF BackRelayed

\* The driver's reader moves an answer to the channel.
LEMMA BackReads ==
  ASSUME TypedFrames, up[1] # << >>, inbox' = Append(inbox, Head(up[1])), up' = [up EXCEPT ![1] = Tail(@)]
  PROVE  BackRelayed(0, Len(inbox) + 1)
<1>0. 1 \in Stages /\ 0 + 1 = 1
  BY PipelineAssumption DEF Stages
<1>u. /\ \A j \in Stages : j # 1 => up'[j] = up[j]
      /\ Len(up'[1]) = Len(up[1]) - 1 /\ Len(up[1]) \in Nat \ {0}
      /\ \A k \in 1 .. Len(up[1]) - 1 : up'[1][k] = up[1][k + 1]
      /\ Head(up[1]) \in UpFrames /\ Head(up[1]) = up[1][1]
  BY <1>0, TakesUp
<1>i. /\ Len(inbox') = Len(inbox) + 1 /\ Len(inbox) \in Nat
      /\ \A k \in 1 .. Len(inbox) : inbox'[k] = inbox[k]
      /\ inbox'[Len(inbox) + 1] = up[1][1] /\ up[1][1].kind # "closed"
  <2>1. PICK f \in UpFrames : f = Head(up[1]) /\ f = up[1][1]
    BY <1>u
  <2>2. f.kind # "closed"
    BY FrameTypes
  <2>. QED
    BY <2>1, <2>2, AddsIn
<1>. DEFINE n == Len(inbox) + 1
<1>1. n \in Pos
  BY <1>i DEF Pos
<1>2. \A k \in Pos, t \in Nat : k >= n => ~Back(0, k, t)
  BY <1>i DEF Pos, Back
<1>3. ASSUME NEW j \in Level, NEW k \in Pos, NEW t \in Nat
      PROVE Back(j, k, t)' <=> Back(j, From(j, k, 1, 1), t) \/ (j = 0 /\ k = n /\ Back(1, 1, t))
  <2>0. k \in Nat /\ k > 0
    BY DEF Pos
  <2>1. CASE j \in Stages /\ j # 1
    <3>1. From(j, k, 1, 1) = k
      BY <2>1 DEF From
    <3>. QED
      BY <1>u, <2>1, <3>1, Levels DEF Back
  <2>2. CASE j = 0 /\ k = n
    <3>1. k \notin 1 .. Len(inbox) /\ k \in 1 .. Len(inbox') /\ inbox'[k] = up[1][1] /\ 1 \in 1 .. Len(up[1])
      BY <1>u, <1>i, <2>0, <2>2
    <3>2. From(j, k, 1, 1) = k
      BY <2>2 DEF From
    <3>. QED
      BY <1>0, <1>i, <2>2, <3>1, <3>2, Levels DEF Back
  <2>3. CASE j = 0 /\ k # n
    <3>1. k \in 1 .. Len(inbox') <=> k \in 1 .. Len(inbox)
      BY <1>i, <2>0, <2>3
    <3>2. k \in 1 .. Len(inbox) => inbox'[k] = inbox[k]
      BY <1>i
    <3>3. From(j, k, 1, 1) = k
      BY <2>3 DEF From
    <3>. QED
      BY <2>3, <3>1, <3>2, <3>3 DEF Back
  <2>4. CASE j = 1
    <3>1. k \in 1 .. Len(up'[1]) <=> k + 1 \in 1 .. Len(up[1])
      BY <1>u, <2>0
    <3>2. k \in 1 .. Len(up'[1]) => up'[1][k] = up[1][k + 1]
      BY <1>u
    <3>3. From(j, k, 1, 1) = k + 1
      BY <2>4 DEF From
    <3>. QED
      BY <1>0, <2>4, <3>1, <3>2, <3>3 DEF Back
  <2>. QED
    BY <2>1, <2>2, <2>3, <2>4, Levels
<1>. QED
  BY <1>0, <1>1, <1>2, <1>3 DEF BackRelayed

\* The item for a closed link is no answer.
LEMMA BackCloses ==
  ASSUME TypedFrames, inbox' = Append(inbox, Closed), UNCHANGED up
  PROVE  BackStill
<1>i. /\ Len(inbox') = Len(inbox) + 1 /\ Len(inbox) \in Nat
      /\ \A k \in 1 .. Len(inbox) : inbox'[k] = inbox[k]
      /\ inbox'[Len(inbox) + 1].kind = "closed"
  BY AddsIn, ClosedType
<1>. SUFFICES ASSUME NEW j \in Level, NEW k \in Pos, NEW t \in Nat
     PROVE Back(j, k, t)' <=> Back(j, k, t)
  BY DEF BackStill
<1>1. CASE j # 0
  BY <1>1 DEF Back
<1>2. CASE j = 0 /\ k = Len(inbox) + 1
  <2>1. k \notin 1 .. Len(inbox) /\ inbox'[k].kind = "closed"
    BY <1>i, <1>2
  <2>. QED
    BY <1>2, <2>1 DEF Back
<1>3. CASE j = 0 /\ k # Len(inbox) + 1
  <2>1. k \in 1 .. Len(inbox') <=> k \in 1 .. Len(inbox)
    BY <1>i, <1>3 DEF Pos
  <2>. QED
    BY <1>i, <1>3, <2>1 DEF Back
<1>. QED
  BY <1>1, <1>2, <1>3

\* Taking an item moves the others up.
LEMMA BackTakes ==
  ASSUME TypedFrames, inbox # << >>, inbox' = Tail(inbox), UNCHANGED up
  PROVE  BackTaken
<1>i. /\ Len(inbox') = Len(inbox) - 1 /\ Len(inbox) \in Nat \ {0}
      /\ \A k \in 1 .. Len(inbox) - 1 : inbox'[k] = inbox[k + 1]
  BY TakesIn
<1>. SUFFICES ASSUME NEW j \in Level, NEW k \in Pos, NEW t \in Nat
     PROVE Back(j, k, t)' <=> Back(j, From(j, k, 0, 1), t)
  BY DEF BackTaken
<1>0. k \in Nat /\ k > 0
  BY DEF Pos
<1>1. CASE j # 0
  BY <1>1 DEF Back, From
<1>2. CASE j = 0
  <2>1. k \in 1 .. Len(inbox') <=> k + 1 \in 1 .. Len(inbox)
    BY <1>i, <1>0
  <2>2. k \in 1 .. Len(inbox') => inbox'[k] = inbox[k + 1]
    BY <1>i
  <2>3. From(j, k, 0, 1) = k + 1
    BY <1>2 DEF From
  <2>. QED
    BY <1>2, <2>1, <2>2, <2>3 DEF Back
<1>. QED
  BY <1>1, <1>2

\* A report that blames a stage is no answer to a ticket.
LEMMA BackReports ==
  ASSUME TypedFrames, NEW i \in Stages, i < Last, Reports(i), UNCHANGED inbox
  PROVE  BackStill
<1>1. CASE link[i]
  <2>0. i + 1 \in Stages
    BY PipelineAssumption DEF Stages
  <2>1. PICK f \in UpFrames : f = Failure(All, i + 1) /\ f.ticket = All
    BY <2>0, UpTypes DEF Failure
  <2>2. up' = [up EXCEPT ![i] = Append(@, f)] /\ Len(up[i]) < Socket
    BY <1>1, <2>1 DEF Reports, Room
  <2>3. BackSent(i, All, Len(up[i]) + 1)
    BY <2>1, <2>2, BackSends
  <2>. QED
    BY <2>3, TicketTypes DEF BackSent, BackStill
<1>2. CASE ~link[i]
  BY <1>2, BackStays DEF Reports
<1>. QED
  BY <1>1, <1>2

\* Nor is the report of a stage that fails as it opens.
LEMMA BackCloseSends ==
  ASSUME TypedFrames, NEW i \in Stages, Closes(i)
  PROVE  BackStill
<1>0. UNCHANGED inbox
  BY ClosingKeeps
<1>1. CASE UNCHANGED up
  BY <1>0, <1>1, BackStays
<1>2. CASE ~UNCHANGED up
  <2>1. PICK f \in UpFrames : f.ticket = All /\ Len(up[i]) < Socket /\ up' = [up EXCEPT ![i] = Append(@, f)]
    BY <1>2, ClosingSends
  <2>2. BackSent(i, All, Len(up[i]) + 1)
    BY <1>0, <2>1, BackSends
  <2>. QED
    BY <2>2, TicketTypes DEF BackSent, BackStill
<1>. QED
  BY <1>1, <1>2

\* What each step does to the answers on their way.
LEMMA BackSteps ==
  ASSUME TypeOK, [Next]_vars
  PROVE  \/ BackStill
         \/ \E i \in Level : \E n : i < Last /\ BackRelayed(i, n)
         \/ BackTaken /\ (Pump \/ Drain) /\ inbox # << >>
         \/ \E i \in Stages : \E u, n : /\ BackSent(i, u, n)
                                    /\ \/ StageFails(i) /\ FailShape(i, u)
                                       \/ StageDecodes(i) /\ i = Last /\ \E w : DecodeShape(i, u, w)
<1>0. TypedFrames
  BY Split
<1>1. CASE UNCHANGED vars \/ Begin \/ Submit \/ Collect \/ SubmitFails \/ TimeOut \/ Drop
  BY <1>1, BackStays DEF vars, Begin, Submit, Collect, SubmitFails, TimeOut, Drop
<1>2. CASE Pump
  BY <1>0, <1>2, BackTakes DEF Pump
<1>3. CASE Drain
  BY <1>0, <1>2, <1>3, BackTakes, BackStays DEF Drain
<1>4. CASE Read
  <2>1. CASE up[1] # << >> /\ inbox' = Append(inbox, Head(up[1])) /\ up' = [up EXCEPT ![1] = Tail(@)]
    <3>1. BackRelayed(0, Len(inbox) + 1)
      BY <1>0, <2>1, BackReads
    <3>. QED
      BY <3>1, Levels, PipelineAssumption
  <2>2. CASE inbox' = Append(inbox, Closed) /\ UNCHANGED up
    BY <1>0, <2>2, BackCloses
  <2>. QED
    BY <1>4, <2>1, <2>2 DEF Read
<1>5. CASE WriteFails
  BY <1>0, <1>5, BackCloses DEF WriteFails
<1>6. ASSUME NEW i \in Stages, StageTruncates(i) \/ Closes(i) PROVE BackStill
  <2>1. CASE StageTruncates(i)
    BY <2>1, BackStays DEF StageTruncates
  <2>2. CASE Closes(i)
    BY <1>0, <2>2, BackCloseSends
  <2>. QED
    BY <1>6, <2>1, <2>2
<1>7. ASSUME NEW i \in Stages, StageWriteFails(i) PROVE BackStill
  BY <1>0, <1>7, BackReports DEF StageWriteFails
<1>8. ASSUME NEW i \in Stages, StageRelays(i) PROVE BackStill \/ (i < Last /\ \E n : BackRelayed(i, n))
  <2>0. i < Last /\ UNCHANGED inbox
    BY <1>8 DEF StageRelays
  <2>1. CASE UNCHANGED up
    BY <2>0, <2>1, BackStays
  <2>2. CASE Reports(i)
    BY <1>0, <2>0, <2>2, BackReports
  <2>3. CASE up[i + 1] # << >> /\ Room(i) /\ up' = [up EXCEPT ![i] = Append(@, Head(up[i + 1])), ![i + 1] = Tail(@)]
    <3>1. Len(up[i]) < Socket
      BY <2>3 DEF Room
    <3>. QED
      BY <1>0, <2>0, <2>3, <3>1, BackRelays
  <2>. QED
    BY <1>8, <2>1, <2>2, <2>3 DEF StageRelays
<1>9. ASSUME NEW i \in Stages, StageFails(i) PROVE \E u, n : BackSent(i, u, n) /\ FailShape(i, u)
  <2>1. PICK u : FailShape(i, u)
    BY <1>9, FailsShape
  <2>2. PICK f \in UpFrames : f = Failure(u, i) /\ f.ticket = u
    BY <2>1, UpTypes DEF FailShape, Failure
  <2>3. BackSent(i, f.ticket, Len(up[i]) + 1)
    BY <1>0, <1>9, <2>1, <2>2, BackSends DEF FailShape, StageFails
  <2>. QED
    BY <2>1, <2>2, <2>3
<1>10. ASSUME NEW i \in Stages, StageDecodes(i)
       PROVE BackStill \/ \E u, n : BackSent(i, u, n) /\ i = Last /\ \E w : DecodeShape(i, u, w)
  <2>1. PICK u, w : DecodeShape(i, u, w)
    BY <1>10, DecodesShape
  <2>0. UNCHANGED inbox
    BY <1>10 DEF StageDecodes
  <2>2. CASE UNCHANGED up
    BY <2>0, <2>2, BackStays
  <2>3. CASE /\ i = Last /\ Len(up[i]) < Socket
             /\ up' = [up EXCEPT ![i] = Append(@, Logits(u, w /\ Whole(i, u)))]
    <3>1. PICK v \in BOOLEAN : v = (w /\ Whole(i, u))
      BY <2>1, WholeTypes DEF DecodeShape
    <3>2. PICK f \in UpFrames : f = Logits(u, v) /\ f.ticket = u
      BY <2>1, UpTypes DEF DecodeShape, Logits
    <3>3. BackSent(i, f.ticket, Len(up[i]) + 1)
      BY <1>0, <2>0, <2>3, <3>1, <3>2, BackSends
    <3>. QED
      BY <2>1, <2>3, <3>2, <3>3
  <2>. QED
    BY <2>1, <2>2, <2>3 DEF DecodeShape
<1>. QED
  BY <1>1, <1>2, <1>3, <1>4, <1>5, <1>6, <1>7, <1>8, <1>9, <1>10, StepSplits, Levels

-----------------------------------------------------------------------------
(* One place. *)

\* Ticket t is on its way down, and its answer on its way up.
OnWay(t) == \E i \in Stages, k \in Pos : Fwd(i, k, t)

Coming(t) == \E i \in Level, k \in Pos : Back(i, k, t)

\* A ticket on its way is in flight, and in one place.
Alone ==
  /\ \A t \in Nat : OnWay(t) \/ Coming(t) => t \in pending
  /\ \A t \in Nat : ~(OnWay(t) /\ Coming(t))
  /\ \A i, j \in Level, k, m \in Pos, t \in Nat : Back(i, k, t) /\ Back(j, m, t) => i = j /\ k = m

\* While no stage has failed, every link is open and every thread runs.
Alive ==
  culprit = 0 /\ link[1] =>
    /\ \A i \in Stages : link[i] /\ serving[i] /\ ~lost[i]
    /\ \A i \in 0 .. Last - 1 : writer[i] /\ relay[i]

\* And every ticket in flight is somewhere.
Kept == culprit = 0 /\ link[1] => \A t \in pending : OnWay(t) \/ Coming(t)

\* Ascending tickets are at one place each.
LEMMA FwdOnce ==
  ASSUME Ascending, NEW i \in Stages, NEW j \in Stages, NEW k \in Pos, NEW m \in Pos, NEW t \in Nat,
         Fwd(i, k, t), Fwd(j, m, t)
  PROVE  i = j /\ k = m
<1>1. Older(j, m, i, k) \/ Older(i, k, j, m) \/ (i = j /\ k = m)
  BY DEF Older, Stages, Pos
<1>2. ~(t < t)
  OBVIOUS
<1>. QED
  BY <1>1, <1>2 DEF Ascending

\* While no stage has failed every thread runs: every step keeps it so.
LEMMA StepAlive ==
  ASSUME TypeOK, Alive, [Next]_vars
  PROVE  Alive' /\ (culprit' = 0 /\ link'[1] => culprit = 0 /\ link[1])
<1>0. TypedStages /\ 1 \in Stages /\ culprit \in 0 .. Last
  BY Split, PipelineAssumption DEF Stages, TypeOK
<1>1. culprit' = 0 /\ link'[1] => culprit = 0 /\ link[1]
  BY <1>0, StepLinks DEF Stages
<1>. SUFFICES ASSUME culprit' = 0, link'[1]
     PROVE /\ \A i \in Stages : link'[i] /\ serving'[i] /\ ~lost'[i]
           /\ \A i \in 0 .. Last - 1 : writer'[i] /\ relay'[i]
  BY <1>1 DEF Alive
<1>2. /\ \A i \in Stages : link[i] /\ serving[i] /\ ~lost[i]
      /\ \A i \in 0 .. Last - 1 : writer[i] /\ relay[i]
  BY <1>1 DEF Alive
<1>3. \A i \in Stages : ~Closes(i) /\ ~(i < Last /\ ~link[i + 1])
  <2>1. \A i \in Stages : ~SessionEnds(i) /\ ~UpCloses(i)
    BY <1>2 DEF SessionEnds, UpCloses
  <2>2. \A i \in Stages : i # 0
    BY DEF Stages
  <2>3. \A i \in Stages : ~Dies(i) /\ ~GivesUp(i)
    BY <2>2 DEF Dies, GivesUp
  <2>4. \A i \in Stages : i < Last => i + 1 \in Stages
    BY PipelineAssumption DEF Stages
  <2>. QED
    BY <1>2, <2>1, <2>3, <2>4 DEF Closes
<1>4. UNCHANGED << serving, lost, writer >>
  <2>1. ASSUME NEW i \in Stages, StageRelays(i) PROVE UNCHANGED << serving, lost, writer >>
    BY <1>2, <1>3, <2>1 DEF StageRelays, Reports
  <2>2. ~WriteFails /\ \A i \in Stages : ~StageWriteFails(i)
    BY <1>0, <1>2, <1>3 DEF WriteFails, StageWriteFails
  <2>3. CASE \/ UNCHANGED vars \/ Begin \/ Submit \/ Pump \/ Drain \/ Collect \/ SubmitFails \/ TimeOut \/ Drop \/ Read
             \/ \E i \in Stages : StageDecodes(i) \/ StageTruncates(i) \/ StageFails(i)
    BY <2>3 DEF vars, Begin, Submit, Pump, Drain, Collect, SubmitFails, TimeOut, Drop, Read, StageDecodes, StageTruncates, StageFails
  <2>. QED
    BY <1>3, <2>1, <2>2, <2>3, StepSplits
<1>5. UNCHANGED relay
  <2>1. ASSUME NEW i \in Stages, StageRelays(i) PROVE UNCHANGED relay
    BY <1>2, <1>3, <2>1 DEF StageRelays
  <2>2. ~WriteFails /\ \A i \in Stages : ~StageWriteFails(i)
    BY <1>0, <1>2, <1>3 DEF WriteFails, StageWriteFails
  <2>3. CASE \/ UNCHANGED vars \/ Begin \/ Submit \/ Pump \/ Drain \/ Collect \/ SubmitFails \/ TimeOut \/ Drop
             \/ \E i \in Stages : StageDecodes(i) \/ StageTruncates(i) \/ StageFails(i)
    BY <2>3 DEF vars, Begin, Submit, Pump, Drain, Collect, SubmitFails, TimeOut, Drop, StageDecodes, StageTruncates, StageFails
  <2>4. Read => UNCHANGED relay
    BY <1>0, <1>2 DEF Read
  <2>. QED
    BY <1>3, <2>1, <2>2, <2>3, <2>4, StepSplits
<1>6. \A i \in Stages : link'[i]
  <2>. SUFFICES ASSUME NEW i \in Stages, ~link'[i] PROVE FALSE
    BY <1>0, StepStages, StepLinks, <1>2
  <2>1. link[i] /\ i # 1
    BY <1>2
  <2>2. \/ culprit' \in Stages \/ ~serving[i]
        \/ i - 1 \in Stages /\ (~link[i - 1] \/ lost[i - 1])
    BY <2>1, StepLinks
  <2>. QED
    BY <1>2, <2>2 DEF Stages
<1>. QED
  BY <1>2, <1>4, <1>5, <1>6

\* Where tickets on their way down come from, and where they go.
LEMMA OnWaySteps ==
  ASSUME TypeOK, Spent, Ascending, [Next]_vars, NEW t \in Nat
  PROVE  /\ OnWay(t)' => OnWay(t) \/ (Submit /\ Sendable /\ t = next_ticket)
         /\ Submit /\ Sendable /\ t = next_ticket => OnWay(t)'
         /\ OnWay(t) => \/ OnWay(t)'
                        \/ \E i \in Stages : FailShape(i, t) /\ StageFails(i)
                        \/ \E i \in Stages : \E w : DecodeShape(i, t, w) /\ i = Last /\ StageDecodes(i)
                        \/ \E i \in Stages : ~serving'[i]
<1>0. 1 \in Stages /\ 1 \in Nat /\ 0 \in Nat /\ 1 \in Pos /\ \A i \in Stages, j \in Stages, k \in Pos : From(j, k, i, 0) = k
  BY PipelineAssumption DEF Stages, Pos, From
<1>1. ASSUME NEW i \in Stages, NEW d \in Nat, Shifted(i, d), OnWay(t)' PROVE OnWay(t)
  BY <1>1, FromPos DEF Shifted, OnWay
<1>2. ASSUME NEW i \in Stages, NEW a \in Stages, NEW d \in Nat, NEW f, NEW n, Grown(i, d, a, f, n), OnWay(t)'
      PROVE OnWay(t) \/ (f.kind = "forward" /\ f.ticket = t)
  BY <1>2, FromPos DEF Grown, OnWay
<1>3. ASSUME NEW i \in Stages, Shifted(i, 1), OnWay(t), ~Fwd(i, 1, t) PROVE OnWay(t)'
  <2>1. PICK x \in Stages, k \in Pos : Fwd(x, k, t)
    BY <1>3 DEF OnWay
  <2>2. CASE x # i
    BY <1>3, <2>1, <2>2 DEF Shifted, OnWay, From
  <2>3. CASE x = i
    <3>1. PICK m \in Pos : k = m + 1
      BY <1>3, <2>1, <2>3 DEF Pos
    <3>2. From(i, m, i, 1) = k
      BY <3>1 DEF From
    <3>. QED
      BY <1>3, <2>1, <2>3, <3>2 DEF Shifted, OnWay
  <2>. QED
    BY <2>2, <2>3
<1>4. ASSUME NEW i \in Stages, NEW a \in Stages, NEW f, NEW n, Grown(i, 1, a, f, n), OnWay(t),
             Fwd(i, 1, t) => f.kind = "forward" /\ f.ticket = t
      PROVE OnWay(t)'
  <2>0. n \in Pos
    BY <1>4 DEF Grown
  <2>1. PICK x \in Stages, k \in Pos : Fwd(x, k, t)
    BY <1>4 DEF OnWay
  <2>2. CASE x # i
    BY <1>4, <2>1, <2>2 DEF Grown, OnWay, From
  <2>3. CASE x = i /\ k # 1
    <3>1. PICK m \in Pos : k = m + 1
      BY <2>1, <2>3 DEF Pos
    <3>2. From(i, m, i, 1) = k
      BY <3>1 DEF From
    <3>. QED
      BY <1>4, <2>1, <2>3, <3>2 DEF Grown, OnWay
  <2>4. CASE x = i /\ k = 1
    BY <1>4, <2>0, <2>1, <2>4 DEF Grown, OnWay
  <2>. QED
    BY <2>2, <2>3, <2>4
<1>5. ASSUME NEW n, NEW f, Grown(1, 0, 1, f, n)
      PROVE (OnWay(t) => OnWay(t)') /\ (f.kind = "forward" /\ f.ticket = t => OnWay(t)')
  BY <1>0, <1>5 DEF Grown, OnWay
<1>6. ASSUME Shifted(1, 0), OnWay(t) PROVE OnWay(t)'
  BY <1>0, <1>6 DEF Shifted, OnWay
<1>x. ~(Submit /\ \/ Begin \/ Pump \/ Drain \/ Collect \/ SubmitFails \/ TimeOut \/ Drop \/ Read \/ WriteFails \/ UNCHANGED vars)
  <2>1. Submit => next_ticket' = next_ticket + 1 /\ next_ticket \in Nat
    BY SubmitShape
  <2>2. Begin \/ Pump \/ Drain \/ Collect \/ SubmitFails \/ TimeOut \/ Drop \/ Read \/ WriteFails \/ UNCHANGED vars => next_ticket' = next_ticket
    BY DEF Begin, Pump, Drain, Collect, SubmitFails, TimeOut, Drop, Read, WriteFails, driverVars, vars
  <2>. QED
    BY <2>1, <2>2
<1>y. ASSUME NEW i \in Stages, \/ StageDecodes(i) \/ StageTruncates(i) \/ Closes(i) \/ StageWriteFails(i) \/ StageRelays(i)
                               \/ StageFails(i)
      PROVE ~Submit
  <2>1. Submit => next_ticket' = next_ticket + 1 /\ next_ticket \in Nat
    BY SubmitShape
  <2>. QED
    BY <1>y, <2>1, StepThreads
<1>7. CASE Begin
  BY <1>0, <1>1, <1>2, <1>5, <1>6, <1>7, <1>x, BeginShape, FrameFields
<1>8. CASE Submit
  <2>1. CASE Sendable
    <3>1. PICK n : Grown(1, 0, 1, Forward(next_ticket, Whole(0, next_ticket)), n)
      BY <1>8, <2>1, SubmitShape
    <3>2. PICK f : f = Forward(next_ticket, Whole(0, next_ticket)) /\ f.kind = "forward" /\ f.ticket = next_ticket
      BY FrameFields
    <3>3. Grown(1, 0, 1, f, n)
      BY <3>1, <3>2
    <3>4. OnWay(t)' => OnWay(t) \/ t = next_ticket
      BY <1>0, <1>2, <3>2, <3>3
    <3>. QED
      BY <1>5, <1>8, <2>1, <3>2, <3>3, <3>4
  <2>2. CASE ~Sendable
    BY <1>0, <1>1, <1>6, <1>8, <2>2, SubmitShape
  <2>. QED
    BY <2>1, <2>2
<1>9. ASSUME NEW i \in Stages, StageDecodes(i)
      PROVE /\ OnWay(t)' => OnWay(t)
            /\ OnWay(t) => OnWay(t)' \/ \E w : DecodeShape(i, t, w) /\ i = Last
  <2>1. PICK u, w : DecodeShape(i, u, w)
    BY <1>9, DecodesShape
  <2>2. u \in Nat /\ Fwd(i, 1, u) /\ OnWay(u)
    BY <1>0, <2>1 DEF DecodeShape, OnWay
  <2>3. Fwd(i, 1, t) => u = t
    BY <2>2 DEF Fwd
  <2>4. CASE i = Last /\ Shifted(i, 1)
    BY <1>0, <1>1, <1>3, <2>1, <2>3, <2>4
  <2>5. ASSUME NEW n, i + 1 \in Stages, Grown(i, 1, i + 1, Forward(u, w /\ Whole(i, u)), n)
        PROVE OnWay(t)' <=> OnWay(t)
    <3>1. PICK f : f = Forward(u, w /\ Whole(i, u)) /\ f.kind = "forward" /\ f.ticket = u
      BY FrameFields
    <3>2. Grown(i, 1, i + 1, f, n)
      BY <2>5, <3>1
    <3>3. OnWay(t)' => OnWay(t)
      BY <1>0, <1>2, <2>2, <2>5, <3>1, <3>2
    <3>4. OnWay(t) => OnWay(t)'
      BY <1>4, <2>3, <2>5, <3>1, <3>2
    <3>. QED
      BY <3>3, <3>4
  <2>. QED
    BY <2>1, <2>4, <2>5 DEF DecodeShape
<1>10. ASSUME NEW i \in Stages, StageFails(i)
       PROVE (OnWay(t)' => OnWay(t)) /\ (OnWay(t) => OnWay(t)' \/ FailShape(i, t))
  <2>1. PICK u : FailShape(i, u)
    BY <1>10, FailsShape
  <2>2. Shifted(i, 1) /\ Fwd(i, 1, u)
    BY <2>1 DEF FailShape
  <2>3. Fwd(i, 1, t) => u = t
    BY <2>2 DEF Fwd
  <2>. QED
    BY <1>0, <1>1, <1>3, <2>1, <2>2, <2>3
<1>11. ASSUME NEW i \in Stages, StageTruncates(i) PROVE OnWay(t)' <=> OnWay(t)
  <2>1. TruncateShape(i)
    BY <1>11, TruncatesShape
  <2>2. ~Fwd(i, 1, t)
    BY <2>1 DEF TruncateShape, Cut, Fwd
  <2>3. CASE Shifted(i, 1)
    BY <1>0, <1>1, <1>3, <2>2, <2>3
  <2>4. ASSUME NEW n, i + 1 \in Stages, Grown(i, 1, i + 1, Truncate, n) PROVE OnWay(t)' <=> OnWay(t)
    <3>1. Truncate.kind # "forward"
      BY FrameFields
    <3>2. OnWay(t)' => OnWay(t)
      BY <1>0, <1>2, <2>4, <3>1
    <3>3. OnWay(t) => OnWay(t)'
      BY <1>4, <2>2, <2>4
    <3>. QED
      BY <3>2, <3>3
  <2>. QED
    BY <2>1, <2>3, <2>4 DEF TruncateShape
<1>12. CASE \/ UNCHANGED vars \/ Pump \/ Drain \/ Collect \/ SubmitFails \/ TimeOut \/ Drop \/ Read \/ WriteFails
            \/ \E i \in Stages : Closes(i) \/ StageWriteFails(i) \/ StageRelays(i)
  <2>1. \/ Shifted(1, 0)
        \/ \E i \in Stages, d \in Nat : Shifted(i, d) /\ ~serving'[i]
    BY <1>12, OtherShape
  <2>2. ~Submit
    BY <1>12, <1>x, <1>y
  <2>. QED
    BY <1>0, <1>1, <1>6, <2>1, <2>2
<1>. QED
  BY <1>7, <1>8, <1>9, <1>10, <1>11, <1>12, <1>y, StepSplits

\* The answer to t that this step makes.
Made(t) ==
  \E i \in Stages : \/ StageFails(i) /\ FailShape(i, t)
                    \/ StageDecodes(i) /\ i = Last /\ \E w : DecodeShape(i, t, w)

\* Places after the first of a queue is gone.
LEMMA ShiftPlaces ==
  /\ \A i, j \in Level, k, m \in Pos : From(j, k, i, 1) \in Pos
  /\ \A i, j \in Level, k, m \in Pos : From(j, k, i, 1) = From(j, m, i, 1) => k = m
  /\ \A i \in Level, k \in Pos : From(i, k, i, 1) # 1
  /\ \A i, j \in Level, k \in Pos : j # i => From(j, k, i, 1) = k
  /\ \A i \in Level, k \in Pos : k # 1 => \E m \in Pos : From(i, m, i, 1) = k
<1>1. ASSUME NEW k \in Pos, k # 1 PROVE k - 1 \in Pos /\ (k - 1) + 1 = k
  BY <1>1 DEF Pos
<1>. QED
  BY <1>1 DEF From, Pos

\* The level after a stage's that is not the last is a stage.
LEMMA NextLevel == \A i \in Level : i < Last => i + 1 \in Level /\ i + 1 # i /\ i + 1 \in Stages
  BY PipelineAssumption DEF Level, Stages

\* Where answers come from, and where they go.
LEMMA ComingSteps ==
  ASSUME TypeOK, Alone, [Next]_vars
  PROVE  /\ \A t \in Nat : Coming(t)' => Coming(t) \/ Made(t)
         /\ \A t \in Nat : Coming(t) => Coming(t)' \/ (Back(0, 1, t) /\ (Pump \/ Drain))
         /\ (\A t \in Nat : Made(t) => ~Coming(t)) =>
              \A i, j \in Level, k, m \in Pos, t \in Nat : Back(i, k, t)' /\ Back(j, m, t)' => i = j /\ k = m
<1>0. 1 \in Pos /\ 0 \in Level
  BY Levels DEF Pos
<1>a. \A i, j \in Level, k, m \in Pos, t \in Nat : Back(i, k, t) /\ Back(j, m, t) => i = j /\ k = m
  BY DEF Alone
<1>1. CASE BackStill
  BY <1>1, <1>a DEF BackStill, Coming
<1>2. ASSUME NEW i \in Level, NEW n, i < Last, BackRelayed(i, n)
      PROVE /\ \A t \in Nat : Coming(t)' <=> Coming(t)
            /\ \A x, y \in Level, k, m \in Pos, t \in Nat : Back(x, k, t)' /\ Back(y, m, t)' => x = y /\ k = m
  <2>0. i + 1 \in Level /\ i + 1 # i /\ n \in Pos
    BY <1>2, NextLevel DEF BackRelayed
  <2>1. \A j \in Level, k \in Pos, t \in Nat :
       Back(j, k, t)' <=> \/ Back(j, From(j, k, i + 1, 1), t)
                          \/ j = i /\ k = n /\ Back(i + 1, 1, t)
    BY <1>2 DEF BackRelayed
  <2>2. ASSUME NEW t \in Nat, Coming(t)' PROVE Coming(t)
    BY <1>0, <2>0, <2>1, <2>2, ShiftPlaces DEF Coming
  <2>3. ASSUME NEW t \in Nat, Coming(t) PROVE Coming(t)'
    <3>1. PICK j \in Level, k \in Pos : Back(j, k, t)
      BY <2>3 DEF Coming
    <3>2. CASE j # i + 1
      BY <2>0, <2>1, <3>1, <3>2, ShiftPlaces DEF Coming
    <3>3. CASE j = i + 1 /\ k = 1
      BY <2>0, <2>1, <3>1, <3>3 DEF Coming
    <3>4. CASE j = i + 1 /\ k # 1
      BY <2>0, <2>1, <3>1, <3>4, ShiftPlaces DEF Coming
    <3>. QED
      BY <3>2, <3>3, <3>4
  <2>4. ASSUME NEW x \in Level, NEW y \in Level, NEW k \in Pos, NEW m \in Pos, NEW t \in Nat,
               Back(x, k, t)', Back(y, m, t)'
        PROVE x = y /\ k = m
    <3>1. PICK k2 \in Pos, m2 \in Pos : k2 = From(x, k, i + 1, 1) /\ m2 = From(y, m, i + 1, 1)
      BY <2>0, ShiftPlaces
    <3>2. CASE Back(x, k2, t) /\ Back(y, m2, t)
      <4>1. x = y /\ k2 = m2
        BY <1>a, <3>2
      <4>. QED
        BY <2>0, <3>1, <4>1, ShiftPlaces
    <3>3. CASE Back(x, k2, t) /\ Back(i + 1, 1, t)
      <4>1. x = i + 1 /\ k2 = 1
        BY <1>0, <1>a, <2>0, <3>3
      <4>. QED
        BY <2>0, <3>1, <4>1, ShiftPlaces
    <3>4. CASE Back(y, m2, t) /\ Back(i + 1, 1, t)
      <4>1. y = i + 1 /\ m2 = 1
        BY <1>0, <1>a, <2>0, <3>4
      <4>. QED
        BY <2>0, <3>1, <4>1, ShiftPlaces
    <3>5. Back(x, k2, t) \/ (x = i /\ k = n /\ Back(i + 1, 1, t))
      BY <2>1, <2>4, <3>1
    <3>6. Back(y, m2, t) \/ (y = i /\ m = n /\ Back(i + 1, 1, t))
      BY <2>1, <2>4, <3>1
    <3>. QED
      BY <3>2, <3>3, <3>4, <3>5, <3>6
  <2>. QED
    BY <2>2, <2>3, <2>4
<1>3. CASE BackTaken /\ (Pump \/ Drain)
  <2>1. \A j \in Level, k \in Pos, t \in Nat : Back(j, k, t)' <=> Back(j, From(j, k, 0, 1), t)
    BY <1>3 DEF BackTaken
  <2>2. ASSUME NEW t \in Nat, Coming(t)' PROVE Coming(t)
    BY <1>0, <2>1, <2>2, ShiftPlaces DEF Coming
  <2>3. ASSUME NEW t \in Nat, Coming(t), ~Back(0, 1, t) PROVE Coming(t)'
    <3>1. PICK j \in Level, k \in Pos : Back(j, k, t)
      BY <2>3 DEF Coming
    <3>2. CASE j # 0
      BY <1>0, <2>1, <3>1, <3>2, ShiftPlaces DEF Coming
    <3>3. CASE j = 0 /\ k # 1
      BY <1>0, <2>1, <3>1, <3>3, ShiftPlaces DEF Coming
    <3>. QED
      BY <2>3, <3>1, <3>2, <3>3
  <2>4. ASSUME NEW x \in Level, NEW y \in Level, NEW k \in Pos, NEW m \in Pos, NEW t \in Nat,
               Back(x, k, t)', Back(y, m, t)'
        PROVE x = y /\ k = m
    <3>0. From(x, k, 0, 1) \in Pos /\ From(y, m, 0, 1) \in Pos
      BY <1>0, <2>4, ShiftPlaces
    <3>1. PICK k2 \in Pos, m2 \in Pos : k2 = From(x, k, 0, 1) /\ m2 = From(y, m, 0, 1)
      BY <3>0
    <3>2. x = y /\ k2 = m2
      BY <1>a, <2>1, <2>4, <3>1
    <3>. QED
      BY <1>0, <3>1, <3>2, ShiftPlaces
  <2>. QED
    BY <1>3, <2>2, <2>3, <2>4
<1>4. ASSUME NEW i \in Stages, NEW u, NEW n, BackSent(i, u, n),
             \/ StageFails(i) /\ FailShape(i, u)
             \/ StageDecodes(i) /\ i = Last /\ \E w : DecodeShape(i, u, w)
      PROVE /\ \A t \in Nat : Coming(t)' => Coming(t) \/ Made(t)
            /\ \A t \in Nat : Coming(t) => Coming(t)'
            /\ (\A t \in Nat : Made(t) => ~Coming(t)) =>
              \A x, y \in Level, k, m \in Pos, t \in Nat : Back(x, k, t)' /\ Back(y, m, t)' => x = y /\ k = m
  <2>0. Made(u) /\ n \in Pos /\ u \in Nat
    BY <1>4 DEF Made, BackSent, FailShape, DecodeShape
  <2>1. \A j \in Level, k \in Pos, t \in Nat : Back(j, k, t)' <=> Back(j, k, t) \/ (j = i /\ k = n /\ t = u)
    BY <1>4 DEF BackSent
  <2>2. ASSUME NEW t \in Nat, Coming(t)' PROVE Coming(t) \/ Made(t)
    BY <2>0, <2>1, <2>2 DEF Coming
  <2>3. ASSUME NEW t \in Nat, Coming(t) PROVE Coming(t)'
    BY <2>1, <2>3 DEF Coming
  <2>4. ASSUME NEW x \in Level, NEW y \in Level, NEW k \in Pos, NEW m \in Pos, NEW t \in Nat,
               Back(x, k, t)', Back(y, m, t)', Made(u) => ~Coming(u)
        PROVE x = y /\ k = m
    <3>1. CASE t = u
      <4>1. ~Back(x, k, t) /\ ~Back(y, m, t)
        BY <2>0, <2>4, <3>1 DEF Coming
      <4>. QED
        BY <2>1, <2>4, <4>1
    <3>2. CASE t # u
      BY <1>a, <2>1, <2>4, <3>2
    <3>. QED
      BY <3>1, <3>2
  <2>. QED
    BY <2>0, <2>2, <2>3, <2>4
<1>. QED
  BY <1>1, <1>2, <1>3, <1>4, BackSteps

\* An answer that is made is coming back.
LEMMA MadeComes ==
  ASSUME TypeOK, [Next]_vars, NEW t \in Nat, Made(t)
  PROVE  Coming(t)'
<1>0. TypedFrames
  BY Split
<1>1. PICK i \in Stages : \/ StageFails(i) /\ FailShape(i, t)
                          \/ StageDecodes(i) /\ i = Last /\ \E w : DecodeShape(i, t, w)
  BY DEF Made
<1>2. UNCHANGED inbox
  BY <1>1 DEF StageFails, StageDecodes
<1>3. PICK f \in UpFrames : f.ticket = t /\ Len(up[i]) < Socket /\ up' = [up EXCEPT ![i] = Append(@, f)]
  <2>1. CASE FailShape(i, t)
    BY <2>1, UpTypes DEF FailShape, Failure
  <2>2. ASSUME NEW w, DecodeShape(i, t, w), i = Last
        PROVE \E f \in UpFrames : f.ticket = t /\ Len(up[i]) < Socket /\ up' = [up EXCEPT ![i] = Append(@, f)]
    <3>0. Last \in Nat
      BY PipelineAssumption
    <3>1. t \in Tickets /\ Len(up[i]) < Socket /\ up' = [up EXCEPT ![i] = Append(@, Logits(t, w /\ Whole(i, t)))]
      BY <2>2, <3>0 DEF DecodeShape
    <3>2. PICK v \in BOOLEAN : v = (w /\ Whole(i, t))
      BY <2>2, WholeTypes DEF DecodeShape
    <3>3. PICK f \in UpFrames : f = Logits(t, v) /\ f.ticket = t
      BY <3>1, UpTypes DEF Logits
    <3>. QED
      BY <3>1, <3>2, <3>3
  <2>. QED
    BY <1>1, <2>1, <2>2
<1>4. BackSent(i, t, Len(up[i]) + 1)
  BY <1>0, <1>2, <1>3, BackSends
<1>. QED
  BY <1>4, Levels DEF BackSent, Coming

\* And its ticket is no longer on its way down.
LEMMA MadeGone ==
  ASSUME TypeOK, Ascending, NEW t \in Nat, Made(t)
  PROVE  OnWay(t) /\ ~OnWay(t)'
<1>1. PICK i \in Stages : \/ StageFails(i) /\ FailShape(i, t)
                          \/ StageDecodes(i) /\ i = Last /\ \E w : DecodeShape(i, t, w)
  BY DEF Made
<1>2. Fwd(i, 1, t) /\ Shifted(i, 1) /\ 1 \in Pos /\ 1 \in Nat
  BY <1>1, PipelineAssumption DEF FailShape, DecodeShape, Pos
<1>3. OnWay(t)
  BY <1>2 DEF OnWay
<1>4. ASSUME NEW x \in Stages, NEW k \in Pos, Fwd(x, k, t)' PROVE FALSE
  <2>1. PICK k2 \in Pos : k2 = From(x, k, i, 1)
    BY <1>2, FromPos
  <2>2. Fwd(x, k2, t)
    BY <1>2, <1>4, <2>1 DEF Shifted
  <2>3. x = i /\ k2 = 1
    BY <1>2, <2>2, FwdOnce
  <2>. QED
    BY <2>1, <2>3, ShiftPlaces, Levels
<1>. QED
  BY <1>3, <1>4 DEF OnWay

\* What the driver counts as in flight.
LEMMA PendingSteps ==
  ASSUME TypeOK, Spent, [Next]_vars
  PROVE  \/ pending' = pending
         \/ Submit /\ Sendable /\ pending' = pending \cup {next_ticket}
         \/ Pump /\ Head(inbox) \in Answers /\ Settled(Head(inbox)) /\ inbox # << >>
<1>0. TypedFrames
  BY Split
<1>1. CASE Pump
  <2>1. inbox # << >>
    BY <1>1 DEF Pump
  <2>2. Head(inbox).kind # "closed" /\ Head(inbox).ticket # All => Head(inbox) \in Answers
    BY <1>0, <2>1, ItemTold
  <2>. QED
    BY <1>1, <2>1, <2>2 DEF Pump
<1>2. CASE Submit
  BY <1>2 DEF Submit
<1>3. CASE Begin \/ Drain \/ Collect \/ SubmitFails \/ TimeOut \/ Drop
  BY <1>3 DEF Begin, Drain, Collect, SubmitFails, TimeOut, Drop
<1>. QED
  BY <1>1, <1>2, <1>3, StepThreads, StepSplits

\* The first answer in the channel.
LEMMA HeadBack ==
  ASSUME TypedFrames, inbox # << >>, Head(inbox) \in Answers
  PROVE  Back(0, 1, Head(inbox).ticket) /\ Head(inbox).ticket \in Nat
<1>1. Head(inbox) = inbox[1] /\ 1 \in 1 .. Len(inbox)
  BY TakesIn
<1>2. Head(inbox).kind # "closed" /\ Head(inbox).ticket \in Nat
  BY AnswerTypes, TicketTypes
<1>. QED
  BY <1>1, <1>2 DEF Back

\* Every step keeps each ticket in one place.
LEMMA StepAlone ==
  ASSUME TypeOK, Spent, Below, Ascending, Alone, [Next]_vars
  PROVE  Alone'
<1>0. TypedFrames /\ 1 \in Pos /\ 0 \in Level /\ next_ticket \in Nat
  BY Split, Levels DEF Pos, TypeOK
<1>1. ASSUME NEW t \in Nat, Made(t) PROVE ~Coming(t)
  BY <1>1, MadeGone DEF Alone
<1>2. \A i, j \in Level, k, m \in Pos, t \in Nat : Back(i, k, t)' /\ Back(j, m, t)' => i = j /\ k = m
  BY <1>1, ComingSteps
<1>3. ASSUME NEW t \in Nat, Submit, t = next_ticket PROVE ~Coming(t)' /\ ~Coming(t)
  <2>1. BackStill
    BY <1>3, BackStays DEF Submit
  <2>2. t \notin pending
    BY <1>0, <1>3 DEF Below
  <2>. QED
    BY <2>1, <2>2 DEF Alone, BackStill, Coming
<1>4. ASSUME NEW t \in Nat, OnWay(t)', Coming(t)' PROVE FALSE
  <2>1. OnWay(t)
    BY <1>3, <1>4, OnWaySteps
  <2>2. Made(t)
    BY <1>4, <2>1, ComingSteps DEF Alone
  <2>. QED
    BY <1>4, <2>2, MadeGone
<1>5. ASSUME NEW t \in Nat, OnWay(t)' \/ Coming(t)' PROVE t \in pending'
  <2>1. OnWay(t) \/ Coming(t) \/ (Submit /\ Sendable /\ t = next_ticket)
    BY <1>5, OnWaySteps, ComingSteps, MadeGone
  <2>2. CASE pending' = pending
    <3>1. CASE OnWay(t) \/ Coming(t)
      BY <2>2, <3>1 DEF Alone
    <3>2. CASE Submit /\ Sendable /\ t = next_ticket
      BY <3>2 DEF Submit
    <3>. QED
      BY <2>1, <3>1, <3>2
  <2>3. CASE Submit /\ Sendable /\ pending' = pending \cup {next_ticket}
    BY <2>1, <2>3 DEF Alone
  <2>4. CASE Pump /\ Head(inbox) \in Answers /\ Settled(Head(inbox)) /\ inbox # << >>
    <3>1. PICK u \in Nat : u = Head(inbox).ticket /\ Back(0, 1, u)
      BY <1>0, <2>4, HeadBack
    <3>2. pending' = pending \ {u}
      BY <2>4, <3>1 DEF Settled
    <3>3. Coming(u) /\ ~OnWay(u)
      BY <1>0, <3>1 DEF Coming, Alone
    <3>4. BackTaken
      BY <1>0, <2>4, BackTakes DEF Pump
    <3>5. ~Coming(u)'
      <4>. SUFFICES ASSUME NEW j \in Level, NEW k \in Pos, Back(j, k, u)' PROVE FALSE
        BY DEF Coming
      <4>1. Back(j, From(j, k, 0, 1), u) /\ From(j, k, 0, 1) \in Pos
        BY <1>0, <3>4, ShiftPlaces DEF BackTaken
      <4>2. j = 0 /\ From(j, k, 0, 1) = 1
        BY <1>0, <3>1, <4>1 DEF Alone
      <4>. QED
        BY <1>0, <4>2, ShiftPlaces
    <3>6. UNCHANGED << q, next_ticket >>
      BY <2>4 DEF Pump
    <3>7. ~OnWay(u)'
      BY <3>3, <3>6 DEF OnWay, Fwd
    <3>8. t # u
      BY <1>5, <3>5, <3>7
    <3>9. ~Submit
      BY <1>0, <3>6 DEF Submit
    <3>. QED
      BY <2>1, <3>2, <3>8, <3>9 DEF Alone
  <2>. QED
    BY <2>2, <2>3, <2>4, PendingSteps
<1>. QED
  BY <1>2, <1>4, <1>5 DEF Alone

\* And while no stage has failed, each ticket in flight in some place.
LEMMA StepKept ==
  ASSUME TypeOK, Spent, Below, Ascending, Alone, Alive, Chain, Kept, [Next]_vars
  PROVE  Kept'
<1>0. TypedFrames /\ TypedDriver /\ 1 \in Pos /\ 0 \in Level /\ next_ticket \in Nat
  BY Split, Levels DEF Pos, TypeOK
<1>. SUFFICES ASSUME culprit' = 0, link'[1], NEW t \in pending' PROVE OnWay(t)' \/ Coming(t)'
  BY DEF Kept
<1>1. /\ culprit = 0 /\ link[1] /\ \A i \in Stages : serving'[i]
      /\ \A u \in pending : OnWay(u) \/ Coming(u)
  BY StepAlive DEF Kept, Alive
<1>2. ~Drain
  BY <1>1 DEF Drain, Chain
<1>3. \A u \in pending : u \in Nat
  BY <1>0, TicketTypes DEF TypedDriver
<1>4. ASSUME t \in pending, ~(Back(0, 1, t) /\ Pump) PROVE OnWay(t)' \/ Coming(t)'
  <2>1. CASE Coming(t)
    BY <1>2, <1>3, <1>4, <2>1, ComingSteps
  <2>2. CASE OnWay(t)
    <3>1. OnWay(t)' \/ Made(t)
      BY <1>1, <1>3, <1>4, <2>2, OnWaySteps DEF Made
    <3>. QED
      BY <1>3, <1>4, <3>1, MadeComes
  <2>. QED
    BY <1>1, <1>4, <2>1, <2>2
<1>5. CASE pending' = pending
  <2>1. CASE Back(0, 1, t) /\ Pump
    <3>1. Head(inbox) = inbox[1] /\ Head(inbox).kind # "closed" /\ Head(inbox).ticket = t /\ t # All
      BY <1>0, <1>3, <1>5, <2>1, TakesIn, TicketTypes DEF Back, Pump
    <3>2. Settled(Head(inbox))
      BY <2>1, <3>1 DEF Pump, Report
    <3>. QED
      BY <3>1, <3>2 DEF Settled
  <2>. QED
    BY <1>4, <1>5, <2>1
<1>6. CASE Submit /\ Sendable /\ pending' = pending \cup {next_ticket}
  <2>1. CASE t = next_ticket
    BY <1>0, <1>6, <2>1, OnWaySteps
  <2>2. CASE t \in pending
    <3>1. ~Pump
      <4>1. Pump => next_ticket' = next_ticket
        BY DEF Pump
      <4>. QED
        BY <1>0, <1>6, <4>1 DEF Submit
    <3>. QED
      BY <1>4, <2>2, <3>1
  <2>. QED
    BY <1>6, <2>1, <2>2
<1>7. CASE Pump /\ Head(inbox) \in Answers /\ Settled(Head(inbox)) /\ inbox # << >>
  <2>1. t \in pending /\ t # Head(inbox).ticket
    BY <1>7 DEF Settled
  <2>2. ~Back(0, 1, t)
    BY <1>0, <1>7, <2>1, TakesIn DEF Back
  <2>. QED
    BY <1>4, <2>1, <2>2
<1>. QED
  BY <1>5, <1>6, <1>7, PendingSteps

Down(t) == {i \in Stages : \E k \in DOMAIN q[i] : q[i][k].kind = "forward" /\ q[i][k].ticket = t}
Ups(t) == {i \in Stages : \E k \in DOMAIN up[i] : up[i][k].ticket = t}
In(t) == {k \in DOMAIN inbox : inbox[k].kind # "closed" /\ inbox[k].ticket = t}

\* The sizes of the sets that are counted.
LEMMA OneOrNone ==
  ASSUME NEW S
  PROVE  /\ S = {} => Cardinality(S) = 0
         /\ \A x : S = {x} => Cardinality(S) = 1
  BY FS_EmptySet, FS_Singleton

\* A ticket is counted once on its way down.
LEMMA DownCount ==
  ASSUME TypeOK, Ascending, NEW t \in Nat
  PROVE  Cardinality(Down(t)) = IF OnWay(t) THEN 1 ELSE 0
<1>1. \A i \in Stages : DOMAIN q[i] = 1 .. Len(q[i])
  BY Split DEF TypedFrames
<1>2. \A i : i \in Down(t) <=> \E k : Fwd(i, k, t)
  BY <1>1 DEF Down, Fwd
<1>3. CASE OnWay(t)
  <2>1. PICK i \in Stages, k \in Pos : Fwd(i, k, t)
    BY <1>3 DEF OnWay
  <2>2. Down(t) = {i}
    <3>1. ASSUME NEW j \in Down(t) PROVE j = i
      <4>1. PICK m : Fwd(j, m, t)
        BY <1>2
      <4>. QED
        BY <2>1, <4>1, FwdIs, FwdOnce
    <3>. QED
      BY <1>2, <2>1, <3>1
  <2>. QED
    BY <1>3, <2>2, OneOrNone
<1>4. CASE ~OnWay(t)
  <2>1. Down(t) = {}
    BY <1>2, <1>4, FwdIs DEF OnWay
  <2>. QED
    BY <1>4, <2>1, OneOrNone
<1>. QED
  BY <1>3, <1>4

\* A ticket's answer is counted once on its way up.
LEMMA UpCount ==
  ASSUME TypeOK, Alone, NEW t \in Nat
  PROVE  Cardinality(Ups(t)) + Cardinality(In(t)) = IF Coming(t) THEN 1 ELSE 0
<1>0. TypedFrames
  BY Split
<1>1. \A i \in Stages : DOMAIN up[i] = 1 .. Len(up[i])
  BY <1>0 DEF TypedFrames
<1>2. DOMAIN inbox = 1 .. Len(inbox)
  BY <1>0 DEF TypedFrames
<1>3. \A i : i \in Ups(t) <=> i \in Stages /\ \E k : Back(i, k, t)
  BY <1>1, Levels DEF Ups, Back
<1>4. \A k : k \in In(t) <=> Back(0, k, t)
  BY <1>2 DEF In, Back
<1>5. CASE Coming(t)
  <2>1. PICK i \in Level, k \in Pos : Back(i, k, t)
    BY <1>5 DEF Coming
  <2>2. \A j \in Level : \A m : Back(j, m, t) => j = i /\ m = k
    BY <2>1, BackIs DEF Alone
  <2>3. CASE i = 0
    <3>1. In(t) = {k} /\ Ups(t) = {}
      BY <1>3, <1>4, <2>1, <2>2, <2>3, Levels
    <3>2. Cardinality(In(t)) = 1 /\ Cardinality(Ups(t)) = 0
      BY <3>1, OneOrNone
    <3>. QED
      BY <1>5, <3>2
  <2>4. CASE i # 0
    <3>1. In(t) = {} /\ Ups(t) = {i}
      BY <1>3, <1>4, <2>1, <2>2, <2>4, Levels
    <3>2. Cardinality(In(t)) = 0 /\ Cardinality(Ups(t)) = 1
      BY <3>1, OneOrNone
    <3>. QED
      BY <1>5, <3>2
  <2>. QED
    BY <2>3, <2>4
<1>6. CASE ~Coming(t)
  <2>1. In(t) = {} /\ Ups(t) = {}
    BY <1>3, <1>4, <1>6, Levels, BackIs DEF Coming
  <2>2. Cardinality(In(t)) = 0 /\ Cardinality(Ups(t)) = 0
    BY <2>1, OneOrNone
  <2>. QED
    BY <1>6, <2>2
<1>. QED
  BY <1>5, <1>6

\* And one place for each ticket in flight.
FInv == CInv /\ Ascending /\ Alone /\ Alive /\ Kept

\* One place, counted.
LEMMA CountedOnce == FInv => InFlightOnce
<1>. SUFFICES ASSUME FInv, culprit = 0, link[1], NEW t \in Tickets
     PROVE Places(t) = IF t \in pending THEN 1 ELSE 0
  BY DEF InFlightOnce
<1>0. t \in Nat
  BY TicketTypes
<1>1. Cardinality(Down(t)) = IF OnWay(t) THEN 1 ELSE 0
  BY <1>0, DownCount DEF FInv, CInv
<1>2. Cardinality(Ups(t)) + Cardinality(In(t)) = IF Coming(t) THEN 1 ELSE 0
  BY <1>0, UpCount DEF FInv, CInv
<1>3. ~(OnWay(t) /\ Coming(t)) /\ (t \in pending <=> OnWay(t) \/ Coming(t))
  BY <1>0 DEF FInv, Alone, Kept
<1>4. Places(t) = Cardinality(Down(t)) + Cardinality(Ups(t)) + Cardinality(In(t))
  BY DEF Places, Down, Ups, In
<1>5. \A i : Cardinality(Ups(t)) \in Nat /\ Cardinality(In(t)) \in Nat
  <2>1. IsFiniteSet(Stages) /\ Ups(t) \in SUBSET Stages
    BY FS_Interval, PipelineAssumption DEF Stages, Ups
  <2>2. Len(inbox) \in Nat /\ IsFiniteSet(1 .. Len(inbox)) /\ In(t) \in SUBSET (1 .. Len(inbox))
    <3>1. inbox \in Seq(UpFrames \cup {Closed})
      BY DEF FInv, CInv, TypeOK
    <3>2. Len(inbox) \in Nat /\ DOMAIN inbox = 1 .. Len(inbox)
      BY <3>1
    <3>. QED
      BY <3>2, FS_Interval DEF In
  <2>3. IsFiniteSet(Ups(t)) /\ IsFiniteSet(In(t))
    BY <2>1, <2>2, FS_Subset
  <2>. QED
    BY <2>3, FS_CardinalityType
<1>6. PICK a \in Nat, b \in Nat, c \in Nat : a = Cardinality(Down(t)) /\ b = Cardinality(Ups(t)) /\ c = Cardinality(In(t))
  BY <1>1, <1>5
<1>. QED
  BY <1>1, <1>2, <1>3, <1>4, <1>6

\* What the program starts in.
LEMMA InitFInv == Init => FInv
<1>. SUFFICES ASSUME Init PROVE FInv
  OBVIOUS
<1>1. /\ \A i \in Stages : q[i] = << >> /\ up[i] = << >> /\ cache[i] = {} /\ link[i] /\ serving[i] /\ ~lost[i]
      /\ inbox = << >> /\ pending = {} /\ \A i \in 0 .. Last - 1 : writer[i] /\ relay[i]
  <2>1. \A i \in Stages : i \in 0 .. Last
    BY PipelineAssumption DEF Stages
  <2>. QED
    BY <2>1 DEF Init
<1>2. 1 .. Len(<< >>) = {}
  OBVIOUS
<1>3. \A i, k, t : ~Fwd(i, k, t) /\ ~Back(i, k, t)
  BY <1>1, <1>2 DEF Fwd, Back
<1>4. Ascending
  BY <1>1, <1>3 DEF Ascending
<1>5. Alone
  BY <1>3 DEF Alone, OnWay, Coming
<1>6. Alive /\ Kept
  BY <1>1 DEF Alive, Kept
<1>. QED
  BY <1>4, <1>5, <1>6, InitCInv DEF FInv

\* Every step keeps each ticket in flight in its one place.
LEMMA StepFInv == FInv /\ [Next]_vars => FInv'
<1>. SUFFICES ASSUME FInv, [Next]_vars PROVE FInv'
  OBVIOUS
<1>1. CInv'
  BY StepCInv DEF FInv
<1>2. Ascending' /\ Alone' /\ Kept'
  BY StepAscending, StepAlone, StepKept DEF FInv, CInv
<1>3. Alive'
  BY StepAlive DEF FInv, CInv
<1>. QED
  BY <1>1, <1>2, <1>3 DEF FInv

\* While no stage has failed, every ticket in flight is in exactly one place on
\* its way down or up, and no other ticket is anywhere.
THEOREM EachInOnePlace == Spec => []InFlightOnce
<1>. QED
  BY InitFInv, StepFInv, CountedOnce, PTL DEF Spec

\* An answer on its way up stays on it until the driver takes it.
LEMMA SendKeeps ==
  ASSUME TypedFrames, NEW f \in UpFrames, NEW i \in Stages, Len(up[i]) < Socket,
         up' = [up EXCEPT ![i] = Append(@, f)], UNCHANGED inbox, NEW a, Told(a)
  PROVE  Told(a)'
<1>1. /\ \A j \in Stages : j # i => up'[j] = up[j]
      /\ Len(up'[i]) = Len(up[i]) + 1 /\ Len(up[i]) \in Nat
      /\ \A k \in 1 .. Len(up[i]) : up'[i][k] = up[i][k]
  BY SendsUp
<1>2. \A k \in 1 .. Len(up[i]) : k \in 1 .. Len(up'[i])
  BY <1>1
<1>. QED
  BY <1>1, <1>2 DEF Told

\* A report takes nothing back.
LEMMA ReportKeeps ==
  ASSUME TypedFrames, NEW i \in Stages, i < Last, Reports(i), UNCHANGED inbox, NEW a, Told(a)
  PROVE  Told(a)'
<1>1. CASE link[i]
  <2>1. PICK f \in UpFrames : f = Failure(All, i + 1)
    BY UpTypes, PipelineAssumption DEF Stages
  <2>2. up' = [up EXCEPT ![i] = Append(@, f)] /\ Len(up[i]) < Socket
    BY <1>1, <2>1 DEF Reports, Room
  <2>. QED
    BY <2>2, SendKeeps
<1>2. CASE ~link[i]
  BY <1>2 DEF Reports, Told
<1>. QED
  BY <1>1, <1>2

\* What is relayed is still told.
LEMMA RelayKeeps ==
  ASSUME TypedFrames, NEW i \in Stages, i < Last, up[i + 1] # << >>, Len(up[i]) < Socket,
         up' = [up EXCEPT ![i] = Append(@, Head(up[i + 1])), ![i + 1] = Tail(@)], UNCHANGED inbox, NEW a, Told(a)
  PROVE  Told(a)'
<1>1. Relayed(up', i) /\ i + 1 # i
  <2>1. PICK r : r = up'
    OBVIOUS
  <2>2. Relayed(r, i)
    BY <2>1, RelaysUp
  <2>. QED
    BY <2>1, <2>2, PipelineAssumption DEF Stages
<1>2. /\ i + 1 \in Stages
      /\ \A j \in Stages : j # i /\ j # i + 1 => up'[j] = up[j]
      /\ Len(up'[i]) = Len(up[i]) + 1 /\ Len(up[i]) \in Nat
      /\ \A k \in 1 .. Len(up[i]) : up'[i][k] = up[i][k]
      /\ up'[i][Len(up[i]) + 1] = up[i + 1][1]
      /\ Len(up'[i + 1]) = Len(up[i + 1]) - 1 /\ Len(up[i + 1]) \in Nat \ {0}
      /\ \A k \in 1 .. Len(up[i + 1]) - 1 : up'[i + 1][k] = up[i + 1][k + 1]
  BY <1>1 DEF Relayed
<1>3. CASE \E k \in 1 .. Len(inbox) : inbox[k] = a
  BY <1>3 DEF Told
<1>4. ASSUME NEW j \in Stages, NEW k \in 1 .. Len(up[j]), up[j][k] = a PROVE Told(a)'
  <2>1. CASE j # i /\ j # i + 1
    BY <1>2, <1>4, <2>1 DEF Told
  <2>2. CASE j = i
    <3>0. Len(up'[i]) = Len(up[i]) + 1 /\ Len(up[i]) \in Nat
      BY <1>2
    <3>1. k \in 1 .. Len(up'[i])
      BY <2>2, <3>0
    <3>. QED
      BY <1>2, <1>4, <2>2, <3>1 DEF Told
  <2>3. CASE j = i + 1 /\ k = 1
    <3>1. Len(up[i]) + 1 \in 1 .. Len(up'[i]) /\ up'[i][Len(up[i]) + 1] = a
      BY <1>2, <1>4, <2>3
    <3>. QED
      BY <3>1 DEF Told
  <2>4. CASE j = i + 1 /\ k # 1
    <3>1. PICK m \in 1 .. Len(up[i + 1]) - 1 : m + 1 = k
      BY <1>2, <2>4
    <3>2. m \in 1 .. Len(up'[i + 1]) /\ up'[i + 1][m] = a
      BY <1>2, <1>4, <2>4, <3>1
    <3>. QED
      BY <1>2, <3>2 DEF Told
  <2>. QED
    BY <2>1, <2>2, <2>3, <2>4
<1>. QED
  BY <1>3, <1>4 DEF Told

\* What the reader moves is still told.
LEMMA ReadKeeps ==
  ASSUME TypedFrames, Read, NEW a, Told(a)
  PROVE  Told(a)'
<1>0. 1 \in Stages
  BY PipelineAssumption DEF Stages
<1>1. CASE up[1] # << >> /\ inbox' = Append(inbox, Head(up[1])) /\ up' = [up EXCEPT ![1] = Tail(@)]
  <2>1. /\ \A j \in Stages : j # 1 => up'[j] = up[j]
        /\ Len(up'[1]) = Len(up[1]) - 1 /\ Len(up[1]) \in Nat \ {0}
        /\ \A k \in 1 .. Len(up[1]) - 1 : up'[1][k] = up[1][k + 1]
        /\ Head(up[1]) \in UpFrames /\ Head(up[1]) = up[1][1]
    BY <1>0, <1>1, TakesUp
  <2>2. /\ Len(inbox') = Len(inbox) + 1 /\ Len(inbox) \in Nat
        /\ \A k \in 1 .. Len(inbox) : inbox'[k] = inbox[k]
        /\ inbox'[Len(inbox) + 1] = Head(up[1])
    BY <1>1, <2>1, AddsIn
  <2>3. ASSUME NEW k \in 1 .. Len(inbox), inbox[k] = a PROVE Told(a)'
    <3>1. k \in 1 .. Len(inbox')
      BY <2>2
    <3>. QED
      BY <2>2, <2>3, <3>1 DEF Told
  <2>4. ASSUME NEW j \in Stages, NEW k \in 1 .. Len(up[j]), up[j][k] = a PROVE Told(a)'
    <3>1. CASE j # 1
      BY <2>1, <2>4, <3>1 DEF Told
    <3>2. CASE j = 1 /\ k = 1
      <4>1. Len(inbox) + 1 \in 1 .. Len(inbox') /\ inbox'[Len(inbox) + 1] = a
        BY <2>1, <2>2, <2>4, <3>2
      <4>. QED
        BY <4>1 DEF Told
    <3>3. CASE j = 1 /\ k # 1
      <4>1. PICK m \in 1 .. Len(up[1]) - 1 : m + 1 = k
        BY <2>1, <3>3
      <4>2. m \in 1 .. Len(up'[1]) /\ up'[1][m] = a
        BY <2>1, <2>4, <3>3, <4>1
      <4>. QED
        BY <1>0, <4>2 DEF Told
    <3>. QED
      BY <3>1, <3>2, <3>3
  <2>. QED
    BY <2>3, <2>4 DEF Told
<1>2. CASE inbox' = Append(inbox, Closed) /\ UNCHANGED up
  <2>1. /\ Len(inbox') = Len(inbox) + 1 /\ Len(inbox) \in Nat
        /\ \A k \in 1 .. Len(inbox) : inbox'[k] = inbox[k]
    BY <1>2, AddsIn
  <2>2. \A k \in 1 .. Len(inbox) : k \in 1 .. Len(inbox')
    BY <2>1
  <2>. QED
    BY <1>2, <2>1, <2>2 DEF Told
<1>. QED
  BY <1>1, <1>2 DEF Read

\* What is told stays so until the driver takes it.
LEMMA ToldStays ==
  ASSUME TypeOK, [Next]_vars, NEW a, Told(a)
  PROVE  Told(a)' \/ (inbox # << >> /\ a = Head(inbox) /\ (Pump \/ Drain))
<1>0. TypedFrames /\ 1 \in Stages
  BY Split, PipelineAssumption DEF Stages
<1>1. CASE UNCHANGED << up, inbox >>
  BY <1>1 DEF Told
<1>2. CASE (Pump \/ Drain) /\ UNCHANGED up /\ inbox # << >> /\ inbox' = Tail(inbox)
  <2>1. Len(inbox') = Len(inbox) - 1 /\ Len(inbox) \in Nat \ {0} /\ Head(inbox) = inbox[1]
        /\ \A k \in 1 .. Len(inbox) - 1 : inbox'[k] = inbox[k + 1]
    BY <1>0, <1>2, TakesIn
  <2>2. ASSUME NEW k \in 1 .. Len(inbox), inbox[k] = a, k # 1 PROVE Told(a)'
    <3>0. Len(inbox) \in Nat /\ Len(inbox) > 0
      BY <2>1
    <3>1. PICK m \in 1 .. Len(inbox) - 1 : m + 1 = k
      <4>1. k - 1 \in 1 .. Len(inbox) - 1 /\ (k - 1) + 1 = k
        BY <2>2, <3>0
      <4>. QED
        BY <4>1
    <3>2. m \in 1 .. Len(inbox') /\ inbox'[m] = a
      BY <2>1, <2>2, <3>1
    <3>. QED
      BY <3>2 DEF Told
  <2>. QED
    BY <1>2, <2>1, <2>2 DEF Told
<1>3. CASE WriteFails
  <2>1. /\ Len(inbox') = Len(inbox) + 1 /\ Len(inbox) \in Nat /\ UNCHANGED up
        /\ \A k \in 1 .. Len(inbox) : inbox'[k] = inbox[k]
    BY <1>0, <1>3, AddsIn DEF WriteFails
  <2>2. \A k \in 1 .. Len(inbox) : k \in 1 .. Len(inbox')
    BY <2>1
  <2>. QED
    BY <2>1, <2>2 DEF Told
<1>4. CASE Pump \/ Drain
  <2>1. UNCHANGED up /\ (UNCHANGED inbox \/ (inbox # << >> /\ inbox' = Tail(inbox)))
    BY <1>4 DEF Pump, Drain
  <2>. QED
    BY <1>1, <1>2, <1>4, <2>1
<1>5. CASE UNCHANGED vars \/ Begin \/ Submit \/ Collect \/ SubmitFails \/ TimeOut \/ Drop
  BY <1>1, <1>5 DEF vars, Begin, Submit, Collect, SubmitFails, TimeOut, Drop
<1>6. ASSUME NEW i \in Stages, StageTruncates(i) PROVE UNCHANGED << up, inbox >>
  BY <1>6 DEF StageTruncates
<1>11. ASSUME NEW i \in Stages, Closes(i) PROVE Told(a)'
  <2>0. UNCHANGED inbox
    BY <1>11, ClosingKeeps
  <2>1. CASE UNCHANGED up
    BY <2>0, <2>1 DEF Told
  <2>2. CASE ~UNCHANGED up
    <3>1. PICK f \in UpFrames : Len(up[i]) < Socket /\ up' = [up EXCEPT ![i] = Append(@, f)]
      BY <1>0, <1>11, <2>2, ClosingSends
    <3>. QED
      BY <1>0, <2>0, <3>1, SendKeeps
  <2>. QED
    BY <2>1, <2>2
<1>7. ASSUME NEW i \in Stages, StageDecodes(i) PROVE Told(a)'
  <2>1. UNCHANGED inbox
    BY <1>7 DEF StageDecodes
  <2>2. PICK u, w : DecodeShape(i, u, w)
    BY <1>7, DecodesShape
  <2>3. PICK v \in BOOLEAN : v = (w /\ Whole(i, u))
    BY <2>2, WholeTypes DEF DecodeShape
  <2>4. CASE UNCHANGED up
    BY <1>1, <2>1, <2>4 DEF Told
  <2>5. CASE Len(up[i]) < Socket /\ up' = [up EXCEPT ![i] = Append(@, Logits(u, v))]
    <3>1. PICK f \in UpFrames : f = Logits(u, v)
      BY <2>2, UpTypes DEF DecodeShape
    <3>. QED
      BY <1>0, <2>1, <2>5, <3>1, SendKeeps
  <2>. QED
    BY <2>2, <2>3, <2>4, <2>5 DEF DecodeShape
<1>8. ASSUME NEW i \in Stages, StageFails(i) PROVE Told(a)'
  <2>1. PICK u : FailShape(i, u)
    BY <1>8, FailsShape
  <2>2. UNCHANGED inbox
    BY <1>8 DEF StageFails
  <2>3. PICK f \in UpFrames : f = Failure(u, i)
    BY <2>1, UpTypes DEF FailShape
  <2>. QED
    BY <1>0, <2>1, <2>2, <2>3, SendKeeps DEF FailShape
<1>9. ASSUME NEW i \in Stages, StageWriteFails(i) PROVE Told(a)'
  BY <1>0, <1>9, ReportKeeps DEF StageWriteFails
<1>10. ASSUME NEW i \in Stages, StageRelays(i) PROVE Told(a)'
  <2>0. i < Last /\ UNCHANGED inbox
    BY <1>10 DEF StageRelays
  <2>1. CASE UNCHANGED up
    BY <2>0, <2>1 DEF Told
  <2>2. CASE Reports(i)
    BY <1>0, <2>0, <2>2, ReportKeeps
  <2>3. CASE up[i + 1] # << >> /\ Room(i) /\ up' = [up EXCEPT ![i] = Append(@, Head(up[i + 1])), ![i + 1] = Tail(@)]
    BY <1>0, <2>0, <2>3, RelayKeeps DEF Room
  <2>. QED
    BY <1>10, <2>1, <2>2, <2>3 DEF StageRelays
<1>. QED
  BY <1>0, <1>1, <1>3, <1>4, <1>5, <1>6, <1>7, <1>8, <1>9, <1>10, <1>11, ReadKeeps, StepSplits

\* A micro-batch that a stage refused, while its failure is still to be taken.
Refused(t) == \E i \in Stages : Told(Failure(t, i)) \/ Failure(t, i) \in done

\* The fields of a failure.
LEMMA FailureIs ==
  \A t, i : Failure(t, i).kind = "failure" /\ Failure(t, i).ticket = t
  BY DEF Failure

\* What is told of a ticket is an answer coming back to it.
LEMMA ToldComes ==
  ASSUME TypedFrames, NEW a, Told(a), a.kind # "closed", a.ticket \in Nat
  PROVE  Coming(a.ticket)
<1>1. CASE \E i \in Stages : \E k \in 1 .. Len(up[i]) : up[i][k] = a
  <2>0. PICK i \in Stages : \E k \in 1 .. Len(up[i]) : up[i][k] = a
    BY <1>1
  <2>1. PICK k \in 1 .. Len(up[i]) : up[i][k] = a
    BY <2>0
  <2>2. Back(i, k, a.ticket) /\ i \in Level
    BY <2>1, Levels DEF Back
  <2>. QED
    BY <2>2, BackIs DEF Coming
<1>2. CASE \E k \in 1 .. Len(inbox) : inbox[k] = a
  <2>1. PICK k \in 1 .. Len(inbox) : inbox[k] = a
    BY <1>2
  <2>2. Back(0, k, a.ticket) /\ 0 \in Level
    BY <2>1, Levels DEF Back
  <2>. QED
    BY <2>2, BackIs DEF Coming
<1>. QED
  BY <1>1, <1>2 DEF Told

\* A call that runs began with this step, or goes on.
LEMMA RunSteps ==
  ASSUME TypeOK, [Next]_vars, call'.at = "run"
  PROVE  \/ Begin /\ Sendable
         \/ /\ call.at = "run" /\ starts' = starts /\ ~Begin
            /\ ~Drain /\ ~TimeOut /\ ~SubmitFails /\ ~Drop
            /\ Submit => Sendable
<1>1. Idle.at = "idle" /\ [Idle EXCEPT !.at = "refused"].at = "refused" /\ [Idle EXCEPT !.at = "dropped"].at = "dropped"
  BY DEF Idle
<1>2. CASE Begin
  <2>1. Begin => call.at = "idle" /\ (~Sendable => call' = [Idle EXCEPT !.at = "refused"])
    BY DEF Begin, Send
  <2>. QED
    BY <1>1, <1>2, <2>1
<1>3. CASE ~Begin
  <2>1. starts' = starts /\ (call' = call \/ call.at = "run" \/ call.at = "idle" \/ call' = Idle \/ Pump \/ Drain)
    BY <1>3, StepSplits, StepThreads DEF Submit, Pump, Drain, Collect, SubmitFails, TimeOut, Drop, Returned, Waits, Submits
  <2>2. ~TimeOut /\ ~SubmitFails /\ ~Drop
    BY <1>1 DEF TimeOut, SubmitFails, Drop, Returned
  <2>3. ~Drain
    BY <1>1 DEF Drain, Returned
  <2>4. Submit => Sendable /\ call.at = "run"
    BY <1>1 DEF Submit, Send, Submits
  <2>5. Collect => call.at = "run"
    BY DEF Collect, Waits
  <2>6. Pump => call.at = "run"
    <3>1. call \in CallType
      BY DEF TypeOK, CallType
    <3>2. \A a : [call EXCEPT !.at = a].at = a
      BY <3>1 DEF CallType
    <3>. QED
      BY <1>1, <3>2 DEF Pump, Returned, Blocked, Waits, Submits
  <2>7. call' = call => call.at = "run"
    OBVIOUS
  <2>8. call.at = "run"
    BY <1>3, <2>2, <2>3, <2>4, <2>5, <2>6, <2>7, StepSplits, StepThreads
  <2>. QED
    BY <1>3, <2>1, <2>2, <2>3, <2>4, <2>8
<1>. QED
  BY <1>2, <1>3

\* What a stage refused stays refused as long as the call runs: the driver
\* keeps the failure when it takes it, and a call that collects one ends.
LEMMA RefusedStays ==
  ASSUME TypeOK, Alone, [Next]_vars, call.at = "run", call'.at = "run", NEW t \in Nat, Refused(t)
  PROVE  Refused(t)'
<1>0. TypedFrames
  BY Split
<1>1. ~Drain /\ ~Begin /\ Idle.at = "idle"
  BY DEF Drain, Begin, Idle
<1>2. PICK i \in Stages : Told(Failure(t, i)) \/ Failure(t, i) \in done
  BY DEF Refused
<1>3. PICK a : a = Failure(t, i) /\ a.kind = "failure" /\ a.ticket = t
  BY FailureIs
<1>4. CASE Told(a) /\ ~Told(a)'
  <2>1. inbox # << >> /\ a = Head(inbox) /\ Pump
    BY <1>1, <1>4, ToldStays
  <2>2. a.ticket # All /\ a.kind # "closed"
    BY <1>3, TicketTypes
  <2>3. Settled(a)
    BY <1>3, <2>1, <2>2 DEF Pump, Report
  <2>4. t \in pending
    BY <1>0, <1>3, <1>4, <2>2, ToldComes DEF Alone
  <2>. QED
    BY <1>3, <2>3, <2>4 DEF Settled, Refused
<1>5. CASE a \in done
  <2>1. Collect => a \in done'
    <3>. SUFFICES ASSUME Collect, a \notin done' PROVE FALSE
      OBVIOUS
    <3>1. PICK b \in Ended(Awaited) : /\ done' = done \ {b}
                                      /\ call' = IF b.kind = "failure" \/ call.got + 1 = Chunks + Steps THEN Idle
                                                 ELSE [call EXCEPT !.got = @ + 1]
      BY DEF Collect
    <3>2. a = b
      BY <1>5, <3>1
    <3>. QED
      BY <1>1, <1>3, <3>1, <3>2
  <2>2. Pump => a \in done'
    BY <1>5 DEF Pump, Settled
  <2>3. ~Collect /\ ~Pump => done' = done
    BY <1>1, StepSplits, StepThreads DEF Submit, SubmitFails, TimeOut, Drop
  <2>. QED
    BY <1>3, <1>5, <2>1, <2>2, <2>3 DEF Refused
<1>. QED
  BY <1>2, <1>3, <1>4, <1>5 DEF Refused

-----------------------------------------------------------------------------
(* One call's rows. *)

\* The first ticket of the call that runs.
First == starts[Len(starts)]

\* Ticket t is k-th on its way to stage i, or, at place 0, in its cache.
Held(i, k, t) == i \in Stages /\ IF k = 0 THEN t \in cache[i] ELSE Fwd(i, k, t)

\* Ticket t will come to stage i: the next ticket will come from the driver.
Ahead(i, k, t) == IF i = 0 THEN k = 1 /\ t = next_ticket ELSE Fwd(i, k, t)

\* What stage i passes on comes to stage j.
Open(i, j) == \A m \in i .. j : (m > 0 => serving[m]) /\ (m < j => writer[m])

\* A truncate will come between the two places.
Between(a, k, j, m) == \E x \in Stages, y \in Pos : Cut(x, y) /\ Older(x, y, a, k) /\ Older(j, m, x, y)

\* Stage j will hold ticket c before what is k-th on its way to stage a comes.
Within(a, k, j, c) ==
  \E p \in Stages, m \in Nat : Held(p, m, c) /\ p <= j /\ Older(p, m, a, k) /\ (m = 0 => p = j)

\* Behind a truncate on its way are only rows of the calls before.
Cleared ==
  \A x, j \in Stages, y \in Pos, m, c \in Nat : Cut(x, y) /\ Held(j, m, c) /\ Older(j, m, x, y) => c < First

\* Between a ticket of this call and a row of one before a truncate comes.
Parted ==
  \A a \in Level, j \in Stages, k \in Pos, m, t, c \in Nat :
    Ahead(a, k, t) /\ Held(j, m, c) /\ Older(j, m, a, k) /\ First <= t /\ c < First /\ Open(a, j) =>
      Between(a, k, j, m)

\* A stage to which a ticket of this call comes will hold the tickets of
\* the call before it, but for those a stage refused.
Accounted ==
  \A a \in Level, j \in Stages, k \in Pos, t, c \in Nat :
    Ahead(a, k, t) /\ a <= j /\ Open(a, j) /\ First <= c /\ c < t => Refused(c) \/ Within(a, k, j, c)

\* Where place k of stage j was before the first d frames on their way to stage i went.
Was(j, k, i, d) == IF k = 0 THEN 0 ELSE From(j, k, i, d)

\* Where places were.
LEMMA WasPlaces ==
  /\ \A i, j \in Level, k \in Nat, d \in Nat : Was(j, k, i, d) \in Nat
  /\ \A i, j \in Level, k \in Pos, d \in Nat : Was(j, k, i, d) \in Pos /\ Was(j, k, i, d) = From(j, k, i, d)
  /\ \A i, j \in Level, k \in Pos, d \in Nat : From(j, k, i, d) \in Pos
  /\ \A k \in Pos : k # 0 /\ k \in Nat
  /\ \A k \in Nat : k = 0 \/ k \in Pos
  /\ \A i, j \in Level, d \in Nat : Was(j, 0, i, d) = 0
  /\ \A i, j \in Level, k \in Nat, d \in Nat : j # i => Was(j, k, i, d) = k
  /\ \A i, j \in Level, k \in Nat : Was(j, k, i, 0) = k
  /\ \A i \in Level, k \in Pos : Was(i, k, i, 1) > 1
  /\ \A i, j, x \in Level, k, m \in Nat, d \in Nat : Older(j, Was(j, k, x, d), i, Was(i, m, x, d)) <=> Older(j, k, i, m)
  /\ \A i, j \in Level, k \in Nat : j # i \/ k # 1 => \E m \in Nat : Was(j, m, i, 1) = k /\ (m = 0 <=> k = 0)
  /\ \A i, j \in Level, k \in Pos : j # i \/ k # 1 => \E m \in Pos : Was(j, m, i, 1) = k
<1>0. \A k \in Nat : k = 0 \/ k \in Pos
  BY DEF Pos
<1>1. ASSUME NEW k \in Pos, k # 1 PROVE k - 1 \in Pos /\ (k - 1) + 1 = k /\ k - 1 \in Nat
  BY <1>1 DEF Pos
<1>2. \A i, j \in Level, k \in Pos : j # i \/ k # 1 => \E m \in Pos : Was(j, m, i, 1) = k
  BY <1>1 DEF Was, From, Pos
<1>3. \A i, j \in Level, k \in Nat : j # i \/ k # 1 => \E m \in Nat : Was(j, m, i, 1) = k /\ (m = 0 <=> k = 0)
  BY <1>0, <1>1 DEF Was, From, Pos
<1>4. ASSUME NEW i \in Level, NEW j \in Level, NEW x \in Level, NEW k \in Nat, NEW m \in Nat, NEW d \in Nat
      PROVE Older(j, Was(j, k, x, d), i, Was(i, m, x, d)) <=> Older(j, k, i, m)
  BY DEF Older, Was, From, Level
<1>. QED
  BY <1>0, <1>2, <1>3, <1>4 DEF Was, From, Pos

\* Where a place in a queue was.
LEMMA WasIs ==
  ASSUME NEW i, NEW j, NEW m \in Nat, m # 0, NEW d \in Nat
  PROVE  m \in Pos /\ Was(j, m, i, d) = From(j, m, i, d) /\ From(j, m, i, d) \in Pos
  BY DEF Was, From, Pos

\* A cache was a cache.
LEMMA WasZero == \A i, j, d : Was(j, 0, i, d) = 0
  BY DEF Was

\* Place k of stage j was there before, and is not one of those that went.
Stayed(j, k, i, d) == \E m \in Nat : Was(j, m, i, d) = k /\ (m = 0 <=> k = 0)

\* Every place that stayed is where some place now was.
LEMMA WasBack ==
  ASSUME NEW i, NEW j, NEW k \in Nat, NEW d \in Nat, d = 0 \/ j # i \/ (d = 1 /\ k # 1)
  PROVE  Stayed(j, k, i, d)
<1>. SUFFICES \E m \in Nat : Was(j, m, i, d) = k /\ (m = 0 <=> k = 0)
  BY DEF Stayed
<1>1. CASE d = 0 \/ j # i
  <2>1. Was(j, k, i, d) = k
    BY <1>1 DEF Was, From
  <2>. QED
    BY <2>1
<1>2. CASE j = i /\ d = 1 /\ k # 1
  <2>1. CASE k = 0
    BY <2>1, WasZero
  <2>2. CASE k # 0
    <3>1. k - 1 \in Nat /\ k - 1 # 0 /\ (k - 1) + 1 = k
      BY <1>2, <2>2
    <3>2. Was(j, k - 1, i, d) = (k - 1) + 1
      BY <1>2, <3>1 DEF Was, From
    <3>. QED
      BY <2>2, <3>1, <3>2
  <2>. QED
    BY <2>1, <2>2
<1>. QED
  BY <1>1, <1>2

\* The order of places.
LEMMA Orders ==
  /\ \A i, j, x \in Level, k, m, n \in Nat : Older(i, k, j, m) /\ Older(j, m, x, n) => Older(i, k, x, n)
  /\ \A i \in Level, k \in Pos : Older(i, 0, i, k)
  /\ \A i \in Level, k \in Nat : ~Older(i, k, i, k) /\ ~Older(i, k, i, 0)
  /\ \A i, j \in Level, k, m \in Nat : Older(i, k, j, m) => j <= i
  /\ \A i, j \in Level, k, m \in Nat : j < i => Older(i, k, j, m) /\ ~Older(j, m, i, k)
  /\ \A i \in Level, k, m \in Nat : Older(i, k, i, m) <=> k < m
  /\ \A i, j \in Level : i < j \/ i = j \/ j < i
  BY DEF Older, Level, Pos

\* What a stage will hold first has the smaller ticket.
LEMMA AheadAscends ==
  ASSUME Ascending, NEW a \in Level, NEW j \in Stages, NEW k \in Pos, NEW m \in Nat, NEW t \in Nat, NEW c \in Nat,
         Ahead(a, k, t), Held(j, m, c), Older(j, m, a, k)
  PROVE  c < t
<1>1. CASE a = 0
  <2>1. t = next_ticket
    BY <1>1 DEF Ahead
  <2>2. CASE m = 0
    BY <2>1, <2>2 DEF Held, Ascending
  <2>3. CASE m # 0
    BY <2>1, <2>3, FwdIs DEF Held, Ascending
  <2>. QED
    BY <2>2, <2>3
<1>2. CASE a # 0
  <2>1. Fwd(a, k, t) /\ a \in Stages /\ j >= a
    BY <1>2, Levels DEF Ahead, Older, Stages
  <2>2. CASE m = 0
    BY <2>1, <2>2 DEF Held, Ascending
  <2>3. CASE m # 0
    BY <2>1, <2>3, FwdIs DEF Held, Ascending
  <2>. QED
    BY <2>2, <2>3
<1>. QED
  BY <1>1, <1>2

\* A way is open when its parts are.
LEMMA OpenNear ==
  /\ \A a \in Level, i \in Stages : Open(a, i + 1) /\ a <= i => Open(a, i)
  /\ \A i, j \in Stages : i < j /\ serving[i] /\ writer[i] /\ Open(i + 1, j) => Open(i, j)
  /\ \A i \in Stages : serving[i] => Open(i, i)
  /\ \A a \in Level, i, j \in Stages : Open(a, j) /\ a <= i /\ i <= j => Open(a, i) /\ serving[i] /\ (i < j => writer[i])
  /\ \A j \in Stages : writer[0] /\ Open(1, j) => Open(0, j)
  /\ \A j \in Stages : Open(0, j) => Open(1, j)
<1>0. 1 \in Stages /\ Stages \subseteq Nat /\ Level \subseteq Nat /\ \A i \in Stages : i > 0
  BY PipelineAssumption DEF Stages, Level
<1>1. \A a \in Level, i \in Stages : Open(a, i + 1) /\ a <= i => Open(a, i)
  BY <1>0 DEF Open
<1>2. ASSUME NEW i \in Stages, NEW j \in Stages, i < j, serving[i], writer[i], Open(i + 1, j) PROVE Open(i, j)
  <2>1. \A m \in i .. j : m = i \/ m \in (i + 1) .. j
    BY <1>0
  <2>. QED
    BY <1>0, <1>2, <2>1 DEF Open
<1>3. \A i \in Stages : serving[i] => Open(i, i)
  BY <1>0 DEF Open
<1>4. \A a \in Level, i, j \in Stages : Open(a, j) /\ a <= i /\ i <= j => Open(a, i) /\ serving[i] /\ (i < j => writer[i])
  BY <1>0 DEF Open
<1>5. ASSUME NEW j \in Stages, writer[0], Open(1, j) PROVE Open(0, j)
  <2>1. \A m \in 0 .. j : m = 0 \/ m \in 1 .. j
    BY <1>0
  <2>. QED
    BY <1>0, <1>5, <2>1 DEF Open
<1>6. \A j \in Stages : Open(0, j) => Open(1, j)
  BY <1>0 DEF Open
<1>. QED
  BY <1>1, <1>2, <1>3, <1>4, <1>5, <1>6

\* No step opens a way.
LEMMA OpenStays ==
  ASSUME TypeOK, [Next]_vars
  PROVE  \A a \in Level, j \in Stages : Open(a, j)' => Open(a, j)
<1>0. TypedStages
  BY Split
<1>1. /\ \A m \in Stages : serving'[m] => serving[m]
      /\ \A m \in 0 .. Last - 1 : writer'[m] => writer[m]
  <2>1. CASE UNCHANGED << serving, writer >>
    BY <2>1
  <2>2. CASE \/ UNCHANGED vars \/ Begin \/ Submit \/ Pump \/ Drain \/ Collect \/ SubmitFails \/ TimeOut \/ Drop \/ Read
             \/ \E i \in Stages : StageDecodes(i) \/ StageTruncates(i) \/ StageFails(i) \/ StageRelays(i)
    BY <2>1, <2>2 DEF vars, Begin, Submit, Pump, Drain, Collect, SubmitFails, TimeOut, Drop, Read, StageDecodes,
       StageTruncates, StageFails, StageRelays
  <2>3. CASE WriteFails \/ \E i \in Stages : StageWriteFails(i)
    BY <1>0, <2>3 DEF WriteFails, StageWriteFails, TypedStages
  <2>4. ASSUME NEW i \in Stages, Closes(i)
        PROVE /\ \A m \in Stages : serving'[m] => serving[m]
              /\ \A m \in 0 .. Last - 1 : writer'[m] => writer[m]
    <3>1. /\ serving' \in {serving, [serving EXCEPT ![i] = FALSE]}
          /\ writer' \in {writer, Others(i, writer)}
      BY <2>4, ClosingKeeps
    <3>. QED
      BY <1>0, <3>1 DEF Others, TypedStages
  <2>. QED
    BY <2>2, <2>3, <2>4, StepSplits
<1>2. ASSUME NEW a \in Level, NEW j \in Stages, NEW m \in a .. j
      PROVE (m > 0 => m \in Stages) /\ (m < j => m \in 0 .. Last - 1)
  BY PipelineAssumption DEF Level, Stages
<1>. QED
  BY <1>1, <1>2 DEF Open

\* The places after frames only moved.
LEMMA ShiftedHeld ==
  ASSUME NEW i \in Stages, NEW d \in Nat, Shifted(i, d), NEW j \in Stages, NEW m \in Nat, NEW c \in Nat
  PROVE  /\ m # 0 => (Held(j, m, c)' <=> Held(j, Was(j, m, i, d), c))
         /\ m = 0 => (Held(j, m, c)' <=> c \in cache'[j])
<1>1. m # 0 => m \in Pos /\ Was(j, m, i, d) = From(j, m, i, d) /\ From(j, m, i, d) \in Pos
  BY WasIs
<1>2. m # 0 => Was(j, m, i, d) # 0
  BY <1>1 DEF Pos
<1>. QED
  BY <1>1, <1>2 DEF Held, Shifted

\* What is ahead, after frames went.
LEMMA ShiftedAhead ==
  ASSUME NEW i \in Stages, NEW d \in Nat, Shifted(i, d), next_ticket' = next_ticket,
         NEW a \in Level, NEW k \in Pos, NEW t \in Nat
  PROVE  Ahead(a, k, t)' <=> Ahead(a, Was(a, k, i, d), t)
<1>1. k # 0 /\ Was(a, k, i, d) = From(a, k, i, d) /\ From(a, k, i, d) \in Pos /\ i # 0
  BY WasPlaces, Levels
<1>2. a = 0 => From(a, k, i, d) = k
  BY <1>1 DEF From
<1>. QED
  BY <1>1, <1>2, Levels DEF Ahead, Shifted

\* Truncates, after frames went.
LEMMA ShiftedCut ==
  ASSUME NEW i \in Stages, NEW d \in Nat, Shifted(i, d), NEW x \in Stages, NEW y \in Pos
  PROVE  Cut(x, y)' <=> Cut(x, Was(x, y, i, d))
<1>1. Was(x, y, i, d) = From(x, y, i, d)
  BY WasPlaces, Levels
<1>. QED
  BY <1>1 DEF Shifted

\* And after one more came n-th and last on its way to stage b.
LEMMA GrownHeld ==
  ASSUME NEW i \in Stages, NEW d \in Nat, NEW b \in Stages, NEW f, NEW n, Grown(i, d, b, f, n),
         NEW j \in Stages, NEW m \in Nat, NEW c \in Nat
  PROVE  /\ m # 0 => (Held(j, m, c)' <=>
                        \/ Held(j, Was(j, m, i, d), c)
                        \/ j = b /\ m = n /\ f.kind = "forward" /\ f.ticket = c)
         /\ m = 0 => (Held(j, m, c)' <=> c \in cache'[j])
<1>1. m # 0 => m \in Pos /\ Was(j, m, i, d) = From(j, m, i, d) /\ From(j, m, i, d) \in Pos
  BY WasIs
<1>2. m # 0 => Was(j, m, i, d) # 0
  BY <1>1 DEF Pos
<1>. QED
  BY <1>1, <1>2 DEF Held, Grown

\* What is ahead, after one more frame came.
LEMMA GrownAhead ==
  ASSUME NEW i \in Stages, NEW d \in Nat, NEW b \in Stages, NEW f, NEW n, Grown(i, d, b, f, n),
         next_ticket' = next_ticket, NEW a \in Level, NEW k \in Pos, NEW t \in Nat
  PROVE  Ahead(a, k, t)' <=> \/ Ahead(a, Was(a, k, i, d), t)
                             \/ a = b /\ k = n /\ f.kind = "forward" /\ f.ticket = t
<1>1. k # 0 /\ Was(a, k, i, d) = From(a, k, i, d) /\ From(a, k, i, d) \in Pos /\ i # 0 /\ b # 0
  <2>1. k \in Nat /\ k # 0
    BY DEF Pos
  <2>. QED
    BY <2>1, WasIs, Levels
<1>2. a = 0 => From(a, k, i, d) = k
  BY <1>1 DEF From
<1>. QED
  BY <1>1, <1>2, Levels DEF Ahead, Grown

\* Truncates, after one more frame came.
LEMMA GrownCut ==
  ASSUME NEW i \in Stages, NEW d \in Nat, NEW b \in Stages, NEW f, NEW n, Grown(i, d, b, f, n),
         NEW x \in Stages, NEW y \in Pos
  PROVE  Cut(x, y)' <=> Cut(x, Was(x, y, i, d)) \/ (x = b /\ y = n /\ f.kind = "truncate")
<1>1. Was(x, y, i, d) = From(x, y, i, d)
  BY WasPlaces, Levels
<1>. QED
  BY <1>1 DEF Grown

\* The frame that came is the last.
LEMMA GrownLast ==
  ASSUME NEW i, NEW d, NEW b \in Stages, NEW f, NEW n, Grown(i, d, b, f, n)
  PROVE  /\ n \in Pos /\ n # 0 /\ n \in Nat
         /\ \A m \in Nat, c \in Nat : Held(b, m, c) => m < n
         /\ \A y \in Pos : Cut(b, y) => y < n
         /\ \A k \in Pos, t \in Nat : Ahead(b, k, t) => k < n
<1>1. n \in Pos /\ n # 0 /\ n \in Nat /\ b # 0
  BY Levels DEF Grown, Pos
<1>2. \A k \in Pos : k >= n => ~Cut(b, k) /\ \A t \in Nat : ~Fwd(b, k, t)
  BY DEF Grown
<1>3. \A m \in Nat : m = 0 \/ m \in Pos
  BY DEF Pos
<1>4. \A m \in Nat : m < n \/ m >= n
  BY <1>1
<1>5. 0 < n /\ \A m \in Pos : m \in Nat
  BY <1>1 DEF Pos
<1>. QED
  BY <1>1, <1>2, <1>3, <1>4, <1>5 DEF Held, Ahead

\* The rows of a call.
Rows == Cleared /\ Parted /\ Accounted

\* A frame forwards or truncates.
LEMMA NotBoth == \A i, k, t : ~(Fwd(i, k, t) /\ Cut(i, k))
  BY DEF Fwd, Cut

\* A forward on its way is ahead of its stage and held for it.
LEMMA FwdHeld == \A i \in Stages, k \in Pos, t \in Nat : (Fwd(i, k, t) <=> Held(i, k, t)) /\ (Fwd(i, k, t) <=> Ahead(i, k, t))
  BY WasPlaces, Levels DEF Held, Ahead

\* One ticket to a place.
LEMMA HeldOnce ==
  \A i, k, t, u : k # 0 /\ Held(i, k, t) /\ Held(i, k, u) => t = u
  BY DEF Held, Fwd

\* A cut between two places lies at a stage between theirs.
LEMMA BetweenIs ==
  ASSUME NEW a \in Level, NEW k \in Nat, NEW j \in Stages, NEW m \in Nat, Between(a, k, j, m)
  PROVE  \E x \in Stages, y \in Pos : Cut(x, y) /\ Older(x, y, a, k) /\ Older(j, m, x, y) /\ a <= x /\ x <= j
<1>1. PICK x \in Stages, y \in Pos : Cut(x, y) /\ Older(x, y, a, k) /\ Older(j, m, x, y)
  BY DEF Between
<1>. QED
  BY <1>1, Orders, WasPlaces, Levels

\* Frames that go keep the rows accounted for: none went, no way through
\* them is open any more, or the one that went was refused.
LEMMA ShiftRows ==
  ASSUME Rows, NEW i \in Stages, NEW d \in Nat, Shifted(i, d), SameCaches, next_ticket' = next_ticket,
         starts' = starts, \A a \in Level, j \in Stages : Open(a, j)' => Open(a, j),
         \A c \in Nat : Refused(c) => Refused(c)',
         \/ d = 0
         \/ \A a \in Level, j \in Stages : a <= i /\ i <= j => ~Open(a, j)'
         \/ d = 1 /\ \E u \in Nat : Fwd(i, 1, u) /\ Refused(u)'
  PROVE  Rows'
<1>0. /\ First' = First /\ 1 \in Pos /\ i \in Level
      /\ \A j \in Stages : j \in Level
  BY Levels DEF First, Pos
<1>h. \A j \in Stages, m \in Nat, c \in Nat : Held(j, m, c)' <=> Held(j, Was(j, m, i, d), c)
  <2>. SUFFICES ASSUME NEW j \in Stages, NEW m \in Nat, NEW c \in Nat
       PROVE Held(j, m, c)' <=> Held(j, Was(j, m, i, d), c)
    OBVIOUS
  <2>1. m = 0 => (Held(j, m, c)' <=> c \in cache[j]) /\ Was(j, m, i, d) = 0
    BY ShiftedHeld, WasZero DEF SameCaches
  <2>. QED
    BY <2>1, ShiftedHeld DEF Held
<1>a. \A a \in Level, k \in Pos, t \in Nat : Ahead(a, k, t)' <=> Ahead(a, Was(a, k, i, d), t)
  BY ShiftedAhead
<1>c. \A x \in Stages, y \in Pos : Cut(x, y)' <=> Cut(x, Was(x, y, i, d))
  BY ShiftedCut
<1>o. \A x, j \in Level, k, m \in Nat : Older(j, Was(j, k, i, d), x, Was(x, m, i, d)) <=> Older(j, k, x, m)
  BY <1>0, WasPlaces
<1>w. /\ \A j \in Level, k \in Pos : Was(j, k, i, d) \in Pos
      /\ \A j \in Level, k \in Nat : Was(j, k, i, d) \in Nat
  BY <1>0, WasPlaces
\* what is between two places of an open way is still there, but for what was refused
<1>s. ASSUME NEW a \in Level, NEW j \in Stages, Open(a, j)', NEW x \in Stages, a <= x, x <= j, NEW y \in Nat
      PROVE \/ Stayed(x, y, i, d)
            \/ x = i /\ y = 1 /\ \E u \in Nat : Fwd(i, 1, u) /\ Refused(u)'
  <2>1. CASE d = 0
    BY <2>1, WasBack
  <2>2. CASE \A b \in Level, l \in Stages : b <= i /\ i <= l => ~Open(b, l)'
    <3>1. x # i
      BY <1>s, <2>2
    <3>. QED
      BY <3>1, WasBack
  <2>3. CASE d = 1 /\ \E u \in Nat : Fwd(i, 1, u) /\ Refused(u)'
    <3>1. CASE x = i /\ y = 1
      BY <2>3, <3>1
    <3>2. CASE x # i \/ y # 1
      BY <2>3, <3>2, WasBack
    <3>. QED
      BY <3>1, <3>2
  <2>. QED
    BY <2>1, <2>2, <2>3
<1>1. Cleared'
  <2>. SUFFICES ASSUME NEW x \in Stages, NEW j \in Stages, NEW y \in Pos, NEW m \in Nat, NEW c \in Nat,
                       Cut(x, y)', Held(j, m, c)', Older(j, m, x, y)
       PROVE c < First
    BY <1>0 DEF Cleared, Older
  <2>1. Cut(x, Was(x, y, i, d)) /\ Held(j, Was(j, m, i, d), c) /\ y \in Nat
    BY <1>c, <1>h, WasPlaces
  <2>2. Older(j, Was(j, m, i, d), x, Was(x, y, i, d))
    BY <1>0, <1>o, <2>1
  <2>. QED
    BY <1>0, <1>w, <2>1, <2>2 DEF Rows, Cleared
<1>2. Parted'
  <2>. SUFFICES ASSUME NEW a \in Level, NEW j \in Stages, NEW k \in Pos, NEW m \in Nat, NEW t \in Nat, NEW c \in Nat,
                       Ahead(a, k, t)', Held(j, m, c)', Older(j, m, a, k), First <= t, c < First, Open(a, j)'
       PROVE Between(a, k, j, m)'
    BY <1>0 DEF Parted, Older
  <2>0. PICK k2 \in Pos, m2 \in Nat : k2 = Was(a, k, i, d) /\ m2 = Was(j, m, i, d)
    BY <1>0, <1>w
  <2>1. Ahead(a, k2, t) /\ Held(j, m2, c) /\ Open(a, j) /\ k \in Nat
    BY <1>a, <1>h, <2>0, WasPlaces
  <2>2. Older(j, m2, a, k2)
    BY <1>0, <1>o, <2>0, <2>1
  <2>3. Between(a, k2, j, m2) /\ k2 \in Nat
    BY <2>1, <2>2, WasPlaces DEF Rows, Parted
  <2>4. PICK x \in Stages, y \in Pos : Cut(x, y) /\ Older(x, y, a, k2) /\ Older(j, m2, x, y) /\ a <= x /\ x <= j
    BY <2>3, BetweenIs
  <2>5. y \in Nat /\ y # 0
    BY WasPlaces
  <2>6. PICK z \in Nat : Was(x, z, i, d) = y /\ z # 0
    <3>1. Stayed(x, y, i, d)
      BY <1>s, <2>4, <2>5, NotBoth
    <3>. QED
      BY <2>5, <3>1 DEF Stayed
  <2>7. z \in Pos
    BY <2>6, WasPlaces
  <2>8. Cut(x, z)' /\ Older(x, z, a, k) /\ Older(j, m, x, z)
    BY <1>0, <1>c, <1>o, <2>0, <2>1, <2>4, <2>6, <2>7
  <2>. QED
    BY <2>7, <2>8 DEF Between, Older
<1>3. Accounted'
  <2>. SUFFICES ASSUME NEW a \in Level, NEW j \in Stages, NEW k \in Pos, NEW t \in Nat, NEW c \in Nat,
                       Ahead(a, k, t)', a <= j, Open(a, j)', First <= c, c < t, ~Refused(c)'
       PROVE Within(a, k, j, c)'
    BY <1>0 DEF Accounted
  <2>0. PICK k2 \in Pos : k2 = Was(a, k, i, d)
    BY <1>0, <1>w
  <2>1. Ahead(a, k2, t) /\ Open(a, j) /\ ~Refused(c) /\ k \in Nat /\ k2 \in Nat
    BY <1>a, <2>0, WasPlaces
  <2>2. Within(a, k2, j, c)
    BY <2>1 DEF Rows, Accounted
  <2>3. PICK p \in Stages, m \in Nat : Held(p, m, c) /\ p <= j /\ Older(p, m, a, k2) /\ (m = 0 => p = j)
    BY <2>2 DEF Within
  <2>4. a <= p
    BY <1>0, <2>1, <2>3, Orders
  <2>5. ~(p = i /\ m = 1 /\ \E u \in Nat : Fwd(i, 1, u) /\ Refused(u)')
    <3>. SUFFICES ASSUME p = i, m = 1, NEW u \in Nat, Fwd(i, 1, u), Refused(u)' PROVE FALSE
      OBVIOUS
    <3>1. u = c
      BY <1>0, <2>3, FwdHeld, HeldOnce
    <3>. QED
      BY <3>1
  <2>6. PICK z \in Nat : Was(p, z, i, d) = m /\ (z = 0 <=> m = 0)
    <3>1. Stayed(p, m, i, d)
      BY <1>s, <2>3, <2>4, <2>5
    <3>. QED
      BY <3>1 DEF Stayed
  <2>7. Held(p, z, c)' /\ Older(p, z, a, k)
    BY <1>0, <1>h, <1>o, <2>0, <2>1, <2>3, <2>6
  <2>. QED
    BY <2>3, <2>6, <2>7 DEF Within, Older
<1>. QED
  BY <1>1, <1>2, <1>3 DEF Rows

\* The place where what stage i passes on comes n-th and last on its way.
NewAt(i, n, j, m) == i < Last /\ j = i + 1 /\ m = n

PlaceLast(b, n) ==
  /\ b \in Stages /\ n \in Pos
  /\ \A m, c \in Nat : Held(b, m, c) => m < n
  /\ \A y \in Pos : Cut(b, y) => y < n
  /\ \A k \in Pos, t \in Nat : Ahead(b, k, t) => k < n

\* The places after stage i took ticket u's frame into its cache.
DecodeMoves(i, u, n) ==
  /\ i < Last => PlaceLast(i + 1, n) /\ writer[i]
  /\ \A j \in Stages, m, c \in Nat :
       Held(j, m, c)' <=> \/ Held(j, Was(j, m, i, 1), c)
                          \/ j = i /\ m = 0 /\ c = u
                          \/ NewAt(i, n, j, m) /\ c = u
  /\ \A a \in Level, k \in Pos, t \in Nat :
       Ahead(a, k, t)' <=> Ahead(a, Was(a, k, i, 1), t) \/ (NewAt(i, n, a, k) /\ t = u)
  /\ \A x \in Stages, y \in Pos : Cut(x, y)' <=> Cut(x, Was(x, y, i, 1))

\* What a decode moves: a ticket to a cache and, perhaps, to the next stage.
LEMMA Decoding ==
  ASSUME NEW i \in Stages, NEW u, NEW w, DecodeShape(i, u, w), next_ticket' = next_ticket
  PROVE  \E n : DecodeMoves(i, u, n)
<1>0. /\ u \in Nat /\ 1 \in Nat /\ Last \in Nat /\ i \in Nat
      /\ \A j \in Stages : cache'[j] = IF j = i THEN cache[i] \cup {u} ELSE cache[j]
  <2>1. u \in Nat /\ \A j \in Stages : cache'[j] = IF j = i THEN cache[i] \cup {u} ELSE cache[j]
    BY DEF DecodeShape
  <2>. QED
    BY <2>1, PipelineAssumption DEF Stages
<1>c. \A j \in Stages, c \in Nat : c \in cache'[j] <=> Held(j, Was(j, 0, i, 1), c) \/ (j = i /\ c = u)
  BY <1>0, WasZero DEF Held
<1>1. ASSUME i < Last, writer[i], i + 1 \in Stages, NEW n, Grown(i, 1, i + 1, Forward(u, w /\ Whole(i, u)), n)
      PROVE DecodeMoves(i, u, n)
  <2>1. PICK f : f = Forward(u, w /\ Whole(i, u)) /\ f.kind = "forward" /\ f.ticket = u
    BY FrameFields
  <2>2. Grown(i, 1, i + 1, f, n)
    BY <1>1, <2>1
  <2>3. PlaceLast(i + 1, n) /\ n # 0
    BY <1>1, <2>2, GrownLast DEF PlaceLast
  <2>4. ASSUME NEW j \in Stages, NEW m \in Nat, NEW c \in Nat
        PROVE Held(j, m, c)' <=> \/ Held(j, Was(j, m, i, 1), c)
                                 \/ j = i /\ m = 0 /\ c = u
                                 \/ NewAt(i, n, j, m) /\ c = u
    <3>1. CASE m = 0
      BY <1>0, <1>1, <1>c, <2>2, <2>3, <3>1, GrownHeld DEF NewAt
    <3>2. CASE m # 0
      BY <1>0, <1>1, <2>1, <2>2, <3>2, GrownHeld DEF NewAt
    <3>. QED
      BY <3>1, <3>2
  <2>5. \A a \in Level, k \in Pos, t \in Nat :
          Ahead(a, k, t)' <=> Ahead(a, Was(a, k, i, 1), t) \/ (NewAt(i, n, a, k) /\ t = u)
    BY <1>0, <1>1, <2>1, <2>2, GrownAhead DEF NewAt
  <2>6. \A x \in Stages, y \in Pos : Cut(x, y)' <=> Cut(x, Was(x, y, i, 1))
    BY <1>0, <1>1, <2>1, <2>2, GrownCut
  <2>. QED
    BY <1>1, <2>3, <2>4, <2>5, <2>6 DEF DecodeMoves
<1>2. ASSUME i = Last, Shifted(i, 1) PROVE DecodeMoves(i, u, 1)
  <2>1. ~(i < Last)
    BY <1>0, <1>2
  <2>2. ASSUME NEW j \in Stages, NEW m \in Nat, NEW c \in Nat
        PROVE Held(j, m, c)' <=> Held(j, Was(j, m, i, 1), c) \/ (j = i /\ m = 0 /\ c = u)
    <3>1. CASE m = 0
      BY <1>0, <1>2, <1>c, <3>1, ShiftedHeld
    <3>2. CASE m # 0
      BY <1>0, <1>2, <3>2, ShiftedHeld
    <3>. QED
      BY <3>1, <3>2
  <2>3. \A a \in Level, k \in Pos, t \in Nat : Ahead(a, k, t)' <=> Ahead(a, Was(a, k, i, 1), t)
    BY <1>0, <1>2, ShiftedAhead
  <2>4. \A x \in Stages, y \in Pos : Cut(x, y)' <=> Cut(x, Was(x, y, i, 1))
    BY <1>0, <1>2, ShiftedCut
  <2>. QED
    BY <2>1, <2>2, <2>3, <2>4 DEF DecodeMoves, NewAt
<1>. QED
  BY <1>1, <1>2 DEF DecodeShape

\* A decode keeps the rows accounted for.
LEMMA DecodeRows ==
  ASSUME Rows, NEW i \in Stages, NEW u \in Nat, NEW n, DecodeMoves(i, u, n), Fwd(i, 1, u), serving[i],
         First \in Nat, starts' = starts, \A a \in Level, j \in Stages : Open(a, j)' => Open(a, j),
         \A c \in Nat : Refused(c) => Refused(c)'
  PROVE  Rows'
<1>0. /\ First' = First /\ 1 \in Pos /\ 1 \in Nat /\ 0 \in Nat /\ i \in Level /\ i \in Nat /\ Last \in Nat
      /\ \A j \in Stages : j \in Level
      /\ \A j \in Level : j \in Nat
  BY Levels, PipelineAssumption DEF First, Pos, Stages, Level
<1>n. /\ \A j, m : NewAt(i, n, j, m) =>
           /\ j \in Stages /\ m \in Pos /\ j = i + 1 /\ i < Last /\ writer[i] /\ m = n /\ PlaceLast(j, m)
      /\ i < Last => NewAt(i, n, i + 1, n)
  BY DEF DecodeMoves, NewAt, PlaceLast
<1>h. \A j \in Stages, m, c \in Nat :
       Held(j, m, c)' <=> \/ Held(j, Was(j, m, i, 1), c)
                          \/ j = i /\ m = 0 /\ c = u
                          \/ NewAt(i, n, j, m) /\ c = u
  BY DEF DecodeMoves
<1>a. \A a \in Level, k \in Pos, t \in Nat :
       Ahead(a, k, t)' <=> Ahead(a, Was(a, k, i, 1), t) \/ (NewAt(i, n, a, k) /\ t = u)
  BY DEF DecodeMoves
<1>c. \A x \in Stages, y \in Pos : Cut(x, y)' <=> Cut(x, Was(x, y, i, 1))
  BY DEF DecodeMoves
<1>o. \A x, j \in Level, k, m \in Nat : Older(j, Was(j, k, i, 1), x, Was(x, m, i, 1)) <=> Older(j, k, x, m)
  BY <1>0, WasPlaces
<1>w. /\ \A j \in Level, k \in Pos : Was(j, k, i, 1) \in Pos
      /\ \A j \in Level, k \in Nat : Was(j, k, i, 1) \in Nat
      /\ \A k \in Pos : k \in Nat /\ k # 0
      /\ \A k \in Nat : k = 0 \/ k \in Pos
      /\ \A j \in Level, k \in Nat : j # i => Was(j, k, i, 1) = k
  <2>1. \A j \in Level, k \in Nat : j # i => Was(j, k, i, 1) = k
    BY DEF Was, From
  <2>. QED
    BY <1>0, <2>1, WasPlaces
\* the frame that stage i took was ahead of all that is not beyond it
<1>1. ASSUME NEW a \in Level, NEW k \in Pos, a <= i
      PROVE Older(i, 1, a, Was(a, k, i, 1)) /\ Older(i, 0, a, k) /\ (i < Last => Older(i + 1, n, a, k))
  <2>1. Was(a, k, i, 1) \in Nat /\ k > 0 /\ k \in Nat
    BY <1>w DEF Pos
  <2>2. a = i => Was(a, k, i, 1) > 1
    BY <1>0, WasPlaces
  <2>. QED
    BY <1>0, <1>1, <2>1, <2>2 DEF Older
<1>2. Cleared'
  <2>. SUFFICES ASSUME NEW x \in Stages, NEW j \in Stages, NEW y \in Pos, NEW m \in Nat, NEW c \in Nat,
                       Cut(x, y)', Held(j, m, c)', Older(j, m, x, y)
       PROVE c < First
    BY <1>0 DEF Cleared, Older
  <2>1. Cut(x, Was(x, y, i, 1)) /\ Was(x, y, i, 1) \in Pos /\ y \in Nat
    BY <1>0, <1>c, <1>w
  <2>2. CASE Held(j, Was(j, m, i, 1), c)
    <3>1. Older(j, Was(j, m, i, 1), x, Was(x, y, i, 1))
      BY <1>0, <1>o, <2>1
    <3>. QED
      BY <1>0, <1>w, <2>1, <2>2, <3>1 DEF Rows, Cleared
  <2>3. CASE c = u /\ x <= i
    <3>1. Older(i, 1, x, Was(x, y, i, 1)) /\ Held(i, 1, u)
      BY <1>0, <1>1, <2>3, FwdHeld
    <3>. QED
      BY <1>0, <2>1, <2>3, <3>1 DEF Rows, Cleared
  <2>4. CASE j = i /\ m = 0 /\ c = u
    BY <1>0, <2>1, <2>3, <2>4, Orders
  <2>5. CASE NewAt(i, n, j, m) /\ c = u
    <3>1. x <= j
      BY <1>0, <2>1, Orders
    <3>2. x # j
      <4>. SUFFICES ASSUME x = j PROVE FALSE
        OBVIOUS
      <4>1. Was(x, y, i, 1) = y /\ j # i
        BY <1>0, <1>n, <1>w, <2>1, <2>5
      <4>2. y < m
        BY <1>n, <2>1, <2>5, <4>1 DEF PlaceLast
      <4>3. m < y
        BY <1>0, <2>1, Orders
      <4>. QED
        BY <2>1, <4>2, <4>3
    <3>3. x <= i
      BY <1>0, <1>n, <2>5, <3>1, <3>2
    <3>. QED
      BY <2>3, <2>5, <3>3
  <2>. QED
    BY <1>h, <2>2, <2>4, <2>5
<1>3. Parted'
  <2>. SUFFICES ASSUME NEW a \in Level, NEW j \in Stages, NEW k \in Pos, NEW m \in Nat, NEW t \in Nat, NEW c \in Nat,
                       Ahead(a, k, t)', Held(j, m, c)', Older(j, m, a, k), First <= t, c < First, Open(a, j)'
       PROVE Between(a, k, j, m)'
    BY <1>0 DEF Parted, Older
  <2>0. Open(a, j) /\ k \in Nat /\ a <= j
    BY <1>0, <1>w, Orders
  \* it is enough that a cut was between where they were
  <2>1. ASSUME NEW x \in Stages, NEW y \in Pos, Cut(x, y),
               \A z \in Pos : Was(x, z, i, 1) = y => Older(x, z, a, k) /\ Older(j, m, x, z)
        PROVE Between(a, k, j, m)'
    <3>1. ~(x = i /\ y = 1) /\ y \in Nat /\ y # 0
      BY <1>w, <2>1, NotBoth
    <3>2. Stayed(x, y, i, 1)
      BY <1>0, <3>1, WasBack
    <3>3. PICK z \in Nat : Was(x, z, i, 1) = y /\ z # 0
      BY <3>1, <3>2 DEF Stayed
    <3>4. z \in Pos
      BY <1>w, <3>3
    <3>5. Cut(x, z)' /\ Older(x, z, a, k) /\ Older(j, m, x, z)
      BY <1>c, <2>1, <3>3, <3>4
    <3>. QED
      BY <3>4, <3>5 DEF Between, Older
  <2>2. CASE Ahead(a, Was(a, k, i, 1), t)
    <3>0. PICK k2 \in Pos : k2 = Was(a, k, i, 1) /\ k2 \in Nat
      BY <1>w
    <3>1. CASE Held(j, Was(j, m, i, 1), c)
      <4>0. PICK m2 \in Nat : m2 = Was(j, m, i, 1)
        BY <1>0, <1>w
      <4>1. Older(j, m2, a, k2)
        BY <1>0, <1>o, <2>0, <3>0, <4>0
      <4>2. Between(a, k2, j, m2)
        BY <2>0, <2>2, <3>0, <3>1, <4>0, <4>1 DEF Rows, Parted
      <4>3. PICK x \in Stages, y \in Pos : Cut(x, y) /\ Older(x, y, a, k2) /\ Older(j, m2, x, y)
        BY <4>2 DEF Between
      <4>4. \A z \in Pos : Was(x, z, i, 1) = y => Older(x, z, a, k) /\ Older(j, m, x, z)
        BY <1>0, <1>o, <1>w, <2>0, <3>0, <4>0, <4>3
      <4>. QED
        BY <2>1, <4>3, <4>4
    <3>2. ASSUME a <= i, i <= j, c = u, \A x \in Stages, z \in Pos : Older(i, 1, x, Was(x, z, i, 1)) => Older(j, m, x, z)
          PROVE Between(a, k, j, m)'
      <4>1. Older(i, 1, a, k2) /\ Held(i, 1, c)
        BY <1>0, <1>1, <3>0, <3>2, FwdHeld
      <4>2. Open(a, i)
        BY <2>0, <3>2, OpenNear
      <4>3. Between(a, k2, i, 1)
        BY <1>0, <2>2, <3>0, <4>1, <4>2 DEF Rows, Parted
      <4>4. PICK x \in Stages, y \in Pos : Cut(x, y) /\ Older(x, y, a, k2) /\ Older(i, 1, x, y)
        BY <4>3 DEF Between
      <4>5. \A z \in Pos : Was(x, z, i, 1) = y => Older(x, z, a, k) /\ Older(j, m, x, z)
        BY <1>0, <1>o, <1>w, <2>0, <3>0, <3>2, <4>4
      <4>. QED
        BY <2>1, <4>4, <4>5
    <3>3. CASE j = i /\ m = 0 /\ c = u
      <4>1. ASSUME NEW x \in Stages, NEW z \in Pos, Older(i, 1, x, Was(x, z, i, 1)) PROVE Older(j, m, x, z)
        <5>1. x <= i
          BY <1>0, <1>w, <4>1, Orders
        <5>. QED
          BY <1>0, <1>1, <3>3, <5>1
      <4>. QED
        BY <1>0, <2>0, <3>2, <3>3, <4>1
    <3>4. CASE NewAt(i, n, j, m) /\ c = u
      <4>0. j = i + 1 /\ m = n /\ i < Last /\ PlaceLast(j, m)
        BY <1>n, <3>4
      <4>1. a # j
        <5>. SUFFICES ASSUME a = j PROVE FALSE
          OBVIOUS
        <5>1. Was(a, k, i, 1) = k
          BY <1>0, <1>w, <2>0, <4>0
        <5>2. k < m
          BY <2>2, <4>0, <5>1 DEF PlaceLast
        <5>3. m < k
          BY <1>0, <2>0, Orders
        <5>. QED
          BY <2>0, <5>2, <5>3
      <4>2. a <= i /\ i <= j
        BY <1>0, <2>0, <4>0, <4>1
      <4>3. ASSUME NEW x \in Stages, NEW z \in Pos, Older(i, 1, x, Was(x, z, i, 1)) PROVE Older(j, m, x, z)
        <5>1. x <= i
          BY <1>0, <1>w, <4>3, Orders
        <5>. QED
          BY <1>0, <1>1, <4>0, <5>1
      <4>. QED
        BY <3>2, <3>4, <4>2, <4>3
    <3>. QED
      BY <1>h, <3>1, <3>3, <3>4
  <2>3. CASE NewAt(i, n, a, k) /\ t = u
    <3>0. a = i + 1 /\ k = n /\ i < Last /\ writer[i] /\ PlaceLast(a, k) /\ a # i /\ i < j
      BY <1>0, <1>n, <2>0, <2>3
    <3>1. Open(i, j)
      BY <2>0, <3>0, OpenNear
    <3>2. Held(j, m, c)
      <4>1. ~(c = u)
        BY <2>3
      <4>2. Was(j, m, i, 1) = m
        BY <1>0, <1>w, <3>0
      <4>. QED
        BY <1>h, <4>1, <4>2
    <3>3. Older(j, m, i, 1) /\ Ahead(i, 1, u)
      BY <1>0, <3>0, Orders, FwdHeld
    <3>4. Between(i, 1, j, m)
      BY <1>0, <2>3, <3>1, <3>2, <3>3 DEF Rows, Parted
    <3>5. PICK x \in Stages, y \in Pos : Cut(x, y) /\ Older(x, y, i, 1) /\ Older(j, m, x, y)
      BY <3>4 DEF Between
    <3>6. i < x
      <4>1. i <= x /\ y \in Nat /\ y > 0
        BY <1>0, <1>w, <3>5, Orders DEF Pos
      <4>2. x # i
        BY <1>0, <3>5, <4>1, Orders
      <4>. QED
        BY <1>0, <4>1, <4>2
    <3>7. ASSUME NEW z \in Pos, Was(x, z, i, 1) = y PROVE Older(x, z, a, k) /\ Older(j, m, x, z)
      <4>1. z = y /\ z \in Nat
        BY <1>0, <1>w, <3>6, <3>7
      <4>2. CASE x = a
        <5>1. z < k
          BY <3>0, <3>5, <4>1, <4>2 DEF PlaceLast
        <5>. QED
          BY <1>0, <2>0, <3>5, <4>1, <4>2, <5>1, Orders
      <4>3. CASE x # a
        <5>1. a < x
          BY <1>0, <3>0, <3>6, <4>3
        <5>. QED
          BY <1>0, <2>0, <3>5, <4>1, <5>1, Orders
      <4>. QED
        BY <4>2, <4>3
    <3>. QED
      BY <2>1, <3>5, <3>7
  <2>. QED
    BY <1>a, <2>2, <2>3
<1>4. Accounted'
  <2>. SUFFICES ASSUME NEW a \in Level, NEW j \in Stages, NEW k \in Pos, NEW t \in Nat, NEW c \in Nat,
                       Ahead(a, k, t)', a <= j, Open(a, j)', First <= c, c < t, ~Refused(c)'
       PROVE Within(a, k, j, c)'
    BY <1>0 DEF Accounted
  <2>0. Open(a, j) /\ ~Refused(c) /\ k \in Nat
    BY <1>w
  <2>i. ASSUME NEW p \in Stages, NEW m \in Nat, Held(p, m, c)', p <= j, Older(p, m, a, k), m = 0 => p = j
        PROVE Within(a, k, j, c)'
    BY <2>i DEF Within, Older
  <2>1. CASE Ahead(a, Was(a, k, i, 1), t)
    <3>0. PICK k2 \in Pos : k2 = Was(a, k, i, 1) /\ k2 \in Nat
      BY <1>w
    <3>1. Within(a, k2, j, c)
      BY <2>0, <2>1, <3>0 DEF Rows, Accounted
    <3>2. PICK p \in Stages, m \in Nat : Held(p, m, c) /\ p <= j /\ Older(p, m, a, k2) /\ (m = 0 => p = j)
      BY <3>1 DEF Within
    <3>3. a <= p
      BY <1>0, <3>0, <3>2, Orders
    <3>4. CASE p = i /\ m = 1
      <4>1. c = u
        BY <1>0, <3>2, <3>4, FwdHeld, HeldOnce
      <4>2. CASE j = i
        <5>1. Held(i, 0, c)' /\ Older(i, 0, a, k)
          BY <1>0, <1>1, <1>h, <3>3, <3>4, <4>1
        <5>. QED
          BY <1>0, <2>i, <3>2, <4>2, <5>1
      <4>3. CASE j # i
        <5>1. i < Last /\ i + 1 <= j
          BY <1>0, <3>2, <3>4, <4>3, PipelineAssumption DEF Stages
        <5>2. NewAt(i, n, i + 1, n) /\ i + 1 \in Stages /\ n \in Nat /\ n # 0
          BY <1>n, <1>w, <5>1
        <5>3. Held(i + 1, n, c)' /\ Older(i + 1, n, a, k)
          BY <1>0, <1>1, <1>h, <3>3, <3>4, <4>1, <5>1, <5>2
        <5>. QED
          BY <2>i, <5>1, <5>2, <5>3
      <4>. QED
        BY <4>2, <4>3
    <3>5. CASE ~(p = i /\ m = 1)
      <4>1. Stayed(p, m, i, 1)
        BY <1>0, <3>5, WasBack
      <4>2. PICK z \in Nat : Was(p, z, i, 1) = m /\ (z = 0 <=> m = 0)
        BY <4>1 DEF Stayed
      <4>3. Held(p, z, c)' /\ Older(p, z, a, k)
        BY <1>0, <1>h, <1>o, <2>0, <3>0, <3>2, <4>2
      <4>. QED
        BY <2>i, <3>2, <4>2, <4>3
    <3>. QED
      BY <3>4, <3>5
  <2>2. CASE NewAt(i, n, a, k) /\ t = u
    <3>0. a = i + 1 /\ k = n /\ i < Last /\ writer[i] /\ PlaceLast(a, k) /\ a # i /\ i < j
      BY <1>0, <1>n, <2>2
    <3>1. Open(i, j) /\ Ahead(i, 1, u)
      BY <1>0, <2>0, <3>0, OpenNear, FwdHeld
    <3>2. Within(i, 1, j, c)
      BY <1>0, <2>0, <2>2, <3>0, <3>1 DEF Rows, Accounted
    <3>3. PICK p \in Stages, m \in Nat : Held(p, m, c) /\ p <= j /\ Older(p, m, i, 1) /\ (m = 0 => p = j)
      BY <3>2 DEF Within
    <3>4. i < p
      <4>1. i <= p
        BY <1>0, <3>3, Orders
      <4>2. p # i
        <5>. SUFFICES ASSUME p = i PROVE FALSE
          OBVIOUS
        <5>1. m < 1
          BY <1>0, <3>3, Orders
        <5>2. m = 0
          BY <5>1
        <5>. QED
          BY <1>0, <3>0, <3>3, <5>2
      <4>. QED
        BY <1>0, <4>1, <4>2
    <3>5. Was(p, m, i, 1) = m
      BY <1>0, <1>w, <3>4
    <3>6. Older(p, m, a, k)
      <4>1. p = a => m < k
        BY <3>0, <3>3 DEF PlaceLast
      <4>2. p # a => a < p
        BY <1>0, <3>0, <3>4
      <4>. QED
        BY <1>0, <2>0, <4>1, <4>2, Orders
    <3>. QED
      BY <1>h, <2>i, <3>3, <3>5, <3>6
  <2>. QED
    BY <1>a, <2>1, <2>2
<1>. QED
  BY <1>2, <1>3, <1>4 DEF Rows

\* The places after stage i took a truncate, and passed it on while it could.
CutMoves(i, n) ==
  /\ i < Last /\ writer[i] => PlaceLast(i + 1, n)
  /\ \A j \in Stages, m, c \in Nat : Held(j, m, c)' <=> Held(j, Was(j, m, i, 1), c) /\ ~(j = i /\ m = 0)
  /\ \A a \in Level, k \in Pos, t \in Nat : Ahead(a, k, t)' <=> Ahead(a, Was(a, k, i, 1), t)
  /\ \A x \in Stages, y \in Pos : Cut(x, y)' <=> Cut(x, Was(x, y, i, 1)) \/ (writer[i] /\ NewAt(i, n, x, y))

\* What a truncate moves.
LEMMA Cutting ==
  ASSUME NEW i \in Stages, TruncateShape(i), next_ticket' = next_ticket
  PROVE  \E n : CutMoves(i, n)
<1>0. 1 \in Nat /\ Last \in Nat /\ i \in Nat
  BY PipelineAssumption DEF Stages
<1>c. \A j \in Stages, c \in Nat : c \in cache'[j] <=> Held(j, Was(j, 0, i, 1), c) /\ ~(j = i)
  BY WasZero DEF Held, TruncateShape
<1>1. ASSUME i < Last, writer[i], i + 1 \in Stages, NEW n, Grown(i, 1, i + 1, Truncate, n) PROVE CutMoves(i, n)
  <2>1. PICK f : f = Truncate /\ f.kind # "forward" /\ f.kind = "truncate"
    BY FrameFields
  <2>2. Grown(i, 1, i + 1, f, n)
    BY <1>1, <2>1
  <2>3. PlaceLast(i + 1, n)
    BY <1>1, <2>2, GrownLast DEF PlaceLast
  <2>4. ASSUME NEW j \in Stages, NEW m \in Nat, NEW c \in Nat
        PROVE Held(j, m, c)' <=> Held(j, Was(j, m, i, 1), c) /\ ~(j = i /\ m = 0)
    <3>1. CASE m = 0
      BY <1>0, <1>1, <1>c, <2>2, <3>1, GrownHeld
    <3>2. CASE m # 0
      <4>1. Held(j, m, c)' <=> \/ Held(j, Was(j, m, i, 1), c)
                               \/ j = i + 1 /\ m = n /\ f.kind = "forward" /\ f.ticket = c
        BY <1>0, <1>1, <2>2, <3>2, GrownHeld
      <4>. QED
        BY <2>1, <3>2, <4>1
    <3>. QED
      BY <3>1, <3>2
  <2>5. \A a \in Level, k \in Pos, t \in Nat : Ahead(a, k, t)' <=> Ahead(a, Was(a, k, i, 1), t)
    BY <1>0, <1>1, <2>1, <2>2, GrownAhead
  <2>6. \A x \in Stages, y \in Pos : Cut(x, y)' <=> Cut(x, Was(x, y, i, 1)) \/ (writer[i] /\ NewAt(i, n, x, y))
    BY <1>0, <1>1, <2>1, <2>2, GrownCut DEF NewAt
  <2>. QED
    BY <2>3, <2>4, <2>5, <2>6 DEF CutMoves
<1>2. ASSUME ~(i < Last /\ writer[i]), Shifted(i, 1) PROVE CutMoves(i, 1)
  <2>2. ASSUME NEW j \in Stages, NEW m \in Nat, NEW c \in Nat
        PROVE Held(j, m, c)' <=> Held(j, Was(j, m, i, 1), c) /\ ~(j = i /\ m = 0)
    <3>1. CASE m = 0
      BY <1>0, <1>2, <1>c, <3>1, ShiftedHeld
    <3>2. CASE m # 0
      BY <1>0, <1>2, <3>2, ShiftedHeld
    <3>. QED
      BY <3>1, <3>2
  <2>3. \A a \in Level, k \in Pos, t \in Nat : Ahead(a, k, t)' <=> Ahead(a, Was(a, k, i, 1), t)
    BY <1>0, <1>2, ShiftedAhead
  <2>4. \A x \in Stages, y \in Pos : Cut(x, y)' <=> Cut(x, Was(x, y, i, 1)) \/ (writer[i] /\ NewAt(i, 1, x, y))
    BY <1>0, <1>2, ShiftedCut DEF NewAt
  <2>. QED
    BY <1>2, <2>2, <2>3, <2>4 DEF CutMoves
<1>. QED
  BY <1>1, <1>2 DEF TruncateShape

\* A truncate keeps the rows accounted for.
LEMMA TruncateRows ==
  ASSUME Rows, NEW i \in Stages, NEW n, CutMoves(i, n), Cut(i, 1), First \in Nat, starts' = starts,
         \A a \in Level, j \in Stages : Open(a, j)' => Open(a, j), \A c \in Nat : Refused(c) => Refused(c)'
  PROVE  Rows'
<1>0. /\ First' = First /\ 1 \in Pos /\ 1 \in Nat /\ 0 \in Nat /\ i \in Level /\ i \in Nat /\ Last \in Nat
      /\ \A j \in Stages : j \in Level
      /\ \A j \in Level : j \in Nat
  BY Levels, PipelineAssumption DEF First, Pos, Stages, Level
<1>n. /\ \A x, y : writer[i] /\ NewAt(i, n, x, y) => /\ x \in Stages /\ y \in Pos /\ x = i + 1 /\ y = n /\ PlaceLast(x, y)
      /\ i < Last /\ writer[i] => NewAt(i, n, i + 1, n)
  BY DEF CutMoves, NewAt, PlaceLast
<1>h. \A j \in Stages, m, c \in Nat : Held(j, m, c)' <=> Held(j, Was(j, m, i, 1), c) /\ ~(j = i /\ m = 0)
  BY DEF CutMoves
<1>a. \A a \in Level, k \in Pos, t \in Nat : Ahead(a, k, t)' <=> Ahead(a, Was(a, k, i, 1), t)
  BY DEF CutMoves
<1>c. \A x \in Stages, y \in Pos : Cut(x, y)' <=> Cut(x, Was(x, y, i, 1)) \/ (writer[i] /\ NewAt(i, n, x, y))
  BY DEF CutMoves
<1>o. \A x, j \in Level, k, m \in Nat : Older(j, Was(j, k, i, 1), x, Was(x, m, i, 1)) <=> Older(j, k, x, m)
  BY <1>0, WasPlaces
<1>w. /\ \A j \in Level, k \in Pos : Was(j, k, i, 1) \in Pos
      /\ \A j \in Level, k \in Nat : Was(j, k, i, 1) \in Nat
      /\ \A k \in Pos : k \in Nat /\ k # 0
      /\ \A k \in Nat : k = 0 \/ k \in Pos
      /\ \A j \in Level, k \in Nat : j # i => Was(j, k, i, 1) = k
  <2>1. \A j \in Level, k \in Nat : j # i => Was(j, k, i, 1) = k
    BY DEF Was, From
  <2>. QED
    BY <1>0, <2>1, WasPlaces
<1>2. Cleared'
  <2>. SUFFICES ASSUME NEW x \in Stages, NEW j \in Stages, NEW y \in Pos, NEW m \in Nat, NEW c \in Nat,
                       Cut(x, y)', Held(j, m, c)', Older(j, m, x, y)
       PROVE c < First
    BY <1>0 DEF Cleared, Older
  <2>1. Held(j, Was(j, m, i, 1), c) /\ Was(x, y, i, 1) \in Pos /\ y \in Nat
    BY <1>0, <1>h, <1>w
  <2>2. CASE Cut(x, Was(x, y, i, 1))
    <3>1. Older(j, Was(j, m, i, 1), x, Was(x, y, i, 1))
      BY <1>0, <1>o, <2>1
    <3>. QED
      BY <1>0, <1>w, <2>1, <2>2, <3>1 DEF Rows, Cleared
  <2>3. CASE writer[i] /\ NewAt(i, n, x, y)
    <3>1. i < j
      BY <1>0, <1>n, <2>1, <2>3, Orders
    <3>2. Was(j, m, i, 1) = m /\ Older(j, m, i, 1)
      BY <1>0, <1>w, <3>1, Orders
    <3>. QED
      BY <1>0, <2>1, <3>2 DEF Rows, Cleared
  <2>. QED
    BY <1>c, <2>2, <2>3
<1>3. Parted'
  <2>. SUFFICES ASSUME NEW a \in Level, NEW j \in Stages, NEW k \in Pos, NEW m \in Nat, NEW t \in Nat, NEW c \in Nat,
                       Ahead(a, k, t)', Held(j, m, c)', Older(j, m, a, k), First <= t, c < First, Open(a, j)'
       PROVE Between(a, k, j, m)'
    BY <1>0 DEF Parted, Older
  <2>0. Open(a, j) /\ k \in Nat /\ a <= j
    BY <1>0, <1>w, Orders
  <2>1. PICK k2 \in Pos, m2 \in Nat : k2 = Was(a, k, i, 1) /\ k2 \in Nat /\ m2 = Was(j, m, i, 1)
    BY <1>0, <1>w
  <2>2. Ahead(a, k2, t) /\ Held(j, m2, c) /\ ~(j = i /\ m = 0)
    BY <1>a, <1>h, <2>1
  <2>3. Older(j, m2, a, k2)
    BY <1>0, <1>o, <2>0, <2>1
  <2>4. Between(a, k2, j, m2)
    BY <2>0, <2>2, <2>3 DEF Rows, Parted
  <2>5. PICK x \in Stages, y \in Pos : Cut(x, y) /\ Older(x, y, a, k2) /\ Older(j, m2, x, y)
    BY <2>4 DEF Between
  <2>6. CASE ~(x = i /\ y = 1)
    <3>1. Stayed(x, y, i, 1) /\ y # 0
      BY <1>0, <1>w, <2>6, WasBack
    <3>2. PICK z \in Nat : Was(x, z, i, 1) = y /\ z # 0
      BY <3>1 DEF Stayed
    <3>3. z \in Pos
      BY <1>w, <3>2
    <3>4. Cut(x, z)' /\ Older(x, z, a, k) /\ Older(j, m, x, z)
      BY <1>0, <1>c, <1>o, <2>0, <2>1, <2>5, <3>2, <3>3
    <3>. QED
      BY <3>3, <3>4 DEF Between, Older
  <2>7. CASE x = i /\ y = 1
    <3>1. a <= i /\ i <= j
      BY <1>0, <2>1, <2>5, <2>7, Orders
    <3>2. j # i
      <4>. SUFFICES ASSUME j = i PROVE FALSE
        OBVIOUS
      <4>1. m2 < 1 /\ m \in Pos
        BY <1>0, <1>w, <2>2, <2>5, <2>7, Orders
      <4>2. m2 > 1
        BY <1>0, <2>1, <4>1, WasPlaces
      <4>. QED
        BY <4>1, <4>2
    <3>3. i < Last /\ writer[i] /\ i < j
      BY <1>0, <2>0, <3>1, <3>2, OpenNear DEF Stages
    <3>4. NewAt(i, n, i + 1, n) /\ PlaceLast(i + 1, n) /\ i + 1 \in Stages /\ n \in Pos /\ n \in Nat
      BY <1>n, <1>w, <3>3 DEF PlaceLast
    <3>5. Cut(i + 1, n)'
      BY <1>c, <3>3, <3>4
    <3>6. Older(i + 1, n, a, k)
      BY <1>0, <2>0, <3>1 DEF Older
    <3>7. m2 = m
      BY <1>0, <1>w, <2>1, <3>3
    <3>8. Older(j, m, i + 1, n)
      <4>1. j = i + 1 => m < n
        BY <2>2, <3>4, <3>7 DEF PlaceLast
      <4>2. j # i + 1 => i + 1 < j
        BY <1>0, <3>3
      <4>. QED
        BY <4>1, <4>2 DEF Older
    <3>. QED
      BY <3>4, <3>5, <3>6, <3>8 DEF Between, Older
  <2>. QED
    BY <2>6, <2>7
<1>4. Accounted'
  <2>. SUFFICES ASSUME NEW a \in Level, NEW j \in Stages, NEW k \in Pos, NEW t \in Nat, NEW c \in Nat,
                       Ahead(a, k, t)', a <= j, Open(a, j)', First <= c, c < t, ~Refused(c)'
       PROVE Within(a, k, j, c)'
    BY <1>0 DEF Accounted
  <2>0. Open(a, j) /\ ~Refused(c) /\ k \in Nat
    BY <1>w
  <2>1. PICK k2 \in Pos : k2 = Was(a, k, i, 1) /\ k2 \in Nat
    BY <1>w
  <2>2. Ahead(a, k2, t)
    BY <1>a, <2>1
  <2>3. Within(a, k2, j, c)
    BY <2>0, <2>2 DEF Rows, Accounted
  <2>4. PICK p \in Stages, m \in Nat : Held(p, m, c) /\ p <= j /\ Older(p, m, a, k2) /\ (m = 0 => p = j)
    BY <2>3 DEF Within
  \* the rows the truncate took are of calls before this one
  <2>5. ~(p = i /\ m = 0)
    <3>. SUFFICES ASSUME p = i, m = 0 PROVE FALSE
      OBVIOUS
    <3>1. Older(i, 0, i, 1)
      BY <1>0, Orders
    <3>2. c < First
      BY <1>0, <2>4, <3>1 DEF Rows, Cleared
    <3>. QED
      BY <3>2
  <2>6. ~(p = i /\ m = 1)
    BY <1>0, <2>4, FwdHeld, NotBoth
  <2>7. Stayed(p, m, i, 1)
    BY <1>0, <2>6, WasBack
  <2>8. PICK z \in Nat : Was(p, z, i, 1) = m /\ (z = 0 <=> m = 0)
    BY <2>7 DEF Stayed
  <2>9. Held(p, z, c)' /\ Older(p, z, a, k)
    BY <1>0, <1>h, <1>o, <2>0, <2>1, <2>4, <2>5, <2>8
  <2>. QED
    BY <2>4, <2>8, <2>9 DEF Within, Older
<1>. QED
  BY <1>2, <1>3, <1>4 DEF Rows

\* A submit keeps the rows accounted for.
LEMMA SubmitRows ==
  ASSUME TypeOK, Spent, Rows, Submit, Sendable, First \in Nat,
         \A a \in Level, j \in Stages : Open(a, j)' => Open(a, j), \A c \in Nat : Refused(c) => Refused(c)',
         First <= next_ticket
  PROVE  Rows'
<1>0. /\ First' = First /\ 1 \in Pos /\ 1 \in Nat /\ 0 \in Nat /\ 1 \in Stages /\ 1 \in Level /\ 0 \in Level
      /\ \A j \in Stages : j \in Level /\ j # 0 /\ 0 < j
      /\ \A k \in Pos : k \in Nat /\ k # 0
      /\ \A k \in Nat : k = 0 \/ k \in Pos
  <2>1. First' = First
    BY DEF First, Submit
  <2>2. 1 \in Pos /\ \A k \in Pos : k \in Nat /\ k # 0
    BY DEF Pos
  <2>3. \A k \in Nat : k = 0 \/ k \in Pos
    BY DEF Pos
  <2>4. 1 \in Stages /\ \A j \in Stages : 0 < j
    BY PipelineAssumption DEF Stages
  <2>. QED
    BY <2>1, <2>2, <2>3, <2>4, Levels
<1>1. SameCaches /\ next_ticket' = next_ticket + 1 /\ next_ticket \in Nat /\ writer[0]
  BY SubmitShape DEF Sendable
<1>2. PICK n, f : Grown(1, 0, 1, f, n) /\ f.kind = "forward" /\ f.ticket = next_ticket
  <2>1. PICK n : Grown(1, 0, 1, Forward(next_ticket, Whole(0, next_ticket)), n)
    BY SubmitShape
  <2>2. PICK f : f = Forward(next_ticket, Whole(0, next_ticket)) /\ f.kind = "forward" /\ f.ticket = next_ticket
    BY FrameFields
  <2>. QED
    BY <2>1, <2>2
<1>3. PlaceLast(1, n) /\ n \in Nat /\ n # 0 /\ n \in Pos
  BY <1>0, <1>2, GrownLast DEF PlaceLast
<1>w. \A j \in Level, k \in Nat : Was(j, k, 1, 0) = k
  BY <1>0, WasPlaces
<1>h. \A j \in Stages, m, c \in Nat : Held(j, m, c)' <=> Held(j, m, c) \/ (j = 1 /\ m = n /\ c = next_ticket)
  <2>. SUFFICES ASSUME NEW j \in Stages, NEW m \in Nat, NEW c \in Nat
       PROVE Held(j, m, c)' <=> Held(j, m, c) \/ (j = 1 /\ m = n /\ c = next_ticket)
    OBVIOUS
  <2>1. CASE m = 0
    BY <1>0, <1>1, <1>2, <1>3, <2>1, GrownHeld DEF SameCaches, Held
  <2>2. CASE m # 0
    <3>1. Held(j, m, c)' <=> \/ Held(j, Was(j, m, 1, 0), c)
                             \/ j = 1 /\ m = n /\ f.kind = "forward" /\ f.ticket = c
      BY <1>0, <1>2, <2>2, GrownHeld
    <3>. QED
      BY <1>0, <1>2, <1>w, <3>1
  <2>. QED
    BY <2>1, <2>2
<1>a. \A a \in Level, k \in Pos, t \in Nat : Ahead(a, k, t)' =>
         \/ a # 0 /\ Ahead(a, k, t)
         \/ a = 1 /\ k = n /\ t = next_ticket
         \/ a = 0 /\ k = 1 /\ t = next_ticket + 1
  <2>. SUFFICES ASSUME NEW a \in Level, NEW k \in Pos, NEW t \in Nat, Ahead(a, k, t)', a # 0
       PROVE Ahead(a, k, t) \/ (a = 1 /\ k = n /\ t = next_ticket)
    BY <1>1 DEF Ahead
  <2>1. a \in Stages /\ Fwd(a, k, t)'
    BY Levels DEF Ahead
  <2>2. Held(a, k, t)' /\ k \in Nat
    BY <1>0, <2>1 DEF Held
  <2>3. Held(a, k, t) \/ (a = 1 /\ k = n /\ t = next_ticket)
    BY <1>h, <2>1, <2>2
  <2>. QED
    BY <2>1, <2>3, FwdHeld
<1>c. \A x \in Stages, y \in Pos : Cut(x, y)' <=> Cut(x, y)
  <2>. SUFFICES ASSUME NEW x \in Stages, NEW y \in Pos PROVE Cut(x, y)' <=> Cut(x, y)
    OBVIOUS
  <2>1. Cut(x, y)' <=> Cut(x, Was(x, y, 1, 0)) \/ (x = 1 /\ y = n /\ f.kind = "truncate")
    BY <1>0, <1>2, GrownCut
  <2>. QED
    BY <1>0, <1>2, <1>w, <2>1
<1>v. Ahead(0, 1, next_ticket) /\ \A j \in Stages, m \in Nat : Older(j, m, 0, 1)
  BY <1>0, Orders DEF Ahead
<1>4. Cleared'
  <2>. SUFFICES ASSUME NEW x \in Stages, NEW j \in Stages, NEW y \in Pos, NEW m \in Nat, NEW c \in Nat,
                       Cut(x, y)', Held(j, m, c)', Older(j, m, x, y)
       PROVE c < First
    BY <1>0 DEF Cleared, Older
  <2>1. Cut(x, y)
    BY <1>c
  <2>2. ~(j = 1 /\ m = n)
    <3>. SUFFICES ASSUME j = 1, m = n PROVE FALSE
      OBVIOUS
    <3>1. x = 1
      <4>1. x <= 1
        BY <1>0, Orders
      <4>. QED
        BY <4>1 DEF Stages
    <3>2. n < y /\ y < n
      BY <1>0, <1>3, <2>1, <3>1, Orders DEF PlaceLast
    <3>. QED
      BY <1>0, <1>3, <3>2
  <2>. QED
    BY <1>h, <2>1, <2>2 DEF Rows, Cleared
<1>5. Parted'
  <2>. SUFFICES ASSUME NEW a \in Level, NEW j \in Stages, NEW k \in Pos, NEW m \in Nat, NEW t \in Nat, NEW c \in Nat,
                       Ahead(a, k, t)', Held(j, m, c)', Older(j, m, a, k), First <= t, c < First, Open(a, j)'
       PROVE Between(a, k, j, m)'
    BY <1>0 DEF Parted, Older
  <2>0. Open(a, j) /\ k \in Nat /\ a <= j
    BY <1>0, Orders
  <2>1. Held(j, m, c)
    <3>1. c # next_ticket
      BY <1>1
    <3>. QED
      BY <1>h, <3>1
  <2>2. ASSUME Between(a, k, j, m) PROVE Between(a, k, j, m)'
    BY <1>c, <2>2 DEF Between, Older
  <2>3. CASE a # 0 /\ Ahead(a, k, t)
    BY <2>0, <2>1, <2>2, <2>3 DEF Rows, Parted
  <2>4. CASE a = 1 /\ k = n /\ t = next_ticket
    <3>1. Open(0, j)
      BY <1>1, <2>0, <2>4, OpenNear
    <3>2. Between(0, 1, j, m)
      BY <1>0, <1>1, <1>v, <2>1, <3>1 DEF Rows, Parted
    <3>3. PICK x \in Stages, y \in Pos : Cut(x, y) /\ Older(j, m, x, y)
      BY <3>2 DEF Between
    <3>4. Older(x, y, a, k)
      <4>1. x = 1 => y < n
        BY <1>3, <3>3 DEF PlaceLast
      <4>2. x # 1 => 1 < x
        BY DEF Stages
      <4>. QED
        BY <2>4, <4>1, <4>2 DEF Older
    <3>. QED
      BY <2>2, <3>3, <3>4 DEF Between
  <2>5. CASE a = 0 /\ k = 1
    BY <1>0, <1>1, <1>v, <2>0, <2>1, <2>2, <2>5 DEF Rows, Parted
  <2>. QED
    BY <1>a, <2>3, <2>4, <2>5
<1>6. Accounted'
  <2>. SUFFICES ASSUME NEW a \in Level, NEW j \in Stages, NEW k \in Pos, NEW t \in Nat, NEW c \in Nat,
                       Ahead(a, k, t)', a <= j, Open(a, j)', First <= c, c < t, ~Refused(c)'
       PROVE Within(a, k, j, c)'
    BY <1>0 DEF Accounted
  <2>0. Open(a, j) /\ ~Refused(c) /\ k \in Nat
    BY <1>0
  <2>i. ASSUME NEW p \in Stages, NEW m \in Nat, Held(p, m, c)', p <= j, Older(p, m, a, k), m = 0 => p = j
        PROVE Within(a, k, j, c)'
    BY <2>i DEF Within, Older
  <2>1. ASSUME Within(a, k, j, c) PROVE Within(a, k, j, c)'
    <3>1. PICK p \in Stages, m \in Nat : Held(p, m, c) /\ p <= j /\ Older(p, m, a, k) /\ (m = 0 => p = j)
      BY <2>1 DEF Within
    <3>. QED
      BY <1>h, <2>i, <3>1
  <2>2. CASE a # 0 /\ Ahead(a, k, t)
    BY <2>0, <2>1, <2>2 DEF Rows, Accounted
  <2>3. ASSUME c < next_ticket, Open(0, j) PROVE Within(0, 1, j, c)
    <3>1. 0 <= j
      BY DEF Stages
    <3>. QED
      BY <1>0, <1>1, <1>v, <2>0, <2>3, <3>1 DEF Rows, Accounted
  <2>4. CASE a = 1 /\ k = n /\ t = next_ticket
    <3>1. Open(0, j)
      BY <1>1, <2>0, <2>4, OpenNear
    <3>2. PICK p \in Stages, m \in Nat : Held(p, m, c) /\ p <= j /\ (m = 0 => p = j)
      BY <2>3, <2>4, <3>1 DEF Within
    <3>3. Older(p, m, a, k)
      <4>1. p = 1 => m < n
        BY <1>3, <3>2 DEF PlaceLast
      <4>2. p # 1 => 1 < p
        BY DEF Stages
      <4>. QED
        BY <2>4, <4>1, <4>2 DEF Older
    <3>. QED
      BY <2>1, <3>2, <3>3 DEF Within
  <2>5. CASE a = 0 /\ k = 1 /\ t = next_ticket + 1
    <3>1. CASE c < next_ticket
      BY <2>0, <2>1, <2>3, <2>5, <3>1
    <3>2. CASE c = next_ticket
      <4>1. Held(1, n, c)' /\ 1 <= j
        BY <1>0, <1>3, <1>h, <3>2 DEF Stages
      <4>. QED
        BY <1>0, <1>3, <1>v, <2>i, <2>5, <4>1
    <3>. QED
      BY <1>1, <2>5, <3>1, <3>2
  <2>. QED
    BY <1>a, <2>2, <2>4, <2>5
<1>. QED
  BY <1>4, <1>5, <1>6 DEF Rows

\* The start of a call has them accounted for: its truncate is behind
\* everything on its way, and none of its tickets is given out.
LEMMA BeginRows ==
  ASSUME TypeOK, Ascending, Begin, Sendable
  PROVE  Rows'
<1>0. /\ 1 \in Pos /\ 1 \in Nat /\ 0 \in Nat /\ 1 \in Stages /\ 1 \in Level /\ 0 \in Level /\ next_ticket \in Nat
      /\ \A j \in Stages : j \in Level /\ j # 0 /\ 0 < j
      /\ \A k \in Pos : k \in Nat /\ k # 0
      /\ \A k \in Nat : k = 0 \/ k \in Pos
  <2>2. 1 \in Pos /\ \A k \in Pos : k \in Nat /\ k # 0
    BY DEF Pos
  <2>3. \A k \in Nat : k = 0 \/ k \in Pos
    BY DEF Pos
  <2>4. 1 \in Stages /\ \A j \in Stages : 0 < j
    BY PipelineAssumption DEF Stages
  <2>5. next_ticket \in Nat
    BY DEF TypeOK
  <2>. QED
    BY <2>2, <2>3, <2>4, <2>5, Levels
<1>1. SameCaches /\ next_ticket' = next_ticket
  BY BeginShape
<1>f. First' = next_ticket
  <2>1. starts' = Append(starts, next_ticket) /\ starts \in Seq(0 .. next_ticket) /\ next_ticket \in 0 .. next_ticket
    BY <1>0 DEF Begin, TypeOK
  <2>2. Len(starts') = Len(starts) + 1 /\ starts'[Len(starts) + 1] = next_ticket
    BY <2>1, AppendIs
  <2>. QED
    BY <2>2 DEF First
<1>2. PICK n, f : Grown(1, 0, 1, f, n) /\ f.kind = "truncate" /\ f.kind # "forward"
  <2>1. PICK n : Grown(1, 0, 1, Truncate, n)
    BY BeginShape
  <2>2. PICK f : f = Truncate /\ f.kind = "truncate" /\ f.kind # "forward"
    BY FrameFields
  <2>. QED
    BY <2>1, <2>2
<1>3. PlaceLast(1, n) /\ n \in Nat /\ n # 0 /\ n \in Pos
  BY <1>0, <1>2, GrownLast DEF PlaceLast
<1>w. \A j \in Level, k \in Nat : Was(j, k, 1, 0) = k
  BY <1>0, WasPlaces
<1>h. \A j \in Stages, m, c \in Nat : Held(j, m, c)' <=> Held(j, m, c)
  <2>. SUFFICES ASSUME NEW j \in Stages, NEW m \in Nat, NEW c \in Nat PROVE Held(j, m, c)' <=> Held(j, m, c)
    OBVIOUS
  <2>1. CASE m = 0
    BY <1>0, <1>1, <1>2, <1>3, <2>1, GrownHeld DEF SameCaches, Held
  <2>2. CASE m # 0
    <3>1. Held(j, m, c)' <=> \/ Held(j, Was(j, m, 1, 0), c)
                             \/ j = 1 /\ m = n /\ f.kind = "forward" /\ f.ticket = c
      BY <1>0, <1>2, <2>2, GrownHeld
    <3>. QED
      BY <1>0, <1>2, <1>w, <3>1
  <2>. QED
    BY <2>1, <2>2
<1>a. \A a \in Level, k \in Pos, t \in Nat : Ahead(a, k, t)' => Ahead(a, k, t)
  <2>. SUFFICES ASSUME NEW a \in Level, NEW k \in Pos, NEW t \in Nat, Ahead(a, k, t)' PROVE Ahead(a, k, t)
    OBVIOUS
  <2>1. Ahead(a, k, t)' <=> \/ Ahead(a, Was(a, k, 1, 0), t)
                            \/ a = 1 /\ k = n /\ f.kind = "forward" /\ f.ticket = t
    BY <1>0, <1>1, <1>2, GrownAhead
  <2>. QED
    BY <1>0, <1>2, <1>w, <2>1
<1>c. Cut(1, n)'
  <2>1. Cut(1, n)' <=> Cut(1, Was(1, n, 1, 0)) \/ (1 = 1 /\ n = n /\ f.kind = "truncate")
    BY <1>0, <1>2, <1>3, GrownCut
  <2>. QED
    BY <1>2, <2>1
<1>o. \A j \in Stages, m \in Nat, c \in Nat : Held(j, m, c) => c < next_ticket /\ Older(j, m, 1, n) /\ Older(j, m, 0, 1)
  <2>. SUFFICES ASSUME NEW j \in Stages, NEW m \in Nat, NEW c \in Nat, Held(j, m, c)
       PROVE c < next_ticket /\ Older(j, m, 1, n) /\ Older(j, m, 0, 1)
    OBVIOUS
  <2>1. Older(j, m, 0, 1)
    BY <1>0, Orders
  <2>2. c < next_ticket
    BY <1>0, <2>1, AheadAscends DEF Ahead
  <2>3. j = 1 => m < n
    BY <1>3 DEF PlaceLast
  <2>4. j # 1 => 1 < j
    BY DEF Stages
  <2>. QED
    BY <2>1, <2>2, <2>3, <2>4 DEF Older
<1>t. \A a \in Level, k \in Pos, t \in Nat : Ahead(a, k, t) => t <= next_ticket /\ (next_ticket <= t => a = 0 /\ k = 1)
  <2>. SUFFICES ASSUME NEW a \in Level, NEW k \in Pos, NEW t \in Nat, Ahead(a, k, t)
       PROVE t <= next_ticket /\ (next_ticket <= t => a = 0 /\ k = 1)
    OBVIOUS
  <2>1. CASE a = 0
    BY <1>0, <2>1 DEF Ahead
  <2>2. CASE a # 0
    <3>1. a \in Stages /\ k \in Nat /\ Held(a, k, t)
      BY <1>0, <2>2, Levels, FwdHeld DEF Ahead
    <3>2. t < next_ticket
      BY <1>o, <3>1
    <3>. QED
      BY <1>0, <3>2
  <2>. QED
    BY <2>1, <2>2
<1>4. Cleared'
  BY <1>f, <1>h, <1>o DEF Cleared
<1>5. Parted'
  <2>. SUFFICES ASSUME NEW a \in Level, NEW j \in Stages, NEW k \in Pos, NEW m \in Nat, NEW t \in Nat, NEW c \in Nat,
                       Ahead(a, k, t)', Held(j, m, c)', next_ticket <= t
       PROVE Between(a, k, j, m)'
    BY <1>f DEF Parted, Older
  <2>1. a = 0 /\ k = 1 /\ Older(j, m, 1, n)
    BY <1>a, <1>h, <1>o, <1>t
  <2>2. Older(1, n, 0, 1)
    BY <1>0, <1>3, Orders
  <2>. QED
    BY <1>0, <1>3, <1>c, <2>1, <2>2 DEF Between, Older
<1>6. Accounted'
  <2>. SUFFICES ASSUME NEW a \in Level, NEW k \in Pos, NEW t \in Nat, NEW c \in Nat,
                       Ahead(a, k, t)', next_ticket <= c, c < t
       PROVE FALSE
    BY <1>f DEF Accounted
  <2>1. t <= next_ticket
    BY <1>a, <1>t
  <2>. QED
    BY <1>0, <2>1
<1>. QED
  BY <1>4, <1>5, <1>6 DEF Rows

\* The first ticket of the call that runs, and the count of its tickets.
LEMMA RunFirst ==
  ASSUME TypeOK, Spent, call.at = "run"
  PROVE  /\ First \in Nat /\ next_ticket \in Nat /\ call.sent \in Nat /\ call.got \in Nat
         /\ next_ticket = First + call.sent /\ call.got <= call.sent /\ First <= next_ticket
         /\ Len(starts) \in 1 .. Len(starts)
<1>1. starts # << >> /\ starts \in Seq(0 .. next_ticket) /\ next_ticket \in Nat
  BY DEF Spent, TypeOK
<1>2. Len(starts) \in 1 .. Len(starts) /\ starts[Len(starts)] \in 0 .. next_ticket
  BY <1>1
<1>3. call.sent \in Nat /\ call.got \in Nat
  BY PipelineAssumption DEF TypeOK
<1>. QED
  BY <1>1, <1>2, <1>3 DEF First, Spent

\* A frame sent up its link is told.
LEMMA SendTells ==
  ASSUME TypedFrames, NEW f \in UpFrames, NEW i \in Stages, Len(up[i]) < Socket, up' = [up EXCEPT ![i] = Append(@, f)]
  PROVE  Told(f)'
<1>1. Len(up'[i]) = Len(up[i]) + 1 /\ Len(up[i]) \in Nat /\ up'[i][Len(up[i]) + 1] = f
  BY SendsUp
<1>2. Len(up[i]) + 1 \in 1 .. Len(up'[i])
  BY <1>1
<1>. QED
  BY <1>1, <1>2 DEF Told

\* Every step keeps a call's rows accounted for.
LEMMA StepRows ==
  ASSUME TypeOK, Spent, Ascending, Alone, [Next]_vars, call.at = "run" => Rows, call'.at = "run"
  PROVE  Rows'
<1>0. TypedFrames /\ TypedStages /\ 1 \in Nat /\ 0 \in Nat /\ 1 \in Stages
  BY Split, PipelineAssumption DEF Stages
<1>1. CASE Begin /\ Sendable
  BY <1>1, BeginRows
<1>2. CASE ~(Begin /\ Sendable)
  <2>1. /\ call.at = "run" /\ starts' = starts /\ ~Begin /\ ~Drain /\ ~TimeOut /\ ~SubmitFails /\ ~Drop
        /\ Submit => Sendable
    BY <1>2, RunSteps
  <2>2. Rows /\ First \in Nat /\ First <= next_ticket
    BY <2>1, RunFirst
  <2>3. \A a \in Level, j \in Stages : Open(a, j)' => Open(a, j)
    BY OpenStays
  <2>4. \A c \in Nat : Refused(c) => Refused(c)'
    BY <2>1, RefusedStays
  <2>5. CASE Submit
    BY <2>1, <2>2, <2>3, <2>4, <2>5, SubmitRows
  <2>6. ASSUME NEW i \in Stages, StageDecodes(i) PROVE Rows'
    <3>1. PICK u, w : DecodeShape(i, u, w)
      BY <2>6, DecodesShape
    <3>2. next_ticket' = next_ticket
      BY <2>6, StageSteps
    <3>3. PICK n : DecodeMoves(i, u, n)
      BY <3>1, <3>2, Decoding
    <3>4. u \in Nat /\ Fwd(i, 1, u) /\ serving[i]
      BY <3>1 DEF DecodeShape
    <3>. QED
      BY <2>1, <2>2, <2>3, <2>4, <3>3, <3>4, DecodeRows
  <2>7. ASSUME NEW i \in Stages, StageFails(i) PROVE Rows'
    <3>1. PICK u : FailShape(i, u)
      BY <2>7, FailsShape
    <3>2. next_ticket' = next_ticket /\ SameCaches
      BY <2>7, StageSteps DEF StageFails, SameCaches
    <3>3. PICK f \in UpFrames : f = Failure(u, i)
      BY <3>1, UpTypes DEF FailShape
    <3>4. Told(f)'
      BY <1>0, <3>1, <3>3, SendTells DEF FailShape
    <3>5. Refused(u)' /\ u \in Nat /\ Fwd(i, 1, u) /\ Shifted(i, 1)
      BY <3>1, <3>3, <3>4 DEF Refused, FailShape
    <3>. QED
      BY <1>0, <2>1, <2>2, <2>3, <2>4, <3>2, <3>5, ShiftRows
  <2>8. ASSUME NEW i \in Stages, StageTruncates(i) PROVE Rows'
    <3>1. TruncateShape(i) /\ next_ticket' = next_ticket
      BY <2>8, TruncatesShape, StageSteps
    <3>2. PICK n : CutMoves(i, n)
      BY <3>1, Cutting
    <3>3. Cut(i, 1)
      BY <3>1 DEF TruncateShape
    <3>. QED
      BY <2>1, <2>2, <2>3, <2>4, <3>2, <3>3, TruncateRows
  <2>9. CASE \/ UNCHANGED vars \/ Pump \/ Drain \/ Collect \/ SubmitFails \/ TimeOut \/ Drop \/ Read \/ WriteFails
             \/ \E i \in Stages : Closes(i) \/ StageWriteFails(i) \/ StageRelays(i)
    <3>1. /\ UNCHANGED << cache, next_ticket >>
          /\ \/ Shifted(1, 0)
             \/ \E i \in Stages, d \in Nat : Shifted(i, d) /\ ~serving'[i]
      BY <2>9, OtherShape
    <3>2. SameCaches
      BY <3>1 DEF SameCaches
    <3>3. CASE Shifted(1, 0)
      BY <1>0, <2>1, <2>2, <2>3, <2>4, <3>1, <3>2, <3>3, ShiftRows
    <3>4. ASSUME NEW i \in Stages, NEW d \in Nat, Shifted(i, d), ~serving'[i] PROVE Rows'
      <4>1. ASSUME NEW a \in Level, NEW j \in Stages, a <= i, i <= j PROVE ~Open(a, j)'
        <5>1. i \in a .. j /\ i > 0
          BY <4>1, PipelineAssumption DEF Stages, Level
        <5>. QED
          BY <3>4, <5>1 DEF Open
      <4>. QED
        BY <2>1, <2>2, <2>3, <2>4, <3>1, <3>2, <3>4, <4>1, ShiftRows
    <3>. QED
      BY <3>1, <3>3, <3>4
  <2>. QED
    BY <2>1, <2>5, <2>6, <2>7, <2>8, <2>9, StepSplits
<1>. QED
  BY <1>1, <1>2

-----------------------------------------------------------------------------
(* What was computed over a part. *)

Queued(f) == \E i \in Stages : \E k \in 1 .. Len(q[i]) : q[i][k] = f

\* Ticket t's frame or answer says that a stage lacked rows before it, or held others.
Broken(t) == Queued(Forward(t, FALSE)) \/ Told(Logits(t, FALSE)) \/ Logits(t, FALSE) \in done

\* What stage i computes for ticket t is over other rows than those before it.
Breaks(i, t) == StageDecodes(i) /\ ~Whole(i, t) /\ \E w : DecodeShape(i, t, w)

\* Frames are told apart by their fields.
LEMMA ForwardsDiffer ==
  /\ \A t, u, v, w : Forward(t, v) = Forward(u, w) => t = u /\ v = w
  /\ \A t, u, v, w : Logits(t, v) = Logits(u, w) => t = u /\ v = w
  /\ \A t, u, i, w : Failure(u, i) # Logits(t, w)
  /\ \A t, w : Forward(t, w) # Truncate /\ Logits(t, w) # Closed
  /\ \A t, w : Logits(t, w).kind = "logits" /\ Logits(t, w).ticket = t /\ Logits(t, w).whole = w
<1>1. \A t, u, v, w : Forward(t, v) = Forward(u, w) => t = u /\ v = w
  BY FrameFields
<1>2. \A t, w : Logits(t, w).kind = "logits" /\ Logits(t, w).ticket = t /\ Logits(t, w).whole = w
  BY DEF Logits
<1>3. \A t, u, v, w : Logits(t, v) = Logits(u, w) => t = u /\ v = w
  BY <1>2
<1>4. \A t, u, i, w : Failure(u, i) # Logits(t, w)
  BY <1>2, FailureIs
<1>5. \A t, w : Forward(t, w) # Truncate
  BY FrameFields
<1>6. \A t, w : Logits(t, w) # Closed
  BY <1>2, ClosedType
<1>. QED
  BY <1>1, <1>2, <1>3, <1>4, <1>5, <1>6

\* A frame in a queue was there, or is the one a step added.
LEMMA QueuedSent ==
  ASSUME TypedFrames, NEW f \in DownFrames, NEW i \in Stages, q' = [q EXCEPT ![i] = Append(@, f)], NEW g, Queued(g)'
  PROVE  Queued(g) \/ g = f
<1>1. /\ \A j \in Stages : j # i => q'[j] = q[j]
      /\ Len(q'[i]) = Len(q[i]) + 1 /\ Len(q[i]) \in Nat
      /\ \A k \in 1 .. Len(q[i]) : q'[i][k] = q[i][k]
      /\ q'[i][Len(q[i]) + 1] = f
  BY SendsQ
<1>2. ASSUME NEW j \in Stages, NEW k \in 1 .. Len(q'[j]), q'[j][k] = g PROVE Queued(g) \/ g = f
  <2>1. CASE j # i
    BY <1>1, <1>2, <2>1 DEF Queued
  <2>2. CASE j = i /\ k \in 1 .. Len(q[i])
    BY <1>1, <1>2, <2>2 DEF Queued
  <2>3. CASE j = i /\ k = Len(q[i]) + 1
    BY <1>1, <1>2, <2>3
  <2>. QED
    BY <1>1, <2>1, <2>2, <2>3
<1>. QED
  BY <1>2 DEF Queued

\* Taking a frame adds none.
LEMMA QueuedTaken ==
  ASSUME TypedFrames, NEW i \in Stages, q[i] # << >>, q' = Took(i), NEW g, Queued(g)'
  PROVE  Queued(g)
<1>1. /\ \A j \in Stages : j # i => q'[j] = q[j]
      /\ Len(q'[i]) = Len(q[i]) - 1 /\ Len(q[i]) \in Nat \ {0}
      /\ \A k \in 1 .. Len(q[i]) - 1 : q'[i][k] = q[i][k + 1]
  BY TakesQ
<1>2. ASSUME NEW j \in Stages, NEW k \in 1 .. Len(q'[j]), q'[j][k] = g PROVE Queued(g)
  <2>1. CASE j # i
    BY <1>1, <1>2, <2>1 DEF Queued
  <2>2. CASE j = i
    <3>1. Len(q'[i]) = Len(q[i]) - 1 /\ Len(q[i]) \in Nat
      BY <1>1
    <3>2. k + 1 \in 1 .. Len(q[i]) /\ k \in 1 .. Len(q[i]) - 1
      BY <2>2, <3>1
    <3>3. q[i][k + 1] = g
      BY <1>1, <1>2, <2>2, <3>2
    <3>. QED
      BY <3>2, <3>3 DEF Queued
  <2>. QED
    BY <2>1, <2>2
<1>. QED
  BY <1>2 DEF Queued

\* Passing one on adds that one.
LEMMA QueuedPassed ==
  ASSUME TypedFrames, NEW i \in Stages, i < Last, q[i] # << >>, NEW f \in DownFrames, q' = Passed(i, f), NEW g, Queued(g)'
  PROVE  Queued(g) \/ g = f
<1>0. PassedOn(q', i, f)
  BY PassesQ
<1>1. /\ i + 1 \in Stages
      /\ \A j \in Stages : j # i /\ j # i + 1 => q'[j] = q[j]
      /\ Len(q'[i]) = Len(q[i]) - 1 /\ Len(q[i]) \in Nat \ {0}
      /\ \A k \in 1 .. Len(q[i]) - 1 : q'[i][k] = q[i][k + 1]
      /\ Len(q'[i + 1]) = Len(q[i + 1]) + 1 /\ Len(q[i + 1]) \in Nat
      /\ \A k \in 1 .. Len(q[i + 1]) : q'[i + 1][k] = q[i + 1][k]
      /\ q'[i + 1][Len(q[i + 1]) + 1] = f
  BY <1>0 DEF PassedOn
<1>2. ASSUME NEW j \in Stages, NEW k \in 1 .. Len(q'[j]), q'[j][k] = g PROVE Queued(g) \/ g = f
  <2>1. CASE j # i /\ j # i + 1
    BY <1>1, <1>2, <2>1 DEF Queued
  <2>2. CASE j = i
    <3>1. Len(q'[i]) = Len(q[i]) - 1 /\ Len(q[i]) \in Nat
      BY <1>1
    <3>2. k + 1 \in 1 .. Len(q[i]) /\ k \in 1 .. Len(q[i]) - 1
      BY <2>2, <3>1
    <3>3. q[i][k + 1] = g
      BY <1>1, <1>2, <2>2, <3>2
    <3>. QED
      BY <3>2, <3>3 DEF Queued
  <2>3. CASE j = i + 1 /\ k \in 1 .. Len(q[i + 1])
    BY <1>1, <1>2, <2>3 DEF Queued
  <2>4. CASE j = i + 1 /\ k = Len(q[i + 1]) + 1
    BY <1>1, <1>2, <2>4
  <2>5. j = i + 1 => k \in 1 .. Len(q[i + 1]) \/ k = Len(q[i + 1]) + 1
    <3>1. Len(q'[i + 1]) = Len(q[i + 1]) + 1 /\ Len(q[i + 1]) \in Nat
      BY <1>1
    <3>. QED
      BY <3>1
  <2>. QED
    BY <2>1, <2>2, <2>3, <2>4, <2>5
<1>. QED
  BY <1>2 DEF Queued

\* Losing frames adds none.
LEMMA QueuedLost ==
  ASSUME TypedFrames, NEW i \in Stages, LosesSome(i), NEW g, Queued(g)'
  PROVE  Queued(g)
<1>1. PICK n \in 1 .. Len(q[i]) + 1 :
           /\ Len(q'[i]) = Len(q[i]) - n + 1 /\ Len(q[i]) \in Nat
           /\ \A k \in 1 .. Len(q[i]) - n + 1 : q'[i][k] = q[i][n + k - 1]
  BY LosesQ
<1>2. \A j \in Stages : j # i => q'[j] = q[j]
  BY LosesQ
<1>3. ASSUME NEW j \in Stages, NEW k \in 1 .. Len(q'[j]), q'[j][k] = g PROVE Queued(g)
  <2>1. CASE j # i
    BY <1>2, <1>3, <2>1 DEF Queued
  <2>2. CASE j = i
    <3>1. Len(q'[i]) = Len(q[i]) - n + 1 /\ Len(q[i]) \in Nat
      BY <1>1
    <3>2. n + k - 1 \in 1 .. Len(q[i]) /\ k \in 1 .. Len(q[i]) - n + 1
      BY <2>2, <3>1
    <3>3. q[i][n + k - 1] = g
      BY <1>1, <1>3, <2>2, <3>2
    <3>. QED
      BY <3>2, <3>3 DEF Queued
  <2>. QED
    BY <2>1, <2>2
<1>. QED
  BY <1>3 DEF Queued

\* A decode whose result is over a part got such a frame, or breaks it.
LEMMA BreaksIs ==
  ASSUME TypedFrames, NEW i \in Stages, NEW t, NEW w, StageDecodes(i), DecodeShape(i, t, w), (w /\ Whole(i, t)) = FALSE
  PROVE  Broken(t) \/ Breaks(i, t)
<1>1. CASE ~Whole(i, t)
  BY <1>1 DEF Breaks
<1>2. CASE Whole(i, t)
  <2>1. w = FALSE
    BY <1>2 DEF DecodeShape
  <2>2. q[i][1] = Forward(t, FALSE) /\ 1 \in 1 .. Len(q[i])
    BY <2>1 DEF DecodeShape, Fwd
  <2>. QED
    BY <2>2 DEF Broken, Queued
<1>. QED
  BY <1>1, <1>2

\* Where frames computed over a part come from.
LEMMA QueuedSteps ==
  ASSUME TypeOK, Spent, [Next]_vars, NEW t \in Nat, Queued(Forward(t, FALSE))'
  PROVE  \/ Broken(t)
         \/ Submit /\ Sendable /\ t = next_ticket /\ Whole(0, next_ticket) = FALSE
         \/ \E i \in Stages : Breaks(i, t)
<1>0. TypedFrames /\ 1 \in Stages /\ Truncate \in DownFrames
  BY Split, DownTypes, PipelineAssumption DEF Stages
<1>1. PICK g : g = Forward(t, FALSE) /\ Queued(g)' /\ g # Truncate
  BY ForwardsDiffer
<1>q. Queued(g) => Broken(t)
  BY <1>1 DEF Broken
<1>2. CASE UNCHANGED q
  BY <1>1, <1>2, <1>q DEF Queued
<1>3. CASE Begin /\ ~UNCHANGED q
  <2>1. q' = [q EXCEPT ![1] = Append(@, Truncate)]
    BY <1>3 DEF Begin, Send
  <2>. QED
    BY <1>0, <1>1, <1>q, <2>1, QueuedSent
<1>4. CASE Submit /\ ~UNCHANGED q
  <2>1. q' = [q EXCEPT ![1] = Append(@, Forward(next_ticket, Whole(0, next_ticket)))] /\ Sendable
    BY <1>4 DEF Submit, Send
  <2>2. next_ticket \in Tickets /\ Whole(0, next_ticket) \in BOOLEAN
    BY <1>4, SubmitShape, WholeTypes
  <2>3. PICK f \in DownFrames : f = Forward(next_ticket, Whole(0, next_ticket))
    BY <2>2, DownTypes
  <2>4. Queued(g) \/ g = f
    BY <1>0, <1>1, <2>1, <2>3, QueuedSent
  <2>5. g = f => t = next_ticket /\ FALSE = Whole(0, next_ticket)
    BY <1>1, <2>3, ForwardsDiffer
  <2>. QED
    BY <1>4, <1>q, <2>1, <2>4, <2>5
<1>5. ASSUME NEW i \in Stages, StageDecodes(i) PROVE Broken(t) \/ Breaks(i, t)
  <2>1. PICK u, w : DecodeShape(i, u, w)
    BY <1>5, DecodesShape
  <2>2. q[i] # << >> /\ Frame(i).ticket = u /\ Frame(i).whole = w /\ u \in Tickets /\ w \in BOOLEAN
    BY <1>5, <2>1 DEF StageDecodes, DecodeShape
  <2>v. PICK v \in BOOLEAN : v = (w /\ Whole(i, u))
    OBVIOUS
  <2>3. PICK f \in DownFrames : f = Forward(u, v)
    BY <2>2, DownTypes
  <2>4. (i < Last /\ q' = Passed(i, f)) \/ q' = Took(i)
    BY <1>5, <2>2, <2>3, <2>v DEF StageDecodes
  <2>5. Queued(g) \/ g = f
    <3>1. CASE i < Last /\ q' = Passed(i, f)
      BY <1>0, <1>1, <2>2, <3>1, QueuedPassed
    <3>2. CASE q' = Took(i)
      BY <1>0, <1>1, <2>2, <3>2, QueuedTaken
    <3>. QED
      BY <2>4, <3>1, <3>2
  <2>7. g = f => t = u /\ FALSE = v
    BY <1>1, <2>3, ForwardsDiffer
  <2>6. g = f => t = u /\ (w /\ Whole(i, u)) = FALSE
    BY <2>7, <2>v
  <2>. QED
    BY <1>0, <1>5, <1>q, <2>1, <2>5, <2>6, BreaksIs
<1>6. ASSUME NEW i \in Stages, StageFails(i) PROVE Broken(t)
  <2>1. q[i] # << >> /\ q' = Took(i)
    BY <1>6 DEF StageFails
  <2>. QED
    BY <1>0, <1>1, <1>q, <2>1, QueuedTaken
<1>7. ASSUME NEW i \in Stages, StageTruncates(i) PROVE Broken(t)
  <2>1. q[i] # << >> /\ ((i < Last /\ q' = Passed(i, Truncate)) \/ q' = Took(i))
    BY <1>7 DEF StageTruncates
  <2>. QED
    BY <1>0, <1>1, <1>q, <2>1, QueuedTaken, QueuedPassed
<1>8. ASSUME NEW i \in Stages, Closes(i) PROVE Broken(t)
  <2>1. LosesSome(i)
    BY <1>8, ClosingKeeps
  <2>. QED
    BY <1>0, <1>1, <1>q, <2>1, QueuedLost
<1>9. CASE \/ UNCHANGED vars \/ Pump \/ Drain \/ Collect \/ SubmitFails \/ TimeOut \/ Drop \/ Read \/ WriteFails
           \/ \E i \in Stages : StageWriteFails(i) \/ StageRelays(i)
  BY <1>2, <1>9 DEF vars, Pump, Drain, Collect, SubmitFails, TimeOut, Drop, Read, WriteFails, driverVars, StageWriteFails, StageRelays
<1>. QED
  BY <1>2, <1>3, <1>4, <1>5, <1>6, <1>7, <1>8, <1>9, StepSplits

\* Where answers computed over a part come from.
LEMMA ToldSteps ==
  ASSUME TypeOK, Spent, [Next]_vars, NEW t \in Nat, Told(Logits(t, FALSE))'
  PROVE  Broken(t) \/ \E i \in Stages : Breaks(i, t)
<1>0. TypedFrames
  BY Split
<1>1. PICK a : a = Logits(t, FALSE) /\ Told(a)'
  OBVIOUS
<1>d. a # Closed /\ \A u, i : a # Failure(u, i)
  BY <1>1, ForwardsDiffer
<1>2. Told(a) \/ Answered(a)
  BY <1>1, <1>d, StepTold DEF Blamed
<1>3. CASE Told(a)
  BY <1>1, <1>3 DEF Broken
<1>4. CASE Answered(a)
  <2>1. PICK i \in Stages : StageDecodes(i) /\ a = Logits(Frame(i).ticket, Frame(i).whole /\ Whole(i, Frame(i).ticket))
    BY <1>d, <1>4 DEF Answered
  <2>2. PICK u, w : DecodeShape(i, u, w)
    BY <2>1, DecodesShape
  <2>v. PICK v \in BOOLEAN : v = (w /\ Whole(i, u))
    OBVIOUS
  <2>3. a = Logits(u, v)
    BY <2>1, <2>2, <2>v DEF DecodeShape
  <2>6. a.ticket = t /\ a.whole = FALSE
    BY <1>1 DEF Logits
  <2>7. a.ticket = u /\ a.whole = v
    BY <2>3 DEF Logits
  <2>5. t = u /\ FALSE = v
    BY <2>6, <2>7
  <2>4. t = u /\ (w /\ Whole(i, u)) = FALSE
    BY <2>5, <2>v
  <2>. QED
    BY <1>0, <2>1, <2>2, <2>4, BreaksIs
<1>. QED
  BY <1>2, <1>3, <1>4

\* What the driver keeps is an answer it took from its channel.
LEMMA DoneSteps ==
  ASSUME TypeOK, [Next]_vars, NEW a, a \in done'
  PROVE  a \in done \/ (Pump /\ inbox # << >> /\ a = Head(inbox) /\ Told(a) /\ Settled(a) /\ a.ticket \in pending)
<1>0. TypedFrames
  BY Split
<1>1. CASE Pump /\ a \notin done
  <2>1. inbox # << >> /\ Settled(Head(inbox))
    BY <1>1 DEF Pump
  <2>2. a = Head(inbox) /\ a.ticket \in pending
    BY <1>1, <2>1 DEF Settled
  <2>. QED
    BY <1>0, <1>1, <2>1, <2>2, ItemTold
<1>2. Collect => done' \subseteq done
  BY DEF Collect
<1>3. ~Collect /\ ~Pump => done' = done
  BY StepSplits, StepThreads DEF Begin, Submit, SubmitFails, TimeOut, Drop, Drain
<1>. QED
  BY <1>1, <1>2, <1>3

\* Where tickets computed over a part come from.
LEMMA BrokenSteps ==
  ASSUME TypeOK, Spent, [Next]_vars, NEW t \in Nat, Broken(t)'
  PROVE  \/ Broken(t)
         \/ Submit /\ Sendable /\ t = next_ticket /\ Whole(0, next_ticket) = FALSE
         \/ \E i \in Stages : Breaks(i, t)
<1>1. CASE Queued(Forward(t, FALSE))'
  BY <1>1, QueuedSteps
<1>2. CASE Told(Logits(t, FALSE))'
  BY <1>2, ToldSteps
<1>3. CASE Logits(t, FALSE) \in done'
  <2>1. Logits(t, FALSE) \in done \/ Told(Logits(t, FALSE))
    BY <1>3, DoneSteps
  <2>. QED
    BY <2>1 DEF Broken
<1>4. Broken(t)' <=> Queued(Forward(t, FALSE))' \/ Told(Logits(t, FALSE))' \/ Logits(t, FALSE) \in done'
  BY DEF Broken, Forward, Logits
<1>. QED
  BY <1>1, <1>2, <1>3, <1>4

\* Positions are counted from the first ticket of the call.
LEMMA StartIs ==
  ASSUME TypeOK, Spent, StartsRise, call.at = "run", NEW t \in Nat, First <= t
  PROVE  StartOf(t) = First
<1>1. First \in Nat /\ Len(starts) \in 1 .. Len(starts)
  BY RunFirst
<1>2. starts \in Seq(0 .. next_ticket) /\ next_ticket \in Nat
  BY DEF TypeOK
<1>3. DOMAIN starts = 1 .. Len(starts) /\ Len(starts) \in Nat /\ \A m \in 1 .. Len(starts) : starts[m] \in Nat
  BY <1>2
<1>4. First \in Starts
  BY <1>1, <1>3 DEF First, Starts
<1>5. \A s \in Starts : s \in Nat /\ s <= First
  <2>1. ASSUME NEW m \in 1 .. Len(starts) PROVE starts[m] \in Nat /\ starts[m] <= First
    <3>1. m <= Len(starts)
      BY <1>3
    <3>. QED
      BY <1>1, <1>3, <3>1 DEF StartsRise, First
  <2>. QED
    BY <1>3, <2>1 DEF Starts
<1>. DEFINE P(s) == s <= t /\ \A k \in Starts : k <= t => k <= s
<1>6. P(First)
  BY <1>5
<1>7. \A s \in Starts : P(s) => s = First
  BY <1>1, <1>4, <1>5
<1>8. StartOf(t) = CHOOSE s \in Starts : P(s)
  BY DEF StartOf
<1>9. \E s \in Starts : P(s)
  BY <1>4, <1>6
<1>. HIDE DEF P
<1>. QED
  BY <1>7, <1>8, <1>9

\* The driver's own cache holds the rows of the call.
Own == cache[0] = First .. (next_ticket - 1)

\* What is computed over a part comes after a ticket of the same call that
\* a stage refused, whose failure the call has not collected yet.
Flags == \A t \in Nat : Broken(t) /\ First <= t => \E c \in Nat : First <= c /\ c < t /\ Refused(c)

\* The answers the call collected are gone, and nothing more comes of them.
Collected == \A c \in Nat : First <= c /\ c < First + call.got => c \notin pending /\ \A a \in done : a.ticket # c

\* One answer to a ticket.
Distinct == \A a, b \in done : a.ticket = b.ticket => a = b

\* The start of a call.
LEMMA BeginFirst ==
  ASSUME TypeOK, Begin, Sendable
  PROVE  /\ First' = next_ticket /\ next_ticket' = next_ticket /\ next_ticket \in Nat /\ call'.got = 0
         /\ starts' # starts /\ cache'[0] = {} /\ call.at = "idle"
<1>1. starts \in Seq(0 .. next_ticket) /\ next_ticket \in 0 .. next_ticket /\ next_ticket \in Nat
  BY DEF TypeOK
<1>2. starts' = Append(starts, next_ticket) /\ next_ticket' = next_ticket /\ call' = [Idle EXCEPT !.at = "run"]
      /\ cache' = [cache EXCEPT ![0] = {}] /\ call.at = "idle"
  BY DEF Begin, Send
<1>3. Len(starts') = Len(starts) + 1 /\ Len(starts) \in Nat /\ starts'[Len(starts) + 1] = next_ticket
  BY <1>1, <1>2
<1>4. First' = next_ticket /\ starts' # starts
  BY <1>3 DEF First
<1>5. call'.got = 0
  BY <1>2 DEF Idle
<1>6. cache \in [0 .. Last -> SUBSET Tickets] /\ 0 \in 0 .. Last
  BY PipelineAssumption DEF TypeOK
<1>. QED
  BY <1>1, <1>2, <1>4, <1>5, <1>6

\* Every step keeps the driver's own cache at the rows of the call.
LEMMA StepOwn ==
  ASSUME TypeOK, Spent, [Next]_vars, call.at = "run" => Own, call'.at = "run"
  PROVE  Own'
<1>1. CASE Begin /\ Sendable
  <2>1. First' = next_ticket /\ next_ticket' = next_ticket /\ next_ticket \in Nat /\ cache'[0] = {}
    BY <1>1, BeginFirst
  <2>2. next_ticket .. (next_ticket - 1) = {}
    BY <2>1
  <2>3. Own' <=> cache'[0] = First' .. (next_ticket' - 1)
    BY DEF Own
  <2>. QED
    BY <2>1, <2>2, <2>3
<1>2. CASE ~(Begin /\ Sendable)
  <2>1. call.at = "run" /\ starts' = starts /\ ~Begin
    BY <1>2, RunSteps
  <2>2. Own /\ First' = First /\ First \in Nat /\ First <= next_ticket /\ next_ticket \in Nat
    BY <2>1, RunFirst DEF First
  <2>3. cache \in [0 .. Last -> SUBSET Tickets] /\ 0 \in 0 .. Last /\ \A i \in Stages : i # 0
    BY PipelineAssumption DEF TypeOK, Stages
  <2>4. CASE Submit
    <3>1. cache'[0] = cache[0] \cup {next_ticket} /\ next_ticket' = next_ticket + 1
      BY <2>3, <2>4 DEF Submit
    <3>2. First .. next_ticket = (First .. (next_ticket - 1)) \cup {next_ticket}
      BY <2>2
    <3>3. (next_ticket + 1) - 1 = next_ticket
      BY <2>2
    <3>. QED
      BY <2>2, <3>1, <3>2, <3>3 DEF Own
  <2>5. CASE ~Submit
    <3>1. next_ticket' = next_ticket
      BY <2>1, <2>5, StepSplits, StepThreads DEF Pump, Drain, Collect, SubmitFails, TimeOut, Drop
    <3>2. ASSUME NEW i \in Stages, StageDecodes(i) \/ StageTruncates(i) PROVE cache'[0] = cache[0]
      BY <2>3, <3>2 DEF StageDecodes, StageTruncates
    <3>3. ASSUME \/ UNCHANGED vars \/ Pump \/ Drain \/ Collect \/ SubmitFails \/ TimeOut \/ Drop \/ Read \/ WriteFails
                 \/ \E i \in Stages : Closes(i) \/ StageWriteFails(i) \/ StageRelays(i)
          PROVE cache'[0] = cache[0]
      BY <3>3, OtherShape
    <3>5. ASSUME NEW i \in Stages, StageFails(i) PROVE cache'[0] = cache[0]
      BY <3>5 DEF StageFails
    <3>4. cache'[0] = cache[0]
      BY <2>1, <2>5, <3>2, <3>3, <3>5, StepSplits
    <3>. QED
      BY <2>2, <3>1, <3>4 DEF Own
  <2>. QED
    BY <2>4, <2>5
<1>. QED
  BY <1>1, <1>2

\* Only a ticket that was given out is computed over a part.
LEMMA BrokenBelow ==
  ASSUME TypeOK, Ascending, Alone, Below, NEW t \in Nat, Broken(t)
  PROVE  t < next_ticket
<1>0. TypedFrames
  BY Split
<1>t. PICK a : a = Logits(t, FALSE)
  OBVIOUS
<1>1. a = Logits(t, FALSE) /\ a.ticket = t /\ a.kind = "logits"
  BY <1>t DEF Logits
<1>2. CASE Queued(Forward(t, FALSE))
  <2>0. PICK i \in Stages : \E k \in 1 .. Len(q[i]) : q[i][k] = Forward(t, FALSE)
    BY <1>2 DEF Queued
  <2>1. PICK k \in 1 .. Len(q[i]) : q[i][k] = Forward(t, FALSE)
    BY <2>0
  <2>2. Fwd(i, k, t)
    BY <2>1 DEF Fwd, Forward
  <2>3. k \in Pos
    BY <2>2, FwdIs
  <2>. QED
    BY <2>2, <2>3 DEF Ascending
<1>3. CASE Told(a)
  <2>1. Coming(t)
    BY <1>0, <1>1, <1>3, ToldComes
  <2>. QED
    BY <2>1 DEF Alone, Below
<1>4. CASE a \in done
  BY <1>1, <1>4 DEF TypeOK
<1>. QED
  BY <1>1, <1>2, <1>3, <1>4 DEF Broken

\* A stage that computes over other rows than those before lacks one that was refused.
LEMMA BreakRefused ==
  ASSUME TypeOK, Spent, StartsRise, Ascending, Rows, call.at = "run", NEW i \in Stages, NEW t \in Nat, Breaks(i, t), First <= t
  PROVE  \E c \in Nat : First <= c /\ c < t /\ Refused(c)
<1>0. First \in Nat /\ StartOf(t) = First /\ i \in Level /\ i \in Nat /\ 1 \in Pos /\ 0 \in Nat /\ 1 \in Nat
  <2>1. First \in Nat /\ StartOf(t) = First
    BY RunFirst, StartIs
  <2>2. 1 \in Pos
    BY DEF Pos
  <2>3. i \in Nat
    BY DEF Stages
  <2>. QED
    BY <2>1, <2>2, <2>3, Levels
<1>1. cache[i] \cup {t} # First .. t
  BY <1>0 DEF Breaks, Whole
<1>2. Fwd(i, 1, t) /\ serving[i]
  BY DEF Breaks, DecodeShape
<1>3. Ahead(i, 1, t) /\ Open(i, i) /\ Older(i, 0, i, 1)
  <2>1. Older(i, 0, i, 1)
    BY <1>0 DEF Older
  <2>. QED
    BY <1>0, <1>2, <2>1, FwdHeld, OpenNear
<1>4. \A c \in cache[i] : c \in Nat /\ c < t
  BY <1>0, <1>2, CachesNat DEF Ascending
<1>5. ASSUME NEW c \in cache[i], c < First PROVE FALSE
  <2>1. Held(i, 0, c) /\ c \in Nat
    BY <1>4 DEF Held
  <2>2. Between(i, 1, i, 0)
    BY <1>0, <1>3, <1>5, <2>1 DEF Rows, Parted
  <2>3. PICK x \in Stages, y \in Pos : Cut(x, y) /\ Older(x, y, i, 1) /\ Older(i, 0, x, y) /\ i <= x /\ x <= i
    BY <1>0, <2>2, BetweenIs
  <2>4. x = i /\ y \in Nat /\ y # 0
    BY <2>3 DEF Stages, Pos
  <2>5. y < 1
    BY <1>0, <2>3, <2>4 DEF Older
  <2>. QED
    BY <2>4, <2>5
<1>6. ASSUME NEW c \in Nat, First <= c, c < t, c \notin cache[i] PROVE Refused(c)
  <2>1. Refused(c) \/ Within(i, 1, i, c)
    BY <1>0, <1>3, <1>6 DEF Rows, Accounted
  <2>2. CASE Within(i, 1, i, c)
    <3>1. PICK p \in Stages : \E m \in Nat : Held(p, m, c) /\ p <= i /\ Older(p, m, i, 1) /\ (m = 0 => p = i)
      BY <2>2 DEF Within
    <3>2. PICK m \in Nat : Held(p, m, c) /\ p <= i /\ Older(p, m, i, 1) /\ (m = 0 => p = i)
      BY <3>1
    <3>3. p \in Nat
      BY DEF Stages
    <3>4. p = i /\ m = 0
      BY <1>0, <3>2, <3>3 DEF Older
    <3>. QED
      BY <1>6, <3>2, <3>4 DEF Held
  <2>. QED
    BY <2>1, <2>2
<1>7. CASE (\A c \in cache[i] : ~(c < First)) /\ \A c \in Nat : First <= c /\ c < t => c \in cache[i]
  <2>1. \A c \in First .. t : c \in cache[i] \cup {t}
    BY <1>0, <1>7
  <2>2. \A c \in cache[i] \cup {t} : c \in First .. t
    BY <1>0, <1>4, <1>7
  <2>. QED
    BY <1>1, <2>1, <2>2
<1>. QED
  BY <1>5, <1>6, <1>7

\* Every step keeps it so that what is computed over a part comes after a
\* ticket of the same call that a stage refused.
LEMMA StepFlags ==
  ASSUME TypeOK, Spent, StartsRise, Below, Ascending, Alone, [Next]_vars,
         call.at = "run" => Own /\ Rows /\ Flags, call'.at = "run"
  PROVE  Flags'
<1>0. next_ticket \in Nat
  BY DEF TypeOK
<1>1. CASE Begin /\ Sendable
  <2>1. First' = next_ticket /\ starts' # starts /\ call.at = "idle"
    BY <1>1, BeginFirst
  <2>2. ASSUME NEW t \in Nat, Broken(t)' PROVE t < next_ticket
    <3>1. ~Submit /\ \A i \in Stages : ~Breaks(i, t)
      BY <2>1, StageSteps DEF Submit, Submits, Breaks
    <3>2. Broken(t)
      BY <2>2, <3>1, BrokenSteps
    <3>. QED
      BY <3>2, BrokenBelow
  <2>3. \A t \in Nat : t < next_ticket => ~(First' <= t)
    BY <1>0, <2>1
  <2>. QED
    BY <2>2, <2>3 DEF Flags
<1>2. CASE ~(Begin /\ Sendable)
  <2>1. call.at = "run" /\ starts' = starts /\ ~Begin
    BY <1>2, RunSteps
  <2>2. Own /\ Rows /\ Flags /\ First' = First /\ First \in Nat /\ First <= next_ticket
    BY <2>1, RunFirst DEF First
  <2>3. \A c \in Nat : Refused(c) => Refused(c)'
    BY <2>1, RefusedStays
  <2>4. ASSUME NEW t \in Nat, Broken(t)', First <= t PROVE \E c \in Nat : First <= c /\ c < t /\ Refused(c)
    <3>1. CASE Broken(t)
      BY <2>2, <2>4, <3>1 DEF Flags
    <3>2. CASE Whole(0, next_ticket) = FALSE
      <4>1. StartOf(next_ticket) = First
        BY <1>0, <2>1, <2>2, StartIs
      <4>2. First .. next_ticket = (First .. (next_ticket - 1)) \cup {next_ticket}
        BY <1>0, <2>2
      <4>3. Whole(0, next_ticket)
        BY <2>2, <4>1, <4>2 DEF Whole, Own
      <4>. QED
        BY <3>2, <4>3
    <3>3. ASSUME NEW i \in Stages, Breaks(i, t) PROVE \E c \in Nat : First <= c /\ c < t /\ Refused(c)
      BY <2>1, <2>2, <2>4, <3>3, BreakRefused
    <3>. QED
      BY <2>4, <3>1, <3>2, <3>3, BrokenSteps
  <2>. QED
    BY <2>2, <2>3, <2>4 DEF Flags
<1>. QED
  BY <1>1, <1>2

\* Every step keeps the answers to different tickets.
LEMMA StepDistinct ==
  ASSUME TypeOK, Distinct, [Next]_vars
  PROVE  Distinct'
<1>1. \A a \in done : a.ticket \notin pending
  BY DEF TypeOK
<1>2. \A a \in done' : a \in done \/ (a = Head(inbox) /\ a.ticket \in pending)
  BY DoneSteps
<1>. QED
  BY <1>1, <1>2 DEF Distinct

\* Every step keeps the answers the call collected out of what is kept.
LEMMA StepTaken ==
  ASSUME TypeOK, Spent, Distinct, [Next]_vars, call.at = "run" => Collected, call'.at = "run"
  PROVE  Collected'
<1>1. CASE Begin /\ Sendable
  <2>1. First' = next_ticket /\ next_ticket \in Nat /\ call'.got = 0
    BY <1>1, BeginFirst
  <2>2. \A c \in Nat : ~(First' <= c /\ c < First' + call'.got)
    BY <2>1
  <2>. QED
    BY <2>2 DEF Collected
<1>2. CASE ~(Begin /\ Sendable)
  <2>1. /\ call.at = "run" /\ starts' = starts /\ ~Begin /\ ~Drain /\ ~TimeOut /\ ~SubmitFails /\ ~Drop
    BY <1>2, RunSteps
  <2>2. /\ Collected /\ First' = First /\ First \in Nat /\ call.got \in Nat /\ call.sent \in Nat
        /\ next_ticket = First + call.sent /\ call.got <= call.sent
    BY <2>1, RunFirst DEF First
  <2>3. call \in CallType
    BY DEF TypeOK, CallType
  <2>4. \A a \in done : a.ticket \notin pending
    BY DEF TypeOK
  <2>5. \A t \in pending' : t \in pending \/ t = next_ticket
    BY PendingSteps DEF Settled
  <2>6. \A a \in done' : a \in done \/ a.ticket \in pending
    BY DoneSteps
  <2>7. ASSUME NEW c \in Nat, First <= c, c < First + call.got
        PROVE c \notin pending' /\ \A a \in done' : a.ticket # c
    <3>1. c \notin pending /\ \A a \in done : a.ticket # c
      BY <2>2, <2>7 DEF Collected
    <3>2. c # next_ticket
      BY <2>2, <2>7
    <3>. QED
      BY <2>5, <2>6, <3>1, <3>2
  <2>8. call'.got = call.got \/ (Collect /\ call'.got = call.got + 1)
    <3>1. Submit => call'.got = call.got
      BY <2>1, <2>3, RunSteps, <1>2 DEF Submit, Send, CallType
    <3>2. Pump => call'.got = call.got
      <4>1. \A a : [call EXCEPT !.at = a].got = call.got
        BY <2>3 DEF CallType
      <4>2. Idle.at # "run"
        BY DEF Idle
      <4>. QED
        BY <4>1, <4>2 DEF Pump, Returned
    <3>3. Collect => call'.got = call.got + 1
      <4>1. [call EXCEPT !.got = @ + 1].got = call.got + 1
        BY <2>3 DEF CallType
      <4>2. Idle.at # "run"
        BY DEF Idle
      <4>. QED
        BY <4>1, <4>2 DEF Collect
    <3>4. ~Submit /\ ~Pump /\ ~Collect => call' = call
      BY <2>1, StepSplits, StepThreads
    <3>. QED
      BY <3>1, <3>2, <3>3, <3>4
  <2>9. ASSUME Collect PROVE First + call.got \notin pending' /\ \A a \in done' : a.ticket # First + call.got
    <3>1. PICK b \in Ended(Awaited) : done' = done \ {b}
      BY <2>9 DEF Collect
    <3>2. Awaited = First + call.got
      BY <2>2 DEF Awaited
    <3>3. b \in done /\ b.ticket = First + call.got
      BY <3>1, <3>2 DEF Ended
    <3>4. pending' = pending
      BY <2>9 DEF Collect
    <3>. QED
      BY <2>4, <3>1, <3>3, <3>4 DEF Distinct
  <2>10. ASSUME NEW c \in Nat, First <= c, c < First + call'.got
         PROVE c \notin pending' /\ \A a \in done' : a.ticket # c
    <3>1. CASE c < First + call.got
      BY <2>7, <2>10, <3>1
    <3>2. CASE ~(c < First + call.got)
      <4>1. Collect /\ c = First + call.got
        BY <2>2, <2>8, <2>10, <3>2
      <4>. QED
        BY <2>9, <4>1
    <3>. QED
      BY <3>1, <3>2
  <2>. QED
    BY <2>2, <2>10 DEF Collected
<1>. QED
  BY <1>1, <1>2

\* All of it.
SInv == FInv /\ Distinct /\ (call.at = "run" => Own /\ Rows /\ Flags /\ Collected)

\* What the program starts in.
LEMMA InitSInv == Init => SInv
<1>1. Init => call.at = "idle" /\ done = {}
  BY DEF Init, Idle
<1>. QED
  BY <1>1, InitFInv DEF SInv, Distinct

\* Every step keeps all of it.
LEMMA StepSInv == SInv /\ [Next]_vars => SInv'
<1>. SUFFICES ASSUME SInv, [Next]_vars PROVE SInv'
  OBVIOUS
<1>1. FInv /\ TypeOK /\ Spent /\ StartsRise /\ Below /\ Ascending /\ Alone /\ Distinct
      /\ (call.at = "run" => Own /\ Rows /\ Flags /\ Collected)
  BY DEF SInv, FInv, CInv
<1>2. FInv' /\ Distinct'
  BY <1>1, StepFInv, StepDistinct
<1>3. ASSUME call'.at = "run" PROVE Own' /\ Rows' /\ Flags' /\ Collected'
  <2>1. Own'
    BY <1>1, <1>3, StepOwn
  <2>2. Rows'
    BY <1>1, <1>3, StepRows
  <2>3. Flags'
    BY <1>1, <1>3, StepFlags
  <2>4. Collected'
    BY <1>1, <1>3, StepTaken
  <2>. QED
    BY <2>1, <2>2, <2>3, <2>4
<1>. QED
  BY <1>2, <1>3 DEF SInv

\* An answer over a part comes after a failure not yet collected, so it is
\* not the one the call waits for.
LEMMA WholeSampled == SInv => SampledWhole
<1>. SUFFICES ASSUME SInv, NEW a \in SampledFrom, ~a.whole PROVE FALSE
  BY DEF SampledWhole
<1>1. TypeOK /\ Spent /\ Alone /\ TypedFrames
  BY Split DEF SInv, FInv, CInv
<1>2. a \in done /\ call.at = "run" /\ a.ticket = Awaited /\ a.kind = "logits"
  BY DEF SampledFrom, Waits
<1>3. Flags /\ Collected
  BY <1>2 DEF SInv
<1>4. /\ First \in Nat /\ call.got \in Nat /\ call.sent \in Nat /\ next_ticket = First + call.sent
  BY <1>1, <1>2, RunFirst
<1>5. a.ticket = First + call.got
  BY <1>2, <1>4 DEF Awaited
<1>6. a = Logits(a.ticket, a.whole) /\ a.whole \in BOOLEAN
  BY <1>1, <1>2, AnswerTypes DEF TypeOK
<1>7. a.whole = FALSE
  BY <1>6
<1>8. Broken(First + call.got)
  BY <1>2, <1>5, <1>6, <1>7 DEF Broken
<1>9. First + call.got \in Nat /\ First <= First + call.got
  BY <1>4
<1>10. PICK c \in Nat : First <= c /\ c < First + call.got /\ Refused(c)
  BY <1>3, <1>8, <1>9 DEF Flags
<1>11. c \notin pending /\ \A b \in done : b.ticket # c
  BY <1>3, <1>10 DEF Collected
<1>12. PICK i \in Stages : Told(Failure(c, i)) \/ Failure(c, i) \in done
  BY <1>10 DEF Refused
<1>13. PICK b : b = Failure(c, i) /\ b.kind = "failure" /\ b.ticket = c
  BY FailureIs
<1>14. CASE Told(b)
  BY <1>1, <1>11, <1>13, <1>14, ToldComes DEF Alone
<1>15. CASE b \in done
  BY <1>11, <1>13, <1>15
<1>. QED
  BY <1>12, <1>13, <1>14, <1>15

\* A reply is sampled only from logits every stage computed over exactly the
\* rows this call submitted before.
THEOREM FromTheWhole == Spec => []SampledWhole
<1>. QED
  BY InitSInv, StepSInv, WholeSampled, PTL DEF Spec
===============================================================================
