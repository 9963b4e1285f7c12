--------------------------- MODULE ModelResidency ---------------------------
(***************************************************************************)
(* What Engines (praecise-host/src/engines.rs) keeps of what its           *)
(* documentation promises: a model has one holder at a time, is admitted   *)
(* only if its bytes fit beside those of every other, and gives them up    *)
(* only when it is released.  The documentation makes no exception; the    *)
(* code does not keep this for a model on which a claim and a release have *)
(* overlapped, and such a model is lost here.                              *)
(***************************************************************************)
EXTENDS Integers, Functions

CONSTANTS Models, Kinds, Sizes, Total

VARIABLES status, holder, size
vars == <<status, holder, size>>

Init ==
  /\ status = [m \in Models |-> "absent"]
  /\ holder = [m \in Models |-> "none"]
  /\ size = [m \in Models |-> 0]

Set(m, s, k, b) ==
  /\ status' = [status EXCEPT ![m] = s]
  /\ holder' = [holder EXCEPT ![m] = k]
  /\ size' = [size EXCEPT ![m] = b]

Admit(m, k, b) ==
  /\ status[m] = "absent"
  /\ b = 0 \/ b + FoldFunction(+, 0, size) <= Total
  /\ Set(m, "loading", k, b)

Settle(m) ==
  /\ status[m] = "loading"
  /\ Set(m, "loaded", holder[m], size[m])

Unload(m) ==
  /\ status[m] \in {"loading", "loaded"}
  /\ Set(m, "absent", "none", 0)

Lose(m) ==
  /\ status[m] # "lost"
  /\ Set(m, "lost", "none", 0)

Next ==
  \E m \in Models :
    \/ \E k \in Kinds, b \in Sizes : Admit(m, k, b)
    \/ Settle(m) \/ Unload(m) \/ Lose(m)

Spec == Init /\ [][Next]_vars
=============================================================================
