---------------------------- MODULE MCAdmission ----------------------------
(* A heavy caller with two requests, a light one of twice the weight with *)
(* one interactive and one batch request, and a request that names nobody.  *)
EXTENDS Admission, TLC

CONSTANTS h1, h2, l1, l2, n1
MCClients == {"heavy", "light"}
MCRequests == {h1, h2, l1, l2, n1}
MCAnonymous == {n1}
MCClientOf == [r \in MCRequests |-> IF r \in {l1, l2} THEN "light" ELSE "heavy"]
MCClassOf == [r \in MCRequests |-> IF r = l2 THEN "batch" ELSE "interactive"]
MCPrompt == [r \in MCRequests |-> IF r = l2 THEN 2 ELSE 1]
MCBudget == [r \in MCRequests |-> IF r = l2 THEN 0 ELSE 2]
MCWeight == [c \in MCClients |-> IF c = "light" THEN 2 ELSE 1]
MCSlotCounts == {1, 2}
\* The heavy caller's requests are alike.
MCSymmetry == Permutations({h1, h2})
=============================================================================
