----------------------------- MODULE MCExperts -----------------------------
(* Three experts, of which two fit in memory together and the third exceeds  *)
(* the budget alone; two threads.                                            *)
EXTENDS Experts, TLC
CONSTANTS t1, t2, a, b, big
MCThreads == {t1, t2}
MCKeys == {a, b, big}
MCSize == [k \in MCKeys |-> IF k = big THEN 3 ELSE 1]
MCSymmetry == Permutations(MCThreads) \cup Permutations({a, b})
=============================================================================
