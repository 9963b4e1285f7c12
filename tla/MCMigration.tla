---------------------------- MODULE MCMigration ----------------------------
(* Two requests; the engine they come to, one of the same weights with a     *)
(* smaller context, and one of other weights.                                *)
EXTENDS Migration, TLC
CONSTANTS r, s
MCRequests == {r, s}
MCSymmetry == Permutations(MCRequests)
MCWeights == [home |-> "w", away |-> "w", other |-> "v"]
MCContext == [home |-> 4, away |-> 2, other |-> 4]
=============================================================================
