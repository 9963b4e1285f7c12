------------------------------- MODULE MCBatch -------------------------------
EXTENDS Batch

CONSTANTS r1, r2, r3, a, b, e

\* One conversation in two turns, and another caller opening with the same text.
MCPrompt ==
  [r \in Requests |-> CASE r = r1 -> <<a, e, b, a>> [] r = r2 -> <<a, e, b, a, b, a>>
                        [] r = r3 -> <<a, e, b>>]
MCSpace == [r \in Requests |-> IF r = r3 THEN "other" ELSE "shared"]
=============================================================================
