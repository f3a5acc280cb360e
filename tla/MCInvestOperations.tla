------------------------- MODULE MCInvestOperations -------------------------
EXTENDS InvestOperations, TLC

CONSTANTS trade, deferred, dividend, n1

\* One note with a trade settled in cash and a deferred one; the dividend of
\* the extract has no reference and gets a header of its own.
MCSourceRef == [l \in Lines |-> IF l = dividend THEN NoRef ELSE n1]

Symmetry == Permutations(Agents) \cup Permutations(EventIds) \cup Permutations(LegIds)
=============================================================================
