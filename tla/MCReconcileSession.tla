------------------------ MODULE MCReconcileSession ------------------------
EXTENDS ReconcileSession, TLC

CONSTANTS noted, entered, stray

\* Two days (or all on one): on the first a trade that is in the notes only, on the second one
\* that is in both (or in the notes only) and one that is in the ledger only.
MCDayOf == [l \in Lines |-> IF l = noted THEN 1 ELSE LastDay]

\* The first looks like the one that is in the ledger only.
MCLookAlikes == [l \in FileLines |-> {stray} \cap {k \in BookLines : l = noted}]

\* A dividend without a note; a custody leg without a header and a header without legs.
MCUnlinked == {[kind |-> "unlinkedCash", on |-> 1]}
MCFlaws == [kind : {"orphan", "noLegs"}, on : {1}]
MCNoFlaws == {}

Symmetry == Permutations(Agents)
=============================================================================
