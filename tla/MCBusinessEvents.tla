-------------------------- MODULE MCBusinessEvents --------------------------
EXTENDS BusinessEvents, TLC

\* Callers, references and ids are interchangeable.
Symmetry == Permutations(Callers) \cup Permutations(Refs) \cup Permutations(EventIds)
=============================================================================
