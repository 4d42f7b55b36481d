----------------------------- MODULE MCResults -----------------------------
\* Slots are interchangeable.
EXTENDS ResultStore, TLC

SlotSymmetry == Permutations(Slots)
=============================================================================
