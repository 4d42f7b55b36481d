------------------------------ MODULE MCEngine ------------------------------
(* Definitions for model checking Engine. *)
EXTENDS Engine, TLC

\* The slots of the thread limiter are interchangeable.
SlotSymmetry == Permutations(Slots)
=============================================================================
