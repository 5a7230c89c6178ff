---------------------------- MODULE MCCheckHeap ----------------------------
(* CheckHeap for TLC: its keys are interchangeable.                         *)
EXTENDS CheckHeap, TLC

KeySymmetry == Permutations(Keys)
=============================================================================
