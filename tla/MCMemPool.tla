------------------------------ MODULE MCMemPool ------------------------------
(* Model checking of MemPool: sizes common to the runs and symmetry.       *)
(* Addresses and client variables are interchangeable.                     *)
EXTENDS MemPoolArena

Symmetry == Permutations(Chunk) \cup Permutations(Slot)
=============================================================================
