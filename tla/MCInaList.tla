------------------------------ MODULE MCInaList ------------------------------
(* Small instances of InaList and of what it implements.                   *)
EXTENDS InaListSeq, TLC

Symmetric == Permutations(Node \ Own) \cup Permutations(List \ NoMalloc)

Defaults == <<3>>
DefaultsOrNone == <<3, 1, 0>>
=============================================================================
