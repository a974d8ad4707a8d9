------------------------------ MODULE MCShmPool ------------------------------
(***************************************************************************)
(* Small instances of ShmPool.  Processes and objects are interchangeable: *)
(* no operator of the model picks one of them by name.                     *)
(***************************************************************************)
EXTENDS ShmPool, TLC

Symmetric ==
    Permutations(Rewinders) \cup Permutations(Proc \ Rewinders)
        \cup Permutations(Object)

(* Flags a client may combine with SHARED.                                 *)
Attach == {}
OpenOrCreate == {"CREATE"}
CreateNew == {"CREATE", "EXCL"}

(* Where the name exists, Attach and OpenOrCreate do the same.             *)
Sharing == {Attach, CreateNew}
Creating == {OpenOrCreate, CreateNew}
=============================================================================
