------------------------------- MODULE ShmPool -------------------------------
(***************************************************************************)
(* Memory pools with INA_MEM_SHARED (src/src/memory.c): several processes  *)
(* open, share and close POSIX shared memory under a label.  The first     *)
(* word of the memory counts its users, and the process that brings the    *)
(* count to zero removes the name.  One action is one system call, or one  *)
(* atomic update of the count, together with the code up to the next one;  *)
(* the struct, the fd and the mapping of a process are its own.            *)
(*                                                                         *)
(* Sizes are in words of the size of the count (int64_t).  A process has   *)
(* at most one shared pool.                                                *)
(***************************************************************************)
EXTENDS Integers, FiniteSets

CONSTANTS
    Proc,            \* processes
    Label,           \* names of shared memory
    Object,          \* shared memory objects of the kernel
    NIL,             \* no object, no label
    AlignSize,       \* INA_MEM_ALIGN_SIZE
    PageSize,        \* memory is backed page by page
    Sizes,           \* sizes the clients pass to ina_mempool_new
    CfChoices,       \* creation flags the clients use besides SHARED
    Rewinders,       \* bound: the processes that use reset and clear
    SyscallsMayFail, \* whether ftruncate and mmap may fail
    MaxCrashes       \* bound: how many processes die with an open pool

Flags == {"CREATE", "EXCL"}

ASSUME NilAssumption == NIL \notin Object /\ NIL \notin Label

ASSUME ShmAssumption ==
    /\ {AlignSize, PageSize} \subseteq Nat \ {0}
    /\ Sizes \subseteq Nat \ {0}
    /\ CfChoices \subseteq SUBSET Flags
    /\ Rewinders \subseteq Proc
    /\ SyscallsMayFail \in BOOLEAN /\ MaxCrashes \in Nat
    /\ IsFiniteSet(Proc)

VARIABLES
    names,    \* the kernel's directory: which object a label leads to
    object,   \* the objects: their size and the count in their first word
    pc,       \* how far a process is in ina_mempool_new or _free
    pool,     \* the ina_mempool_s of a process
    crashes   \* how many processes have died

vars == <<names, object, pc, pool, crashes>>

-----------------------------------------------------------------------------
AlignUp(n) == n + (AlignSize - 1) - ((n + (AlignSize - 1)) % AlignSize)

(* A kernel object.  Ghosts: lost counts the users that died; abandoned    *)
(* says that some process died with the object open, counted or not;       *)
(* scribbled says that a client has overwritten the count.                 *)
BlankObject ==
    [size |-> 0, count |-> 0, lost |-> 0, abandoned |-> FALSE,
     scribbled |-> FALSE]

(* A pool.  Of pos and end only this is kept: whether the first word of    *)
(* the memory, which is the count, is set aside (pos was moved behind it), *)
(* free for the next allocation, or granted to the client.                 *)
BlankPool ==
    [label |-> NIL, obj |-> NIL, cf |-> {}, size |-> 0, first |-> "count"]

(* Before the count is incremented, and while the process has the pool.    *)
Opening == {"opened", "sized", "mapped"}

Refers(p, o) == pc[p] # "out" /\ pool[p].obj = o

Users(o) == {p \in Proc : pc[p] = "in" /\ pool[p].obj = o}

(* The kernel drops an object without name once no process has it open.    *)
Unused(o) ==
    /\ \A l \in Label : names[l] # o
    /\ \A p \in Proc : ~Refers(p, o)

(* Words of the object that can be accessed without SIGBUS.                *)
Backed(o) ==
    LET size == object[o].size
    IN  size + (PageSize - 1) - ((size + (PageSize - 1)) % PageSize)

IsOwner(p) == {"CREATE", "EXCL"} \subseteq pool[p].cf

At(p, label) == pc[p] = label

Goto(p, label) == pc' = [pc EXCEPT ![p] = label]

(* The process has closed the object, or is gone; objects holds the        *)
(* objects with the changes the process made to them.                      *)
Quits(p, objects) ==
    /\ Goto(p, "out") /\ pool' = [pool EXCEPT ![p] = BlankPool]
    /\ object' = [o \in Object |-> IF Unused(o)' THEN BlankObject ELSE objects[o]]

-----------------------------------------------------------------------------
(* ina_mempool_new with INA_MEM_SHARED: __ina_shm_open.                    *)

NewObject(l, cf) ==
    /\ names[l] = NIL /\ "CREATE" \in cf
    /\ \E o \in Object :
          /\ Unused(o)
          /\ names' = [names EXCEPT ![l] = o]
          /\ object' = [object EXCEPT ![o] = BlankObject]

(* Mutant: O_EXCL is not passed.                                           *)
FoundObjectAnyway(l, cf) == names[l] # NIL /\ UNCHANGED <<names, object>>

(* O_EXCL takes effect together with O_CREAT only.                         *)
FoundObject(l, cf) ==
    /\ names[l] # NIL
    /\ ~({"CREATE", "EXCL"} \subseteq cf)
    /\ UNCHANGED <<names, object>>

Opened(l, cf, n, o) ==
    [BlankPool EXCEPT !.label = l, !.obj = o, !.cf = cf, !.size = AlignUp(n + 1)]

(* shm_open; if it fails (the name exists, or does not), new fails and     *)
(* nothing has changed.                                                    *)
Open(p) ==
    /\ At(p, "out")
    /\ \E l \in Label, cf \in CfChoices, n \in Sizes :
          /\ NewObject(l, cf) \/ FoundObject(l, cf)
          /\ pool' = [pool EXCEPT ![p] = Opened(l, cf, n, names'[l])]
          /\ Goto(p, IF "EXCL" \in cf THEN "opened" ELSE "sized")
    /\ UNCHANGED crashes

(* Mutant: the size is recorded before the count is added to it.           *)
TruncateShort(p) ==
    /\ At(p, "opened")
    /\ object' = [object EXCEPT ![pool[p].obj].size = pool[p].size - AlignSize]
    /\ Goto(p, "sized")
    /\ UNCHANGED <<names, pool, crashes>>

Truncate(p) ==
    /\ At(p, "opened")
    /\ object' = [object EXCEPT ![pool[p].obj].size = pool[p].size]
    /\ Goto(p, "sized")
    /\ UNCHANGED <<names, pool, crashes>>

TruncateFails(p) ==
    /\ At(p, "opened") /\ SyscallsMayFail
    /\ Goto(p, "unlink")
    /\ UNCHANGED <<names, object, pool, crashes>>

Map(p) ==
    /\ At(p, "sized")
    /\ Goto(p, "mapped")
    /\ UNCHANGED <<names, object, pool, crashes>>

(* Mutant: mmap fails and the name is kept.                                *)
MapFailsQuietly(p) ==
    /\ At(p, "sized") /\ SyscallsMayFail
    /\ UNCHANGED <<names, crashes>>
    /\ Quits(p, object)

MapFails(p) ==
    /\ At(p, "sized") /\ SyscallsMayFail
    /\ UNCHANGED <<names, crashes>>
    /\ IF "EXCL" \in pool[p].cf
       THEN Goto(p, "unlink") /\ UNCHANGED <<pool, object>>
       ELSE Quits(p, object)

(* __sync_fetch_and_add on the first word, which may have no memory.       *)
Increment(p) ==
    /\ At(p, "mapped") /\ Backed(pool[p].obj) > 0
    /\ object' = [object EXCEPT ![pool[p].obj].count = @ + 1]
    /\ Goto(p, "in")
    /\ UNCHANGED <<names, pool, crashes>>

-----------------------------------------------------------------------------
(* Calls on an open shared pool.                                           *)

MayRewind(p) == p \in Rewinders /\ At(p, "in")

(* dalloc or nalloc grants the client the first word of the memory, which  *)
(* it can after pos has gone back to it.                                   *)
GrantFirst(p) ==
    /\ At(p, "in") /\ pool[p].first = "free"
    /\ pool' = [pool EXCEPT ![p].first = "granted"]
    /\ UNCHANGED <<names, object, pc, crashes>>

Rewind(p) == pool' = [pool EXCEPT ![p].first = "free"]

Reset(p) ==
    /\ MayRewind(p)
    /\ Rewind(p)
    /\ UNCHANGED <<names, object, pc, crashes>>

(* Zero fills the memory from its first word on, the count included.       *)
Clear(p) ==
    /\ MayRewind(p)
    /\ pool[p].size <= Backed(pool[p].obj)
    /\ object' = [object EXCEPT ![pool[p].obj].count = 0,
                                ![pool[p].obj].scribbled = TRUE]
    /\ Rewind(p)
    /\ UNCHANGED <<names, pc, crashes>>

(* The client writes to the memory it was granted: anything, 0 and 1 are   *)
(* the values that bring a later close to zero.                            *)
Scribble(p) ==
    /\ At(p, "in") /\ pool[p].first = "granted"
    /\ \E n \in {0, 1} :
          object' = [object EXCEPT ![pool[p].obj].count = n,
                                   ![pool[p].obj].scribbled = TRUE]
    /\ UNCHANGED <<names, pc, pool, crashes>>

-----------------------------------------------------------------------------
(* ina_mempool_free: __ina_shm_close.  munmap and close concern only the   *)
(* process itself and are part of the step that decrements the count.      *)

Unlinks(p, cn) == cn = 0 \/ "EXCL" \in pool[p].cf

(* Mutant: a process that must unlink decrements the count after that.     *)
CountedOutLate(p) ==
    LET cn == object[pool[p].obj].count - 1
    IN  IF Unlinks(p, cn) THEN object
        ELSE [object EXCEPT ![pool[p].obj].count = cn]

CountedOut(p) == [object EXCEPT ![pool[p].obj].count = @ - 1]

Decrement(p) ==
    /\ At(p, "in")
    /\ UNCHANGED <<names, crashes>>
    /\ IF Unlinks(p, object[pool[p].obj].count - 1)
       THEN Goto(p, "unlink") /\ object' = CountedOut(p) /\ UNCHANGED pool
       ELSE Quits(p, CountedOut(p))

(* shm_unlink goes by name: it removes whatever the label leads to now.    *)
Unlink(p) ==
    /\ At(p, "unlink")
    /\ names' = [names EXCEPT ![pool[p].label] = NIL]
    /\ Quits(p, object)
    /\ UNCHANGED crashes

-----------------------------------------------------------------------------
(* A process dies: killed at any point, or by SIGBUS where it accesses     *)
(* memory that the object does not have.  The count is not decremented.    *)

Abandoned(p) ==
    [object EXCEPT ![pool[p].obj].abandoned = TRUE,
                   ![pool[p].obj].lost = @ + (IF At(p, "in") THEN 1 ELSE 0)]

Killed(p) ==
    /\ pc[p] # "out"
    /\ crashes < MaxCrashes /\ crashes' = crashes + 1
    /\ UNCHANGED names
    /\ Quits(p, Abandoned(p))

BusOnIncrement(p) ==
    /\ At(p, "mapped") /\ Backed(pool[p].obj) = 0
    /\ UNCHANGED <<names, crashes>>
    /\ Quits(p, Abandoned(p))

BusOnClear(p) ==
    /\ MayRewind(p) /\ pool[p].size > Backed(pool[p].obj)
    /\ crashes < MaxCrashes /\ crashes' = crashes + 1
    /\ UNCHANGED names
    /\ \E n \in {0, object[pool[p].obj].count} :
          Quits(p, [Abandoned(p) EXCEPT ![pool[p].obj].count = n,
                                        ![pool[p].obj].scribbled = TRUE])

-----------------------------------------------------------------------------
Init ==
    /\ names = [l \in Label |-> NIL]
    /\ object = [o \in Object |-> BlankObject]
    /\ pc = [p \in Proc |-> "out"]
    /\ pool = [p \in Proc |-> BlankPool]
    /\ crashes = 0

Step(p) ==
    \/ Open(p) \/ Truncate(p) \/ TruncateFails(p)
    \/ Map(p) \/ MapFails(p) \/ Increment(p)
    \/ GrantFirst(p) \/ Reset(p) \/ Clear(p) \/ Scribble(p)
    \/ Decrement(p) \/ Unlink(p)
    \/ Killed(p) \/ BusOnIncrement(p) \/ BusOnClear(p)

Next == \E p \in Proc : Step(p)

Spec == Init /\ [][Next]_vars

-----------------------------------------------------------------------------
(* Properties.                                                             *)

ObjectType ==
    [size : Nat, count : Int, lost : Nat, abandoned : BOOLEAN,
     scribbled : BOOLEAN]

PoolType ==
    [label : Label \cup {NIL}, obj : Object \cup {NIL}, cf : SUBSET Flags,
     size : Nat, first : {"count", "free", "granted"}]

(* Every variable has its type, and a process that is not out has a pool.  *)
TypeOK ==
    /\ names \in [Label -> Object \cup {NIL}]
    /\ object \in [Object -> ObjectType]
    /\ pc \in [Proc -> {"out", "in", "unlink"} \cup Opening]
    /\ pool \in [Proc -> PoolType]
    /\ \A p \in Proc : pc[p] # "out" => pool[p].obj \in Object /\ pool[p].label \in Label
    /\ crashes \in 0 .. MaxCrashes

(* The first word counts the processes that have the object, plus those    *)
(* that died with it, however opens, closes and failures interleave        *)
(* (memory.c:570, 590: "Inc ref count", "Dec an get ref count before unmap *)
(* memory").                                                               *)
CountExactUnlessScribbled ==
    \A o \in Object :
        ~object[o].scribbled /\ ~Unused(o) =>
            object[o].count = Cardinality(Users(o)) + object[o].lost

(* Of the processes that create memory exclusively (INA_MEM_SHARED_EXCL),  *)
(* at most one gets a given object, whichever comes first.                 *)
OneOwner ==
    \A p, q \in Proc :
        /\ pc[p] # "out" /\ pc[q] # "out" /\ pool[p].obj = pool[q].obj
        /\ IsOwner(p) /\ IsOwner(q)
        => p = q

(* The process that created the memory exclusively can use every word it   *)
(* was promised: other openers never change the size of the object.        *)
OwnerBacked ==
    \A p \in Proc :
        pc[p] \in {"sized", "mapped", "in"} /\ IsOwner(p) =>
            pool[p].size <= object[pool[p].obj].size

(* Shared memory does not outlive its users: when no process has it open   *)
(* and none of them died with it or overwrote the count, its name is gone  *)
(* (memory.c:603: "unlink on last relase").  Objects that never got a size *)
(* are exempt, nobody can use them.                                        *)
NoOrphans ==
    \A l \in Label :
        LET o == names[l]
        IN  o # NIL /\ (\A p \in Proc : ~Refers(p, o)) =>
                \/ object[o].size = 0
                \/ object[o].abandoned \/ object[o].scribbled

(* A process that did not create the memory exclusively removes a name     *)
(* only from memory nobody uses (memory.c:603: "unlink on last relase").   *)
UnlinkOnLastRelease ==
    [][\A p \in Proc :
          /\ pc[p] = "unlink" /\ pc'[p] = "out" /\ "EXCL" \notin pool[p].cf
          /\ names[pool[p].label] # NIL /\ names' # names
          => Users(names[pool[p].label]) = {}]_vars

-----------------------------------------------------------------------------
(* The invariant behind the count, the owner's size and the name.         *)

(* A label leads to what its users were given under it.                    *)
LabelsSound ==
    /\ \A l, m \in Label : names[l] = names[m] /\ names[l] # NIL => l = m
    /\ \A p \in Proc, l \in Label :
          pc[p] # "out" /\ names[l] = pool[p].obj => pool[p].label = l

(* Who uses an object has it under flags a client may choose, and only     *)
(* EXCL makes a process size it.                                           *)
FlagsSound ==
    \A p \in Proc : pc[p] # "out" =>
        /\ pool[p].cf \in CfChoices
        /\ pc[p] = "opened" => "EXCL" \in pool[p].cf

(* Lost users have abandoned the object.                                   *)
LossSeen == \A o \in Object : object[o].lost > 0 => object[o].abandoned

(* An object that has a name, a size and an exact count has somebody who   *)
(* is going to unlink it.                                                  *)
Remover(p) == pc[p] \in {"in", "unlink"} \/ "EXCL" \in pool[p].cf

RemoverLeft ==
    \A l \in Label :
        LET o == names[l]
        IN  o # NIL =>
              \/ object[o].size = 0
              \/ object[o].abandoned \/ object[o].scribbled
              \/ \E p \in Proc : Refers(p, o) /\ Remover(p)

IInv ==
    /\ TypeOK /\ LabelsSound /\ FlagsSound /\ LossSeen
    /\ CountExactUnlessScribbled /\ RemoverLeft
=============================================================================
