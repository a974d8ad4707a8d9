---------------------------- MODULE ShmPoolProofs ----------------------------
(* Theorems about ShmPool for every number of processes, labels and        *)
(* objects.                                                                *)
EXTENDS ShmPool, FiniteSetTheorems, TLAPS

-----------------------------------------------------------------------------
(* Types.                                                                  *)

LEMMA Consts ==
    /\ AlignSize \in Nat /\ AlignSize > 0
    /\ PageSize \in Nat /\ PageSize > 0
    /\ Sizes \subseteq Nat /\ CfChoices \subseteq SUBSET Flags
    /\ MaxCrashes \in Nat /\ IsFiniteSet(Proc)
BY ShmAssumption

LEMMA AlignUpNat ==
    ASSUME NEW n \in Nat
    PROVE  AlignUp(n) \in Nat
<1> DEFINE m == (n + (AlignSize - 1)) % AlignSize
<1>1. n + (AlignSize - 1) \in Nat
  BY Consts
<1>2. m \in 0 .. AlignSize - 1
  BY <1>1, Consts
<1>3. AlignUp(n) = n + (AlignSize - 1) - m
  BY DEF AlignUp
<1> HIDE DEF m
<1> QED
  BY <1>2, <1>3, Consts

LEMMA BlankObjectType == BlankObject \in ObjectType
BY DEF BlankObject, ObjectType

LEMMA BlankPoolType == BlankPool \in PoolType
BY DEF BlankPool, PoolType

LEMMA OpenedType ==
    ASSUME NEW l \in Label, NEW cf \in CfChoices, NEW n \in Sizes, NEW o \in Object
    PROVE  Opened(l, cf, n, o) \in PoolType
<1>1. AlignUp(n + 1) \in Nat
  BY AlignUpNat, Consts
<1> DEFINE size == AlignUp(n + 1)
<1> HIDE DEF size
<1> QED
  BY <1>1, Consts, BlankPoolType DEF Opened, PoolType, BlankPool, size

(* The objects as one object is changed by a process that uses it.         *)
LEMMA QuitsType ==
    ASSUME TypeOK, NEW p \in Proc, NEW objects \in [Object -> ObjectType],
           Quits(p, objects), names' \in [Label -> Object \cup {NIL}],
           crashes' \in 0 .. MaxCrashes
    PROVE  TypeOK'
<1>1. object' \in [Object -> ObjectType]
  BY BlankObjectType DEF Quits
<1>2. pool' \in [Proc -> PoolType]
  BY BlankPoolType DEF Quits, TypeOK
<1>3. pc' \in [Proc -> {"out", "in", "unlink"} \cup Opening] /\ pc'[p] = "out"
  BY DEF Quits, Goto, TypeOK
<1>4. \A q \in Proc : q # p => pc'[q] = pc[q] /\ pool'[q] = pool[q]
  BY DEF Quits, Goto, TypeOK
<1> QED
  BY <1>1, <1>2, <1>3, <1>4 DEF TypeOK

LEMMA InUse ==
    ASSUME TypeOK, NEW p \in Proc, pc[p] # "out"
    PROVE  /\ pool[p] \in PoolType /\ pool[p].obj \in Object /\ pool[p].label \in Label
           /\ pool[p].size \in Nat /\ pool[p].cf \in SUBSET Flags
           /\ object[pool[p].obj] \in ObjectType
BY DEF TypeOK, PoolType

LEMMA AbandonedType ==
    ASSUME TypeOK, NEW p \in Proc, pc[p] # "out"
    PROVE  Abandoned(p) \in [Object -> ObjectType]
<1> DEFINE o == pool[p].obj
           n == object[o].lost + (IF At(p, "in") THEN 1 ELSE 0)
<1>1. Abandoned(p) = [object EXCEPT ![o].abandoned = TRUE, ![o].lost = n]
  BY DEF Abandoned
<1>2. o \in Object /\ n \in Nat
  BY InUse DEF ObjectType
<1> HIDE DEF o, n
<1>3. [object EXCEPT ![o].abandoned = TRUE, ![o].lost = n] \in [Object -> ObjectType]
  BY <1>2 DEF TypeOK, ObjectType
<1> QED
  BY <1>1, <1>3, Zenon

LEMMA TypeOpen ==
    ASSUME TypeOK, NEW p \in Proc, Open(p)
    PROVE  TypeOK'
<1>1. PICK l \in Label, cf \in CfChoices, n \in Sizes :
         /\ NewObject(l, cf) \/ FoundObject(l, cf)
         /\ pool' = [pool EXCEPT ![p] = Opened(l, cf, n, names'[l])]
         /\ Goto(p, IF "EXCL" \in cf THEN "opened" ELSE "sized")
  BY DEF Open
<1>2. /\ names' \in [Label -> Object \cup {NIL}] /\ names'[l] \in Object
      /\ object' \in [Object -> ObjectType]
  BY <1>1, BlankObjectType DEF NewObject, FoundObject, TypeOK
<1>3. Opened(l, cf, n, names'[l]) \in PoolType
  BY <1>2, OpenedType
<1>4. Opened(l, cf, n, names'[l]).obj = names'[l] /\ Opened(l, cf, n, names'[l]).label = l
  BY DEF Opened, BlankPool
<1>5. pc' \in [Proc -> {"out", "in", "unlink"} \cup Opening]
  BY <1>1 DEF Goto, TypeOK, Opening
<1> QED
  BY <1>1, <1>2, <1>3, <1>4, <1>5 DEF TypeOK, Open, Goto

(* A step of a process is an open, a quit, or one after which it has the   *)
(* same pool; other processes are not concerned.                           *)
SamePool(p) ==
    /\ pc[p] # "out" /\ pc'[p] \in {"in", "unlink"} \cup Opening
    /\ pc' = [pc EXCEPT ![p] = pc'[p]]
    /\ \A q \in Proc :
          /\ pool'[q].obj = pool[q].obj /\ pool'[q].label = pool[q].label
          /\ pool'[q].cf = pool[q].cf /\ pool'[q].size = pool[q].size

LEMMA TypeMoves ==
    ASSUME TypeOK, NEW p \in Proc, SamePool(p),
           pool' \in [Proc -> PoolType],
           names' = names, crashes' = crashes,
           object' \in [Object -> ObjectType]
    PROVE  TypeOK'
BY DEF TypeOK, SamePool

Moves(p) ==
    \/ Truncate(p) \/ TruncateFails(p) \/ Map(p) \/ Increment(p)
    \/ GrantFirst(p) \/ Reset(p) \/ Clear(p) \/ Scribble(p)
    \/ MapFails(p) /\ Goto(p, "unlink") /\ UNCHANGED <<pool, object>>
    \/ /\ Decrement(p) /\ Goto(p, "unlink")
       /\ object' = CountedOut(p) /\ UNCHANGED pool

LEMMA MovesObject ==
    ASSUME TypeOK, NEW p \in Proc, Moves(p)
    PROVE  object' \in [Object -> ObjectType]
<1> USE DEF TypeOK, ObjectType
<1>1. CASE Truncate(p)
  BY <1>1, InUse DEF Truncate, At
<1>2. CASE Increment(p)
  BY <1>2, InUse DEF Increment, At
<1>3. CASE Clear(p)
  BY <1>3, InUse DEF Clear, MayRewind, At
<1>4. CASE Scribble(p)
  BY <1>4, InUse DEF Scribble, At
<1>5. CASE Decrement(p) /\ object' = CountedOut(p)
  BY <1>5, InUse DEF Decrement, CountedOut, At
<1> QED
  BY <1>1, <1>2, <1>3, <1>4, <1>5
  DEF Moves, TruncateFails, Map, GrantFirst, Reset, MapFails

LEMMA MovesPool ==
    ASSUME TypeOK, NEW p \in Proc, Moves(p)
    PROVE  /\ SamePool(p) /\ pool' \in [Proc -> PoolType]
           /\ names' = names /\ crashes' = crashes
<1>1. pc[p] # "out" /\ names' = names /\ crashes' = crashes
  BY DEF Moves, Truncate, TruncateFails, Map, Increment, GrantFirst, Reset, Clear,
         Scribble, MapFails, Decrement, MayRewind, At
<1>2. /\ pc'[p] \in {"in", "unlink"} \cup Opening
      /\ pc' = [pc EXCEPT ![p] = pc'[p]]
  BY <1>1 DEF Moves, Truncate, TruncateFails, Map, Increment, GrantFirst, Reset, Clear,
              Scribble, MapFails, Decrement, MayRewind, At, Goto, Opening, TypeOK
<1>3. \/ pool' = pool
      \/ \E f \in {"free", "granted"} : pool' = [pool EXCEPT ![p].first = f]
  BY DEF Moves, Truncate, TruncateFails, Map, Increment, GrantFirst, Reset, Clear,
         Scribble, MapFails, Decrement, Rewind
<1>4. /\ pool' \in [Proc -> PoolType]
      /\ \A q \in Proc :
            /\ pool'[q].obj = pool[q].obj /\ pool'[q].label = pool[q].label
            /\ pool'[q].cf = pool[q].cf /\ pool'[q].size = pool[q].size
  BY <1>3 DEF TypeOK, PoolType
<1> QED
  BY <1>1, <1>2, <1>4 DEF SamePool

(* The other steps end with a process that has no pool: its open or its    *)
(* close is through, or it has died.                                       *)
GivesUp(p, objects) ==
    MapFails(p) /\ "EXCL" \notin pool[p].cf /\ objects = object

Closes(p, objects) ==
    /\ At(p, "in") /\ names' = names /\ objects = CountedOut(p)
    /\ object[pool[p].obj].count # 1 /\ "EXCL" \notin pool[p].cf

Dies(p, objects) ==
    LET o == pool[p].obj
    IN  /\ names' = names /\ objects[o].abandoned
        /\ \/ objects[o].scribbled
           \/ /\ objects[o].count = object[o].count
              /\ objects[o].lost = object[o].lost + (IF At(p, "in") THEN 1 ELSE 0)
              /\ objects[o].scribbled = object[o].scribbled

Leaves(p, objects) ==
    /\ pc[p] # "out" /\ Quits(p, objects) /\ objects \in [Object -> ObjectType]
    /\ \A o \in Object : o # pool[p].obj => objects[o] = object[o]
    /\ objects[pool[p].obj].size = object[pool[p].obj].size
    /\ crashes' \in {crashes, crashes + 1} /\ crashes' \in 0 .. MaxCrashes
    /\ \/ GivesUp(p, objects) \/ Closes(p, objects) \/ Dies(p, objects)
       \/ Unlink(p) /\ objects = object

LEMMA AbandonedIs ==
    ASSUME TypeOK, NEW p \in Proc, pc[p] # "out"
    PROVE  LET o == pool[p].obj IN
           /\ \A x \in Object : x # o => Abandoned(p)[x] = object[x]
           /\ Abandoned(p)[o].size = object[o].size
           /\ Abandoned(p)[o].abandoned
           /\ Abandoned(p)[o].count = object[o].count
           /\ Abandoned(p)[o].lost = object[o].lost + (IF At(p, "in") THEN 1 ELSE 0)
           /\ Abandoned(p)[o].scribbled = object[o].scribbled
<1> DEFINE o == pool[p].obj
           n == object[o].lost + (IF At(p, "in") THEN 1 ELSE 0)
<1>1. Abandoned(p) = [object EXCEPT ![o].abandoned = TRUE, ![o].lost = n]
  BY DEF Abandoned
<1>2. o \in Object /\ object[o] \in ObjectType
  BY InUse
<1> HIDE DEF o, n
<1>3. /\ \A x \in Object : x # o => Abandoned(p)[x] = object[x]
      /\ Abandoned(p)[o].size = object[o].size
      /\ Abandoned(p)[o].abandoned
      /\ Abandoned(p)[o].count = object[o].count
      /\ Abandoned(p)[o].lost = n
      /\ Abandoned(p)[o].scribbled = object[o].scribbled
  BY <1>1, <1>2 DEF TypeOK, ObjectType
<1> QED
  BY <1>3 DEF o, n

LEMMA LeavesDying ==
    ASSUME TypeOK, NEW p \in Proc, Killed(p) \/ BusOnIncrement(p)
    PROVE  Leaves(p, Abandoned(p))
<1>1. pc[p] # "out" /\ Quits(p, Abandoned(p)) /\ names' = names
  BY DEF Killed, BusOnIncrement, At
<1>2. crashes' \in {crashes, crashes + 1} /\ crashes' \in 0 .. MaxCrashes
  BY Consts DEF TypeOK, Killed, BusOnIncrement
<1> QED
  BY <1>1, <1>2, AbandonedIs, AbandonedType DEF Leaves, Dies

LEMMA LeavesClearing ==
    ASSUME TypeOK, NEW p \in Proc, BusOnClear(p)
    PROVE  \E objects : Leaves(p, objects)
<1>1. pc[p] # "out"
  BY DEF BusOnClear, MayRewind, At
<1> DEFINE o == pool[p].obj
           g == Abandoned(p)
<1>2. o \in Object /\ object[o] \in ObjectType /\ object[o].count \in Int
  BY <1>1, InUse DEF ObjectType
<1>3. PICK n \in {0, object[o].count} :
         Quits(p, [g EXCEPT ![o].count = n, ![o].scribbled = TRUE])
  BY Zenon DEF BusOnClear
<1>4. g \in [Object -> ObjectType]
  BY <1>1, AbandonedType
<1>5. /\ \A x \in Object : x # o => g[x] = object[x]
      /\ g[o].size = object[o].size /\ g[o].abandoned
  BY <1>1, AbandonedIs
<1>6. names' = names /\ crashes' \in {crashes, crashes + 1} /\ crashes' \in 0 .. MaxCrashes
  BY Consts DEF TypeOK, BusOnClear
<1> DEFINE h == [g EXCEPT ![o].count = n, ![o].scribbled = TRUE]
<1> HIDE DEF o, g
<1>7. /\ h \in [Object -> ObjectType]
      /\ \A x \in Object : x # o => h[x] = object[x]
      /\ h[o].size = object[o].size /\ h[o].abandoned /\ h[o].scribbled
  BY <1>2, <1>3, <1>4, <1>5 DEF ObjectType
<1>8. Quits(p, h)
  BY <1>3, Zenon
<1> HIDE DEF h
<1>9. Leaves(p, h)
  BY <1>1, <1>6, <1>7, <1>8 DEF Leaves, Dies, o
<1> QED
  BY <1>9

LEMMA StepKinds ==
    ASSUME TypeOK, NEW p \in Proc, Step(p)
    PROVE  Open(p) \/ Moves(p) \/ \E objects : Leaves(p, objects)
<1>1. CASE MapFails(p)
  <2>1. CASE "EXCL" \in pool[p].cf
    BY <1>1, <2>1 DEF MapFails, Moves
  <2>2. CASE "EXCL" \notin pool[p].cf
    <3>1. Leaves(p, object)
      BY <1>1, <2>2, Consts DEF MapFails, Leaves, GivesUp, At, TypeOK
    <3> QED
      BY <3>1
  <2> QED
    BY <2>1, <2>2
<1>2. CASE Decrement(p)
  <2>1. CASE Unlinks(p, object[pool[p].obj].count - 1)
    BY <1>2, <2>1 DEF Decrement, Moves
  <2>2. CASE ~Unlinks(p, object[pool[p].obj].count - 1)
    <3>1. /\ At(p, "in") /\ names' = names /\ crashes' = crashes
          /\ Quits(p, CountedOut(p)) /\ pc[p] # "out"
      BY <1>2, <2>2 DEF Decrement, At
    <3>2. object[pool[p].obj].count # 1 /\ "EXCL" \notin pool[p].cf
      BY <2>2 DEF Unlinks
    <3>3. /\ CountedOut(p) \in [Object -> ObjectType]
          /\ \A o \in Object : o # pool[p].obj => CountedOut(p)[o] = object[o]
          /\ CountedOut(p)[pool[p].obj].size = object[pool[p].obj].size
      BY <3>1, InUse DEF CountedOut, TypeOK, ObjectType
    <3>4. Leaves(p, CountedOut(p))
      BY <3>1, <3>2, <3>3, Consts DEF Leaves, Closes, TypeOK
    <3> QED
      BY <3>4
  <2> QED
    BY <2>1, <2>2
<1>3. CASE Unlink(p)
  <2>1. Leaves(p, object)
    BY <1>3, Consts DEF Unlink, Leaves, At, TypeOK
  <2> QED
    BY <2>1
<1>4. CASE Killed(p) \/ BusOnIncrement(p)
  BY <1>4, LeavesDying
<1>5. CASE BusOnClear(p)
  BY <1>5, LeavesClearing
<1> QED
  BY <1>1, <1>2, <1>3, <1>4, <1>5 DEF Step, Moves

LEMMA TypeLeaves ==
    ASSUME TypeOK, NEW p \in Proc, NEW objects, Leaves(p, objects)
    PROVE  TypeOK'
<1>1. names' \in [Label -> Object \cup {NIL}]
  BY DEF TypeOK, Leaves, GivesUp, Closes, Dies, MapFails, Unlink
<1>2. objects \in [Object -> ObjectType] /\ crashes' \in 0 .. MaxCrashes /\ Quits(p, objects)
  BY DEF Leaves
<1> QED
  BY <1>1, <1>2, QuitsType

LEMMA TypeStep ==
    ASSUME TypeOK, NEW p \in Proc, Step(p)
    PROVE  TypeOK'
BY StepKinds, TypeOpen, TypeLeaves, MovesPool, MovesObject, TypeMoves

LEMMA TypeInit == Init => TypeOK
BY BlankObjectType, BlankPoolType, Consts DEF Init, TypeOK

LEMMA TypeNext == TypeOK /\ [Next]_vars => TypeOK'
<1>1. ASSUME TypeOK, UNCHANGED vars PROVE TypeOK'
  BY <1>1 DEF TypeOK, vars
<1> QED
  BY <1>1, TypeStep DEF Next

(* The type invariant of ShmPool holds whatever the processes do.          *)
THEOREM TypeCorrect == Spec => []TypeOK
BY TypeInit, TypeNext, PTL DEF Spec

-----------------------------------------------------------------------------
(* What the three kinds of steps do to processes, names and objects.       *)

LEMMA OpenIs ==
    ASSUME TypeOK, NEW p \in Proc, Open(p)
    PROVE  \E l \in Label, cf \in CfChoices :
              /\ NewObject(l, cf) \/ FoundObject(l, cf)
              /\ names'[l] \in Object
              /\ pc[p] = "out" /\ pc' = [pc EXCEPT ![p] = pc'[p]]
              /\ pc'[p] = IF "EXCL" \in cf THEN "opened" ELSE "sized"
              /\ \A q \in Proc : q # p => pool'[q] = pool[q]
              /\ pool'[p].obj = names'[l] /\ pool'[p].label = l /\ pool'[p].cf = cf
<1>1. PICK l \in Label, cf \in CfChoices, n \in Sizes :
         /\ NewObject(l, cf) \/ FoundObject(l, cf)
         /\ pool' = [pool EXCEPT ![p] = Opened(l, cf, n, names'[l])]
         /\ Goto(p, IF "EXCL" \in cf THEN "opened" ELSE "sized")
  BY DEF Open
<1>2. names'[l] \in Object
  BY <1>1 DEF NewObject, FoundObject, TypeOK
<1>3. /\ Opened(l, cf, n, names'[l]).obj = names'[l]
      /\ Opened(l, cf, n, names'[l]).label = l
      /\ Opened(l, cf, n, names'[l]).cf = cf
  BY DEF Opened, BlankPool
<1>4. pc[p] = "out"
  BY DEF Open, At
<1> QED
  BY <1>1, <1>2, <1>3, <1>4 DEF Goto, TypeOK

LEMMA LeavesIs ==
    ASSUME TypeOK, NEW p \in Proc, NEW objects, Leaves(p, objects)
    PROVE  /\ pc[p] # "out" /\ pc'[p] = "out"
           /\ \A q \in Proc : q # p => pc'[q] = pc[q] /\ pool'[q] = pool[q]
           /\ \A o \in Object : ~Unused(o)' => object'[o] = objects[o]
           /\ \A o \in Object : Unused(o)' => object'[o] = BlankObject
           /\ \/ names' = names
              \/ names' = [names EXCEPT ![pool[p].label] = NIL] /\ Unlink(p)
           /\ pool[p].obj \in Object /\ pool[p].label \in Label
BY InUse DEF Leaves, Quits, Goto, TypeOK, GivesUp, Closes, Dies, MapFails, Unlink

-----------------------------------------------------------------------------
(* Exclusive creation, labels and flags.                                   *)

LEMMA OwnerStep ==
    ASSUME TypeOK, OneOwner, NEW p \in Proc, Step(p)
    PROVE  OneOwner'
<1>1. CASE Open(p)
  BY <1>1, OpenIs DEF OneOwner, IsOwner, NewObject, FoundObject, Unused, Refers, TypeOK
<1>2. CASE Moves(p)
  BY <1>2, MovesPool DEF OneOwner, IsOwner, SamePool, TypeOK
<1>3. CASE \E objects : Leaves(p, objects)
  BY <1>3, LeavesIs DEF OneOwner, IsOwner
<1> QED
  BY <1>1, <1>2, <1>3, StepKinds

LEMMA LabelsStep ==
    ASSUME TypeOK, LabelsSound, NEW p \in Proc, Step(p)
    PROVE  LabelsSound'
<1>1. CASE Open(p)
  BY <1>1, OpenIs, NilAssumption
  DEF LabelsSound, NewObject, FoundObject, Unused, Refers, TypeOK
<1>2. CASE Moves(p)
  BY <1>2, MovesPool DEF LabelsSound, SamePool, TypeOK
<1>3. CASE \E objects : Leaves(p, objects)
  BY <1>3, LeavesIs, NilAssumption DEF LabelsSound, TypeOK
<1> QED
  BY <1>1, <1>2, <1>3, StepKinds

LEMMA FlagsStep ==
    ASSUME TypeOK, FlagsSound, NEW p \in Proc, Step(p)
    PROVE  FlagsSound'
<1>1. CASE Open(p)
  BY <1>1, OpenIs DEF FlagsSound, TypeOK
<1>2. CASE Moves(p)
  <2>1. pc'[p] # "opened"
    BY <1>2 DEF Moves, Truncate, TruncateFails, Map, Increment, GrantFirst, Reset,
                Clear, Scribble, MapFails, Decrement, MayRewind, At, Goto, TypeOK
  <2> QED
    BY <1>2, <2>1, MovesPool DEF FlagsSound, SamePool, TypeOK
<1>3. CASE \E objects : Leaves(p, objects)
  BY <1>3, LeavesIs DEF FlagsSound
<1> QED
  BY <1>1, <1>2, <1>3, StepKinds

-----------------------------------------------------------------------------
(* The count.                                                              *)

LEMMA UsersFinite ==
    ASSUME NEW o
    PROVE  IsFiniteSet(Users(o)) /\ Cardinality(Users(o)) \in Nat
<1>1. Users(o) \in SUBSET Proc
  BY DEF Users
<1> QED
  BY <1>1, Consts, FS_Subset, FS_CardinalityType

(* Users come and go one by one.                                           *)
LEMMA UsersChange ==
    ASSUME NEW p, NEW o
    PROVE  /\ p \notin Users(o) => Cardinality(Users(o) \cup {p}) = Cardinality(Users(o)) + 1
           /\ p \in Users(o) => Cardinality(Users(o) \ {p}) = Cardinality(Users(o)) - 1
BY UsersFinite, FS_AddElement, FS_RemoveElement

CountHolds(o) ==
    ~object[o].scribbled /\ ~Unused(o) =>
        object[o].count = Cardinality(Users(o)) + object[o].lost

LEMMA CountOpen ==
    ASSUME TypeOK, NEW p \in Proc, Open(p), NEW o \in Object, CountHolds(o)
    PROVE  CountHolds(o)'
<1>1. PICK l \in Label, cf \in CfChoices :
         /\ NewObject(l, cf) \/ FoundObject(l, cf)
         /\ names'[l] \in Object
         /\ pc[p] = "out" /\ pc' = [pc EXCEPT ![p] = pc'[p]]
         /\ pc'[p] \in {"opened", "sized"}
         /\ \A q \in Proc : q # p => pool'[q] = pool[q]
         /\ pool'[p].obj = names'[l]
  BY OpenIs
<1>2. Users(o)' = Users(o)
  BY <1>1 DEF Users, TypeOK
<1>3. CASE NewObject(l, cf) /\ o = names'[l]
  <2>1. Unused(o) /\ object'[o] = BlankObject
    BY <1>1, <1>3 DEF NewObject, TypeOK
  <2>2. Users(o) = {}
    BY <2>1 DEF Users, Unused, Refers
  <2> QED
    BY <1>2, <2>1, <2>2, FS_EmptySet DEF CountHolds, BlankObject
<1>4. CASE FoundObject(l, cf) \/ o # names'[l]
  <2>1. object'[o] = object[o]
    BY <1>1, <1>4 DEF NewObject, FoundObject, TypeOK
  <2>2. Unused(o) => Unused(o)'
    BY <1>1, <1>4 DEF NewObject, FoundObject, Unused, Refers, TypeOK
  <2> QED
    BY <1>2, <2>1, <2>2 DEF CountHolds
<1> QED
  BY <1>1, <1>3, <1>4

LEMMA CountMoves ==
    ASSUME TypeOK, NEW p \in Proc, Moves(p), NEW o \in Object, CountHolds(o)
    PROVE  CountHolds(o)'
<1>1. /\ SamePool(p) /\ names' = names
      /\ object[o].count \in Int /\ object[o].lost \in Nat
  BY MovesPool DEF TypeOK, ObjectType
<1>2. Unused(o)' <=> Unused(o)
  BY <1>1 DEF Unused, Refers, SamePool, TypeOK, Opening
<1>3. CASE o # pool[p].obj
  <2>1. object'[o] = object[o]
    BY <1>3 DEF Moves, Truncate, TruncateFails, Map, Increment, GrantFirst, Reset,
                Clear, Scribble, MapFails, Decrement, CountedOut, TypeOK
  <2>2. Users(o)' = Users(o)
    BY <1>1, <1>3 DEF Users, SamePool, TypeOK
  <2> QED
    BY <1>2, <2>1, <2>2 DEF CountHolds
<1>4. CASE o = pool[p].obj /\ Increment(p)
  <2>1. /\ object'[o].count = object[o].count + 1 /\ object'[o].lost = object[o].lost
        /\ object'[o].scribbled = object[o].scribbled
    BY <1>4 DEF Increment, TypeOK, ObjectType
  <2>2. Users(o)' = Users(o) \cup {p} /\ p \notin Users(o)
    BY <1>1, <1>4 DEF Increment, Users, SamePool, TypeOK, At, Goto
  <2> QED
    BY <1>1, <1>2, <2>1, <2>2, UsersChange, UsersFinite DEF CountHolds
<1>5. CASE o = pool[p].obj /\ Decrement(p) /\ object' = CountedOut(p) /\ Goto(p, "unlink")
  <2>1. /\ object'[o].count = object[o].count - 1 /\ object'[o].lost = object[o].lost
        /\ object'[o].scribbled = object[o].scribbled
    BY <1>5 DEF CountedOut, TypeOK, ObjectType
  <2>2. Users(o)' = Users(o) \ {p} /\ p \in Users(o)
    BY <1>1, <1>5 DEF Decrement, Users, SamePool, TypeOK, At, Goto
  <2> QED
    BY <1>1, <1>2, <2>1, <2>2, UsersChange, UsersFinite DEF CountHolds
<1>6. CASE o = pool[p].obj /\ (Clear(p) \/ Scribble(p))
  <2>1. object'[o].scribbled
    BY <1>6 DEF Clear, Scribble, TypeOK, ObjectType
  <2> QED
    BY <2>1 DEF CountHolds
<1>7. CASE /\ o = pool[p].obj
           /\ \/ Truncate(p) \/ TruncateFails(p) \/ Map(p)
              \/ GrantFirst(p) \/ Reset(p)
              \/ MapFails(p) /\ Goto(p, "unlink") /\ object' = object
  <2>1. /\ object'[o].count = object[o].count /\ object'[o].lost = object[o].lost
        /\ object'[o].scribbled = object[o].scribbled
    BY <1>7 DEF Truncate, TruncateFails, Map, GrantFirst, Reset, TypeOK, ObjectType
  <2>2. Users(o)' = Users(o)
    BY <1>1, <1>7 DEF Users, SamePool, TypeOK, At, Goto, MayRewind,
                      Truncate, TruncateFails, Map, GrantFirst, Reset, MapFails
  <2> QED
    BY <1>2, <2>1, <2>2 DEF CountHolds
<1>8. \/ Truncate(p) \/ TruncateFails(p) \/ Map(p) \/ GrantFirst(p) \/ Reset(p)
      \/ Increment(p) \/ Clear(p) \/ Scribble(p)
      \/ MapFails(p) /\ Goto(p, "unlink") /\ object' = object
      \/ Decrement(p) /\ object' = CountedOut(p) /\ Goto(p, "unlink")
  BY DEF Moves
<1> QED
  BY <1>3, <1>4, <1>5, <1>6, <1>7, <1>8

LEMMA CountLeaves ==
    ASSUME TypeOK, NEW p \in Proc, NEW objects, Leaves(p, objects),
           NEW o \in Object, CountHolds(o)
    PROVE  CountHolds(o)'
<1> SUFFICES ASSUME ~Unused(o)' PROVE CountHolds(o)'
  BY DEF CountHolds
<1>1. /\ pc[p] # "out" /\ pc'[p] = "out"
      /\ \A q \in Proc : q # p => pc'[q] = pc[q] /\ pool'[q] = pool[q]
      /\ object'[o] = objects[o]
      /\ object[o].count \in Int /\ object[o].lost \in Nat
  BY LeavesIs DEF TypeOK, ObjectType
<1>2. ~Unused(o)
  BY <1>1, LeavesIs, NilAssumption DEF Unused, Refers, TypeOK
<1>3. CASE o # pool[p].obj
  <2>1. objects[o] = object[o]
    BY <1>3 DEF Leaves
  <2>2. Users(o)' = Users(o)
    BY <1>1, <1>3 DEF Users
  <2> QED
    BY <1>1, <1>2, <2>1, <2>2 DEF CountHolds
<1>4. CASE o = pool[p].obj /\ pc[p] = "in"
  <2>1. Users(o)' = Users(o) \ {p} /\ p \in Users(o)
    BY <1>1, <1>4 DEF Users
  <2>2. CASE Closes(p, objects)
    <3>1. /\ objects[o].count = object[o].count - 1 /\ objects[o].lost = object[o].lost
          /\ objects[o].scribbled = object[o].scribbled
      BY <1>4, <2>2 DEF Closes, CountedOut, TypeOK, ObjectType
    <3> QED
      BY <1>1, <1>2, <2>1, <3>1, UsersChange, UsersFinite DEF CountHolds
  <2>3. CASE Dies(p, objects)
    BY <1>1, <1>2, <1>4, <2>1, <2>3, UsersChange, UsersFinite DEF CountHolds, Dies, At
  <2> QED
    BY <1>4, <2>2, <2>3 DEF Leaves, GivesUp, MapFails, Unlink, At
<1>5. CASE o = pool[p].obj /\ pc[p] # "in"
  <2>1. Users(o)' = Users(o)
    BY <1>1, <1>5 DEF Users
  <2> QED
    BY <1>1, <1>2, <1>5, <2>1, UsersFinite DEF CountHolds, Leaves, GivesUp, Closes, Dies, At
<1> QED
  BY <1>3, <1>4, <1>5

LEMMA CountStep ==
    ASSUME TypeOK, CountExactUnlessScribbled, NEW p \in Proc, Step(p)
    PROVE  CountExactUnlessScribbled'
<1>1. \A o \in Object : CountHolds(o)
  BY DEF CountExactUnlessScribbled, CountHolds
<1>2. \A o \in Object : CountHolds(o)'
  BY <1>1, StepKinds, CountOpen, CountMoves, CountLeaves
<1> QED
  BY <1>2 DEF CountExactUnlessScribbled, CountHolds

-----------------------------------------------------------------------------
(* Sizes, losses and whether the count was overwritten.                    *)

LEMMA MovesIs ==
    ASSUME TypeOK, NEW p \in Proc, Moves(p), NEW o \in Object
    PROVE  /\ \/ object'[o].size = object[o].size
              \/ Truncate(p) /\ o = pool[p].obj /\ object'[o].size = pool[p].size
           /\ object'[o].lost = object[o].lost
           /\ object'[o].abandoned = object[o].abandoned
           /\ object[o].scribbled => object'[o].scribbled
           /\ pc[p] # "unlink"
           /\ pc[p] = "in" => pc'[p] \in {"in", "unlink"}
           /\ pc[p] = "opened" => Truncate(p) \/ pc'[p] = "unlink"
           /\ Truncate(p) => pc[p] = "opened"
<1>1. /\ \/ object'[o].size = object[o].size
         \/ Truncate(p) /\ o = pool[p].obj /\ object'[o].size = pool[p].size
      /\ object'[o].lost = object[o].lost
      /\ object'[o].abandoned = object[o].abandoned
      /\ object[o].scribbled => object'[o].scribbled
  BY DEF Moves, Truncate, TruncateFails, Map, Increment, GrantFirst, Reset, Clear,
         Scribble, MapFails, Decrement, CountedOut, TypeOK, ObjectType
<1>2. /\ pc[p] # "unlink"
      /\ pc[p] = "in" => pc'[p] \in {"in", "unlink"}
      /\ pc[p] = "opened" => Truncate(p) \/ pc'[p] = "unlink"
      /\ Truncate(p) => pc[p] = "opened"
  BY DEF Moves, Truncate, TruncateFails, Map, Increment, GrantFirst, Reset, Clear,
         Scribble, MapFails, Decrement, MayRewind, At, Goto, TypeOK
<1> QED
  BY <1>1, <1>2

LEMMA LossStep ==
    ASSUME TypeOK, LossSeen, NEW p \in Proc, Step(p)
    PROVE  LossSeen'
<1>1. CASE Open(p)
  <2>1. \A o \in Object : object'[o] = object[o] \/ object'[o] = BlankObject
    BY <1>1, OpenIs DEF NewObject, FoundObject, TypeOK
  <2> QED
    BY <2>1 DEF LossSeen, BlankObject
<1>2. CASE Moves(p)
  BY <1>2, MovesIs DEF LossSeen
<1>3. ASSUME NEW objects, Leaves(p, objects) PROVE LossSeen'
  <2>1. \A o \in Object :
           \/ objects[o].lost = object[o].lost /\ objects[o].abandoned = object[o].abandoned
           \/ objects[o].abandoned
    BY <1>3 DEF Leaves, GivesUp, Closes, Dies, CountedOut, TypeOK, ObjectType
  <2>2. \A o \in Object : object'[o] = objects[o] \/ object'[o] = BlankObject
    BY <1>3, LeavesIs
  <2> QED
    BY <2>1, <2>2 DEF LossSeen, BlankObject
<1> QED
  BY <1>1, <1>2, <1>3, StepKinds

LEMMA BackedStep ==
    ASSUME {"EXCL"} \notin CfChoices, TypeOK, FlagsSound, OneOwner, OwnerBacked,
           NEW p \in Proc, Step(p)
    PROVE  OwnerBacked'
<1>1. ASSUME NEW cf \in CfChoices, "EXCL" \in cf PROVE {"CREATE", "EXCL"} \subseteq cf
  BY <1>1, Consts DEF Flags
<1>2. CASE Open(p)
  BY <1>2, OpenIs, <1>1
  DEF OwnerBacked, IsOwner, NewObject, FoundObject, Unused, Refers, TypeOK
<1>3. CASE Moves(p)
  <2>1. /\ SamePool(p) /\ pool[p].size \in Nat /\ pool[p].obj \in Object
        /\ Truncate(p) => IsOwner(p)
    BY <1>3, <1>1, MovesPool, MovesIs, InUse DEF FlagsSound, IsOwner, SamePool
  <2> SUFFICES ASSUME NEW q \in Proc, pc'[q] \in {"sized", "mapped", "in"}, IsOwner(q)
               PROVE  pool[q].size <= object'[pool[q].obj].size
    BY <2>1 DEF OwnerBacked, SamePool, IsOwner
  <2>2. pool[q].obj \in Object /\ pool[q].size \in Nat /\ pc[q] # "out"
    BY <2>1, InUse DEF SamePool, TypeOK
  <2>3. CASE Truncate(p) /\ q = p
    BY <2>2, <2>3 DEF Truncate, TypeOK, ObjectType
  <2>4. CASE Truncate(p) /\ q # p
    <3>1. pool[q].obj # pool[p].obj
      BY <2>1, <2>2, <2>4 DEF OneOwner, SamePool
    <3>2. pc[q] \in {"sized", "mapped", "in"}
      BY <2>1, <2>4 DEF SamePool, TypeOK
    <3> QED
      BY <1>3, <2>2, <3>1, <3>2, MovesIs DEF OwnerBacked
  <2>5. CASE ~Truncate(p)
    <3>1. pc[q] \in {"sized", "mapped", "in"}
      BY <1>3, <2>1, <2>2, <2>5, MovesIs DEF SamePool, TypeOK, Opening
    <3> QED
      BY <1>3, <2>2, <2>5, <3>1, MovesIs DEF OwnerBacked
  <2> QED
    BY <2>3, <2>4, <2>5
<1>4. ASSUME NEW objects, Leaves(p, objects) PROVE OwnerBacked'
  <2> SUFFICES ASSUME NEW q \in Proc, pc'[q] \in {"sized", "mapped", "in"}, IsOwner(q)'
               PROVE  pool'[q].size <= object'[pool'[q].obj].size
    BY DEF OwnerBacked
  <2>1. q # p /\ pc'[q] = pc[q] /\ pool'[q] = pool[q]
    BY <1>4, LeavesIs
  <2>2. pool[q].obj \in Object
    BY <2>1, InUse
  <2>3. object'[pool[q].obj] = objects[pool[q].obj]
    BY <1>4, <2>1, <2>2, LeavesIs DEF Unused, Refers
  <2>4. objects[pool[q].obj].size = object[pool[q].obj].size
    BY <1>4, <2>2 DEF Leaves
  <2> QED
    BY <2>1, <2>3, <2>4 DEF OwnerBacked, IsOwner
<1> QED
  BY <1>2, <1>3, <1>4, StepKinds

-----------------------------------------------------------------------------
(* Somebody is left to remove the name.                                    *)

Ownerless(o) ==
    object[o].size # 0 /\ ~object[o].abandoned /\ ~object[o].scribbled

LEMMA RemoverOpen ==
    ASSUME TypeOK, RemoverLeft, NEW p \in Proc, Open(p)
    PROVE  RemoverLeft'
<1>1. PICK k \in Label, cf \in CfChoices :
         /\ NewObject(k, cf) \/ FoundObject(k, cf)
         /\ names'[k] \in Object
         /\ pc[p] = "out" /\ pc' = [pc EXCEPT ![p] = pc'[p]]
         /\ \A q \in Proc : q # p => pool'[q] = pool[q]
  BY OpenIs
<1> SUFFICES ASSUME NEW l \in Label, NEW o, o = names'[l], o # NIL, Ownerless(o)'
             PROVE  \E q \in Proc : (Refers(q, o) /\ Remover(q))'
  BY DEF RemoverLeft, Ownerless
<1>2. /\ names[l] = o /\ object'[o] = object[o]
  BY <1>1, NilAssumption DEF NewObject, FoundObject, Unused, Ownerless, BlankObject, TypeOK
<1>3. PICK q \in Proc : Refers(q, o) /\ Remover(q)
  BY <1>2 DEF RemoverLeft, Ownerless
<1>4. q # p /\ pc'[q] = pc[q] /\ pool'[q] = pool[q]
  BY <1>1, <1>3 DEF Refers, TypeOK
<1> QED
  BY <1>3, <1>4 DEF Refers, Remover

LEMMA RemoverMoves ==
    ASSUME TypeOK, FlagsSound, RemoverLeft, NEW p \in Proc, Moves(p)
    PROVE  RemoverLeft'
<1>1. SamePool(p) /\ names' = names
  BY MovesPool
<1> SUFFICES ASSUME NEW l \in Label, NEW o \in Object, o = names[l], o # NIL, Ownerless(o)'
             PROVE  \E q \in Proc : (Refers(q, o) /\ Remover(q))'
  BY <1>1 DEF RemoverLeft, Ownerless, TypeOK
<1>2. \A q \in Proc : Refers(q, o) /\ Remover(q) => (Refers(q, o) /\ Remover(q))'
  BY <1>1, MovesIs DEF Refers, Remover, SamePool, TypeOK, Opening
<1>3. CASE Truncate(p) /\ o = pool[p].obj
  <2>1. Refers(p, o) /\ Remover(p)
    BY <1>1, <1>3, MovesIs DEF Refers, Remover, SamePool, FlagsSound
  <2> QED
    BY <1>2, <2>1
<1>4. CASE ~(Truncate(p) /\ o = pool[p].obj)
  <2>1. Ownerless(o)
    BY <1>4, MovesIs DEF Ownerless
  <2>2. \E q \in Proc : Refers(q, o) /\ Remover(q)
    BY <2>1 DEF RemoverLeft, Ownerless
  <2> QED
    BY <1>2, <2>2
<1> QED
  BY <1>3, <1>4

(* A process that leaves without removing the name leaves another user.    *)
LEMMA OtherUser ==
    ASSUME TypeOK, LossSeen, NEW p \in Proc, pc[p] = "in",
           NEW o \in Object, o = pool[p].obj, CountHolds(o), Ownerless(o),
           object[o].count # 1
    PROVE  \E q \in Proc \ {p} : pc[q] = "in" /\ pool[q].obj = o
<1>1. object[o].lost = 0
  BY DEF LossSeen, Ownerless, TypeOK, ObjectType
<1>2. ~Unused(o) /\ p \in Users(o)
  BY DEF Unused, Refers, Users
<1>3. Cardinality(Users(o)) # 1
  BY <1>1, <1>2, UsersFinite DEF CountHolds, Ownerless
<1>4. Cardinality(Users(o) \ {p}) # 0
  BY <1>2, <1>3, UsersChange, UsersFinite
<1>5. Users(o) \ {p} # {}
  BY <1>4, FS_EmptySet
<1> QED
  BY <1>5 DEF Users

LEMMA RemoverLeaves ==
    ASSUME TypeOK, LabelsSound, LossSeen, CountExactUnlessScribbled, RemoverLeft,
           NEW p \in Proc, NEW objects, Leaves(p, objects)
    PROVE  RemoverLeft'
<1>1. /\ pc[p] # "out" /\ pool[p].obj \in Object /\ pool[p].label \in Label
      /\ \A q \in Proc : q # p => pc'[q] = pc[q] /\ pool'[q] = pool[q]
  BY LeavesIs
<1> SUFFICES ASSUME NEW l \in Label, NEW o, o = names'[l], o # NIL, Ownerless(o)'
             PROVE  \E q \in Proc : (Refers(q, o) /\ Remover(q))'
  BY DEF RemoverLeft, Ownerless
<1>2. names[l] = o /\ o \in Object /\ (names' # names => l # pool[p].label)
  BY LeavesIs, <1>1 DEF TypeOK
<1>3. object'[o] = objects[o]
  BY <1>2, LeavesIs DEF Unused
<1> SUFFICES \E q \in Proc \ {p} : Refers(q, o) /\ Remover(q)
  BY <1>1 DEF Refers, Remover
<1>4. Ownerless(o) => \E q \in Proc : Refers(q, o) /\ Remover(q)
  BY <1>2 DEF RemoverLeft, Ownerless
<1>5. CASE o # pool[p].obj
  <2>1. Ownerless(o)
    BY <1>2, <1>3, <1>5 DEF Leaves, Ownerless
  <2> QED
    BY <1>4, <1>5, <2>1 DEF Refers
<1>6. CASE o = pool[p].obj
  <2>1. l = pool[p].label /\ names' = names
    BY <1>1, <1>2, <1>6 DEF LabelsSound
  <2>2. CASE GivesUp(p, objects)
    <3>1. Ownerless(o) /\ ~Remover(p)
      BY <1>2, <1>3, <2>2 DEF GivesUp, MapFails, At, Remover, Ownerless
    <3> QED
      BY <1>4, <3>1
  <2>3. CASE Closes(p, objects)
    <3>1. Ownerless(o) /\ CountHolds(o) /\ pc[p] = "in" /\ object[o].count # 1
      BY <1>2, <1>3, <1>6, <2>3
      DEF Closes, CountedOut, Ownerless, CountHolds, CountExactUnlessScribbled, At,
          TypeOK, ObjectType
    <3>2. PICK q \in Proc \ {p} : pc[q] = "in" /\ pool[q].obj = o
      BY <1>2, <1>6, <3>1, OtherUser
    <3> QED
      BY <3>2 DEF Refers, Remover
  <2>4. CASE Dies(p, objects)
    BY <1>3, <1>6, <2>4 DEF Dies, Ownerless
  <2>5. CASE Unlink(p)
    BY <1>1, <1>2, <2>1, <2>5, NilAssumption DEF Unlink, TypeOK
  <2> QED
    BY <2>2, <2>3, <2>4, <2>5 DEF Leaves
<1> QED
  BY <1>5, <1>6

-----------------------------------------------------------------------------
(* The inductive invariant and the theorems.                               *)

LEMMA InvInit == Init => IInv /\ OneOwner /\ OwnerBacked
<1> SUFFICES ASSUME Init PROVE IInv /\ OneOwner /\ OwnerBacked
  OBVIOUS
<1>1. TypeOK
  BY TypeInit
<1>2. /\ \A p \in Proc : pc[p] = "out"
      /\ \A l \in Label : names[l] = NIL
      /\ \A o \in Object : object[o].lost = 0
  BY DEF Init, BlankObject
<1>3. LabelsSound /\ FlagsSound /\ LossSeen /\ RemoverLeft /\ OneOwner /\ OwnerBacked
  BY <1>2 DEF LabelsSound, FlagsSound, LossSeen, RemoverLeft, OneOwner, OwnerBacked
<1>4. CountExactUnlessScribbled
  BY <1>2, NilAssumption DEF CountExactUnlessScribbled, Unused, Refers
<1> QED
  BY <1>1, <1>3, <1>4 DEF IInv

LEMMA InvNext == IInv /\ [Next]_vars => IInv'
<1>1. ASSUME IInv, UNCHANGED vars PROVE IInv'
  BY <1>1 DEF IInv, vars, TypeOK, LabelsSound, FlagsSound, LossSeen,
     CountExactUnlessScribbled, RemoverLeft, Users, Unused, Refers, Remover
<1>2. ASSUME IInv, NEW p \in Proc, Step(p) PROVE IInv'
  <2>1. RemoverLeft'
    BY <1>2, StepKinds, RemoverOpen, RemoverMoves, RemoverLeaves DEF IInv
  <2> QED
    BY <1>2, <2>1, TypeStep, LabelsStep, FlagsStep, LossStep, CountStep DEF IInv
<1> QED
  BY <1>1, <1>2 DEF Next

(* The inductive invariant of ShmPool: types, labels that lead to what     *)
(* their users have open, flags, losses, the count, and a process that     *)
(* will remove each name.                                                  *)
THEOREM InvCorrect == Spec => []IInv
BY InvInit, InvNext, PTL DEF Spec

(* However opens, closes, failures and deaths interleave, the first word   *)
(* of shared memory counts its users and those that died with it, as long  *)
(* as no client overwrites it.                                             *)
THEOREM CountCorrect == Spec => []CountExactUnlessScribbled
<1>1. IInv => CountExactUnlessScribbled
  BY DEF IInv
<1> QED
  BY <1>1, InvCorrect, PTL

(* When the last process has closed the memory its name is gone, unless    *)
(* one of them died with it, overwrote the count, or it never got a size.  *)
THEOREM NamesRemoved == Spec => []NoOrphans
<1>1. IInv => NoOrphans
  BY DEF IInv, RemoverLeft, NoOrphans
<1> QED
  BY <1>1, InvCorrect, PTL

LEMMA OwnerNext == TypeOK /\ OneOwner /\ [Next]_vars => OneOwner'
<1>1. ASSUME OneOwner, UNCHANGED vars PROVE OneOwner'
  BY <1>1 DEF OneOwner, IsOwner, vars
<1> QED
  BY <1>1, OwnerStep DEF Next

(* Exclusive creation is exclusive: of the processes that pass CREATE and  *)
(* EXCL, at most one ever has a given object open.                         *)
THEOREM OwnerUnique == Spec => []OneOwner
BY InvInit, OwnerNext, TypeCorrect, PTL DEF Spec

LEMMA BackedNext ==
    ASSUME {"EXCL"} \notin CfChoices
    PROVE  IInv /\ OneOwner /\ OwnerBacked /\ [Next]_vars => OwnerBacked'
<1>1. ASSUME OwnerBacked, UNCHANGED vars PROVE OwnerBacked'
  BY <1>1 DEF OwnerBacked, IsOwner, vars
<1> QED
  BY <1>1, BackedStep DEF Next, IInv

(* If no client passes EXCL without CREATE, the memory is never resized    *)
(* below what its exclusive creator was promised.                          *)
THEOREM OwnerKeepsSize ==
    ASSUME {"EXCL"} \notin CfChoices
    PROVE  Spec => []OwnerBacked
<1>1. IInv /\ OneOwner /\ OwnerBacked /\ [Next]_vars => OwnerBacked'
  BY BackedNext
<1> QED
  BY <1>1, InvInit, InvCorrect, OwnerUnique, PTL DEF Spec
=============================================================================
