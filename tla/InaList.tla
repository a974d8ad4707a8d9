------------------------------- MODULE InaList -------------------------------
(***************************************************************************)
(* The doubly linked lists of src/src/list.c: the links of the nodes, the  *)
(* node pool and the recycling array of a list.  The prev pointer of the   *)
(* head points to the tail.  One action is one call of a single client.    *)
(*                                                                         *)
(* A node is memory for one ina_list_node_t: granted by the pool of a list *)
(* or, for lists without memory of their own (INA_LIST_CF_NOMALLOC),       *)
(* brought by the client.  A pool bears the name of the list that owns it. *)
(* The first undefined behaviour is recorded in `fault' and ends the       *)
(* behaviour: "null", "uaf" and "oob" as in MemPool, "uninit" (a pointer   *)
(* that was never set is followed) and "hang" (a walk does not end).       *)
(***************************************************************************)
EXTENDS Integers, Sequences, FiniteSets, SequencesExt

CONSTANTS
    Node,           \* memory for nodes
    Own,            \* the nodes the client brings
    List,           \* lists
    NoMalloc,       \* the lists created with INA_LIST_CF_NOMALLOC
    NIL,            \* the null pointer
    Data,           \* what nodes carry, ordered as the client's compare_fn does
    MaxRecyclable,  \* sizes of recycling arrays: INA_LIST_DEFAULT_SIZE first
    Calls,          \* the API entry points the client uses
    BrokenCalls,    \* bound: those it uses on a list that a call has broken
    MallocMayFail   \* whether a pool of nodes may fail to grow

CLIENT == "client"

ASSUME NilAssumption ==
    NIL \notin Node \cup List \cup {CLIENT} /\ CLIENT \notin List

ASSUME ListAssumption ==
    /\ Own \subseteq Node /\ NoMalloc \subseteq List
    /\ Data \subseteq Nat /\ IsFiniteSet(Node)
    /\ MaxRecyclable \in Seq(Nat) /\ MaxRecyclable # << >>
    /\ MaxRecyclable[1] > 0
    /\ MallocMayFail \in BOOLEAN

VARIABLES
    cell,   \* the nodes
    list,   \* the ina_list_s structs
    fault   \* the first undefined behaviour, or "none"

vars == <<cell, list, fault>>

(* A node.  home is the pool it was granted from, CLIENT, or NIL when it   *)
(* is not allocated.  Ghosts: the client holds the node `idle' or believes *)
(* it `in' list `of'.                                                      *)
BlankCell ==
    [home |-> NIL, next |-> NIL, prev |-> NIL, data |-> NIL,
     use |-> "none", of |-> NIL]

(* A list.  mp says that it has a pool, array is the size of first_free    *)
(* (0: NULL), free lists first_free[1] .. first_free[last_free].  Ghost:   *)
(* taint says that a call was made on the list that breaks it.             *)
BlankList ==
    [open |-> FALSE, head |-> NIL, count |-> 0, mp |-> FALSE, array |-> 0,
     max |-> 0, free |-> << >>, taint |-> FALSE]

Live(n) == cell[n].home # NIL

(* malloc grants memory nothing refers to, so that a dangling pointer      *)
(* stays recognisable as one.                                              *)
Fresh(n) ==
    /\ ~Live(n)
    /\ \A m \in Node : Live(m) => n \notin {cell[m].next, cell[m].prev}
    /\ \A l \in List : n # list[l].head /\ n \notin Range(list[l].free)

(* The pointers that next leads to from the head; the nodes met on the     *)
(* way, up to NULL, a freed node or the first node met again; and the      *)
(* pointer that follows them, which is NULL unless the list is broken.     *)
Steps == 1 .. Cardinality(Node) + 1

Follow(p) == IF p # NIL /\ Live(p) THEN cell[p].next ELSE NIL

Trail(l) ==
    LET at[i \in Steps] == IF i = 1 THEN list[l].head ELSE Follow(at[i - 1])
    IN  at

Walk(l) ==
    LET at == Trail(l)
        met == {i \in Steps : /\ at[i] # NIL /\ Live(at[i])
                              /\ \A j \in 1 .. i - 1 : at[j] # at[i]}
    IN  [i \in 1 .. Cardinality(met) |-> at[i]]

After(l) ==
    LET s == Walk(l) IN IF s = << >> THEN list[l].head ELSE cell[Last(s)].next

WalkFault(l) ==
    LET n == After(l)
    IN  IF n = NIL THEN "none" ELSE IF Live(n) THEN "hang" ELSE "uaf"

Deref(p) == IF p = NIL THEN "null" ELSE IF Live(p) THEN "none" ELSE "uaf"

FirstFault(faults) ==
    LET bad == {i \in DOMAIN faults : faults[i] # "none"}
    IN  IF bad = {} THEN "none"
        ELSE faults[CHOOSE i \in bad : \A j \in bad : i <= j]

-----------------------------------------------------------------------------
Call(name) == fault = "none" /\ name \in Calls

On(name, l) ==
    /\ Call(name) /\ list[l].open
    /\ list[l].taint => name \in BrokenCalls

Crashes(f) == f # "none" /\ fault' = f /\ UNCHANGED <<cell, list>>

(* ina_list_new: a pool and a recycling array, except for NOMALLOC lists,  *)
(* whose max_recyclable is set all the same.                               *)
New(l) ==
    /\ Call("new") /\ ~list[l].open
    /\ list' = [list EXCEPT ![l] =
          [BlankList EXCEPT !.open = TRUE, !.max = MaxRecyclable[1],
              !.mp = l \notin NoMalloc,
              !.array = IF l \in NoMalloc THEN 0 ELSE MaxRecyclable[1]]]
    /\ UNCHANGED <<cell, fault>>

(* The memory of a pool goes back to malloc, and with the list that of the *)
(* nodes the client has brought.                                           *)
Freed(l) ==
    [n \in Node |->
        IF cell[n].home = l \/ (cell[n].home = CLIENT /\ cell[n].of = l)
        THEN BlankCell
        ELSE IF cell[n].of = l THEN [cell[n] EXCEPT !.use = "none", !.of = NIL]
        ELSE cell[n]]

Free(l) ==
    /\ On("free", l)
    /\ cell' = Freed(l)
    /\ list' = [list EXCEPT ![l] = BlankList]
    /\ UNCHANGED fault

-----------------------------------------------------------------------------
(* Nodes.                                                                  *)

(* ina_list_node_new on l may return n: the node recycled last, or memory  *)
(* from the pool.                                                          *)
Grants(l, n) ==
    IF list[l].free # << >> THEN n = Last(list[l].free)
    ELSE list[l].mp /\ Fresh(n) /\ n \notin Own

Granted(l, n, d) ==
    [cell EXCEPT ![n].home = IF list[l].free # << >> THEN @ ELSE l,
                 ![n].data = d]

FreeAfterGrant(l) ==
    IF list[l].free # << >> THEN Front(list[l].free) ELSE << >>

(* dalloc is handed a NULL pool, or cannot grow it; the caller uses the    *)
(* NULL node.                                                              *)
GrantFault(l) ==
    IF list[l].free # << >> THEN Deref(Last(list[l].free))
    ELSE IF ~list[l].mp THEN "null" ELSE "none"

NodeNew(l) ==
    /\ On("node_new", l) /\ GrantFault(l) = "none"
    /\ \E n \in Node, d \in Data :
          /\ Grants(l, n)
          /\ cell' = [Granted(l, n, d) EXCEPT ![n].use = "idle", ![n].of = l]
    /\ list' = [list EXCEPT ![l].free = FreeAfterGrant(l)]
    /\ UNCHANGED fault

GrantCrash(l) ==
    /\ \E name \in {"node_new", "insert_tail_data", "insert_head_data"} :
          On(name, l)
    /\ \/ Crashes(GrantFault(l))
       \/ MallocMayFail /\ list[l].free = << >> /\ Crashes("null")

(* Mutant: the node stays on the client's side too.                        *)
RecycledTwice(l, n) == list[l].free \o <<n, n>>

Recycled(l, n) == Append(list[l].free, n)

(* first_free has room for array nodes but its slot 0 is never used, so    *)
(* the last node goes to the slot behind the array.                        *)
RecycleFault(l) ==
    LET slot == Len(list[l].free) + 1
    IN  IF slot > list[l].max THEN "none"
        ELSE IF list[l].array = 0 THEN "null"
        ELSE IF slot >= list[l].array THEN "oob" ELSE "none"

FreeAfterRecycle(l, n) ==
    IF Len(list[l].free) < list[l].max THEN Recycled(l, n) ELSE list[l].free

NodeFree(l) ==
    /\ On("node_free", l)
    /\ \E n \in Node :
          /\ cell[n].use = "idle" /\ cell[n].of = l
          /\ \/ Crashes(RecycleFault(l))
             \/ /\ RecycleFault(l) = "none"
                /\ list' = [list EXCEPT ![l].free = FreeAfterRecycle(l, n)]
                /\ cell' = [cell EXCEPT ![n].use = "none", ![n].of = NIL]
                /\ UNCHANGED fault

(* The client of a NOMALLOC list brings nodes, and frees them when it has  *)
(* removed them.                                                           *)
Bring(l) ==
    /\ On("bring", l) /\ l \in NoMalloc
    /\ \E n \in Own, d \in Data :
          /\ Fresh(n)
          /\ cell' = [cell EXCEPT ![n].home = CLIENT, ![n].data = d,
                                  ![n].use = "idle", ![n].of = l]
    /\ UNCHANGED <<list, fault>>

Drop(l) ==
    /\ On("bring", l)
    /\ \E n \in Own :
          /\ cell[n].use = "idle" /\ cell[n].of = l
          /\ cell' = [cell EXCEPT ![n] = BlankCell]
    /\ UNCHANGED <<list, fault>>

-----------------------------------------------------------------------------
(* Inserting.  cells are the nodes, with n allocated.                      *)

Head1(l) == list[l].head

LinkedTail(l, n, cells) ==
    LET h == Head1(l)
        t == cells[h].prev
    IN  IF h = NIL THEN [cells EXCEPT ![n].prev = n, ![n].next = NIL]
        ELSE [[cells EXCEPT ![n].prev = t, ![n].next = NIL, ![h].prev = n]
                 EXCEPT ![t].next = n]

TailFault(l) ==
    LET h == Head1(l)
    IN  IF h = NIL THEN "none"
        ELSE FirstFault(<<Deref(h), IF Live(h) THEN Deref(cell[h].prev) ELSE "none">>)

(* The new node is linked before the head, but list->head is not changed.  *)
LinkedHead(l, n, cells) ==
    LET h == Head1(l)
    IN  IF h = NIL THEN [cells EXCEPT ![n].prev = n, ![n].next = NIL]
        ELSE [cells EXCEPT ![n].prev = cells[h].prev, ![n].next = h,
                           ![h].prev = n]

HeadFault(l) == IF Head1(l) = NIL THEN "none" ELSE Deref(Head1(l))

(* A node from another list's pool dies with that pool.                    *)
Foreign(l, n, cells) == cells[n].home \notin {l, CLIENT}

Counted(l, n, cells, broken) ==
    [list[l] EXCEPT !.count = @ + 1, !.head = IF @ = NIL THEN n ELSE @,
        !.taint = @ \/ broken \/ Foreign(l, n, cells)]

Joins(cells, l, n) == [cells EXCEPT ![n].use = "in", ![n].of = l]

InsertTail(l) ==
    /\ On("insert_tail", l)
    /\ \E n \in Node :
          /\ cell[n].use = "idle" /\ cell[n].of = l
          /\ \/ Crashes(FirstFault(<<Deref(n), TailFault(l)>>))
             \/ /\ Live(n) /\ TailFault(l) = "none"
                /\ cell' = Joins(LinkedTail(l, n, cell), l, n)
                /\ list' = [list EXCEPT ![l] = Counted(l, n, cell, FALSE)]
                /\ UNCHANGED fault

InsertHead(l) ==
    /\ On("insert_head", l)
    /\ \E n \in Node :
          /\ cell[n].use = "idle" /\ cell[n].of = l
          /\ \/ Crashes(FirstFault(<<Deref(n), HeadFault(l)>>))
             \/ /\ Live(n) /\ HeadFault(l) = "none"
                /\ cell' = Joins(LinkedHead(l, n, cell), l, n)
                /\ list' = [list EXCEPT ![l] =
                       Counted(l, n, cell, Head1(l) # NIL)]
                /\ UNCHANGED fault

InsertTailData(l) ==
    /\ On("insert_tail_data", l) /\ GrantFault(l) = "none"
    /\ \E n \in Node, d \in Data : LET cells == Granted(l, n, d) IN
          /\ Grants(l, n)
          /\ \/ Crashes(TailFault(l))
             \/ /\ TailFault(l) = "none"
                /\ cell' = Joins(LinkedTail(l, n, cells), l, n)
                /\ list' = [list EXCEPT ![l] =
                      [Counted(l, n, cells, FALSE) EXCEPT !.free = FreeAfterGrant(l)]]
                /\ UNCHANGED fault

InsertHeadData(l) ==
    /\ On("insert_head_data", l) /\ GrantFault(l) = "none"
    /\ \E n \in Node, d \in Data : LET cells == Granted(l, n, d) IN
          /\ Grants(l, n)
          /\ \/ Crashes(HeadFault(l))
             \/ /\ HeadFault(l) = "none"
                /\ cell' = Joins(LinkedHead(l, n, cells), l, n)
                /\ list' = [list EXCEPT ![l] =
                      [Counted(l, n, cells, Head1(l) # NIL)
                         EXCEPT !.free = FreeAfterGrant(l)]]
                /\ UNCHANGED fault

-----------------------------------------------------------------------------
(* Removing.                                                               *)

(* Mutant: a removed tail stays the tail.                                  *)
UnlinkedKeepingTail(l, n) ==
    LET next == cell[n].next
        cells == IF next = NIL THEN cell
                 ELSE [cell EXCEPT ![next].prev = cell[n].prev]
    IN  IF Head1(l) = n THEN cells ELSE [cells EXCEPT ![cells[n].prev].next = next]

(* The neighbours of n as ina_list_remove rewires them.                    *)
Unlinked(l, n) ==
    LET h == Head1(l)
        back == IF cell[n].next # NIL THEN cell[n].next ELSE h
        cells == [cell EXCEPT ![back].prev = cell[n].prev]
    IN  IF h = n THEN cells
        ELSE [cells EXCEPT ![cells[n].prev].next = cell[n].next]

RemoveFault(l, n) ==
    LET h == Head1(l)
        back == IF cell[n].next # NIL THEN cell[n].next ELSE h
    IN  FirstFault(<<Deref(n), Deref(back),
                     IF h = n THEN "none" ELSE Deref(cell[n].prev)>>)

(* Mutant: the head stays when it is removed and others follow.            *)
HeadKept(l, n) == IF cell[n].next = NIL THEN NIL ELSE Head1(l)

HeadAfter(l, n) == IF Head1(l) = n THEN cell[n].next ELSE Head1(l)

(* Mutant: count is left alone.                                            *)
ShortenedUncounted(l, n) == [list[l] EXCEPT !.head = HeadAfter(l, n)]

Shortened(l, n) == [list[l] EXCEPT !.count = @ - 1, !.head = HeadAfter(l, n)]

RemoveNode(l) ==
    /\ On("remove", l)
    /\ \E n \in Node :
          /\ cell[n].use = "in" /\ cell[n].of = l
          /\ \/ ~Live(n) /\ Crashes("uaf")
             \/ Live(n) /\ Crashes(RemoveFault(l, n))
             \/ /\ Live(n) /\ RemoveFault(l, n) = "none"
                /\ cell' = [Unlinked(l, n) EXCEPT ![n].use = "idle"]
                /\ list' = [list EXCEPT ![l] = Shortened(l, n)]
                /\ UNCHANGED fault

(* Of the nodes the walk meets, the first one with the data.               *)
FirstWith(l, n, d) ==
    \E i \in DOMAIN Walk(l) :
        /\ Walk(l)[i] = n /\ cell[n].data = d
        /\ \A j \in 1 .. i - 1 : cell[Walk(l)[j]].data # d

Misses(l, d) == \A i \in DOMAIN Walk(l) : cell[Walk(l)[i]].data # d

RemoveData(l) ==
    /\ On("remove_data", l)
    /\ \E n \in Node, d \in Data :
          /\ FirstWith(l, n, d)
          /\ LET f == FirstFault(<<RemoveFault(l, n), RecycleFault(l)>>)
             IN  \/ Crashes(f)
                 \/ /\ f = "none"
                    /\ cell' = [Unlinked(l, n) EXCEPT ![n].use = "none", ![n].of = NIL]
                    /\ list' = [list EXCEPT ![l] = [Shortened(l, n)
                                   EXCEPT !.free = FreeAfterRecycle(l, n)]]
                    /\ UNCHANGED fault

(* foreach, find and remove_data follow next from the head; find_data      *)
(* then follows the node that ina_list_find has never set.                 *)
WalkCrash(l) ==
    \/ On("foreach", l) /\ Crashes(WalkFault(l))
    \/ On("remove_data", l) /\ (\E d \in Data : Misses(l, d))
          /\ Crashes(WalkFault(l))
    \/ On("find_data", l) /\ (\E d \in Data : ~Misses(l, d))
          /\ Crashes("uninit")

-----------------------------------------------------------------------------
(* ina_list_concat: the nodes and the pool of s go to d.                   *)

(* Mutant: the tail of d is read after prev of its head was overwritten.   *)
AttachedLate(d, s) ==
    LET hd == Head1(d)
        hs == Head1(s)
        t == cell[hs].prev
    IN  [[[cell EXCEPT ![hd].prev = t] EXCEPT ![hs].prev = t] EXCEPT ![t].next = hs]

Attached(d, s) ==
    LET hd == Head1(d)
        hs == Head1(s)
        t == cell[hd].prev
    IN  [[[cell EXCEPT ![hd].prev = cell[hs].prev] EXCEPT ![hs].prev = t]
            EXCEPT ![t].next = hs]

(* Mutant: the pool is not merged.                                         *)
Unmerged(cells, d, s) ==
    [n \in Node |->
        [cells[n] EXCEPT !.of = IF @ = s /\ cells[n].use = "in" THEN d ELSE @]]

Rehomed(cells, d, s) ==
    [n \in Node |->
        [cells[n] EXCEPT !.home = IF @ = s THEN d ELSE @,
            !.of = IF @ = s /\ cells[n].use = "in" THEN d ELSE @]]

ConcatFault(d, s) ==
    IF Head1(d) = NIL THEN "none"
    ELSE FirstFault(<<Deref(Head1(d)), Deref(Head1(s)), TailFault(d)>>)

Lengthened(d, s) ==
    [list[d] EXCEPT
        !.head = IF @ = NIL THEN Head1(s) ELSE @,
        !.count = IF Head1(d) = NIL THEN list[s].count ELSE @ + list[s].count,
        !.mp = @ \/ list[s].mp, !.taint = @ \/ list[s].taint]

Emptied(s) == [list[s] EXCEPT !.head = NIL, !.count = 0, !.mp = FALSE]

Concat(d, s) ==
    /\ On("concat", d) /\ On("concat", s) /\ d # s
    /\ Head1(s) # NIL
    /\ \/ Crashes(ConcatFault(d, s))
       \/ /\ ConcatFault(d, s) = "none"
          /\ cell' = Rehomed(IF Head1(d) = NIL THEN cell ELSE Attached(d, s), d, s)
          /\ list' = [list EXCEPT ![d] = Lengthened(d, s), ![s] = Emptied(s)]
          /\ UNCHANGED fault

-----------------------------------------------------------------------------
(* ina_list_sort: equal data comes out in reverse order, and prev of the   *)
(* new head is NULL instead of the tail.                                   *)

(* So many nodes of the walk s come before its i-th one.                   *)
Rank(s, i) ==
    Cardinality({j \in DOMAIN s :
                    \/ cell[s[j]].data < cell[s[i]].data
                    \/ cell[s[j]].data = cell[s[i]].data /\ j > i})

SortedWalk(l) ==
    LET s == Walk(l)
    IN  [k \in DOMAIN s |-> s[CHOOSE i \in DOMAIN s : Rank(s, i) = k - 1]]

(* Nodes linked in the order of s; the first one has no prev.              *)
LinkedAs(s) ==
    [n \in Node |->
        IF n \notin Range(s) THEN cell[n]
        ELSE LET i == CHOOSE j \in DOMAIN s : s[j] = n
             IN  [cell[n] EXCEPT !.next = IF i = Len(s) THEN NIL ELSE s[i + 1],
                                 !.prev = IF i = 1 THEN NIL ELSE s[i - 1]]]

Sort(l) ==
    /\ On("sort", l)
    /\ \/ Crashes(WalkFault(l))
       \/ /\ WalkFault(l) = "none" /\ Len(Walk(l)) > 1
          /\ cell' = LinkedAs(SortedWalk(l))
          /\ list' = [list EXCEPT ![l].head = SortedWalk(l)[1]]
          /\ UNCHANGED fault

-----------------------------------------------------------------------------
(* ina_list_resize: the nodes are copied to a new pool with their links,   *)
(* and the old pool is freed.  k = 0 leaves the list without array.        *)

Array(r, k) ==
    [r EXCEPT !.mp = TRUE, !.free = << >>, !.array = k,
              !.max = IF k > 0 THEN k ELSE @]

ResizeEmpty(l) ==
    /\ On("resize", l) /\ l \notin NoMalloc
    /\ Head1(l) = NIL /\ list[l].mp
    /\ \E i \in DOMAIN MaxRecyclable :
          list' = [list EXCEPT ![l] = Array(@, MaxRecyclable[i])]
    /\ cell' = Freed(l)
    /\ UNCHANGED fault

(* Without a pool of its own (after concat) the list keeps its nodes.      *)
ResizeKeep(l) ==
    /\ On("resize", l) /\ l \notin NoMalloc
    /\ ~list[l].mp
    /\ \E i \in DOMAIN MaxRecyclable :
          list' = [list EXCEPT ![l] = Array(@, MaxRecyclable[i])]
    /\ UNCHANGED <<cell, fault>>

Copies(l, copy) ==
    [n \in Node |->
        IF n \in Range(copy)
        THEN LET old == cell[Walk(l)[CHOOSE i \in DOMAIN copy : copy[i] = n]]
             IN  [old EXCEPT !.home = l, !.use = "in", !.of = l]
        ELSE Freed(l)[n]]

ResizeCopy(l) ==
    /\ On("resize", l) /\ l \notin NoMalloc
    /\ Head1(l) # NIL /\ list[l].mp
    /\ \/ Crashes(WalkFault(l))
       \/ /\ WalkFault(l) = "none"
          /\ \E i \in DOMAIN MaxRecyclable,
                copy \in [DOMAIN Walk(l) -> {n \in Node \ Own : Fresh(n)}] :
                /\ IsInjective(copy)
                /\ cell' = Copies(l, copy)
                /\ list' = [list EXCEPT ![l] =
                       [Array(@, MaxRecyclable[i]) EXCEPT !.head = copy[1],
                                                          !.taint = TRUE]]
          /\ UNCHANGED fault

-----------------------------------------------------------------------------
Init ==
    /\ cell = [n \in Node |-> BlankCell]
    /\ list = [l \in List |-> BlankList]
    /\ fault = "none"

Next ==
    \/ \E l \in List :
          \/ New(l) \/ Free(l) \/ Bring(l) \/ Drop(l)
          \/ NodeNew(l) \/ NodeFree(l) \/ GrantCrash(l)
          \/ InsertTail(l) \/ InsertTailData(l)
          \/ InsertHead(l) \/ InsertHeadData(l)
          \/ RemoveNode(l) \/ RemoveData(l) \/ WalkCrash(l)
          \/ Sort(l) \/ ResizeEmpty(l) \/ ResizeKeep(l) \/ ResizeCopy(l)
    \/ \E d, s \in List : Concat(d, s)

Spec == Init /\ [][Next]_vars

-----------------------------------------------------------------------------
(* Properties.                                                             *)

Faults == {"none", "null", "uaf", "oob", "uninit", "hang"}

CellType ==
    [home : List \cup {CLIENT, NIL}, next : Node \cup {NIL},
     prev : Node \cup {NIL}, data : Data \cup {NIL},
     use : {"none", "idle", "in"}, of : List \cup {NIL}]

(* Every variable has its type; the recycling array never holds more nodes *)
(* than it may.                                                            *)
TypeOK ==
    /\ cell \in [Node -> CellType]
    /\ \A l \in List :
          /\ list[l].head \in Node \cup {NIL}
          /\ list[l].count \in Int
          /\ Range(list[l].free) \subseteq Node
          /\ Len(list[l].free) <= list[l].max
          /\ {list[l].open, list[l].mp, list[l].taint} \subseteq BOOLEAN
    /\ fault \in Faults

(* The nodes of a list, as long as no call was made that breaks it: they   *)
(* are allocated, prev leads back, the walk ends, and it meets count nodes *)
(* whatever was done to other lists that shared nodes or memory with it;   *)
(* and every variable keeps its type.                                      *)
Forward(l) ==
    LET s == Walk(l)
    IN  /\ After(l) = NIL
        /\ list[l].count = Len(s)
        /\ \A i \in 2 .. Len(s) : cell[s[i]].prev = s[i - 1]

ForwardSound ==
    TypeOK /\ \A l \in List : list[l].open /\ ~list[l].taint => Forward(l)

(* The walk meets exactly the nodes the client put into the list.          *)
MembersMet ==
    \A l \in List : list[l].open /\ ~list[l].taint =>
        Range(Walk(l)) = {n \in Node : cell[n].use = "in" /\ cell[n].of = l}

(* The head knows the tail, or nothing, never a node that was removed.     *)
TailKnown ==
    \A l \in List : list[l].open /\ ~list[l].taint /\ Head1(l) # NIL =>
        cell[Head1(l)].prev \in {Last(Walk(l)), NIL}

(* A recycled node waits in one place only and in no list.                 *)
Unbroken == {l \in List : list[l].open /\ ~list[l].taint}

RecycledApart ==
    \A l, k \in Unbroken :
        /\ \A i \in DOMAIN list[l].free, j \in DOMAIN list[k].free :
              list[l].free[i] = list[k].free[j] => l = k /\ i = j
        /\ Range(list[l].free) \cap Range(Walk(k)) = {}

(* A call on one list leaves the nodes of every other list alone; concat   *)
(* is a call on two.                                                       *)
OthersSpared ==
    [][\A l, k \in List :
          /\ l # k /\ list'[l] # list[l] /\ list'[k] = list[k]
          /\ list[k].open /\ ~list[k].taint
          => \A i \in DOMAIN Walk(k) : cell'[Walk(k)[i]] = cell[Walk(k)[i]]]_vars
=============================================================================
