------------------------------- MODULE MemPool -------------------------------
(***************************************************************************)
(* Private (not SHARED) memory pools of src/src/memory.c: the chunk chain  *)
(* of a pool, the two bump pointers of a chunk, and the registry of pools  *)
(* that ina_mempool_init creates.  One action is one call of the API by a  *)
(* single client, from entry to return; the release build is modelled, so  *)
(* INA_ASSERT_* do nothing.                                                *)
(*                                                                         *)
(* A chunk is a ina_mempool_s struct together with the memory its field m  *)
(* points to.  Pool labels are left out.  The first undefined behaviour    *)
(* (NULL or freed memory dereferenced, write outside an allocation) is     *)
(* recorded in `fault' and ends the behaviour.                             *)
(***************************************************************************)
EXTENDS Integers, Sequences, FiniteSets, FiniteSetsExt, SequencesExt

CONSTANTS
    Chunk,          \* addresses of ina_mempool_s structs
    Slot,           \* the client's variables of type ina_mempool_t*
    NIL,            \* the null pointer
    AlignSize,      \* INA_MEM_ALIGN_SIZE
    MinPoolSize,    \* INA_MEM_MIN_POOL_SIZE
    SizeMod,        \* size_t counts modulo SizeMod
    Overhead,       \* bytes ina_mem_alloc adds to a request
    HeapMax,        \* largest request malloc can grant
    PoolSizes,      \* sizes the client passes to ina_mempool_new
    Requests,       \* sizes the client passes to dalloc, nalloc and ralloc
    ShrinkTo,       \* chunk counts the client passes to ina_mempool_shrink
    CfChoices,      \* creation flags the client uses, each a set of flags
    Calls,          \* the API entry points the client uses
    MallocMayFail,  \* whether malloc may fail below HeapMax too
    MaxBlocks       \* bound: blocks the client holds at one time

Flags == {"DYNAMIC", "AUTOSIZE", "BESTFIT", "CHILD", "NOZEROFILL"}

ASSUME NilAssumption == NIL \notin Chunk

ASSUME SizeAssumption ==
    /\ {AlignSize, MinPoolSize, SizeMod} \subseteq Nat \ {0}
    /\ {Overhead, HeapMax, MaxBlocks} \subseteq Nat
    /\ MinPoolSize < SizeMod /\ AlignSize <= SizeMod
    /\ SizeMod % AlignSize = 0
    /\ PoolSizes \subseteq 0 .. SizeMod - 1
    /\ Requests \subseteq 1 .. SizeMod - 1
    /\ ShrinkTo \subseteq Nat

ASSUME ChoiceAssumption ==
    /\ CfChoices \subseteq SUBSET (Flags \ {"CHILD"})
    /\ MallocMayFail \in BOOLEAN

VARIABLES
    chunk,   \* the structs and their memory
    pools,   \* __pools: the list of registered pools, in list order
    up,      \* FALSE once __pools has been freed and set to NULL
    handle,  \* the value of each client variable
    held,    \* ghost: the client variables that stand for an open pool
    blocks,  \* ghost: the blocks granted to the client and not given up
    info,    \* the ina_mempool_info_t of the last call, or NoInfo
    rc,      \* the outcome of the last call
    fault    \* the first undefined behaviour, or "none"

vars == <<chunk, pools, up, handle, held, blocks, info, rc, fault>>

-----------------------------------------------------------------------------
(* Sizes.  size_t addition wraps; INA_MEM_ALIGN(n) may wrap to 0.           *)

Wrap(n) == IF n >= SizeMod THEN n - SizeMod ELSE n

AlignUp(n) == n + (AlignSize - 1) - ((n + (AlignSize - 1)) % AlignSize)

MemAlign(n) == Wrap(AlignUp(n))

Larger(a, b) == IF a >= b THEN a ELSE b
Smaller(a, b) == IF a <= b THEN a ELSE b

PoolBytes(n) == MemAlign(Larger(n, MinPoolSize))

(* What a request of n bytes takes from a pool: `cf^INA_MEM_BESTFIT' is    *)
(* zero only for a pool whose flags are exactly BESTFIT.                   *)
Need(p, n) == IF chunk[p].cf = {"BESTFIT"} THEN n ELSE MemAlign(n)

-----------------------------------------------------------------------------
(* Chunks and chains.                                                      *)

Live(c) == chunk[c].live

BlankChunk ==
    [live |-> FALSE, size |-> 0, pos |-> 0, end |-> 0, cf |-> {},
     zeroed |-> FALSE, lo |-> 0, hi |-> 0, current |-> NIL, parent |-> NIL, child |-> NIL, root |-> NIL]

(* A struct as ina_mempool_new leaves it.  Ghosts: zeroed says that the    *)
(* memory was zero when pos was last set to 0, and then only bytes below   *)
(* lo and from hi on may have changed; root is the pool of the chunk.      *)
NewChunk(c, size, cf, parent, root) ==
    [live |-> TRUE, size |-> size, pos |-> 0, end |-> size, cf |-> cf,
     zeroed |-> "NOZEROFILL" \notin cf, lo |-> 0, hi |-> size,
     current |-> c, parent |-> parent, child |-> NIL, root |-> root]

(* malloc returns an address nothing refers to, so that a dangling pointer *)
(* stays recognisable as one.                                              *)
Reusable(c) ==
    /\ ~Live(c)
    /\ \A i \in DOMAIN pools : pools[i] # c
    /\ \A x \in Chunk : Live(x) => c \notin {chunk[x].current,
                                             chunk[x].parent, chunk[x].child}
    /\ \A s \in held : handle[s] # c

ChildClosed(S) == \A c \in S : chunk[c].child # NIL => chunk[c].child \in S

(* Mutant: the walk follows the links of __pools too.                      *)
ChainThroughList(p) ==
    {c \in Chunk : Live(c) /\ chunk[c].root = chunk[p].root}
        \cup {pools[i] : i \in DOMAIN pools}

(* The chunks met when the child pointers are followed from p.             *)
Chain(p) ==
    {c \in Chunk : \A S \in SUBSET Chunk :
                      (p \in S /\ ChildClosed(S)) => c \in S}

(* Mutant: what nalloc took is not counted.                                *)
InfoOfBottom(p) ==
    [size     |-> MapThenSumSet(LAMBDA c : chunk[c].size, Chain(p)),
     used     |-> MapThenSumSet(LAMBDA c : chunk[c].pos, Chain(p)),
     children |-> Cardinality(Chain(p)) - 1]

InfoOf(p) ==
    [size     |-> MapThenSumSet(LAMBDA c : chunk[c].size, Chain(p)),
     used     |-> MapThenSumSet(LAMBDA c : chunk[c].pos
                                    + (chunk[c].size - chunk[c].end), Chain(p)),
     children |-> Cardinality(Chain(p)) - 1]

NoInfo == [size |-> 0, used |-> 0, children |-> 0]

(* What malloc and the code after it can do when ina_mempool_new is called *)
(* for `size' bytes: "ok"; "oom", the struct was not allocated and *pool   *)
(* is NULL; "null", m is NULL and is zero filled; "uaf", m is NULL and the *)
(* error path reads the struct it has freed; "oob", the size of the        *)
(* request wrapped in ina_mem_alloc.                                       *)
NewOutcomes(size, cf) ==
    LET noMemory == IF "NOZEROFILL" \in cf \/ size = 0 THEN "uaf" ELSE "null"
        memory   == IF size > 0 /\ size + Overhead >= SizeMod THEN {"oob"}
                    ELSE IF size = 0 \/ size > HeapMax THEN {noMemory}
                    ELSE IF MallocMayFail THEN {"ok", noMemory} ELSE {"ok"}
    IN  memory \cup (IF MallocMayFail THEN {"oom"} ELSE {})

(* The size asked for a further chunk of pool p.                           *)
GrowthSize(p, n) ==
    PoolBytes(IF "AUTOSIZE" \in chunk[p].cf \/ n > chunk[p].size
              THEN n ELSE chunk[p].size)

Growths(p, n) == NewOutcomes(GrowthSize(p, n), chunk[p].cf)

(* Mutant: the new chunk is not linked to the chunk it was added behind.   *)
GrownUnlinked(p, n, c) ==
    [chunk EXCEPT ![c] = NewChunk(c, GrowthSize(p, n),
                                  chunk[p].cf \cup {"CHILD"},
                                  chunk[p].current, p),
                  ![p].current = c]

(* The structs after a chunk c was appended to the current chunk of p.     *)
Grown(p, n, c) ==
    LET cur == chunk[p].current
        new == NewChunk(c, GrowthSize(p, n), chunk[p].cf \cup {"CHILD"},
                        cur, p)
    IN  [[[chunk EXCEPT ![c] = new] EXCEPT ![cur].child = c]
            EXCEPT ![p].current = c]

-----------------------------------------------------------------------------
(* The list of pools: an intrusive doubly linked list (list.c).  Inserting *)
(* at the tail touches the first and the last node; removing a node        *)
(* touches its neighbours and, for the last node, the first.               *)

TouchedByInsert == IF pools = <<>> THEN {} ELSE {pools[1], pools[Len(pools)]}

(* Mutant: the tail goes instead of the node.                              *)
TailUnlinked(i) == RemoveAt(pools, Len(pools))

Unlinked(i) == RemoveAt(pools, i)

TouchedByRemove(i) ==
    {pools[j] : j \in {i - 1, i + 1} \cap DOMAIN pools}
        \cup (IF i = Len(pools) THEN {pools[1]} ELSE {})

ListFault(touched) ==
    IF ~up THEN "null"
    ELSE IF \E c \in touched : ~Live(c) THEN "uaf" ELSE "none"

-----------------------------------------------------------------------------
(* Calls and their outcomes.                                               *)

Call(name) == fault = "none" /\ name \in Calls

(* A call on the open pool of s.                                           *)
On(name, s) == Call(name) /\ s \in held /\ Live(handle[s])

Returns(code) == rc' = code /\ info' = NoInfo /\ fault' = "none"

Fails(code) ==
    /\ Returns(code)
    /\ UNCHANGED <<chunk, pools, up, handle, held, blocks>>

Crashes(f) ==
    /\ fault' = f
    /\ UNCHANGED <<chunk, pools, up, handle, held, blocks, info, rc>>

(* Every call reads its pool first: a handle to a freed struct is fatal.   *)
UseFreed(s) ==
    /\ fault = "none"
    /\ s \in held /\ ~Live(handle[s])
    /\ Crashes("uaf")

-----------------------------------------------------------------------------
(* ina_mempool_new for a private pool.                                     *)

NewRejected(s) ==
    /\ Call("new") /\ s \notin held
    /\ 0 \in PoolSizes
    /\ Fails("INVALID_ARGUMENT")

NewPool(s) ==
    /\ Call("new") /\ s \notin held
    /\ \E n \in PoolSizes \ {0}, cf \in CfChoices, c \in Chunk :
          /\ Reusable(c)
          /\ "ok" \in NewOutcomes(PoolBytes(n), cf)
          /\ ListFault(TouchedByInsert) = "none"
          /\ chunk' = [chunk EXCEPT ![c] =
                          NewChunk(c, PoolBytes(n), cf, NIL, c)]
          /\ pools' = Append(pools, c)
          /\ handle' = [handle EXCEPT ![s] = c]
    /\ held' = held \cup {s}
    /\ Returns("SUCCESS")
    /\ UNCHANGED <<up, blocks>>

NewNoStruct(s) ==
    /\ Call("new") /\ s \notin held
    /\ \E n \in PoolSizes \ {0}, cf \in CfChoices :
          "oom" \in NewOutcomes(PoolBytes(n), cf)
    /\ handle' = [handle EXCEPT ![s] = NIL]
    /\ Returns("OUT_OF_MEMORY")
    /\ UNCHANGED <<chunk, pools, up, held, blocks>>

NewCrash(s) ==
    /\ Call("new") /\ s \notin held
    /\ \E n \in PoolSizes \ {0}, cf \in CfChoices :
          \E o \in NewOutcomes(PoolBytes(n), cf) :
             \/ o \in {"null", "uaf", "oob"} /\ Crashes(o)
             \/ /\ o = "ok" /\ ListFault(TouchedByInsert) # "none"
                /\ Crashes(ListFault(TouchedByInsert))

(* ina_mempool_free: unlink from the parent and from the list, free every  *)
(* chunk of the chain.  The client's variable keeps its value.             *)
Free(s) ==
    /\ On("free", s)
    /\ LET p == handle[s]
           gone == Chain(p)
       IN  \E i \in DOMAIN pools :
              /\ pools[i] = p
              /\ ListFault(TouchedByRemove(i)) = "none"
              /\ pools' = Unlinked(i)
              /\ chunk' = [c \in Chunk |->
                     IF c \in gone THEN BlankChunk
                     ELSE IF c = chunk[p].parent
                          THEN [chunk[c] EXCEPT !.child = NIL]
                     ELSE chunk[c]]
              /\ blocks' = {b \in blocks : b.pool # p}
    /\ held' = held \ {s}
    /\ Returns("SUCCESS")
    /\ UNCHANGED <<up, handle>>

FreeCrash(s) ==
    /\ On("free", s)
    /\ \/ ~up /\ Crashes("null")
       \/ \E i \in DOMAIN pools :
             /\ pools[i] = handle[s]
             /\ ListFault(TouchedByRemove(i)) # "none"
             /\ Crashes(ListFault(TouchedByRemove(i)))

(* ina_mempool_merge: src becomes the first child of dest.  The client     *)
(* gives up src, as the header asks, and keeps src's blocks through dest.  *)
Merge(d, s) ==
    /\ On("merge", d) /\ On("merge", s) /\ d # s
    /\ LET dest == handle[d]
           src == handle[s]
       IN  /\ chunk' = [c \in Chunk |->
                  IF c = src THEN [chunk[c] EXCEPT !.parent = dest,
                                      !.child = chunk[dest].child, !.root = dest]
                  ELSE IF c = dest THEN [chunk[c] EXCEPT !.child = src]
                  ELSE IF chunk[c].root = src THEN [chunk[c] EXCEPT !.root = dest]
                  ELSE chunk[c]]
           /\ blocks' = {IF b.pool = src THEN [b EXCEPT !.pool = dest] ELSE b :
                            b \in blocks}
    /\ held' = held \ {s}
    /\ Returns("SUCCESS")
    /\ UNCHANGED <<pools, up, handle>>

-----------------------------------------------------------------------------
(* ina_mempool_info, clear, reset and shrink walk the whole chain.         *)

Info(s) ==
    /\ On("info", s)
    /\ rc' = "SUCCESS" /\ info' = InfoOf(handle[s])
    /\ UNCHANGED <<chunk, pools, up, handle, held, blocks, fault>>

(* Zero fills the chunks and gives up every block of the pool; the space   *)
(* taken from the top (end) is not given back.                             *)
Clear(s) ==
    /\ On("clear", s)
    /\ LET p == handle[s]
           chain == Chain(p)
           rewound == [c \in Chunk |->
               IF c \in chain
               THEN [chunk[c] EXCEPT !.pos = 0, !.zeroed = TRUE,
                                     !.lo = 0, !.hi = chunk[c].size]
               ELSE chunk[c]]
       IN  /\ chunk' = [rewound EXCEPT ![p].current = p]
           /\ blocks' = {b \in blocks : b.pool # p}
    /\ Returns("SUCCESS")
    /\ UNCHANGED <<pools, up, handle, held>>

Rewound(ch) == [ch EXCEPT !.pos = 0, !.zeroed = FALSE, !.lo = 0, !.hi = ch.size]

(* The same without zero fill.  end is left alone, so what nalloc granted  *)
(* is still the client's.                                                  *)
Reset(s) ==
    /\ On("reset", s)
    /\ LET p == handle[s]
           chain == Chain(p)
           rewound == [c \in Chunk |->
               IF c \in chain THEN Rewound(chunk[c]) ELSE chunk[c]]
       IN  /\ chunk' = [rewound EXCEPT ![p].current = p]
           /\ blocks' = {b \in blocks : b.pool # p \/ b.kind = "n"}
    /\ Returns("SUCCESS")
    /\ UNCHANGED <<pools, up, handle, held>>

(* ina_mempool_shrink(pool, k, info).  info is filled in before anything   *)
(* is released; the chunks are released from the root on, `pool' included. *)
ShrinkNothing(s) ==
    /\ On("shrink", s)
    /\ \E k \in ShrinkTo : InfoOf(handle[s]).children <= k
    /\ rc' = "SUCCESS" /\ info' = InfoOf(handle[s])
    /\ UNCHANGED <<chunk, pools, up, handle, held, blocks, fault>>

(* More than k further chunks: every chunk is set back.  If end of the     *)
(* root still equals its size, the root is freed first; were a second one  *)
(* due, the test would read `end' of the freed root (ShrinkCrash).         *)
ShrinkRewinds(s) ==
    /\ On("shrink", s)
    /\ LET p == handle[s]
           chain == Chain(p)
           rootGoes == chunk[p].end = chunk[p].size
           dropped == IF rootGoes THEN {p} ELSE {}
       IN  /\ \E k \in ShrinkTo :
                 /\ InfoOf(p).children > k
                 /\ rootGoes => InfoOf(p).children = k + 1
           /\ chunk' = [c \in Chunk |->
                  IF c \in dropped THEN BlankChunk
                  ELSE IF c \in chain THEN Rewound(chunk[c])
                  ELSE chunk[c]]
           /\ blocks' = {b \in blocks : b.pool # p}
           /\ info' = InfoOf(p)
    /\ rc' = "SUCCESS" /\ fault' = "none"
    /\ UNCHANGED <<pools, up, handle, held>>

ShrinkCrash(s) ==
    /\ On("shrink", s)
    /\ LET p == handle[s]
       IN  /\ chunk[p].end = chunk[p].size
           /\ \E k \in ShrinkTo : InfoOf(p).children > k + 1
    /\ Crashes("uaf")

-----------------------------------------------------------------------------
(* ina_mempool_dalloc ("d") takes bytes at the bottom of the current       *)
(* chunk, ina_mempool_nalloc ("n") at its top.                             *)

Kinds == {"d", "n"}
CallOf == [d |-> "dalloc", n |-> "nalloc"]

(* Mutant: the space nalloc took is not respected.                         *)
LacksOfSize(c, n) ==
    LET after == Wrap(chunk[c].pos + n)
    IN  after > chunk[c].size \/ after < chunk[c].pos

Lacks(c, n) ==
    LET after == Wrap(chunk[c].pos + n)
    IN  after > chunk[c].end \/ after < chunk[c].pos

(* nalloc compares the request with the end of the root, whichever chunk   *)
(* is current.                                                             *)
Bogus(p, k, n) == k = "n" /\ chunk[p].end < n

DirtyTo(ch, pos) == IF ch.zeroed THEN Larger(ch.lo, pos) ELSE ch.lo

(* Mutant: nalloc forgets to lower end.                                    *)
TakenBottomOnly(ch, k, n) ==
    IF k = "d" THEN [ch EXCEPT !.pos = @ + n, !.lo = DirtyTo(ch, ch.pos + n)]
    ELSE ch

(* Record ch after n bytes were taken for kind k and written by the client.*)
Taken(ch, k, n) ==
    LET pos == ch.pos + n
        end == ch.end - n
    IN  IF k = "d" THEN [ch EXCEPT !.pos = pos, !.lo = DirtyTo(ch, pos)]
        ELSE [ch EXCEPT !.end = end,
                        !.hi = IF ch.zeroed THEN Smaller(@, end) ELSE @]

Block(p, c, off, n, req, k) ==
    [pool |-> p, mem |-> c, off |-> off, len |-> n, req |-> req, kind |-> k]

(* The request r of kind k on the pool of s, needing n bytes of pool p.    *)
Asks(s, k, p, r, n) ==
    /\ On(CallOf[k], s)
    /\ p = handle[s] /\ r \in Requests /\ n = Need(p, r)
    /\ Cardinality(blocks) < MaxBlocks

AllocHere(s, k) ==
    /\ \E p \in Chunk, r \in Requests : LET n == Need(p, r) IN
          /\ Asks(s, k, p, r, n)
          /\ ~Bogus(p, k, n)
          /\ LET cur == chunk[p].current
                 off == IF k = "d" THEN chunk[cur].pos ELSE chunk[cur].end - n
             IN  /\ ~Lacks(cur, n)
                 /\ chunk' = [chunk EXCEPT ![cur] = Taken(@, k, n)]
                 /\ blocks' = blocks \cup {Block(p, cur, off, n, r, k)}
    /\ Returns("SUCCESS")
    /\ UNCHANGED <<pools, up, handle, held>>

AllocGrow(s, k) ==
    /\ \E p \in Chunk, r \in Requests, c \in Chunk : LET n == Need(p, r) IN
          /\ Asks(s, k, p, r, n)
          /\ ~Bogus(p, k, n)
          /\ Lacks(chunk[p].current, n)
          /\ "DYNAMIC" \in chunk[p].cf
          /\ "ok" \in Growths(p, n)
          /\ Reusable(c)
          /\ LET size == GrowthSize(p, n)
                 off == IF k = "d" THEN 0 ELSE size - n
             IN  /\ chunk' = [Grown(p, n, c) EXCEPT ![c] = Taken(@, k, n)]
                 /\ blocks' = blocks \cup {Block(p, c, off, n, r, k)}
    /\ Returns("SUCCESS")
    /\ UNCHANGED <<pools, up, handle, held>>

(* Mutant: current moves on before the result of ina_mempool_new is seen.  *)
MovedOn(p) == [chunk EXCEPT ![p].current = NIL]

(* ina_mempool_new stores NULL in current->child when it fails.            *)
Childless(p) == [chunk EXCEPT ![chunk[p].current].child = NIL]

(* The struct of the further chunk was not allocated: dalloc returns NULL. *)
DallocNoStruct(s) ==
    /\ \E p \in Chunk, r \in Requests : LET n == Need(p, r) IN
          /\ Asks(s, "d", p, r, n)
          /\ Lacks(chunk[p].current, n)
          /\ "DYNAMIC" \in chunk[p].cf
          /\ "oom" \in Growths(p, n)
          /\ chunk' = Childless(p)
    /\ Returns("OUT_OF_MEMORY")
    /\ UNCHANGED <<pools, up, handle, held, blocks>>

(* nalloc does not look at what ina_mempool_new returned.                  *)
AllocCrash(s, k) ==
    \E p \in Chunk, r \in Requests : LET n == Need(p, r) IN
       /\ Asks(s, k, p, r, n)
       /\ ~Bogus(p, k, n)
       /\ Lacks(chunk[p].current, n)
       /\ "DYNAMIC" \in chunk[p].cf
       /\ \E o \in Growths(p, n) \ {"ok"} :
             \/ o # "oom" /\ Crashes(o)
             \/ o = "oom" /\ k = "n" /\ Crashes("null")

AllocFull(s, k) ==
    \E p \in Chunk, r \in Requests : LET n == Need(p, r) IN
       /\ Asks(s, k, p, r, n)
       /\ \/ Bogus(p, k, n) /\ Fails("SIZE_INVALID")
          \/ /\ ~Bogus(p, k, n)
             /\ Lacks(chunk[p].current, n)
             /\ "DYNAMIC" \notin chunk[p].cf
             /\ Fails("POOL_FULL")

-----------------------------------------------------------------------------
(* ina_mempool_ralloc.  It looks at pos, end and m of the root only,       *)
(* whichever chunk is current and whichever chunk holds the old block.     *)

(* The client asks to resize its block b to r bytes; `old' and n are the   *)
(* two sizes after alignment.                                              *)
Resizes(s, p, b, r, old, n) ==
    /\ On("ralloc", s)
    /\ p = handle[s]
    /\ b.pool = p /\ b.kind = "d"
    /\ old = Need(p, b.req) /\ n = Need(p, r)

(* Mutant: the pointer is not compared.                                    *)
IsLastBySize(p, b, old) == chunk[p].pos >= old

IsLast(p, b, old) ==
    /\ chunk[p].pos >= old
    /\ b.mem = p /\ b.off = chunk[p].pos - old

FitsInPlace(p, old, n) == Wrap(chunk[p].pos - old + n) <= chunk[p].end

FitsBehind(p, n) ==
    LET after == Wrap(chunk[p].pos + n)
    IN  after >= chunk[p].pos /\ after <= chunk[p].end

(* Neither the resize in place nor the move fits.                          *)
Overflows(p, b, old, n) ==
    /\ chunk[p].end >= old
    /\ IF IsLast(p, b, old) THEN ~FitsInPlace(p, old, n)
       ELSE n > old /\ ~FitsBehind(p, n)

(* Mutant: the tail given back is not zeroed again.                        *)
LoKept(p, old, n, pos) == DirtyTo(chunk[p], pos)

(* Ghost lo of the root after a resize in place, which zeroes what it      *)
(* gives back.                                                             *)
LoAfterResize(p, old, n, pos) ==
    IF n < old /\ chunk[p].lo <= chunk[p].pos THEN Smaller(chunk[p].lo, pos)
    ELSE DirtyTo(chunk[p], pos)

(* What is zeroed ends where the block ended: behind the memory of a root  *)
(* that ralloc has overrun.                                                *)
ZeroesBehind(p, old, n) == n < old /\ chunk[p].pos > chunk[p].size

Replace(b, new) == blocks' = (blocks \ {b}) \cup {new}

RallocInPlace(s) ==
    /\ \E p \in Chunk, b \in blocks, r \in Requests :
       LET old == Need(p, b.req)  n == Need(p, r) IN
          /\ Resizes(s, p, b, r, old, n)
          /\ chunk[p].end >= old
          /\ IsLast(p, b, old) /\ FitsInPlace(p, old, n)
          /\ ~ZeroesBehind(p, old, n)
          /\ LET pos == Wrap(chunk[p].pos - old + n)
             IN  chunk' = [chunk EXCEPT ![p].pos = pos,
                                        ![p].lo = LoAfterResize(p, old, n, pos)]
          /\ Replace(b, [b EXCEPT !.len = n, !.req = r])
    /\ Returns("SUCCESS")
    /\ UNCHANGED <<pools, up, handle, held>>

RallocKeep(s) ==
    /\ \E p \in Chunk, b \in blocks, r \in Requests :
       LET old == Need(p, b.req)  n == Need(p, r) IN
          /\ Resizes(s, p, b, r, old, n)
          /\ chunk[p].end >= old
          /\ ~IsLast(p, b, old) /\ n <= old
          /\ Replace(b, [b EXCEPT !.req = r])
    /\ Returns("SUCCESS")
    /\ UNCHANGED <<chunk, pools, up, handle, held>>

RallocMove(s) ==
    /\ \E p \in Chunk, b \in blocks, r \in Requests :
       LET old == Need(p, b.req)  n == Need(p, r) IN
          /\ Resizes(s, p, b, r, old, n)
          /\ chunk[p].end >= old
          /\ ~IsLast(p, b, old) /\ n > old /\ FitsBehind(p, n)
          /\ chunk' = [chunk EXCEPT ![p] = Taken(@, "d", n)]
          /\ Replace(b, Block(p, p, chunk[p].pos, n, r, "d"))
    /\ Returns("SUCCESS")
    /\ UNCHANGED <<pools, up, handle, held>>

(* A chunk is added and made current, but the block is placed at pos of    *)
(* the root all the same.                                                  *)
Spilled(p, n, c) ==
    LET pos == Wrap(chunk[p].pos + n)
    IN  [Grown(p, n, c) EXCEPT ![p].pos = pos, ![p].lo = DirtyTo(chunk[p], pos)]

RallocSpill(s) ==
    /\ \E p \in Chunk, b \in blocks, r \in Requests, c \in Chunk :
       LET old == Need(p, b.req)  n == Need(p, r) IN
          /\ Resizes(s, p, b, r, old, n)
          /\ Overflows(p, b, old, n)
          /\ "DYNAMIC" \in chunk[p].cf
          /\ "ok" \in Growths(p, n)
          /\ Reusable(c)
          /\ chunk[p].pos + old <= chunk[p].size
          /\ chunk' = Spilled(p, n, c)
          /\ Replace(b, Block(p, p, chunk[p].pos, n, r, "d"))
    /\ Returns("SUCCESS")
    /\ UNCHANGED <<pools, up, handle, held>>

(* Only growth takes a root beyond its memory, so the crash in place is    *)
(* one of a growing pool too.                                              *)
RallocCrash(s) ==
    \E p \in Chunk, b \in blocks, r \in Requests :
    LET old == Need(p, b.req)  n == Need(p, r) IN
       /\ Resizes(s, p, b, r, old, n)
       /\ chunk[p].end >= old
       /\ "DYNAMIC" \in chunk[p].cf
       /\ \/ /\ IsLast(p, b, old) /\ FitsInPlace(p, old, n)
             /\ ZeroesBehind(p, old, n) /\ Crashes("oob")
          \/ /\ Overflows(p, b, old, n)
             /\ \E o \in Growths(p, n) :
                   \/ o = "oom" /\ Crashes("null")
                   \/ o \notin {"ok", "oom"} /\ Crashes(o)
                   \/ /\ o = "ok" /\ chunk[p].pos + old > chunk[p].size
                      /\ Crashes("oob")

RallocRefused(s) ==
    \E p \in Chunk, b \in blocks, r \in Requests :
    LET old == Need(p, b.req)  n == Need(p, r) IN
       /\ Resizes(s, p, b, r, old, n)
       /\ \/ chunk[p].end < old /\ Fails("SIZE_INVALID")
          \/ /\ Overflows(p, b, old, n)
             /\ "DYNAMIC" \notin chunk[p].cf
             /\ Fails(IF IsLast(p, b, old) THEN "OUT_OF_MEMORY" ELSE "POOL_FULL")

-----------------------------------------------------------------------------
(* ina_mempool_destroy.  The nodes of __pools carry no data, so the        *)
(* callback __ina_free_pool is handed NULL and frees nothing.              *)

Destroy ==
    /\ Call("destroy") /\ up
    /\ \A i \in DOMAIN pools : Live(pools[i])
    /\ pools' = <<>> /\ up' = FALSE
    /\ Returns("SUCCESS")
    /\ UNCHANGED <<chunk, handle, held, blocks>>

DestroyCrash ==
    /\ Call("destroy") /\ up
    /\ \E i \in DOMAIN pools : ~Live(pools[i])
    /\ Crashes("uaf")

-----------------------------------------------------------------------------
Init ==
    /\ chunk = [c \in Chunk |-> BlankChunk]
    /\ pools = <<>> /\ up = TRUE
    /\ handle = [s \in Slot |-> NIL] /\ held = {}
    /\ blocks = {} /\ info = NoInfo
    /\ rc = "SUCCESS" /\ fault = "none"

Alloc(s) ==
    \/ \E k \in Kinds : AllocHere(s, k) \/ AllocGrow(s, k) \/ AllocFull(s, k)
                        \/ AllocCrash(s, k)
    \/ DallocNoStruct(s)

Ralloc(s) ==
    \/ RallocInPlace(s) \/ RallocKeep(s) \/ RallocMove(s)
    \/ RallocSpill(s) \/ RallocCrash(s) \/ RallocRefused(s)

Next ==
    \/ \E s \in Slot :
          \/ NewRejected(s) \/ NewPool(s) \/ NewNoStruct(s) \/ NewCrash(s)
          \/ Free(s) \/ FreeCrash(s) \/ UseFreed(s)
          \/ Info(s) \/ Clear(s) \/ Reset(s)
          \/ ShrinkNothing(s) \/ ShrinkRewinds(s) \/ ShrinkCrash(s)
          \/ Alloc(s) \/ Ralloc(s)
    \/ \E d, s \in Slot : Merge(d, s)
    \/ Destroy \/ DestroyCrash

Spec == Init /\ [][Next]_vars

-----------------------------------------------------------------------------
(* Properties.                                                             *)

ChunkType ==
    [live : BOOLEAN, size : 0 .. SizeMod - 1, pos : 0 .. SizeMod - 1,
     end : Int, cf : SUBSET Flags, zeroed : BOOLEAN, lo : Int, hi : Int,
     current : Chunk \cup {NIL}, parent : Chunk \cup {NIL},
     child : Chunk \cup {NIL}, root : Chunk \cup {NIL}]

BlockType ==
    [pool : Chunk, mem : Chunk, off : Int, len : 0 .. SizeMod - 1,
     req : Requests, kind : Kinds]

Codes == {"SUCCESS", "INVALID_ARGUMENT", "OUT_OF_MEMORY", "POOL_FULL",
          "SIZE_INVALID"}

(* Every variable has its type; the sizes and positions of a chunk are     *)
(* values of size_t.                                                       *)
TypeOK ==
    /\ chunk \in [Chunk -> ChunkType]
    /\ pools \in Seq(Chunk)
    /\ up \in BOOLEAN
    /\ handle \in [Slot -> Chunk \cup {NIL}]
    /\ held \subseteq Slot
    /\ \A s \in held : handle[s] \in Chunk
    /\ blocks \subseteq BlockType
    /\ rc \in Codes
    /\ fault \in {"none", "null", "uaf", "oob"}

(* A granted block lies in the live memory of its chunk, on the side of    *)
(* the free space it was taken from, and holds what was asked for.         *)
BlockSound(b) ==
    /\ Live(b.mem)
    /\ b.req <= b.len
    /\ 0 <= b.off /\ b.off + b.len <= chunk[b.mem].size
    /\ b.kind = "d" => b.off + b.len <= chunk[b.mem].pos
    /\ b.kind = "n" => b.off >= chunk[b.mem].end

Apart(a, b) ==
    a.mem # b.mem \/ a.off + a.len <= b.off \/ b.off + b.len <= a.off

(* What the client was granted and has not given up is its own: no two     *)
(* blocks share a byte and each lies in memory that has not been freed,    *)
(* whatever was grown, moved, merged, cleared or freed meanwhile           *)
(* (mempool.h: dalloc, nalloc, ralloc return "Pointer to the allocated     *)
(* memory").                                                               *)
BlocksSafe ==
    /\ \A b \in blocks : BlockSound(b)
    /\ \A a, b \in blocks : a # b => Apart(a, b)

(* The same for the chunks that ralloc has not overrun, when               *)
(* the client uses every call and malloc fails: a failed, half done or     *)
(* unusual call never makes two blocks of such pools collide.              *)
Intact(b) == chunk[b.mem].pos <= chunk[b.mem].end

BlocksSafeUnlessOverrun ==
    /\ \A b \in blocks : Intact(b) => BlockSound(b)
    /\ \A a, b \in blocks :
          a # b /\ Intact(a) /\ Intact(b) => Apart(a, b)

(* The chunk structure every walk relies on: children are live, a chain    *)
(* never leads into another pool, and the current chunk of an open pool    *)
(* can be reached from its root (clear, reset, info and free follow child  *)
(* pointers only).                                                         *)
ChainsSound ==
    /\ \A c \in Chunk : Live(c) =>
          /\ 0 <= chunk[c].end /\ chunk[c].end <= chunk[c].size
          /\ chunk[c].child # NIL =>
                Live(chunk[c].child) /\ chunk[chunk[c].child].root = chunk[c].root
    /\ \A s \in held : Live(handle[s]) =>
          /\ chunk[handle[s]].root = handle[s]
          /\ chunk[handle[s]].current \in Chain(handle[s])

(* Nothing undefined ever happens.                                         *)
NoFault == fault = "none"

(* __pools lists exactly the open pools, each once: what                   *)
(* ina_mempool_destroy would have to free; and no freed struct is followed *)
(* through its links, nor anything else undefined done.                    *)
RegistryExact ==
    /\ NoFault
    /\ {pools[i] : i \in DOMAIN pools} = {handle[s] : s \in held}
    /\ \A i, j \in DOMAIN pools : pools[i] = pools[j] => i = j

(* Every chunk that was allocated and not freed will be freed with an open *)
(* pool (manual.md: "Avoid memory leaks").                                 *)
NoLeak ==
    \A c \in Chunk : Live(c) => \E s \in held : c \in Chain(handle[s])

(* Memory handed out next by a zero filled pool is zero until the pool is  *)
(* reset, after ralloc gave bytes back and after clear too.  string.c      *)
(* relies on it: strings built in a pool get no terminator of their own.   *)
FreeSpaceZero ==
    \A c \in Chunk : Live(c) /\ chunk[c].zeroed =>
        chunk[c].lo <= chunk[c].pos /\ chunk[c].end <= chunk[c].hi

(* ina_mempool_info accounts for every granted byte and for nothing else,  *)
(* over all chunks of the pool and both directions.                        *)
UsedExact ==
    \A s \in held : InfoOf(handle[s]).used =
        MapThenSumSet(LAMBDA b : b.len, {b \in blocks : b.pool = handle[s]})

(* A call that reports an error has changed no pool.                       *)
FailureIsClean ==
    [][rc' # "SUCCESS" => UNCHANGED <<chunk, pools, blocks>>]_vars

(* A step takes chunks and blocks from at most one open pool: freeing,     *)
(* clearing or shrinking a pool never touches the memory of another.       *)
OthersSpared ==
    [][\A s, t \in held :
          /\ \E c \in Chain(handle[s]) : Live(c) /\ ~chunk'[c].live
          /\ s # t
          => /\ \A c \in Chain(handle[t]) : chunk'[c] = chunk[c]
             /\ \A b \in blocks : b.pool = handle[t] => b \in blocks']_vars

-----------------------------------------------------------------------------
(* The invariant behind BlocksSafe.  It needs requests far from the width  *)
(* of size_t, no ralloc in pools that can grow, and no ralloc in a pool    *)
(* that took over blocks of a pool with other alignment.                   *)

SaneSizes ==
    /\ MinPoolSize + AlignSize < SizeMod
    /\ \A n \in Requests : HeapMax + n + 2 * AlignSize < SizeMod

NoOverrun ==
    "ralloc" \in Calls =>
        /\ \A cf \in CfChoices : "DYNAMIC" \notin cf
        /\ "merge" \in Calls => {"BESTFIT"} \notin CfChoices

(* The two bump pointers never cross.                                      *)
BumpsSound ==
    \A c \in Chunk : Live(c) =>
        /\ chunk[c].pos <= chunk[c].end /\ chunk[c].end <= chunk[c].size
        /\ chunk[c].size <= HeapMax

(* Child pointers stay within a pool, or dangle; freed structs lead        *)
(* nowhere.                                                                *)
LinksSound ==
    \A c \in Chunk :
        /\ ~Live(c) => chunk[c].child = NIL
        /\ Live(c) /\ chunk[c].child # NIL /\ Live(chunk[c].child) =>
              chunk[chunk[c].child].root = chunk[c].root

(* A pool that has not been freed owns its root and its current chunk, and *)
(* has one handle; flags come from the client, with CHILD added.           *)
PoolsSound ==
    /\ \A s \in held : Live(handle[s]) =>
          /\ chunk[handle[s]].root = handle[s]
          /\ chunk[handle[s]].current \in Chunk
          /\ Live(chunk[handle[s]].current)
          /\ chunk[chunk[handle[s]].current].root = handle[s]
    /\ \A s, t \in held : handle[s] = handle[t] => s = t
    /\ \A c \in Chunk : Live(c) => chunk[c].cf \ {"CHILD"} \in CfChoices

(* A block lies in its pool, and the pool has not been freed.              *)
BlocksOwned ==
    \A b \in blocks :
        /\ chunk[b.mem].root = b.pool
        /\ Live(b.pool) /\ chunk[b.pool].root = b.pool

(* ralloc takes the size of the old block from its caller and rounds it    *)
(* up again: the block is at least that long.                              *)
LensCover ==
    "ralloc" \in Calls =>
        \A b \in blocks : b.kind = "d" => Need(b.pool, b.req) <= b.len

(* malloc'ed structs have been initialised.                                *)
CurrentsExist == \A c \in Chunk : Live(c) => chunk[c].current \in Chunk

IInv ==
    /\ TypeOK /\ CurrentsExist
    /\ BumpsSound /\ LinksSound /\ PoolsSound
    /\ BlocksOwned /\ LensCover /\ BlocksSafe

=============================================================================
