---------------------------- MODULE MemPoolSafety ----------------------------
(* Granted blocks never collide: BlocksSafe for every set of chunks,       *)
(* client variables, sizes and flags, by the inductive invariant IInv; and *)
(* BlocksSafeUnlessOverrun where ralloc may overrun a chunk, by SideInv.   *)
EXTENDS MemPoolChains, MemPoolArena

-----------------------------------------------------------------------------
(* Sizes, when requests are far from the width of size_t.                  *)

LEMMA MemAlignGrows ==
    ASSUME NEW n \in Nat, n + AlignSize <= SizeMod
    PROVE  n <= MemAlign(n) /\ MemAlign(n) <= n + AlignSize - 1
BY AlignUpBounds, Consts DEF MemAlign, Wrap

LEMMA RequestBounds ==
    ASSUME SaneSizes, NEW r \in Requests
    PROVE  r \in Nat /\ 1 <= r /\ r + HeapMax + 2 * AlignSize < SizeMod
<1>1. r \in 1 .. SizeMod - 1
  BY SizeAssumption
<1> QED
  BY <1>1, Consts DEF SaneSizes

LEMMA NeedGrows ==
    ASSUME SaneSizes, TypeOK, NEW p \in Chunk, NEW r \in Requests
    PROVE  /\ Need(p, r) \in Nat /\ r <= Need(p, r)
           /\ Need(p, r) + HeapMax + AlignSize < SizeMod
<1>1. r \in Nat /\ 1 <= r /\ r + HeapMax + 2 * AlignSize < SizeMod
  BY RequestBounds
<1>2. r \in 0 .. SizeMod - 1 /\ r + AlignSize <= SizeMod
  BY <1>1, Consts
<1>3. /\ MemAlign(r) \in Nat
      /\ r <= MemAlign(r) /\ MemAlign(r) <= r + AlignSize - 1
  BY <1>1, <1>2, MemAlignGrows, MemAlignType, Consts
<1>4. Need(p, r) = r \/ Need(p, r) = MemAlign(r)
  BY DEF Need
<1> HIDE DEF Need
<1> QED
  BY <1>1, <1>3, <1>4, Consts

LEMMA GrowthFits ==
    ASSUME SaneSizes, TypeOK, BumpsSound, NEW p \in Chunk, Live(p),
           NEW n \in Nat, n + HeapMax + AlignSize < SizeMod,
           "ok" \in Growths(p, n)
    PROVE  /\ GrowthSize(p, n) \in Nat
           /\ n <= GrowthSize(p, n) /\ GrowthSize(p, n) <= HeapMax
<1>1. chunk[p].size \in Nat /\ chunk[p].size <= HeapMax
  BY DEF TypeOK, ChunkType, BumpsSound
<1> DEFINE m == IF "AUTOSIZE" \in chunk[p].cf \/ n > chunk[p].size
                THEN n ELSE chunk[p].size
<1>2. PICK size \in Nat : size = Larger(m, MinPoolSize)
  BY <1>1, Consts DEF Larger
<1>3. n <= size /\ size + AlignSize <= SizeMod
  BY <1>1, <1>2, Consts DEF Larger, SaneSizes
<1>4. GrowthSize(p, n) = MemAlign(size)
  BY <1>2 DEF GrowthSize, PoolBytes
<1>5. n <= GrowthSize(p, n) /\ GrowthSize(p, n) \in Nat
  <2>1. MemAlign(size) \in 0 .. SizeMod - 1
    BY <1>3, MemAlignType, Consts
  <2> QED
    BY <1>3, <1>4, <2>1, MemAlignGrows, Consts
<1>6. GrowthSize(p, n) <= HeapMax
  BY <1>5, Consts DEF Growths, NewOutcomes
<1> QED
  BY <1>5, <1>6

-----------------------------------------------------------------------------
(* Following child pointers never leads into another pool.                 *)

LEMMA ChainStays ==
    ASSUME TypeOK, LinksSound, NEW p \in Chunk, chunk[p].root = p,
           NEW c \in Chain(p)
    PROVE  c \in Chunk /\ (Live(c) => chunk[c].root = p)
<1> DEFINE S == {x \in Chunk : ~Live(x) \/ chunk[x].root = p}
<1>1. ChildClosed(S)
  <2> SUFFICES ASSUME NEW x \in S, chunk[x].child # NIL
               PROVE  chunk[x].child \in S
    BY DEF ChildClosed
  <2>1. Live(x) /\ chunk[x].root = p /\ chunk[x].child \in Chunk
    BY DEF LinksSound, TypeOK, ChunkType
  <2> QED
    BY <2>1 DEF LinksSound
<1>2. p \in S /\ S \in SUBSET Chunk
  OBVIOUS
<1> QED
  BY <1>1, <1>2 DEF Chain

-----------------------------------------------------------------------------
(* Steps that leave the structs and the blocks alone.                      *)

LEMMA SafeQuiet ==
    ASSUME IInv, TypeOK', chunk' = chunk, blocks' = blocks,
           held' \subseteq held, \A s \in held' : handle'[s] = handle[s]
    PROVE  IInv'
<1>1. CurrentsExist' /\ BumpsSound' /\ LinksSound' /\ BlocksOwned'
  BY DEF IInv, CurrentsExist, BumpsSound, LinksSound, BlocksOwned, Live
<1>2. PoolsSound'
  BY DEF IInv, PoolsSound, Live
<1>3. LensCover'
  BY DEF IInv, LensCover, Need
<1>4. BlocksSafe'
  BY DEF IInv, BlocksSafe, BlockSound, Apart, Live
<1> QED
  BY <1>1, <1>2, <1>3, <1>4 DEF IInv

-----------------------------------------------------------------------------
(* Steps that release chunks or blocks of one pool.                        *)

(* The chunks in gone are freed; chunks of pool p may be set back.         *)
Releases(p, gone) ==
    /\ \A x \in gone : Live(x) => chunk[x].root = p
    /\ \A x \in Chunk : x \in gone => ~chunk'[x].live /\ chunk'[x].child = NIL
    /\ \A x \in Chunk : x \notin gone =>
          /\ chunk'[x].live = chunk[x].live
          /\ chunk'[x].size = chunk[x].size
          /\ chunk'[x].end = chunk[x].end
          /\ chunk'[x].cf = chunk[x].cf
          /\ chunk'[x].root = chunk[x].root
          /\ chunk'[x].pos # chunk[x].pos =>
                chunk'[x].pos = 0 /\ (Live(x) => chunk[x].root = p)
          /\ chunk'[x].current # chunk[x].current =>
                x = p /\ chunk'[x].current = p
          /\ chunk'[x].child \in {chunk[x].child, NIL}
    /\ p \notin gone => chunk'[p].current = p \/ gone = {}

LEMMA SafeRelease ==
    ASSUME IInv, TypeOK', NEW p \in Chunk, NEW gone \in SUBSET Chunk,
           Releases(p, gone),
           blocks' \subseteq blocks,
           \A b \in blocks' : b.pool = p => b.kind = "n" /\ gone = {},
           held' \subseteq held, handle' = handle
    PROVE  IInv'
<1>0. /\ \A x \in Chunk : /\ chunk[x] \in ChunkType
                          /\ chunk[x].pos \in Nat /\ chunk[x].end \in Int
      /\ \A b \in blocks : b.mem \in Chunk /\ b.pool \in Chunk
  BY DEF IInv, TypeOK, ChunkType, BlockType
<1>1. CurrentsExist'
  BY DEF IInv, CurrentsExist, Live, Releases
<1>2. BumpsSound'
  <2> SUFFICES ASSUME NEW x \in Chunk, chunk'[x].live
               PROVE  /\ chunk'[x].pos <= chunk'[x].end
                      /\ chunk'[x].end <= chunk'[x].size
                      /\ chunk'[x].size <= HeapMax
    BY DEF BumpsSound, Live
  <2>1. x \notin gone /\ Live(x)
    BY DEF Releases, Live
  <2>2. /\ chunk[x].pos <= chunk[x].end
        /\ chunk[x].end <= chunk[x].size
        /\ chunk[x].size <= HeapMax
    BY <2>1 DEF IInv, BumpsSound
  <2>3. chunk'[x].pos = chunk[x].pos \/ chunk'[x].pos = 0
    BY <2>1 DEF Releases
  <2>4. chunk'[x].end = chunk[x].end /\ chunk'[x].size = chunk[x].size
    BY <2>1 DEF Releases
  <2> QED
    BY <1>0, <2>2, <2>3, <2>4
<1>3. LinksSound'
  <2>1. ASSUME NEW x \in Chunk, ~chunk'[x].live
        PROVE  chunk'[x].child = NIL
    BY <2>1 DEF IInv, LinksSound, Live, Releases
  <2>2. ASSUME NEW x \in Chunk, chunk'[x].live, chunk'[x].child # NIL,
               chunk'[chunk'[x].child].live
        PROVE  chunk'[chunk'[x].child].root = chunk'[x].root
    <3>1. PICK y \in Chunk : y = chunk[x].child
      BY <1>0, <2>2 DEF Releases, ChunkType
    <3>2. chunk'[x].child = y
      BY <2>2, <3>1 DEF Releases
    <3>3. x \notin gone /\ y \notin gone /\ Live(x) /\ Live(y)
      BY <2>2, <3>2 DEF Releases, Live
    <3>4. chunk[y].root = chunk[x].root
      BY <3>1, <3>2, <3>3, NilAssumption DEF IInv, LinksSound
    <3> QED
      BY <3>2, <3>3, <3>4 DEF Releases
  <2> QED
    BY <2>1, <2>2 DEF LinksSound, Live
<1>4. PoolsSound'
  <2>1. ASSUME NEW s \in held', chunk'[handle'[s]].live
        PROVE  /\ chunk'[handle'[s]].root = handle'[s]
               /\ chunk'[handle'[s]].current \in Chunk
               /\ chunk'[chunk'[handle'[s]].current].live
               /\ chunk'[chunk'[handle'[s]].current].root = handle'[s]
    <3> DEFINE h == handle[s]
               cur == chunk[h].current
    <3>1. h \in Chunk /\ handle'[s] = h
      BY DEF IInv, TypeOK
    <3>2. h \notin gone /\ Live(h)
      BY <2>1, <3>1 DEF Releases, Live
    <3>3. /\ chunk[h].root = h /\ cur \in Chunk
          /\ Live(cur) /\ chunk[cur].root = h
      BY <3>2 DEF IInv, PoolsSound
    <3>4. chunk'[h].current = cur => cur \notin gone
      <4>1. CASE h = p
        BY <3>2, <4>1 DEF Releases
      <4>2. CASE h # p
        BY <3>3, <4>2 DEF Releases
      <4> QED
        BY <4>1, <4>2
    <3>5. CASE chunk'[h].current = cur
      BY <3>1, <3>2, <3>3, <3>4, <3>5 DEF Releases, Live
    <3>6. CASE chunk'[h].current # cur
      <4>1. h = p /\ chunk'[h].current = p
        BY <3>1, <3>2, <3>6 DEF Releases
      <4> QED
        BY <3>1, <3>2, <3>3, <4>1 DEF Releases, Live
    <3> QED
      BY <3>5, <3>6
  <2>2. \A s, t \in held' : handle'[s] = handle'[t] => s = t
    BY DEF IInv, PoolsSound
  <2>3. \A x \in Chunk : chunk'[x].live => chunk'[x].cf \ {"CHILD"} \in CfChoices
    BY DEF IInv, PoolsSound, Live, Releases
  <2> QED
    BY <2>1, <2>2, <2>3 DEF PoolsSound, Live
<1>5. ASSUME NEW b \in blocks'
      PROVE  /\ b \in blocks /\ b.mem \in Chunk \ gone
             /\ b.pool \in Chunk /\ b.pool = chunk[b.mem].root
             /\ Live(b.mem) /\ (b.pool = p => b.kind = "n" /\ gone = {})
             /\ b.kind = "d" => chunk'[b.mem].pos = chunk[b.mem].pos
  <2>1. b \in blocks /\ b.mem \in Chunk /\ b.pool \in Chunk
    BY <1>0
  <2>2. Live(b.mem) /\ chunk[b.mem].root = b.pool
    BY <2>1 DEF IInv, BlocksSafe, BlockSound, BlocksOwned
  <2>3. b.mem \notin gone
    BY <2>1, <2>2 DEF Releases
  <2>4. b.kind = "d" => b.pool # p
    OBVIOUS
  <2>5. b.kind = "d" => chunk'[b.mem].pos = chunk[b.mem].pos
    BY <2>1, <2>2, <2>3, <2>4 DEF Releases
  <2> QED
    BY <2>1, <2>2, <2>3, <2>5
<1>6. BlocksOwned'
  <2> SUFFICES ASSUME NEW b \in blocks'
               PROVE  /\ chunk'[b.mem].root = b.pool
                      /\ chunk'[b.pool].live /\ chunk'[b.pool].root = b.pool
    BY DEF BlocksOwned, Live
  <2>1. Live(b.pool) /\ chunk[b.pool].root = b.pool
    BY <1>5 DEF IInv, BlocksOwned
  <2>2. b.pool \notin gone
    BY <1>5, <2>1 DEF Releases
  <2> QED
    BY <1>5, <2>1, <2>2 DEF Releases, Live
<1>7. LensCover'
  <2> SUFFICES ASSUME "ralloc" \in Calls, NEW b \in blocks', b.kind = "d"
               PROVE  Need(b.pool, b.req)' <= b.len
    BY DEF LensCover
  <2>1. b \in blocks /\ b.pool \in Chunk /\ Need(b.pool, b.req) <= b.len
    BY <1>5 DEF IInv, LensCover
  <2>2. b.pool \notin gone
    BY <1>5, <2>1 DEF IInv, BlocksOwned, Releases
  <2> QED
    BY <2>1, <2>2 DEF Need, Releases
<1>8. BlocksSafe'
  <2>1. ASSUME NEW b \in blocks'
        PROVE  BlockSound(b)'
    <3>1. BlockSound(b) /\ Live(b.mem)
      BY <1>5 DEF IInv, BlocksSafe
    <3>2. /\ chunk'[b.mem].live = chunk[b.mem].live
          /\ chunk'[b.mem].size = chunk[b.mem].size
          /\ chunk'[b.mem].end = chunk[b.mem].end
      BY <1>5 DEF Releases
    <3> QED
      BY <1>5, <3>1, <3>2 DEF BlockSound, Live
  <2>2. \A a, b \in blocks' : a # b => Apart(a, b)
    BY DEF IInv, BlocksSafe
  <2> QED
    BY <2>1, <2>2 DEF BlocksSafe, Apart
<1> QED
  BY <1>1, <1>2, <1>3, <1>4, <1>6, <1>7, <1>8 DEF IInv

LEMMA OpenPool ==
    ASSUME IInv, NEW s \in held, Live(handle[s])
    PROVE  /\ handle[s] \in Chunk /\ s \in Slot
           /\ chunk[handle[s]].root = handle[s]
           /\ chunk[handle[s]].current \in Chunk
           /\ Live(chunk[handle[s]].current)
           /\ chunk[chunk[handle[s]].current].root = handle[s]
BY DEF IInv, PoolsSound, TypeOK

LEMMA SafeFree ==
    ASSUME IInv, TypeOK', NEW s \in Slot, Free(s)
    PROVE  IInv'
<1>1. PICK p \in Chunk : p = handle[s] /\ chunk[p].root = p
  BY OpenPool DEF Free, On
<1>2. PICK gone \in SUBSET Chunk : gone = Chain(p)
  BY DEF Chain
<1>3. /\ chunk' = [c \in Chunk |->
             IF c \in gone THEN BlankChunk
             ELSE IF c = chunk[p].parent THEN [chunk[c] EXCEPT !.child = NIL]
             ELSE chunk[c]]
      /\ blocks' = {b \in blocks : b.pool # p}
      /\ held' \subseteq held /\ handle' = handle
  BY <1>1, <1>2 DEF Free
<1>4. \A x \in gone : Live(x) => chunk[x].root = p
  BY <1>1, <1>2, ChainStays DEF IInv
<1>5. p \in gone
  BY <1>2 DEF Chain
<1>6. \A x \in Chunk : x \in gone => ~chunk'[x].live /\ chunk'[x].child = NIL
  BY <1>3 DEF BlankChunk
<1>7. Releases(p, gone)
  <2>1. \A x \in Chunk : chunk[x] \in ChunkType
    BY DEF IInv, TypeOK
  <2> QED
    BY <1>3, <1>4, <1>5, <1>6, <2>1 DEF Releases, ChunkType
<1> QED
  BY <1>3, <1>7, SafeRelease

LEMMA SafeClear ==
    ASSUME IInv, TypeOK', NEW s \in Slot, Clear(s) \/ Reset(s)
    PROVE  IInv'
<1>1. PICK p \in Chunk : p = handle[s] /\ chunk[p].root = p
  BY OpenPool DEF Clear, Reset, On
<1>2. PICK chain : chain = Chain(p)
  OBVIOUS
<1> DEFINE zeroed == [x \in Chunk |->
               [chunk[x] EXCEPT !.pos = 0, !.zeroed = TRUE,
                                !.lo = 0, !.hi = chunk[x].size]]
           rewound == [x \in Chunk |-> Rewound(chunk[x])]
<1>3. PICK set \in {zeroed, rewound} :
          chunk' = [[x \in Chunk |-> IF x \in chain THEN set[x] ELSE chunk[x]]
                       EXCEPT ![p].current = p]
  <2>1. CASE Clear(s)
    <3>1. chunk' = [[x \in Chunk |-> IF x \in chain THEN zeroed[x] ELSE chunk[x]]
                       EXCEPT ![p].current = p]
      BY <1>1, <1>2, <2>1 DEF Clear
    <3> QED
      BY <3>1
  <2>2. CASE Reset(s)
    <3>1. chunk' = [[x \in Chunk |-> IF x \in chain THEN rewound[x] ELSE chunk[x]]
                       EXCEPT ![p].current = p]
      BY <1>1, <1>2, <2>2 DEF Reset
    <3> QED
      BY <3>1
  <2> QED
    BY <2>1, <2>2
<1>4. /\ blocks' \subseteq blocks
      /\ \A b \in blocks' : b.pool = p => b.kind = "n"
      /\ held' = held /\ handle' = handle
  <2>1. CASE Clear(s)
    BY <1>1, <2>1 DEF Clear
  <2>2. CASE Reset(s)
    BY <1>1, <2>2 DEF Reset, IInv, TypeOK, BlockType, Kinds
  <2> QED
    BY <2>1, <2>2
<1>5. \A x \in chain : Live(x) => chunk[x].root = p
  BY <1>1, <1>2, ChainStays DEF IInv
<1> DEFINE f == [x \in Chunk |-> IF x \in chain THEN set[x] ELSE chunk[x]]
<1>6. ASSUME NEW x \in Chunk
      PROVE  /\ f[x] \in ChunkType
             /\ f[x].live = chunk[x].live
             /\ f[x].size = chunk[x].size
             /\ f[x].end = chunk[x].end
             /\ f[x].cf = chunk[x].cf
             /\ f[x].root = chunk[x].root
             /\ f[x].current = chunk[x].current
             /\ f[x].child = chunk[x].child
             /\ f[x].pos = IF x \in chain THEN 0 ELSE chunk[x].pos
  <2>1. chunk[x] \in ChunkType
    BY DEF IInv, TypeOK
  <2>2. CASE x \in chain
    <3>1. f[x] \in {[chunk[x] EXCEPT !.pos = 0, !.zeroed = TRUE,
                                     !.lo = 0, !.hi = chunk[x].size],
                    Rewound(chunk[x])}
      BY <1>3, <2>2
    <3>2. CASE f[x] = [chunk[x] EXCEPT !.pos = 0, !.zeroed = TRUE,
                                       !.lo = 0, !.hi = chunk[x].size]
      <4> HIDE DEF f
      <4>1. f[x] \in ChunkType
        BY <2>1, <3>2, ClearedType
      <4> QED
        BY <2>1, <2>2, <3>2, <4>1 DEF ChunkType
    <3>3. CASE f[x] = Rewound(chunk[x])
      <4> HIDE DEF f
      <4>1. f[x] \in ChunkType
        BY <2>1, <3>3, RewoundType
      <4> QED
        BY <2>1, <2>2, <3>3, <4>1 DEF Rewound, ChunkType
    <3> QED
      BY <3>1, <3>2, <3>3
  <2>3. CASE x \notin chain
    BY <2>1, <2>3
  <2> QED
    BY <2>2, <2>3
<1>7. f \in [Chunk -> ChunkType] /\ chunk' = [f EXCEPT ![p].current = p]
  BY <1>3, <1>6
<1> HIDE DEF f
<1>8. ASSUME NEW x \in Chunk
      PROVE  /\ chunk'[x].live = chunk[x].live
             /\ chunk'[x].size = chunk[x].size
             /\ chunk'[x].end = chunk[x].end
             /\ chunk'[x].cf = chunk[x].cf
             /\ chunk'[x].root = chunk[x].root
             /\ chunk'[x].current = IF x = p THEN p ELSE chunk[x].current
             /\ chunk'[x].child = chunk[x].child
             /\ chunk'[x].pos = IF x \in chain THEN 0 ELSE chunk[x].pos
  BY <1>6, <1>7 DEF ChunkType
<1>9. Releases(p, {})
  BY <1>5, <1>8 DEF Releases
<1> QED
  BY <1>4, <1>9, SafeRelease

LEMMA SafeShrink ==
    ASSUME IInv, TypeOK', NEW s \in Slot, ShrinkRewinds(s)
    PROVE  IInv'
<1>1. PICK p \in Chunk : p = handle[s] /\ chunk[p].root = p
  BY OpenPool DEF ShrinkRewinds, On
<1>2. PICK chain : chain = Chain(p)
  OBVIOUS
<1>3. PICK gone \in SUBSET {p} :
          chunk' = [c \in Chunk |->
             IF c \in gone THEN BlankChunk
             ELSE IF c \in chain THEN Rewound(chunk[c]) ELSE chunk[c]]
  BY <1>1, <1>2 DEF ShrinkRewinds
<1>4. /\ blocks' = {b \in blocks : b.pool # p}
      /\ held' = held /\ handle' = handle
  BY <1>1 DEF ShrinkRewinds
<1>5. \A x \in chain : Live(x) => chunk[x].root = p
  BY <1>1, <1>2, ChainStays DEF IInv
<1>6. ASSUME NEW x \in Chunk, x \in gone
      PROVE  ~chunk'[x].live /\ chunk'[x].child = NIL
  BY <1>3, <1>6 DEF BlankChunk
<1>7. ASSUME NEW x \in Chunk, x \notin gone
      PROVE  /\ chunk'[x].live = chunk[x].live
             /\ chunk'[x].size = chunk[x].size
             /\ chunk'[x].end = chunk[x].end
             /\ chunk'[x].cf = chunk[x].cf
             /\ chunk'[x].root = chunk[x].root
             /\ chunk'[x].current = chunk[x].current
             /\ chunk'[x].child = chunk[x].child
             /\ chunk'[x].pos = IF x \in chain THEN 0 ELSE chunk[x].pos
  <2>1. chunk[x] \in ChunkType
    BY DEF IInv, TypeOK
  <2> QED
    BY <1>3, <1>7, <2>1 DEF Rewound, ChunkType
<1>8. p \notin gone => gone = {}
  OBVIOUS
<1>9. Releases(p, gone)
  BY <1>1, <1>5, <1>6, <1>7, <1>8 DEF Releases
<1> QED
  BY <1>4, <1>9, SafeRelease

-----------------------------------------------------------------------------
(* A new pool is a struct that nothing referred to.                        *)

LEMMA SafeNewPool ==
    ASSUME IInv, TypeOK', SaneSizes, NEW s \in Slot, NewPool(s)
    PROVE  IInv'
<1>1. PICK n \in PoolSizes \ {0}, cf \in CfChoices, c \in Chunk :
          /\ Reusable(c)
          /\ "ok" \in NewOutcomes(PoolBytes(n), cf)
          /\ chunk' = [chunk EXCEPT ![c] = NewChunk(c, PoolBytes(n), cf, NIL, c)]
          /\ handle' = [handle EXCEPT ![s] = c]
          /\ s \notin held /\ held' = held \cup {s} /\ blocks' = blocks
  BY DEF NewPool
<1>2. PICK size \in Nat : size = PoolBytes(n) /\ size <= HeapMax
  <2>1. PoolBytes(n) \in Nat
    BY PoolBytesType, SizeAssumption
  <2> QED
    BY <1>1, <2>1, Consts DEF NewOutcomes
<1>3. cf \in SUBSET (Flags \ {"CHILD"})
  BY ChoiceAssumption
<1>4. /\ chunk'[c].live = TRUE /\ chunk'[c].size = size /\ chunk'[c].pos = 0
      /\ chunk'[c].end = size /\ chunk'[c].cf = cf /\ chunk'[c].current = c
      /\ chunk'[c].child = NIL /\ chunk'[c].root = c
  BY <1>1, <1>2 DEF NewChunk, IInv, TypeOK
<1>5. \A x \in Chunk \ {c} : chunk'[x] = chunk[x]
  BY <1>1 DEF IInv, TypeOK
<1>6. /\ \A x \in Chunk : Live(x) => chunk[x].child # c /\ chunk[x].current # c
      /\ ~Live(c) /\ \A t \in held : handle[t] # c
  BY <1>1 DEF Reusable
<1>7. CurrentsExist'
  BY <1>4, <1>5 DEF IInv, CurrentsExist, Live
<1>8. BumpsSound'
  BY <1>2, <1>4, <1>5 DEF IInv, BumpsSound, Live
<1>9. LinksSound'
  <2>1. \A x \in Chunk : chunk[x].child \in Chunk \cup {NIL}
    BY DEF IInv, TypeOK, ChunkType
  <2> QED
    BY <1>4, <1>5, <1>6, <2>1 DEF IInv, LinksSound, Live
<1>10. PoolsSound'
  <2>1. handle'[s] = c /\ \A t \in held : handle'[t] = handle[t] /\ handle[t] \in Chunk \ {c}
    BY <1>1, <1>6 DEF IInv, TypeOK
  <2>2. ASSUME NEW t \in held, chunk'[handle'[t]].live
        PROVE  /\ chunk'[handle'[t]].root = handle'[t]
               /\ chunk'[handle'[t]].current \in Chunk
               /\ chunk'[chunk'[handle'[t]].current].live
               /\ chunk'[chunk'[handle'[t]].current].root = handle'[t]
    <3>1. Live(handle[t])
      BY <1>5, <2>1, <2>2 DEF Live
    <3>2. chunk[handle[t]].current # c
      BY <1>6, <2>1, <3>1
    <3> QED
      BY <1>5, <2>1, <3>1, <3>2, OpenPool DEF Live
  <2>3. \A t, u \in held' : handle'[t] = handle'[u] => t = u
    BY <1>1, <2>1 DEF IInv, PoolsSound
  <2>4. \A x \in Chunk : chunk'[x].live => chunk'[x].cf \ {"CHILD"} \in CfChoices
    <3>1. cf \ {"CHILD"} = cf
      BY <1>3
    <3> QED
      BY <1>4, <1>5, <3>1 DEF IInv, PoolsSound, Live
  <2> QED
    <3>1. /\ chunk'[handle'[s]].root = handle'[s]
          /\ chunk'[handle'[s]].current \in Chunk
          /\ chunk'[chunk'[handle'[s]].current].live
          /\ chunk'[chunk'[handle'[s]].current].root = handle'[s]
      BY <1>4, <2>1
    <3>2. \A t \in held' : t \in held \/ t = s
      BY <1>1
    <3> QED
      BY <2>2, <2>3, <2>4, <3>1, <3>2 DEF PoolsSound, Live
<1>11. ASSUME NEW b \in blocks
       PROVE  /\ b.mem \in Chunk \ {c} /\ b.pool \in Chunk \ {c}
  BY <1>6 DEF IInv, TypeOK, BlockType, BlocksSafe, BlockSound, BlocksOwned
<1>12. BlocksOwned'
  BY <1>1, <1>5, <1>11 DEF IInv, BlocksOwned, Live
<1>13. LensCover'
  BY <1>1, <1>5, <1>11 DEF IInv, LensCover, Need
<1>14. BlocksSafe'
  BY <1>1, <1>5, <1>11 DEF IInv, BlocksSafe, BlockSound, Apart, Live
<1> QED
  BY <1>7, <1>8, <1>9, <1>10, <1>12, <1>13, <1>14 DEF IInv

-----------------------------------------------------------------------------
(* merge moves the chunks and the blocks of src to dest.                   *)

LEMMA SafeMerge ==
    ASSUME IInv, TypeOK', NoOverrun, NEW d \in Slot, NEW s \in Slot, Merge(d, s)
    PROVE  IInv'
<1>1. PICK dest \in Chunk, src \in Chunk :
          /\ dest = handle[d] /\ src = handle[s]
          /\ Live(dest) /\ Live(src)
          /\ chunk[dest].root = dest /\ chunk[src].root = src
          /\ dest # src /\ "merge" \in Calls
  BY OpenPool DEF Merge, On, Call, IInv, PoolsSound
<1>2. /\ chunk' = [c \in Chunk |->
             IF c = src THEN [chunk[c] EXCEPT !.parent = dest,
                                 !.child = chunk[dest].child, !.root = dest]
             ELSE IF c = dest THEN [chunk[c] EXCEPT !.child = src]
             ELSE IF chunk[c].root = src THEN [chunk[c] EXCEPT !.root = dest]
             ELSE chunk[c]]
      /\ blocks' = {IF b.pool = src THEN [b EXCEPT !.pool = dest] ELSE b :
                        b \in blocks}
      /\ held' = held \ {s} /\ handle' = handle
  BY <1>1 DEF Merge
<1>3. ASSUME NEW x \in Chunk
      PROVE  /\ chunk'[x].live = chunk[x].live
             /\ chunk'[x].size = chunk[x].size
             /\ chunk'[x].pos = chunk[x].pos
             /\ chunk'[x].end = chunk[x].end
             /\ chunk'[x].cf = chunk[x].cf
             /\ chunk'[x].current = chunk[x].current
             /\ chunk'[x].child = IF x = src THEN chunk[dest].child
                                  ELSE IF x = dest THEN src ELSE chunk[x].child
             /\ chunk'[x].root = IF chunk[x].root = src THEN dest ELSE chunk[x].root
  <2>1. chunk[x] \in ChunkType
    BY DEF IInv, TypeOK
  <2> QED
    BY <1>1, <1>2, <2>1 DEF ChunkType
<1>4. CurrentsExist' /\ BumpsSound'
  BY <1>3 DEF IInv, CurrentsExist, BumpsSound, Live
<1>5. LinksSound'
  <2>1. \A x \in Chunk : chunk[x].child \in Chunk \cup {NIL}
    BY DEF IInv, TypeOK, ChunkType
  <2> QED
    BY <1>1, <1>3, <2>1 DEF IInv, LinksSound, Live
<1>6. PoolsSound'
  <2>1. ASSUME NEW t \in held', chunk'[handle'[t]].live
        PROVE  /\ chunk'[handle'[t]].root = handle'[t]
               /\ chunk'[handle'[t]].current \in Chunk
               /\ chunk'[chunk'[handle'[t]].current].live
               /\ chunk'[chunk'[handle'[t]].current].root = handle'[t]
    <3>1. PICK h \in Chunk : h = handle[t] /\ h = handle'[t]
      BY <1>2 DEF IInv, TypeOK
    <3>2. Live(h) /\ t \in held
      BY <1>2, <1>3, <2>1, <3>1 DEF Live
    <3>3. h # src
      BY <1>1, <1>2, <3>1, <3>2 DEF IInv, PoolsSound, Merge, On
    <3> QED
      <4>1. PICK cur \in Chunk : /\ cur = chunk[h].current /\ chunk[h].root = h
                                 /\ Live(cur) /\ chunk[cur].root = h
        BY <3>1, <3>2, OpenPool
      <4>2. chunk'[h].root = h /\ chunk'[h].current = cur
        BY <1>3, <3>3, <4>1
      <4>3. chunk'[cur].root = h /\ chunk'[cur].live
        BY <1>3, <3>3, <4>1 DEF Live
      <4> QED
        BY <3>1, <4>1, <4>2, <4>3
  <2>2. \A t, u \in held' : handle'[t] = handle'[u] => t = u
    BY <1>2 DEF IInv, PoolsSound
  <2>3. \A x \in Chunk : chunk'[x].live => chunk'[x].cf \ {"CHILD"} \in CfChoices
    BY <1>3 DEF IInv, PoolsSound, Live
  <2> QED
    BY <2>1, <2>2, <2>3 DEF PoolsSound, Live
<1>7. ASSUME NEW b \in blocks'
      PROVE  \E a \in blocks :
                /\ a \in BlockType /\ b.mem = a.mem /\ b.off = a.off /\ b.len = a.len
                /\ b.req = a.req /\ b.kind = a.kind
                /\ b.pool = IF a.pool = src THEN dest ELSE a.pool
                /\ b = IF a.pool = src THEN [a EXCEPT !.pool = dest] ELSE a
  <2>1. PICK a \in blocks : b = IF a.pool = src THEN [a EXCEPT !.pool = dest] ELSE a
    BY <1>2
  <2>2. a \in BlockType
    BY DEF IInv, TypeOK
  <2> QED
    BY <2>1, <2>2 DEF BlockType
<1>8. BlocksOwned'
  <2> SUFFICES ASSUME NEW b \in blocks'
               PROVE  /\ chunk'[b.mem].root = b.pool
                      /\ chunk'[b.pool].live /\ chunk'[b.pool].root = b.pool
    BY DEF BlocksOwned, Live
  <2>1. PICK a \in blocks : /\ a \in BlockType /\ b.mem = a.mem
                            /\ b.pool = IF a.pool = src THEN dest ELSE a.pool
    BY <1>7
  <2>2. a.mem \in Chunk /\ a.pool \in Chunk
    BY <2>1 DEF BlockType
  <2>3. chunk[a.mem].root = a.pool /\ Live(a.pool) /\ chunk[a.pool].root = a.pool
    BY DEF IInv, BlocksOwned
  <2> QED
    BY <1>1, <1>3, <2>1, <2>2, <2>3 DEF Live
<1>9. LensCover'
  <2> SUFFICES ASSUME "ralloc" \in Calls, NEW b \in blocks', b.kind = "d"
               PROVE  Need(b.pool, b.req)' <= b.len
    BY DEF LensCover
  <2>1. PICK a \in blocks : /\ a \in BlockType /\ b.len = a.len
                            /\ b.req = a.req /\ b.kind = a.kind
                            /\ b.pool = IF a.pool = src THEN dest ELSE a.pool
    BY <1>7
  <2>2. Need(a.pool, a.req) <= a.len /\ Live(a.pool) /\ a.pool \in Chunk
    BY <2>1 DEF IInv, LensCover, BlocksOwned, BlockType
  <2>3. ASSUME NEW x \in Chunk, Live(x) PROVE chunk[x].cf # {"BESTFIT"}
    <3>1. chunk[x].cf \ {"CHILD"} \in CfChoices
      BY <2>3 DEF IInv, PoolsSound
    <3>2. {"BESTFIT"} \ {"CHILD"} = {"BESTFIT"}
      OBVIOUS
    <3> QED
      BY <1>1, <3>1, <3>2 DEF NoOverrun
  <2>4. b.pool \in Chunk /\ Live(b.pool)
    BY <1>1, <2>1, <2>2
  <2> QED
    BY <1>3, <2>1, <2>2, <2>3, <2>4 DEF Need
<1>10. BlocksSafe'
  <2>1. ASSUME NEW b \in blocks'
        PROVE  BlockSound(b)'
    <3>1. PICK a \in blocks : /\ a \in BlockType /\ b.mem = a.mem /\ b.off = a.off
                              /\ b.len = a.len /\ b.req = a.req /\ b.kind = a.kind
      BY <1>7
    <3>2. a.mem \in Chunk /\ BlockSound(a)
      BY <3>1 DEF IInv, BlocksSafe, BlockType
    <3> QED
      BY <1>3, <3>1, <3>2 DEF BlockSound, Live
  <2>2. ASSUME NEW b \in blocks', NEW e \in blocks', b # e
        PROVE  Apart(b, e)
    <3>1. PICK a \in blocks : /\ b.mem = a.mem /\ b.off = a.off /\ b.len = a.len
                              /\ b = IF a.pool = src THEN [a EXCEPT !.pool = dest] ELSE a
      BY <1>7
    <3>2. PICK f \in blocks : /\ e.mem = f.mem /\ e.off = f.off /\ e.len = f.len
                              /\ e = IF f.pool = src THEN [f EXCEPT !.pool = dest] ELSE f
      BY <1>7
    <3>3. a # f
      BY <2>2, <3>1, <3>2
    <3> QED
      BY <3>1, <3>2, <3>3 DEF IInv, BlocksSafe, Apart
  <2> QED
    BY <2>1, <2>2 DEF BlocksSafe, Apart
<1> QED
  BY <1>4, <1>5, <1>6, <1>8, <1>9, <1>10 DEF IInv

-----------------------------------------------------------------------------
(* Steps that take n bytes from a chunk of pool p and grant them.          *)

(* The structs after n bytes were taken from c, otherwise as in g.         *)
Takes(g, c, k, n) ==
    \A x \in Chunk :
        /\ chunk'[x].live = g[x].live
        /\ chunk'[x].size = g[x].size
        /\ chunk'[x].cf = g[x].cf
        /\ chunk'[x].root = g[x].root
        /\ chunk'[x].current = g[x].current
        /\ chunk'[x].child = g[x].child
        /\ chunk'[x].pos = IF x = c /\ k = "d" THEN g[x].pos + n ELSE g[x].pos
        /\ chunk'[x].end = IF x = c /\ k = "n" THEN g[x].end - n ELSE g[x].end

LEMMA TakenTakes ==
    ASSUME NEW g \in [Chunk -> ChunkType], NEW c \in Chunk, NEW k \in Kinds,
           NEW n, chunk' = [g EXCEPT ![c] = Taken(@, k, n)]
    PROVE  Takes(g, c, k, n)
<1>1. ASSUME NEW ch \in ChunkType
      PROVE  /\ Taken(ch, k, n).live = ch.live
             /\ Taken(ch, k, n).size = ch.size
             /\ Taken(ch, k, n).cf = ch.cf
             /\ Taken(ch, k, n).root = ch.root
             /\ Taken(ch, k, n).current = ch.current
             /\ Taken(ch, k, n).child = ch.child
             /\ Taken(ch, k, n).pos = IF k = "d" THEN ch.pos + n ELSE ch.pos
             /\ Taken(ch, k, n).end = IF k = "n" THEN ch.end - n ELSE ch.end
  BY DEF Taken, ChunkType, Kinds
<1>2. ASSUME NEW x \in Chunk
      PROVE  chunk'[x] = IF x = c THEN Taken(g[c], k, n) ELSE g[x]
  OBVIOUS
<1> QED
  BY <1>1, <1>2 DEF Takes

LEMMA SafeTake ==
    ASSUME IInv, TypeOK', NEW p \in Chunk, NEW c \in Chunk, NEW k \in Kinds,
           NEW n \in Nat, NEW r \in Requests,
           Live(c), chunk[c].root = p, Live(p), chunk[p].root = p,
           chunk[c].pos + n <= chunk[c].end,
           r <= n, n = Need(p, r),
           Takes(chunk, c, k, n),
           NEW off, off = IF k = "d" THEN chunk[c].pos ELSE chunk[c].end - n,
           NEW kept, kept \subseteq blocks,
           blocks' = kept \cup {Block(p, c, off, n, r, k)},
           held' = held, handle' = handle
    PROVE  IInv'
<1>0. /\ chunk[c].pos \in Nat /\ chunk[c].end \in Int /\ off \in Int /\ r \in Nat
      /\ 0 <= off /\ off + n <= chunk[c].end
      /\ chunk[c].end <= chunk[c].size /\ chunk[c].size \in Nat
  <2>1. chunk[c] \in ChunkType /\ BumpsSound /\ r \in Nat
    BY SizeAssumption DEF IInv, TypeOK
  <2>2. /\ chunk[c].pos \in Nat /\ chunk[c].end \in Int /\ chunk[c].size \in Nat
        /\ chunk[c].end <= chunk[c].size
    BY <2>1 DEF ChunkType, BumpsSound
  <2>3. CASE k = "d"
    BY <2>1, <2>2, <2>3
  <2>4. CASE k # "d"
    BY <2>1, <2>2, <2>4
  <2> QED
    BY <2>3, <2>4
<1>1. CurrentsExist' /\ LinksSound'
  <2>1. CurrentsExist'
    BY DEF IInv, CurrentsExist, Live, Takes
  <2>2. \A x \in Chunk : chunk[x].child \in Chunk \cup {NIL}
    BY DEF IInv, TypeOK, ChunkType
  <2>3. LinksSound'
    BY <2>2 DEF IInv, LinksSound, Live, Takes
  <2> QED
    BY <2>1, <2>3
<1>2. BumpsSound'
  <2> SUFFICES ASSUME NEW x \in Chunk, chunk'[x].live
               PROVE  /\ chunk'[x].pos <= chunk'[x].end
                      /\ chunk'[x].end <= chunk'[x].size
                      /\ chunk'[x].size <= HeapMax
    BY DEF BumpsSound, Live
  <2>1. /\ chunk[x].pos <= chunk[x].end
        /\ chunk[x].end <= chunk[x].size
        /\ chunk[x].size <= HeapMax
    BY DEF IInv, BumpsSound, Live, Takes
  <2> QED
    BY <1>0, <2>1 DEF Takes, Kinds
<1>3. PoolsSound'
  <2>1. ASSUME NEW t \in held', chunk'[handle'[t]].live
        PROVE  /\ chunk'[handle'[t]].root = handle'[t]
               /\ chunk'[handle'[t]].current \in Chunk
               /\ chunk'[chunk'[handle'[t]].current].live
               /\ chunk'[chunk'[handle'[t]].current].root = handle'[t]
    <3>1. PICK h \in Chunk : h = handle[t] /\ h = handle'[t] /\ t \in held
      BY DEF IInv, TypeOK
    <3>2. Live(h)
      BY <2>1, <3>1 DEF Live, Takes
    <3>3. PICK cur \in Chunk : /\ cur = chunk[h].current /\ chunk[h].root = h
                               /\ Live(cur) /\ chunk[cur].root = h
      BY <3>1, <3>2, OpenPool
    <3> QED
      BY <3>1, <3>3 DEF Takes, Live
  <2>2. \A t, u \in held' : handle'[t] = handle'[u] => t = u
    BY DEF IInv, PoolsSound
  <2>3. \A x \in Chunk : chunk'[x].live => chunk'[x].cf \ {"CHILD"} \in CfChoices
    BY DEF IInv, PoolsSound, Live, Takes
  <2> QED
    BY <2>1, <2>2, <2>3 DEF PoolsSound, Live
<1>4. PICK new : new = Block(p, c, off, n, r, k)
  OBVIOUS
<1>5. /\ new.pool = p /\ new.mem = c /\ new.off = off /\ new.len = n
      /\ new.req = r /\ new.kind = k
  BY <1>4 DEF Block
<1>6. ASSUME NEW b \in blocks
      PROVE  /\ b.mem \in Chunk /\ b.pool \in Chunk
             /\ b.off \in Int /\ b.len \in Nat /\ b.kind \in Kinds
  BY DEF IInv, TypeOK, BlockType
<1>7. \A b \in blocks' : b \in blocks \/ b = new
  BY <1>4
<1>8. BlocksOwned'
  BY <1>5, <1>6, <1>7 DEF IInv, BlocksOwned, Live, Takes
<1>9. LensCover'
  <2>1. Need(p, r)' = n
    BY DEF Need, Takes
  <2>2. \A b \in blocks : Need(b.pool, b.req)' = Need(b.pool, b.req)
    BY <1>6 DEF Need, Takes
  <2> QED
    BY <1>5, <1>7, <2>1, <2>2 DEF IInv, LensCover
<1>10. ASSUME NEW b \in blocks
       PROVE  BlockSound(b)' /\ Apart(b, new) /\ Apart(new, b)
  <2>1. BlockSound(b)
    BY DEF IInv, BlocksSafe
  <2>2. BlockSound(b)'
    BY <1>0, <1>6, <2>1 DEF BlockSound, Live, Takes, Kinds
  <2>3. b.mem = c => b.off + b.len <= off \/ off + n <= b.off
    BY <1>0, <1>6, <2>1 DEF BlockSound, Kinds
  <2> QED
    BY <1>5, <2>2, <2>3 DEF Apart
<1>11. BlockSound(new)'
  BY <1>0, <1>5 DEF BlockSound, Live, Takes, Kinds
<1>12. BlocksSafe'
  <2>1. \A b \in blocks' : BlockSound(b)'
    BY <1>7, <1>10, <1>11
  <2>2. \A a, b \in blocks' : a # b => Apart(a, b)
    BY <1>7, <1>10 DEF IInv, BlocksSafe
  <2>3. \A a, b : Apart(a, b)' <=> Apart(a, b)
    BY DEF Apart
  <2> QED
    BY <2>1, <2>2 DEF BlocksSafe, Apart
<1> QED
  BY <1>1, <1>2, <1>3, <1>8, <1>9, <1>12 DEF IInv

LEMMA SafeAllocHere ==
    ASSUME IInv, TypeOK', SaneSizes, NEW s \in Slot, NEW k \in Kinds,
           AllocHere(s, k)
    PROVE  IInv'
<1>1. PICK p \in Chunk, r \in Requests :
          LET n == Need(p, r)
              c == chunk[p].current
              off == IF k = "d" THEN chunk[c].pos ELSE chunk[c].end - n
          IN  /\ Asks(s, k, p, r, n)
              /\ ~Lacks(c, n)
              /\ chunk' = [chunk EXCEPT ![c] = Taken(@, k, n)]
              /\ blocks' = blocks \cup {Block(p, c, off, n, r, k)}
  BY DEF AllocHere
<1> DEFINE n == Need(p, r)
           c == chunk[p].current
           off == IF k = "d" THEN chunk[c].pos ELSE chunk[c].end - n
<1>2. s \in held /\ p = handle[s] /\ Live(p)
  BY <1>1, AskedPool DEF IInv
<1>3. /\ c \in Chunk /\ Live(c) /\ chunk[c].root = p /\ chunk[p].root = p
  BY <1>2, OpenPool
<1>4. n \in Nat /\ r <= n /\ n \in 0 .. SizeMod - 1
  BY NeedGrows, NeedType DEF IInv
<1>5. chunk[c].pos + n <= chunk[c].end
  <2>1. ~Lacks(c, n)
    BY <1>1
  <2> HIDE DEF c, n
  <2> QED
    BY <1>3, <1>4, <2>1, NotLacks DEF IInv
<1>6. Takes(chunk, c, k, n)
  <2>1. chunk' = [chunk EXCEPT ![c] = Taken(@, k, n)]
    BY <1>1
  <2> HIDE DEF c, n
  <2> QED
    BY <1>3, <2>1, TakenTakes DEF IInv, TypeOK
<1>7. /\ blocks' = blocks \cup {Block(p, c, off, n, r, k)}
      /\ held' = held /\ handle' = handle
  BY <1>1 DEF AllocHere
<1>8. n = Need(p, r)
  OBVIOUS
<1> HIDE DEF c, n
<1> QED
  BY <1>2, <1>3, <1>4, <1>5, <1>6, <1>7, <1>8, SafeTake

LEMMA SafeRallocMove ==
    ASSUME IInv, TypeOK', SaneSizes, NEW s \in Slot, RallocMove(s)
    PROVE  IInv'
<1>1. PICK p \in Chunk, b \in blocks, r \in Requests :
          LET old == Need(p, b.req)
              n == Need(p, r)
          IN  /\ Resizes(s, p, b, r, old, n)
              /\ FitsBehind(p, n)
              /\ chunk' = [chunk EXCEPT ![p] = Taken(@, "d", n)]
              /\ Replace(b, Block(p, p, chunk[p].pos, n, r, "d"))
  BY DEF RallocMove
<1> DEFINE n == Need(p, r)
<1>2. s \in held /\ p = handle[s] /\ Live(p)
  BY <1>1 DEF Resizes, On
<1>3. chunk[p].root = p
  BY <1>2, OpenPool
<1>4. n \in Nat /\ r <= n /\ n \in 0 .. SizeMod - 1
  BY NeedGrows, NeedType DEF IInv
<1>5. chunk[p].pos + n <= chunk[p].end
  <2>1. FitsBehind(p, n)
    BY <1>1
  <2>2. chunk[p].pos \in 0 .. SizeMod - 1 /\ chunk[p].end \in Int
    BY DEF IInv, TypeOK, ChunkType
  <2> HIDE DEF n
  <2> QED
    BY <1>4, <2>1, <2>2, Consts DEF FitsBehind, Wrap
<1>6. Takes(chunk, p, "d", n)
  <2>1. chunk' = [chunk EXCEPT ![p] = Taken(@, "d", n)]
    BY <1>1
  <2> HIDE DEF n
  <2> QED
    BY <2>1, TakenTakes DEF IInv, TypeOK, Kinds
<1>7. /\ blocks' = (blocks \ {b}) \cup {Block(p, p, chunk[p].pos, n, r, "d")}
      /\ held' = held /\ handle' = handle
  BY <1>1 DEF RallocMove, Replace
<1>8. PICK k \in Kinds : k = "d"
  BY DEF Kinds
<1>9. PICK off : off = chunk[p].pos
  OBVIOUS
<1>10. PICK kept : kept = blocks \ {b} /\ kept \subseteq blocks
  OBVIOUS
<1>11. blocks' = kept \cup {Block(p, p, off, n, r, k)}
  BY <1>7, <1>8, <1>9, <1>10
<1>12. n = Need(p, r)
  OBVIOUS
<1> HIDE DEF n
<1>13. off = IF k = "d" THEN chunk[p].pos ELSE chunk[p].end - n
  BY <1>8, <1>9
<1>14. Takes(chunk, p, k, n)
  BY <1>6, <1>8
<1>15. Live(p)
  BY <1>2
<1>16. held' = held /\ handle' = handle
  BY <1>7
<1>17. n \in Nat /\ r <= n
  BY <1>4
<1> QED
  BY <1>3, <1>5, <1>10, <1>11, <1>12, <1>13, <1>14, <1>15, <1>16, <1>17, SafeTake

-----------------------------------------------------------------------------
(* A pool grows by a chunk that nothing referred to.                       *)

LEMMA SafeAllocGrow ==
    ASSUME IInv, TypeOK', SaneSizes, NEW s \in Slot, NEW k \in Kinds,
           AllocGrow(s, k)
    PROVE  IInv'
<1>1. PICK p \in Chunk, r \in Requests, c \in Chunk :
          LET n == Need(p, r)
              size == GrowthSize(p, n)
              off == IF k = "d" THEN 0 ELSE size - n
          IN  /\ Asks(s, k, p, r, n)
              /\ "ok" \in Growths(p, n)
              /\ Reusable(c)
              /\ chunk' = [Grown(p, n, c) EXCEPT ![c] = Taken(@, k, n)]
              /\ blocks' = blocks \cup {Block(p, c, off, n, r, k)}
  BY DEF AllocGrow
<1> DEFINE n == Need(p, r)
           size == GrowthSize(p, n)
           off == IF k = "d" THEN 0 ELSE size - n
           g == Grown(p, n, c)
           cur == chunk[p].current
<1>2. s \in held /\ p = handle[s] /\ Live(p) /\ chunk[p].root = p
  BY <1>1, AskedPool, OpenPool DEF IInv
<1>3. cur \in Chunk /\ Live(cur) /\ chunk[cur].root = p
  BY <1>2, OpenPool
<1>4. /\ c # p /\ c # cur /\ ~Live(c)
      /\ \A x \in Chunk : Live(x) => chunk[x].child # c /\ chunk[x].current # c
      /\ \A t \in held : handle[t] # c
  BY <1>1, <1>2, ReusableFresh DEF Reusable, IInv
<1>5. n \in Nat /\ r <= n /\ n + HeapMax + AlignSize < SizeMod
      /\ n \in 0 .. SizeMod - 1
  BY NeedGrows, NeedType DEF IInv
<1>6. size \in Nat /\ n <= size /\ size <= HeapMax
  <2>1. "ok" \in Growths(p, n)
    BY <1>1
  <2> HIDE DEF n
  <2> QED
    BY <1>2, <1>5, <2>1, GrowthFits DEF IInv
<1>7. /\ GrowthOf(p, n, c, g) /\ g \in [Chunk -> ChunkType]
  BY <1>3, <1>4, <1>5, GrownChunks, GrownType DEF IInv
<1>8. Takes(g, c, k, n)
  <2>1. chunk' = [g EXCEPT ![c] = Taken(@, k, n)]
    BY <1>1
  <2> HIDE DEF g, n
  <2> QED
    BY <1>7, <2>1, TakenTakes
<1>9. /\ blocks' = blocks \cup {Block(p, c, off, n, r, k)}
      /\ held' = held /\ handle' = handle
  BY <1>1 DEF AllocGrow
<1>10. n = Need(p, r) /\ size = GrowthSize(p, n) /\ cur = chunk[p].current
  OBVIOUS
<1> HIDE DEF g, n, size, cur
<1>11. /\ chunk'[c].live = TRUE /\ chunk'[c].size = size
       /\ chunk'[c].pos = IF k = "d" THEN n ELSE 0
       /\ chunk'[c].end = IF k = "n" THEN size - n ELSE size
       /\ chunk'[c].cf = chunk[p].cf \cup {"CHILD"} /\ chunk'[c].root = p
       /\ chunk'[c].current = c /\ chunk'[c].child = NIL
  <2>1. /\ g[c].live = TRUE /\ g[c].size = size /\ g[c].pos = 0
        /\ g[c].end = size /\ g[c].cf = chunk[p].cf \cup {"CHILD"}
        /\ g[c].root = p /\ g[c].current = c /\ g[c].child = NIL
    BY <1>7, <1>10 DEF GrowthOf
  <2>2. /\ chunk'[c].live = g[c].live
        /\ chunk'[c].size = g[c].size
        /\ chunk'[c].cf = g[c].cf
        /\ chunk'[c].root = g[c].root
        /\ chunk'[c].current = g[c].current
        /\ chunk'[c].child = g[c].child
        /\ chunk'[c].pos = IF k = "d" THEN g[c].pos + n ELSE g[c].pos
        /\ chunk'[c].end = IF k = "n" THEN g[c].end - n ELSE g[c].end
    BY <1>8 DEF Takes
  <2>3. 0 + n = n
    BY <1>5
  <2> QED
    BY <2>1, <2>2, <2>3
<1>12. ASSUME NEW x \in Chunk \ {c}
       PROVE  /\ chunk'[x].live = chunk[x].live
              /\ chunk'[x].size = chunk[x].size
              /\ chunk'[x].pos = chunk[x].pos
              /\ chunk'[x].end = chunk[x].end
              /\ chunk'[x].cf = chunk[x].cf
              /\ chunk'[x].root = chunk[x].root
              /\ chunk'[x].current = IF x = p THEN c ELSE chunk[x].current
              /\ chunk'[x].child = IF x = cur THEN c ELSE chunk[x].child
  BY <1>4, <1>7, <1>8, <1>10 DEF GrowthOf, Takes
<1>13. CurrentsExist'
  BY <1>11, <1>12 DEF IInv, CurrentsExist, Live
<1>14. BumpsSound'
  <2>1. chunk'[c].pos <= chunk'[c].end /\ chunk'[c].end <= size
    BY <1>5, <1>6, <1>11 DEF Kinds
  <2> QED
    BY <1>6, <1>11, <1>12, <2>1 DEF IInv, BumpsSound, Live
<1>15. LinksSound'
  <2>1. \A x \in Chunk : chunk[x].child \in Chunk \cup {NIL}
    BY DEF IInv, TypeOK, ChunkType
  <2> QED
    BY <1>3, <1>4, <1>11, <1>12, <2>1 DEF IInv, LinksSound, Live
<1>16. PoolsSound'
  <2>1. ASSUME NEW t \in held', chunk'[handle'[t]].live
        PROVE  /\ chunk'[handle'[t]].root = handle'[t]
               /\ chunk'[handle'[t]].current \in Chunk
               /\ chunk'[chunk'[handle'[t]].current].live
               /\ chunk'[chunk'[handle'[t]].current].root = handle'[t]
    <3>1. PICK h \in Chunk : h = handle[t] /\ h = handle'[t] /\ t \in held
      BY <1>9 DEF IInv, TypeOK
    <3>2. h # c /\ Live(h)
      <4>1. h # c
        BY <1>4, <3>1
      <4>2. chunk'[h].live
        BY <2>1, <3>1
      <4> QED
        BY <1>12, <4>1, <4>2 DEF Live
    <3>3. PICK e \in Chunk : /\ e = chunk[h].current /\ chunk[h].root = h
                             /\ Live(e) /\ chunk[e].root = h
      BY <3>1, <3>2, OpenPool
    <3>4. e # c
      BY <1>4, <3>2, <3>3
    <3>5. CASE h = p
      BY <1>11, <1>12, <3>1, <3>2, <3>3, <3>5
    <3>6. CASE h # p
      BY <1>12, <3>1, <3>2, <3>3, <3>4, <3>6 DEF Live
    <3> QED
      BY <3>5, <3>6
  <2>2. \A t, u \in held' : handle'[t] = handle'[u] => t = u
    BY <1>9 DEF IInv, PoolsSound
  <2>3. \A x \in Chunk : chunk'[x].live => chunk'[x].cf \ {"CHILD"} \in CfChoices
    <3>1. (chunk[p].cf \cup {"CHILD"}) \ {"CHILD"} = chunk[p].cf \ {"CHILD"}
      OBVIOUS
    <3>2. \A x \in Chunk : Live(x) => chunk[x].cf \ {"CHILD"} \in CfChoices
      BY DEF IInv, PoolsSound
    <3>3. chunk'[c].cf \ {"CHILD"} \in CfChoices
      BY <1>2, <1>11, <3>1, <3>2
    <3>4. \A x \in Chunk \ {c} : chunk'[x].live => chunk'[x].cf \ {"CHILD"} \in CfChoices
      BY <1>12, <3>2 DEF Live
    <3> QED
      BY <3>3, <3>4
  <2> QED
    BY <2>1, <2>2, <2>3 DEF PoolsSound, Live
<1>17. PICK new : new = Block(p, c, off, n, r, k)
  OBVIOUS
<1>18. /\ new.pool = p /\ new.mem = c /\ new.off = off /\ new.len = n
       /\ new.req = r /\ new.kind = k
  BY <1>17 DEF Block
<1>19. \A b \in blocks' : b \in blocks \/ b = new
  BY <1>9, <1>17
<1>20. ASSUME NEW b \in blocks
       PROVE  b.mem \in Chunk \ {c} /\ b.pool \in Chunk \ {c}
  BY <1>4 DEF IInv, TypeOK, BlockType, BlocksSafe, BlockSound, BlocksOwned
<1>21. BlocksOwned'
  BY <1>2, <1>4, <1>11, <1>12, <1>18, <1>19, <1>20 DEF IInv, BlocksOwned, Live
<1>22. LensCover'
  <2>1. Need(p, r)' = n
    BY <1>4, <1>10, <1>12 DEF Need
  <2>2. \A b \in blocks : Need(b.pool, b.req)' = Need(b.pool, b.req)
    BY <1>12, <1>20 DEF Need
  <2>3. n <= n
    BY <1>5
  <2> QED
    BY <1>18, <1>19, <2>1, <2>2, <2>3 DEF IInv, LensCover
<1>23. BlocksSafe'
  <2>1. BlockSound(new)'
    <3>1. off \in Int /\ 0 <= off /\ off + n <= size
      BY <1>5, <1>6
    <3>2. k = "d" => off + n <= n
      BY <1>5
    <3>3. k = "n" => off = size - n
      BY DEF Kinds
    <3> HIDE DEF off
    <3> QED
      BY <1>5, <1>6, <1>11, <1>18, <3>1, <3>2, <3>3 DEF BlockSound, Live
  <2>2. \A b \in blocks : BlockSound(b)'
    BY <1>12, <1>20 DEF IInv, BlocksSafe, BlockSound, Live
  <2>3. \A b \in blocks : Apart(b, new) /\ Apart(new, b)
    BY <1>18, <1>20 DEF Apart
  <2>4. \A b \in blocks' : BlockSound(b)'
    BY <1>19, <2>1, <2>2
  <2>5. \A a, b \in blocks' : a # b => Apart(a, b)
    BY <1>19, <2>3 DEF IInv, BlocksSafe
  <2> QED
    BY <2>4, <2>5 DEF BlocksSafe, Apart
<1> QED
  BY <1>13, <1>14, <1>15, <1>16, <1>21, <1>22, <1>23 DEF IInv

LEMMA SafeDallocNoStruct ==
    ASSUME IInv, TypeOK', NEW s \in Slot, DallocNoStruct(s)
    PROVE  IInv'
<1>1. PICK p \in Chunk : /\ p = handle[s] /\ s \in held /\ Live(p)
                         /\ chunk' = Childless(p)
  BY DEF DallocNoStruct, Asks, On
<1>2. PICK cur \in Chunk : cur = chunk[p].current
  BY <1>1, OpenPool
<1>3. blocks' = blocks /\ held' = held /\ handle' = handle
  BY DEF DallocNoStruct
<1>4. ASSUME NEW x \in Chunk
      PROVE  /\ chunk'[x].live = chunk[x].live
             /\ chunk'[x].size = chunk[x].size
             /\ chunk'[x].end = chunk[x].end
             /\ chunk'[x].cf = chunk[x].cf
             /\ chunk'[x].root = chunk[x].root
             /\ chunk'[x].current = chunk[x].current
             /\ chunk'[x].pos = chunk[x].pos
             /\ chunk'[x].child \in {chunk[x].child, NIL}
  <2>1. chunk' = [chunk EXCEPT ![cur].child = NIL]
    BY <1>1, <1>2 DEF Childless
  <2>2. chunk[x] \in ChunkType /\ chunk[cur] \in ChunkType
    BY DEF IInv, TypeOK
  <2> QED
    BY <2>1, <2>2 DEF IInv, TypeOK, ChunkType
<1>5. CurrentsExist' /\ BumpsSound'
  BY <1>4 DEF IInv, CurrentsExist, BumpsSound, Live
<1>6. LinksSound'
  <2>1. \A x \in Chunk : chunk[x].child \in Chunk \cup {NIL}
    BY DEF IInv, TypeOK, ChunkType
  <2> QED
    BY <1>4, <2>1 DEF IInv, LinksSound, Live
<1>7. PoolsSound'
  <2>1. \A t \in held : handle[t] \in Chunk
    BY DEF IInv, TypeOK
  <2> QED
    BY <1>3, <1>4, <2>1 DEF IInv, PoolsSound, Live
<1>8. \A b \in blocks : b.mem \in Chunk /\ b.pool \in Chunk
  BY DEF IInv, TypeOK, BlockType
<1>9. BlocksOwned'
  BY <1>3, <1>4, <1>8 DEF IInv, BlocksOwned, Live
<1>10. LensCover'
  BY <1>3, <1>4, <1>8 DEF IInv, LensCover, Need
<1>11. BlocksSafe'
  BY <1>3, <1>4, <1>8 DEF IInv, BlocksSafe, BlockSound, Apart, Live
<1> QED
  BY <1>5, <1>6, <1>7, <1>9, <1>10, <1>11 DEF IInv

-----------------------------------------------------------------------------
(* ralloc in place.                                                        *)

LEMMA SafeRallocKeep ==
    ASSUME IInv, TypeOK', SaneSizes, NEW s \in Slot, RallocKeep(s)
    PROVE  IInv'
<1>1. PICK p \in Chunk, b \in blocks, r \in Requests :
          /\ Resizes(s, p, b, r, Need(p, b.req), Need(p, r))
          /\ Need(p, r) <= Need(p, b.req)
          /\ Replace(b, [b EXCEPT !.req = r])
  BY DEF RallocKeep
<1>2. b \in BlockType
  BY DEF IInv, TypeOK
<1>3. PICK new : new = [b EXCEPT !.req = r]
  OBVIOUS
<1>4. /\ new.pool = b.pool /\ new.mem = b.mem /\ new.off = b.off /\ new.len = b.len
      /\ new.kind = b.kind /\ new.req = r
  BY <1>2, <1>3 DEF BlockType
<1>5. /\ chunk' = chunk /\ held' = held /\ handle' = handle
      /\ blocks' = (blocks \ {b}) \cup {new}
  BY <1>1, <1>3 DEF RallocKeep, Replace
<1>6. "ralloc" \in Calls /\ b.pool = p /\ b.kind = "d"
  BY <1>1 DEF Resizes, On, Call
<1>7. Need(p, b.req) <= b.len
  BY <1>6 DEF IInv, LensCover
<1>8. Need(p, r) <= b.len /\ r <= b.len
  <2>1. Need(p, r) \in Nat /\ r <= Need(p, r) /\ r \in Nat
    BY NeedGrows, RequestBounds DEF IInv
  <2>2. Need(p, b.req) \in Nat /\ b.len \in Nat
    BY <1>2, NeedType DEF BlockType, IInv
  <2> HIDE DEF Need
  <2> QED
    BY <1>1, <1>7, <2>1, <2>2
<1>9. CurrentsExist' /\ BumpsSound' /\ LinksSound' /\ PoolsSound'
  BY <1>5 DEF IInv, CurrentsExist, BumpsSound, LinksSound, PoolsSound, Live
<1>10. BlocksOwned'
  BY <1>4, <1>5 DEF IInv, BlocksOwned, Live
<1>11. LensCover'
  <2>1. \A q, x : Need(q, x)' = Need(q, x)
    BY <1>5 DEF Need
  <2> QED
    BY <1>4, <1>5, <1>6, <1>8, <2>1 DEF IInv, LensCover
<1>12. BlocksSafe'
  <2>1. BlockSound(b) /\ \A a \in blocks : BlockSound(a)
    BY DEF IInv, BlocksSafe
  <2>2. BlockSound(new)'
    BY <1>4, <1>5, <1>8, <2>1 DEF BlockSound, Live
  <2>3. \A a \in blocks : BlockSound(a)'
    BY <1>5, <2>1 DEF BlockSound, Live
  <2>4. \A a \in blocks \ {b} : Apart(a, new) /\ Apart(new, a)
    BY <1>4 DEF IInv, BlocksSafe, Apart
  <2>5. \A a, e \in blocks' : a # e => Apart(a, e)
    BY <1>5, <2>4 DEF IInv, BlocksSafe
  <2> QED
    BY <1>5, <2>2, <2>3, <2>5 DEF BlocksSafe, Apart
<1> QED
  BY <1>9, <1>10, <1>11, <1>12 DEF IInv

(* A resize in place, without wrapping: the block ends where the free      *)
(* space of its chunk begins, before and after.                            *)
InPlace(s, p, b, r, n) ==
    /\ "ralloc" \in Calls /\ s \in held /\ p = handle[s] /\ Live(p)
    /\ b.pool = p /\ b.mem = p /\ b.kind = "d"
    /\ n = Need(p, r) /\ r <= n
    /\ 0 <= b.off /\ b.off + b.len = chunk[p].pos /\ b.off + n <= chunk[p].end
    /\ chunk' = [chunk EXCEPT ![p].pos = b.off + n,
                              ![p].lo = LoAfterResize(p, b.len, n, b.off + n)]
    /\ blocks' = (blocks \ {b}) \cup {[b EXCEPT !.len = n, !.req = r]}

LEMMA InPlaceStep ==
    ASSUME IInv, SaneSizes, NEW s \in Slot, RallocInPlace(s)
    PROVE  \E p \in Chunk, b \in blocks, r \in Requests, n \in Nat : InPlace(s, p, b, r, n)
<1>1. PICK p \in Chunk, b \in blocks, r \in Requests :
          LET old == Need(p, b.req)
              n == Need(p, r)
              pos == Wrap(chunk[p].pos - old + n)
          IN  /\ Resizes(s, p, b, r, old, n)
              /\ IsLast(p, b, old) /\ FitsInPlace(p, old, n)
              /\ chunk' = [chunk EXCEPT ![p].pos = pos,
                                        ![p].lo = LoAfterResize(p, old, n, pos)]
              /\ Replace(b, [b EXCEPT !.len = n, !.req = r])
  BY DEF RallocInPlace
<1> DEFINE n == Need(p, r)
           old == Need(p, b.req)
<1>2. /\ b \in BlockType /\ chunk[p] \in ChunkType
      /\ n \in Nat /\ r <= n /\ n + HeapMax + AlignSize < SizeMod
  BY NeedGrows DEF IInv, TypeOK
<1>3. /\ "ralloc" \in Calls /\ b.pool = p /\ b.kind = "d" /\ Live(p)
      /\ s \in held /\ p = handle[s]
  BY <1>1 DEF Resizes, On, Call
<1>4. old \in Nat /\ old <= b.len
  <2>1. b.req \in Requests
    BY <1>2 DEF BlockType
  <2>2. old \in 0 .. SizeMod - 1
    BY <2>1, NeedType DEF IInv
  <2>3. old <= b.len
    BY <1>3 DEF IInv, LensCover
  <2> QED
    BY <2>2, <2>3, Consts
<1>5. b.mem = p /\ b.off = chunk[p].pos - old
  BY <1>1 DEF IsLast
<1>6. BlockSound(b) /\ BumpsSound
  BY DEF IInv, BlocksSafe
<1> HIDE DEF n, old
<1>7. /\ chunk[p].pos \in Nat /\ chunk[p].end \in Int /\ chunk[p].size \in Nat
      /\ b.off \in Int /\ b.len \in Nat
  BY <1>2 DEF ChunkType, BlockType
<1>8. /\ chunk[p].pos <= chunk[p].end /\ chunk[p].end <= chunk[p].size
      /\ chunk[p].size <= HeapMax
      /\ 0 <= b.off /\ b.off + b.len <= chunk[p].pos
  BY <1>3, <1>5, <1>6 DEF BumpsSound, BlockSound
<1>9. b.len = old
  BY <1>4, <1>5, <1>7, <1>8
<1>10. Wrap(chunk[p].pos - old + n) = b.off + n /\ b.off + n <= chunk[p].end
  <2>1. chunk[p].pos - old + n = b.off + n /\ b.off + n < SizeMod
    BY <1>2, <1>4, <1>5, <1>7, <1>8, Consts
  <2>2. Wrap(b.off + n) = b.off + n
    BY <1>2, <1>7, <2>1, Consts DEF Wrap
  <2>3. FitsInPlace(p, old, n)
    BY <1>1 DEF old, n
  <2> QED
    BY <2>1, <2>2, <2>3 DEF FitsInPlace
<1>11. chunk' = [chunk EXCEPT ![p].pos = b.off + n,
                              ![p].lo = LoAfterResize(p, b.len, n, b.off + n)]
  BY <1>1, <1>9, <1>10 DEF old, n
<1>12. blocks' = (blocks \ {b}) \cup {[b EXCEPT !.len = n, !.req = r]}
  BY <1>1 DEF Replace, n
<1>13. b.off + b.len = chunk[p].pos
  BY <1>5, <1>7, <1>9
<1>14. n = Need(p, r)
  BY DEF n
<1> QED
  BY <1>2, <1>3, <1>5, <1>8, <1>10, <1>11, <1>12, <1>13, <1>14 DEF InPlace

LEMMA SafeRallocInPlace ==
    ASSUME IInv, TypeOK', SaneSizes, NEW s \in Slot, RallocInPlace(s)
    PROVE  IInv'
<1>1. PICK p \in Chunk, b \in blocks, r \in Requests, n \in Nat : InPlace(s, p, b, r, n)
  BY InPlaceStep
<1>2. /\ b \in BlockType /\ chunk[p] \in ChunkType
      /\ n \in Nat /\ r <= n /\ n + HeapMax + AlignSize < SizeMod /\ r \in Nat
  BY <1>1, NeedGrows, RequestBounds DEF IInv, TypeOK, InPlace
<1>3. /\ "ralloc" \in Calls /\ b.pool = p /\ b.kind = "d" /\ Live(p)
      /\ s \in held /\ p = handle[s]
  BY <1>1 DEF InPlace
<1>5. b.mem = p
  BY <1>1 DEF InPlace
<1>6. BlockSound(b) /\ BumpsSound
  BY DEF IInv, BlocksSafe
<1>7. /\ chunk[p].pos \in Nat /\ chunk[p].end \in Int /\ chunk[p].size \in Nat
      /\ b.off \in Int /\ b.len \in Nat
  BY <1>2 DEF ChunkType, BlockType
<1>8. /\ chunk[p].pos <= chunk[p].end /\ chunk[p].end <= chunk[p].size
      /\ chunk[p].size <= HeapMax
      /\ 0 <= b.off /\ b.off + b.len <= chunk[p].pos
  BY <1>3, <1>5, <1>6 DEF BumpsSound, BlockSound
<1>10. b.off + n <= chunk[p].end /\ b.off + b.len = chunk[p].pos
  BY <1>1 DEF InPlace
<1>11. PICK lo : chunk' = [chunk EXCEPT ![p].pos = b.off + n, ![p].lo = lo]
  BY <1>1 DEF InPlace
<1>12. ASSUME NEW x \in Chunk
       PROVE  /\ chunk'[x].live = chunk[x].live
              /\ chunk'[x].size = chunk[x].size
              /\ chunk'[x].end = chunk[x].end
              /\ chunk'[x].cf = chunk[x].cf
              /\ chunk'[x].root = chunk[x].root
              /\ chunk'[x].current = chunk[x].current
              /\ chunk'[x].child = chunk[x].child
              /\ chunk'[x].pos = IF x = p THEN b.off + n ELSE chunk[x].pos
  <2>1. chunk[x] \in ChunkType
    BY DEF IInv, TypeOK
  <2> QED
    BY <1>11, <2>1 DEF IInv, TypeOK, ChunkType
<1>13. PICK new : new = [b EXCEPT !.len = n, !.req = r]
  OBVIOUS
<1>14. /\ new.pool = p /\ new.mem = p /\ new.off = b.off /\ new.len = n
       /\ new.kind = "d" /\ new.req = r
  BY <1>2, <1>3, <1>5, <1>13 DEF BlockType
<1>15. /\ held' = held /\ handle' = handle
       /\ blocks' = (blocks \ {b}) \cup {new}
  BY <1>1, <1>13 DEF RallocInPlace, InPlace
<1>16. CurrentsExist' /\ LinksSound'
  <2>1. \A x \in Chunk : chunk[x].child \in Chunk \cup {NIL}
    BY DEF IInv, TypeOK, ChunkType
  <2>2. CurrentsExist'
    BY <1>12 DEF IInv, CurrentsExist, Live
  <2>3. LinksSound'
    BY <1>12, <2>1 DEF IInv, LinksSound, Live
  <2> QED
    BY <2>2, <2>3
<1>17. BumpsSound'
  BY <1>6, <1>10, <1>12 DEF BumpsSound, Live
<1>18. PoolsSound'
  <2>1. \A t \in held : handle[t] \in Chunk
    BY DEF IInv, TypeOK
  <2> QED
    BY <1>12, <1>15, <2>1 DEF IInv, PoolsSound, Live
<1>19. \A a \in blocks : a \in BlockType /\ a.mem \in Chunk /\ a.pool \in Chunk
  BY DEF IInv, TypeOK, BlockType
<1>20. BlocksOwned'
  <2>1. \A a \in blocks' : (a \in blocks) \/ (a.pool = b.pool /\ a.mem = b.mem)
    BY <1>3, <1>5, <1>14, <1>15
  <2> QED
    BY <1>12, <1>19, <2>1 DEF IInv, BlocksOwned, Live
<1>21. LensCover'
  <2>1. \A a \in blocks : Need(a.pool, a.req)' = Need(a.pool, a.req)
    BY <1>12, <1>19 DEF Need
  <2>2. Need(p, r)' = n
    BY <1>1, <1>12 DEF Need, InPlace
  <2>3. n <= n
    BY <1>2
  <2> QED
    BY <1>14, <1>15, <2>1, <2>2, <2>3 DEF IInv, LensCover
<1>22. ASSUME NEW a \in blocks \ {b}
       PROVE  BlockSound(a)' /\ Apart(a, new) /\ Apart(new, a)
  <2>1. /\ a.off \in Int /\ a.len \in Nat /\ a.kind \in {"d", "n"} /\ a.req \in Nat
        /\ 1 <= a.req
    <3>1. a \in BlockType
      BY <1>19
    <3>2. a.req \in Requests /\ a.off \in Int /\ a.kind \in {"d", "n"}
      BY <3>1 DEF BlockType, Kinds
    <3>3. a.len \in Nat
      BY <3>1 DEF BlockType
    <3> QED
      BY <3>2, <3>3, RequestBounds
  <2>2. BlockSound(a) /\ Apart(a, b)
    BY DEF IInv, BlocksSafe
  <2>3. a.mem = p => \/ a.kind = "n" /\ a.off >= chunk[p].end
                     \/ a.kind = "d" /\ a.off + a.len <= b.off
    <3>1. CASE a.mem = p /\ a.kind = "n"
      BY <2>2, <3>1 DEF BlockSound
    <3>2. CASE a.mem = p /\ a.kind = "d"
      <4>1. a.off + a.len <= chunk[p].pos /\ 1 <= a.len
        BY <2>1, <2>2, <3>2 DEF BlockSound
      <4>2. a.off + a.len <= b.off \/ b.off + b.len <= a.off
        BY <1>5, <2>2, <3>2 DEF Apart
      <4>3. b.off + b.len = chunk[p].pos
        BY <1>10
      <4> QED
        BY <1>7, <2>1, <3>2, <4>1, <4>2, <4>3
    <3> QED
      BY <2>1, <3>1, <3>2
  <2>4. BlockSound(a)'
    BY <1>2, <1>7, <1>12, <1>19, <2>1, <2>2, <2>3 DEF BlockSound, Live
  <2>5. a.mem = p => a.off + a.len <= b.off \/ b.off + n <= a.off
    BY <1>2, <1>7, <1>10, <2>1, <2>3
  <2> QED
    BY <1>14, <2>4, <2>5 DEF Apart
<1>23. BlockSound(new)'
  BY <1>2, <1>3, <1>7, <1>8, <1>10, <1>12, <1>14 DEF BlockSound, Live
<1>24. BlocksSafe'
  <2>1. \A a \in blocks' : BlockSound(a)'
    BY <1>15, <1>22, <1>23
  <2>2. \A a, e \in blocks' : a # e => Apart(a, e)
    BY <1>15, <1>22 DEF IInv, BlocksSafe
  <2> QED
    BY <2>1, <2>2 DEF BlocksSafe, Apart
<1> QED
  BY <1>16, <1>17, <1>18, <1>20, <1>21, <1>24 DEF IInv

(* With ralloc in use no pool is DYNAMIC, so that it never spills.         *)
LEMMA NoSpill ==
    ASSUME IInv, NoOverrun, NEW s \in Slot, RallocSpill(s)
    PROVE  FALSE
<1>1. PICK p \in Chunk : /\ "ralloc" \in Calls /\ Live(p) /\ "DYNAMIC" \in chunk[p].cf
  <2>1. PICK p \in Chunk, b \in blocks, r \in Requests :
            /\ Resizes(s, p, b, r, Need(p, b.req), Need(p, r))
            /\ "DYNAMIC" \in chunk[p].cf
    BY DEF RallocSpill
  <2> QED
    BY <2>1 DEF Resizes, On, Call
<1>2. chunk[p].cf \ {"CHILD"} \in CfChoices
  BY <1>1 DEF IInv, PoolsSound
<1>3. "DYNAMIC" \in chunk[p].cf \ {"CHILD"}
  BY <1>1
<1> QED
  BY <1>1, <1>2, <1>3 DEF NoOverrun

-----------------------------------------------------------------------------
(* The invariant is inductive.                                             *)

LEMMA SafeInit == Init => IInv
<1> SUFFICES ASSUME Init PROVE IInv
  OBVIOUS
<1>1. \A c \in Chunk : ~chunk[c].live /\ chunk[c].child = NIL
  BY DEF Init, BlankChunk
<1>2. held = {} /\ blocks = {}
  BY DEF Init
<1> QED
  BY <1>1, <1>2, TypeInit
  DEF IInv, BumpsSound, LinksSound, PoolsSound, BlocksOwned, LensCover,
      BlocksSafe, Live

LEMMA SafeNext ==
    ASSUME SaneSizes, NoOverrun, IInv, [Next]_vars
    PROVE  IInv'
<1>1. TypeOK'
  BY TypeNext DEF IInv
<1>2. ASSUME NEW f, Crashes(f) PROVE IInv'
  BY <1>1, <1>2, SafeQuiet DEF Crashes
<1>3. ASSUME NEW f, Fails(f) PROVE IInv'
  BY <1>1, <1>3, SafeQuiet DEF Fails
<1>4. ASSUME NEW s \in Slot, NewRejected(s) \/ NewCrash(s) \/ FreeCrash(s)
                 \/ UseFreed(s) \/ ShrinkCrash(s) \/ RallocCrash(s)
                 \/ RallocRefused(s) \/ DestroyCrash
      PROVE  IInv'
  <2>1. (\E f : Crashes(f)) \/ (\E f : Fails(f))
    BY <1>4 DEF NewRejected, NewCrash, FreeCrash, UseFreed, ShrinkCrash,
                RallocCrash, RallocRefused, DestroyCrash
  <2> QED
    BY <1>2, <1>3, <2>1
<1>5. ASSUME NEW s \in Slot, NEW k \in Kinds, AllocFull(s, k) \/ AllocCrash(s, k)
      PROVE  IInv'
  <2>1. (\E f : Crashes(f)) \/ (\E f : Fails(f))
    BY <1>5 DEF AllocFull, AllocCrash
  <2> QED
    BY <1>2, <1>3, <2>1
<1>6. ASSUME NEW s \in Slot, Info(s) \/ ShrinkNothing(s) PROVE IInv'
  BY <1>1, <1>6, SafeQuiet DEF Info, ShrinkNothing
<1>7. ASSUME NEW s \in Slot, NewNoStruct(s) PROVE IInv'
  <2>1. \A t \in held : handle'[t] = handle[t]
    BY <1>7 DEF NewNoStruct, IInv, TypeOK
  <2> QED
    BY <1>1, <1>7, <2>1, SafeQuiet DEF NewNoStruct
<1>8. CASE Destroy
  BY <1>1, <1>8, SafeQuiet DEF Destroy
<1>9. CASE DestroyCrash
  BY <1>2, <1>9 DEF DestroyCrash
<1>10. CASE UNCHANGED vars
  BY <1>1, <1>10, SafeQuiet DEF vars
<1>11. ASSUME NEW s \in Slot, NewPool(s) PROVE IInv'
  BY <1>1, <1>11, SafeNewPool
<1>12. ASSUME NEW s \in Slot, Free(s) PROVE IInv'
  BY <1>1, <1>12, SafeFree
<1>13. ASSUME NEW s \in Slot, Clear(s) \/ Reset(s) PROVE IInv'
  BY <1>1, <1>13, SafeClear
<1>14. ASSUME NEW s \in Slot, ShrinkRewinds(s) PROVE IInv'
  BY <1>1, <1>14, SafeShrink
<1>15. ASSUME NEW d \in Slot, NEW s \in Slot, Merge(d, s) PROVE IInv'
  BY <1>1, <1>15, SafeMerge
<1>16. ASSUME NEW s \in Slot, NEW k \in Kinds, AllocHere(s, k) PROVE IInv'
  BY <1>1, <1>16, SafeAllocHere
<1>17. ASSUME NEW s \in Slot, NEW k \in Kinds, AllocGrow(s, k) PROVE IInv'
  BY <1>1, <1>17, SafeAllocGrow
<1>18. ASSUME NEW s \in Slot, DallocNoStruct(s) PROVE IInv'
  BY <1>1, <1>18, SafeDallocNoStruct
<1>19. ASSUME NEW s \in Slot, RallocInPlace(s) PROVE IInv'
  BY <1>1, <1>19, SafeRallocInPlace
<1>20. ASSUME NEW s \in Slot, RallocKeep(s) PROVE IInv'
  BY <1>1, <1>20, SafeRallocKeep
<1>21. ASSUME NEW s \in Slot, RallocMove(s) PROVE IInv'
  BY <1>1, <1>21, SafeRallocMove
<1>22. ASSUME NEW s \in Slot, RallocSpill(s) PROVE IInv'
  BY <1>22, NoSpill
<1> QED
  BY <1>4, <1>5, <1>6, <1>7, <1>8, <1>9, <1>10, <1>11, <1>12, <1>13, <1>14,
     <1>15, <1>16, <1>17, <1>18, <1>19, <1>20, <1>21, <1>22
  DEF Next, Alloc, Ralloc

(* The invariant behind the safety of granted blocks holds of every        *)
(* reachable state: types, bump pointers, links, owners of chunks and      *)
(* blocks, and the lengths ralloc relies on.                               *)
THEOREM PoolsStaySafe ==
    ASSUME SaneSizes, NoOverrun
    PROVE  Spec => []IInv
<1>1. Init => IInv
  BY SafeInit
<1>2. IInv /\ [Next]_vars => IInv'
  BY SafeNext
<1> QED
  BY <1>1, <1>2, PTL DEF Spec

(* For any number of chunks and client variables, any alignment, sizes and *)
(* flags: blocks granted by dalloc, nalloc and ralloc lie in live memory   *)
(* and share no byte, whatever was freed, grown, merged, cleared, reset or *)
(* shrunk meanwhile and however malloc failed, as long as requests stay    *)
(* away from the width of size_t and ralloc is kept off pools that can     *)
(* grow.                                                                   *)
THEOREM BlocksStaySafe ==
    ASSUME SaneSizes, NoOverrun
    PROVE  Spec => []BlocksSafe
<1>1. Spec => []IInv
  BY PoolsStaySafe
<1>2. IInv => BlocksSafe
  BY DEF IInv
<1> QED
  BY <1>1, <1>2, PTL

(* The bump pointers of a chunk in use never cross and stay within its     *)
(* memory, under the same conditions.                                      *)
THEOREM BumpsStaySound ==
    ASSUME SaneSizes, NoOverrun
    PROVE  Spec => []BumpsSound
<1>1. Spec => []IInv
  BY PoolsStaySafe
<1>2. IInv => BumpsSound
  BY DEF IInv
<1> QED
  BY <1>1, <1>2, PTL

-----------------------------------------------------------------------------
(* Free space is zero.                                                     *)

ZeroOf(ch) == ch.live /\ ch.zeroed => ch.lo <= ch.pos /\ ch.end <= ch.hi

LEMMA ZeroTaken ==
    ASSUME NEW ch \in ChunkType, NEW k \in Kinds, NEW n \in Nat, ZeroOf(ch)
    PROVE  ZeroOf(Taken(ch, k, n))
<1>1. /\ ch.pos \in Nat /\ ch.end \in Int /\ ch.lo \in Int /\ ch.hi \in Int
      /\ ch.zeroed \in BOOLEAN /\ ch.live \in BOOLEAN
  BY DEF ChunkType
<1>2. CASE k = "d"
  <2>1. /\ Taken(ch, k, n).live = ch.live /\ Taken(ch, k, n).zeroed = ch.zeroed
        /\ Taken(ch, k, n).pos = ch.pos + n
        /\ Taken(ch, k, n).lo = DirtyTo(ch, ch.pos + n)
        /\ Taken(ch, k, n).end = ch.end /\ Taken(ch, k, n).hi = ch.hi
    BY <1>2 DEF Taken, ChunkType
  <2> QED
    BY <1>1, <2>1 DEF ZeroOf, DirtyTo, Larger
<1>3. CASE k = "n"
  <2>1. /\ Taken(ch, k, n).live = ch.live /\ Taken(ch, k, n).zeroed = ch.zeroed
        /\ Taken(ch, k, n).pos = ch.pos /\ Taken(ch, k, n).lo = ch.lo
        /\ Taken(ch, k, n).end = ch.end - n
        /\ Taken(ch, k, n).hi = IF ch.zeroed THEN Smaller(ch.hi, ch.end - n) ELSE ch.hi
    BY <1>3 DEF Taken, ChunkType
  <2> QED
    BY <1>1, <2>1 DEF ZeroOf, Smaller
<1> QED
  BY <1>2, <1>3 DEF Kinds

LEMMA ZeroRewound ==
    ASSUME NEW ch \in ChunkType
    PROVE  ZeroOf(Rewound(ch))
<1>1. Rewound(ch).zeroed = FALSE
  BY DEF Rewound, ChunkType
<1> QED
  BY <1>1 DEF ZeroOf

LEMMA ZeroByChunk ==
    ASSUME \A x \in Chunk : ZeroOf(chunk'[x])
    PROVE  FreeSpaceZero'
BY DEF ZeroOf, FreeSpaceZero, Live

LEMMA ZeroNow ==
    ASSUME FreeSpaceZero
    PROVE  \A x \in Chunk : ZeroOf(chunk[x])
BY DEF ZeroOf, FreeSpaceZero, Live

LEMMA ZeroNew ==
    ASSUME NEW c, NEW size \in Nat, NEW cf, NEW parent, NEW root
    PROVE  ZeroOf(NewChunk(c, size, cf, parent, root))
BY DEF ZeroOf, NewChunk

LEMMA ZeroNewPool ==
    ASSUME IInv, FreeSpaceZero, NEW s \in Slot, NewPool(s)
    PROVE  FreeSpaceZero'
<1>1. PICK n \in PoolSizes \ {0}, cf \in CfChoices, c \in Chunk :
          chunk' = [chunk EXCEPT ![c] = NewChunk(c, PoolBytes(n), cf, NIL, c)]
  BY DEF NewPool
<1>2. PoolBytes(n) \in Nat
  BY PoolBytesType, SizeAssumption
<1>3. PICK new : new = NewChunk(c, PoolBytes(n), cf, NIL, c)
  OBVIOUS
<1>4. ZeroOf(new)
  BY <1>2, <1>3, ZeroNew
<1>5. \A x \in Chunk : chunk'[x] \in {new, chunk[x]}
  BY <1>1, <1>3 DEF IInv, TypeOK
<1> QED
  BY <1>4, <1>5, ZeroNow, ZeroByChunk

LEMMA ZeroFree ==
    ASSUME IInv, FreeSpaceZero, NEW s \in Slot, Free(s)
    PROVE  FreeSpaceZero'
<1>1. \A x \in Chunk : chunk'[x] \in {BlankChunk, chunk[x], [chunk[x] EXCEPT !.child = NIL]}
  BY DEF Free
<1>2. ASSUME NEW x \in Chunk PROVE ZeroOf(chunk'[x])
  <2>1. chunk[x] \in ChunkType /\ ZeroOf(chunk[x])
    BY ZeroNow DEF IInv, TypeOK
  <2>2. ZeroOf(BlankChunk)
    BY DEF ZeroOf, BlankChunk
  <2>3. ZeroOf([chunk[x] EXCEPT !.child = NIL])
    BY <2>1 DEF ZeroOf, ChunkType
  <2> QED
    BY <1>1, <2>1, <2>2, <2>3
<1> QED
  BY <1>2, ZeroByChunk

LEMMA ZeroMerge ==
    ASSUME IInv, FreeSpaceZero, NEW d \in Slot, NEW s \in Slot, Merge(d, s)
    PROVE  FreeSpaceZero'
<1>1. ASSUME NEW x \in Chunk PROVE ZeroOf(chunk'[x])
  <2>1. chunk[x] \in ChunkType /\ ZeroOf(chunk[x])
    BY ZeroNow DEF IInv, TypeOK
  <2>2. PICK p, c, r : chunk'[x] \in
            {[chunk[x] EXCEPT !.parent = p, !.child = c, !.root = r],
             [chunk[x] EXCEPT !.child = c], [chunk[x] EXCEPT !.root = r], chunk[x]}
    BY DEF Merge
  <2>3. ZeroOf([chunk[x] EXCEPT !.parent = p, !.child = c, !.root = r])
    BY <2>1 DEF ZeroOf, ChunkType
  <2>4. ZeroOf([chunk[x] EXCEPT !.child = c])
    BY <2>1 DEF ZeroOf, ChunkType
  <2>5. ZeroOf([chunk[x] EXCEPT !.root = r])
    BY <2>1 DEF ZeroOf, ChunkType
  <2> QED
    BY <2>1, <2>2, <2>3, <2>4, <2>5
<1> QED
  BY <1>1, ZeroByChunk

LEMMA ZeroClear ==
    ASSUME IInv, FreeSpaceZero, NEW s \in Slot, Clear(s) \/ Reset(s)
    PROVE  FreeSpaceZero'
<1>1. PICK p \in Chunk : p = handle[s]
  BY DEF Clear, Reset, On, IInv, TypeOK
<1>2. PICK rewound \in [Chunk -> ChunkType] :
          /\ \A x \in Chunk : rewound[x] \in
                {chunk[x], Rewound(chunk[x]),
                 [chunk[x] EXCEPT !.pos = 0, !.zeroed = TRUE, !.lo = 0, !.hi = chunk[x].size]}
          /\ chunk' = [rewound EXCEPT ![p].current = p]
  <2>1. \A c \in Chunk : chunk[c] \in ChunkType
    BY DEF IInv, TypeOK
  <2>2. CASE Clear(s)
    <3>1. PICK rewound : /\ rewound = [c \in Chunk |->
                                IF c \in Chain(p)
                                THEN [chunk[c] EXCEPT !.pos = 0, !.zeroed = TRUE,
                                                      !.lo = 0, !.hi = chunk[c].size]
                                ELSE chunk[c]]
                         /\ chunk' = [rewound EXCEPT ![p].current = p]
      BY <1>1, <2>2 DEF Clear
    <3>2. rewound \in [Chunk -> ChunkType]
      BY <2>1, <3>1, ClearedType
    <3> QED
      BY <3>1, <3>2
  <2>3. CASE Reset(s)
    <3>1. PICK rewound : /\ rewound = [c \in Chunk |->
                                IF c \in Chain(p) THEN Rewound(chunk[c]) ELSE chunk[c]]
                         /\ chunk' = [rewound EXCEPT ![p].current = p]
      BY <1>1, <2>3 DEF Reset
    <3>2. rewound \in [Chunk -> ChunkType]
      BY <2>1, <3>1, RewoundType
    <3> QED
      BY <3>1, <3>2
  <2> QED
    BY <2>2, <2>3
<1>3. ASSUME NEW x \in Chunk PROVE ZeroOf(rewound[x])
  <2>1. chunk[x] \in ChunkType /\ ZeroOf(chunk[x])
    BY ZeroNow DEF IInv, TypeOK
  <2>2. chunk[x].live => chunk[x].end <= chunk[x].size
    BY DEF IInv, BumpsSound, Live
  <2>3. CASE rewound[x] = [chunk[x] EXCEPT !.pos = 0, !.zeroed = TRUE, !.lo = 0,
                                           !.hi = chunk[x].size]
    BY <2>1, <2>2, <2>3 DEF ZeroOf, ChunkType
  <2> QED
    BY <1>2, <2>1, <2>3, ZeroRewound
<1>4. ASSUME NEW x \in Chunk PROVE ZeroOf(chunk'[x])
  <2>1. chunk'[x] \in {rewound[x], [rewound[x] EXCEPT !.current = p]}
    BY <1>2
  <2>2. ASSUME NEW ch \in ChunkType, ZeroOf(ch) PROVE ZeroOf([ch EXCEPT !.current = p])
    BY <2>2 DEF ZeroOf, ChunkType
  <2> QED
    BY <1>2, <1>3, <2>1, <2>2
<1> QED
  BY <1>4, ZeroByChunk

LEMMA ZeroShrink ==
    ASSUME IInv, FreeSpaceZero, NEW s \in Slot, ShrinkRewinds(s)
    PROVE  FreeSpaceZero'
<1>1. \A x \in Chunk : chunk'[x] \in {BlankChunk, Rewound(chunk[x]), chunk[x]}
  BY DEF ShrinkRewinds
<1>2. ASSUME NEW x \in Chunk PROVE ZeroOf(chunk'[x])
  <2>1. chunk[x] \in ChunkType /\ ZeroOf(chunk[x])
    BY ZeroNow DEF IInv, TypeOK
  <2>2. ZeroOf(BlankChunk)
    BY DEF ZeroOf, BlankChunk
  <2> QED
    BY <1>1, <2>1, <2>2, ZeroRewound
<1> QED
  BY <1>2, ZeroByChunk

LEMMA ZeroTake ==
    ASSUME NEW g \in [Chunk -> ChunkType], \A x \in Chunk : ZeroOf(g[x]),
           NEW c \in Chunk, NEW k \in Kinds, NEW n \in Nat,
           chunk' = [g EXCEPT ![c] = Taken(@, k, n)]
    PROVE  FreeSpaceZero'
<1>1. ASSUME NEW x \in Chunk PROVE ZeroOf(chunk'[x])
  <2>1. chunk'[x] = IF x = c THEN Taken(g[c], k, n) ELSE g[x]
    OBVIOUS
  <2> QED
    BY <2>1, ZeroTaken
<1> QED
  BY <1>1, ZeroByChunk

LEMMA ZeroAlloc ==
    ASSUME IInv, FreeSpaceZero, NEW s \in Slot,
           (\E k \in Kinds : AllocHere(s, k)) \/ RallocMove(s)
    PROVE  FreeSpaceZero'
<1>1. PICK p \in Chunk, r \in Requests, k \in Kinds, c \in Chunk \cup {NIL} :
          /\ Live(p) /\ c \in {p, chunk[p].current}
          /\ chunk' = [chunk EXCEPT ![c] = Taken(@, k, Need(p, r))]
  <2>1. CASE RallocMove(s)
    BY <2>1 DEF RallocMove, Resizes, On, Kinds
  <2>2. CASE \E k \in Kinds : AllocHere(s, k)
    <3>1. PICK k \in Kinds, p \in Chunk, r \in Requests :
              /\ Asks(s, k, p, r, Need(p, r))
              /\ chunk' = [chunk EXCEPT ![chunk[p].current] = Taken(@, k, Need(p, r))]
      BY <2>2 DEF AllocHere
    <3>2. Live(p) /\ chunk[p].current \in Chunk
      BY <3>1, AskedPool DEF IInv
    <3> QED
      BY <3>1, <3>2
  <2> QED
    BY <2>1, <2>2
<1>2. c \in Chunk /\ Need(p, r) \in Nat
  BY <1>1, NeedType DEF IInv, CurrentsExist
<1> QED
  BY <1>1, <1>2, ZeroNow, ZeroTake DEF IInv, TypeOK

LEMMA ZeroAllocGrow ==
    ASSUME IInv, FreeSpaceZero, NEW s \in Slot, NEW k \in Kinds, AllocGrow(s, k)
    PROVE  FreeSpaceZero'
<1>1. PICK p \in Chunk, r \in Requests, c \in Chunk :
          /\ Live(p) /\ Reusable(c)
          /\ chunk' = [Grown(p, Need(p, r), c) EXCEPT ![c] = Taken(@, k, Need(p, r))]
  BY DEF AllocGrow, Asks, On
<1>2. PICK n \in 0 .. SizeMod - 1 : n = Need(p, r)
  BY NeedType DEF IInv
<1>3. /\ chunk[p].current \in Chunk /\ c # p /\ c # chunk[p].current
      /\ GrowthSize(p, n) \in Nat
  BY <1>1, ReusableFresh, GrowthSizeType DEF IInv, CurrentsExist
<1>4. PICK g \in [Chunk -> ChunkType] : g = Grown(p, n, c) /\ GrowthOf(p, n, c, g)
  BY <1>3, GrownType, GrownChunks DEF IInv
<1>5. ASSUME NEW x \in Chunk PROVE ZeroOf(g[x])
  <2>1. CASE x = c
    BY <1>3, <1>4, <2>1 DEF GrowthOf, ZeroOf
  <2>2. CASE x # c
    BY <1>4, <2>2, ZeroNow DEF GrowthOf, ZeroOf
  <2> QED
    BY <2>1, <2>2
<1>6. chunk' = [g EXCEPT ![c] = Taken(@, k, n)] /\ n \in Nat
  BY <1>1, <1>2, <1>4
<1> QED
  BY <1>5, <1>6, ZeroTake

LEMMA ZeroDallocNoStruct ==
    ASSUME IInv, FreeSpaceZero, NEW s \in Slot, DallocNoStruct(s)
    PROVE  FreeSpaceZero'
<1>1. PICK p \in Chunk : chunk' = Childless(p)
  BY DEF DallocNoStruct
<1>2. ASSUME NEW x \in Chunk PROVE ZeroOf(chunk'[x])
  <2>1. chunk[x] \in ChunkType /\ ZeroOf(chunk[x])
    BY ZeroNow DEF IInv, TypeOK
  <2>2. chunk'[x] \in {chunk[x], [chunk[x] EXCEPT !.child = NIL]}
    BY <1>1 DEF Childless, IInv, TypeOK
  <2> QED
    BY <2>1, <2>2 DEF ZeroOf, ChunkType
<1> QED
  BY <1>2, ZeroByChunk

(* What ralloc gives back it zeroes again.                                 *)
LEMMA ZeroRallocInPlace ==
    ASSUME IInv, FreeSpaceZero, SaneSizes, NEW s \in Slot, RallocInPlace(s)
    PROVE  FreeSpaceZero'
<1>1. PICK p \in Chunk, b \in blocks, r \in Requests, n \in Nat : InPlace(s, p, b, r, n)
  BY InPlaceStep
<1>2. PICK lo : /\ lo = LoAfterResize(p, b.len, n, b.off + n)
                /\ chunk' = [chunk EXCEPT ![p].pos = b.off + n, ![p].lo = lo]
  BY <1>1 DEF InPlace
<1>3. /\ chunk[p].pos \in Nat /\ chunk[p].lo \in Int /\ b.off \in Int /\ b.len \in Nat
      /\ chunk[p].zeroed \in BOOLEAN
  BY DEF IInv, TypeOK, ChunkType, BlockType
<1>4. b.off + b.len = chunk[p].pos /\ chunk[p].live /\ ZeroOf(chunk[p])
  BY <1>1, ZeroNow DEF InPlace, Live
<1>5. chunk[p].zeroed => lo <= b.off + n
  BY <1>2, <1>3, <1>4 DEF ZeroOf, LoAfterResize, Smaller, DirtyTo, Larger
<1>6. ASSUME NEW x \in Chunk PROVE ZeroOf(chunk'[x])
  <2>1. chunk[x] \in ChunkType /\ ZeroOf(chunk[x])
    BY ZeroNow DEF IInv, TypeOK
  <2>2. CASE x # p
    BY <1>2, <2>1, <2>2 DEF IInv, TypeOK
  <2>3. CASE x = p
    <3>1. /\ chunk'[x].live = chunk[x].live /\ chunk'[x].zeroed = chunk[x].zeroed
          /\ chunk'[x].pos = b.off + n /\ chunk'[x].lo = lo
          /\ chunk'[x].end = chunk[x].end /\ chunk'[x].hi = chunk[x].hi
      BY <1>2, <2>1, <2>3 DEF IInv, TypeOK, ChunkType
    <3> QED
      BY <1>5, <2>1, <2>3, <3>1 DEF ZeroOf
  <2> QED
    BY <2>2, <2>3
<1> QED
  BY <1>6, ZeroByChunk

LEMMA ZeroNext ==
    ASSUME SaneSizes, NoOverrun, IInv, FreeSpaceZero, [Next]_vars
    PROVE  FreeSpaceZero'
<1>1. ASSUME chunk' = chunk PROVE FreeSpaceZero'
  BY <1>1 DEF FreeSpaceZero, Live
<1>2. ASSUME NEW f, Crashes(f) PROVE FreeSpaceZero'
  BY <1>1, <1>2 DEF Crashes
<1>3. ASSUME NEW f, Fails(f) PROVE FreeSpaceZero'
  BY <1>1, <1>3 DEF Fails
<1>4. ASSUME NEW s \in Slot, NewRejected(s) \/ NewCrash(s) \/ FreeCrash(s)
                 \/ UseFreed(s) \/ ShrinkCrash(s) \/ RallocCrash(s)
                 \/ RallocRefused(s)
      PROVE  FreeSpaceZero'
  <2>1. (\E f : Crashes(f)) \/ (\E f : Fails(f))
    BY <1>4 DEF NewRejected, NewCrash, FreeCrash, UseFreed, ShrinkCrash,
                RallocCrash, RallocRefused
  <2> QED
    BY <1>2, <1>3, <2>1
<1>5. ASSUME NEW s \in Slot, NEW k \in Kinds, AllocFull(s, k) \/ AllocCrash(s, k)
      PROVE  FreeSpaceZero'
  <2>1. (\E f : Crashes(f)) \/ (\E f : Fails(f))
    BY <1>5 DEF AllocFull, AllocCrash
  <2> QED
    BY <1>2, <1>3, <2>1
<1>6. ASSUME NEW s \in Slot, Info(s) \/ ShrinkNothing(s) \/ RallocKeep(s) \/ NewNoStruct(s)
      PROVE  FreeSpaceZero'
  BY <1>1, <1>6 DEF Info, ShrinkNothing, RallocKeep, NewNoStruct
<1>7. CASE Destroy \/ DestroyCrash \/ UNCHANGED vars
  BY <1>1, <1>2, <1>7 DEF Destroy, DestroyCrash, vars
<1>8. ASSUME NEW s \in Slot, NewPool(s) PROVE FreeSpaceZero'
  BY <1>8, ZeroNewPool
<1>9. ASSUME NEW s \in Slot, Free(s) PROVE FreeSpaceZero'
  BY <1>9, ZeroFree
<1>10. ASSUME NEW d \in Slot, NEW s \in Slot, Merge(d, s) PROVE FreeSpaceZero'
  BY <1>10, ZeroMerge
<1>11. ASSUME NEW s \in Slot, Clear(s) \/ Reset(s) PROVE FreeSpaceZero'
  BY <1>11, ZeroClear
<1>12. ASSUME NEW s \in Slot, ShrinkRewinds(s) PROVE FreeSpaceZero'
  BY <1>12, ZeroShrink
<1>13. ASSUME NEW s \in Slot, (\E k \in Kinds : AllocHere(s, k)) \/ RallocMove(s)
       PROVE  FreeSpaceZero'
  BY <1>13, ZeroAlloc
<1>14. ASSUME NEW s \in Slot, NEW k \in Kinds, AllocGrow(s, k) PROVE FreeSpaceZero'
  BY <1>14, ZeroAllocGrow
<1>15. ASSUME NEW s \in Slot, DallocNoStruct(s) PROVE FreeSpaceZero'
  BY <1>15, ZeroDallocNoStruct
<1>16. ASSUME NEW s \in Slot, RallocInPlace(s) PROVE FreeSpaceZero'
  BY <1>16, ZeroRallocInPlace
<1>17. ASSUME NEW s \in Slot, RallocSpill(s) PROVE FreeSpaceZero'
  BY <1>17, NoSpill
<1> QED
  BY <1>4, <1>5, <1>6, <1>7, <1>8, <1>9, <1>10, <1>11, <1>12, <1>13, <1>14,
     <1>15, <1>16, <1>17
  DEF Next, Alloc, Ralloc

(* What a zero filled pool hands out next is zero until reset, after       *)
(* ralloc gave bytes back and after clear too: strings built in a pool     *)
(* count on it for their terminator.                                       *)
THEOREM FreeSpaceStaysZero ==
    ASSUME SaneSizes, NoOverrun
    PROVE  Spec => []FreeSpaceZero
<1>1. Init => FreeSpaceZero
  BY DEF Init, FreeSpaceZero, Live, BlankChunk
<1>2. IInv /\ FreeSpaceZero /\ [Next]_vars => FreeSpaceZero'
  BY ZeroNext
<1>3. Spec => []IInv
  BY PoolsStaySafe
<1> QED
  BY <1>1, <1>2, <1>3, PTL DEF Spec

-----------------------------------------------------------------------------
(* A pool is an arena: MemPool implements Arena.                           *)

Opens == {handle[s] : s \in held}

GrantFor(b) == [arena |-> b.pool, at |-> SpanOf(b)]

Grants == {GrantFor(b) : b \in blocks}

LEMMA GrantSpan ==
    ASSUME NEW a, NEW b
    PROVE  Apart(SpanOf(a), SpanOf(b)) <=> Apart(a, b)
BY DEF Apart, SpanOf

(* Blocks of one place are one block: none is empty.                       *)
LEMMA GrantsDiffer ==
    ASSUME SaneSizes, IInv, NEW a \in blocks, NEW b \in blocks, a # b
    PROVE  GrantFor(a) # GrantFor(b)
<1>1. a \in BlockType /\ b \in BlockType
  BY DEF IInv, TypeOK
<1>2. a.off \in Int /\ a.len \in Nat /\ a.req \in Nat /\ 1 <= a.req /\ a.req <= a.len
  BY <1>1, RequestBounds DEF BlockType, IInv, BlocksSafe, BlockSound
<1>3. Apart(a, b)
  BY DEF IInv, BlocksSafe
<1> QED
  BY <1>2, <1>3 DEF GrantFor, SpanOf, Apart

LEMMA ArenaSame ==
    ASSUME blocks' = blocks, held' = held, \A s \in held : handle'[s] = handle[s]
    PROVE  A!vars' = A!vars
<1>1. Opens' = Opens
  BY DEF Opens
<1>2. Grants' = Grants
  BY DEF Grants, GrantFor, SpanOf
<1> QED
  BY <1>1, <1>2 DEF A!vars, Opens, Grants, GrantFor

LEMMA ArenaOpen ==
    ASSUME IInv, NEW s \in Slot, NewPool(s)
    PROVE  \E a \in Chunk : A!Open(a)
<1>1. PICK c \in Chunk :
          /\ \A t \in held : handle[t] # c
          /\ handle' = [handle EXCEPT ![s] = c]
          /\ s \notin held /\ held' = held \cup {s} /\ blocks' = blocks
  BY DEF NewPool, Reusable
<1>2. handle'[s] = c /\ \A t \in held : handle'[t] = handle[t]
  BY <1>1 DEF IInv, TypeOK
<1>3. c \notin Opens /\ Opens' = Opens \cup {c}
  BY <1>1, <1>2 DEF Opens
<1>4. Grants' = Grants
  BY <1>1 DEF Grants, GrantFor, SpanOf
<1> QED
  BY <1>3, <1>4 DEF A!Open, Opens, Grants, GrantFor

LEMMA ArenaClose ==
    ASSUME IInv, NEW s \in Slot, Free(s)
    PROVE  \E a \in Chunk : A!Close(a)
<1>1. PICK p \in Chunk : p = handle[s] /\ s \in held
  BY DEF Free, On, IInv, TypeOK
<1>2. held' = held \ {s} /\ handle' = handle /\ blocks' = {b \in blocks : b.pool # p}
  BY <1>1 DEF Free
<1>3. p \in Opens /\ Opens' = Opens \ {p}
  BY <1>1, <1>2 DEF Opens, IInv, PoolsSound
<1>4. Grants' = Grants \ {g \in Grants : g.arena = p}
  BY <1>2 DEF Grants, GrantFor, SpanOf
<1> QED
  BY <1>3, <1>4 DEF A!Close, A!Of, Opens, Grants, GrantFor

LEMMA ArenaAbsorb ==
    ASSUME IInv, NEW d \in Slot, NEW s \in Slot, Merge(d, s)
    PROVE  \E a, b \in Chunk : A!Absorb(a, b)
<1>1. PICK dest \in Chunk, src \in Chunk :
          /\ dest = handle[d] /\ src = handle[s] /\ d \in held /\ s \in held /\ d # s
  BY DEF Merge, On, IInv, TypeOK
<1>2. /\ held' = held \ {s} /\ handle' = handle
      /\ blocks' = {IF b.pool = src THEN [b EXCEPT !.pool = dest] ELSE b : b \in blocks}
  BY <1>1 DEF Merge
<1>3. dest # src
  BY <1>1 DEF IInv, PoolsSound
<1>4. /\ dest \in Opens /\ src \in Opens
      /\ Opens' = Opens \ {src}
  BY <1>1, <1>2 DEF Opens, IInv, PoolsSound
<1>5. ASSUME NEW b \in blocks, b.pool = src
      PROVE  GrantFor([b EXCEPT !.pool = dest]) = [arena |-> dest, at |-> GrantFor(b).at]
  <2>1. b \in BlockType
    BY DEF IInv, TypeOK
  <2> QED
    BY <2>1 DEF GrantFor, SpanOf, BlockType
<1>6. Grants' = {GrantFor(b) : b \in blocks'}
  BY DEF Grants, GrantFor, SpanOf
<1>7. \A b \in blocks : GrantFor(b).arena = b.pool
  BY DEF GrantFor
<1>8. Grants' = (Grants \ {g \in Grants : g.arena = src})
                   \cup {[arena |-> dest, at |-> g.at] : g \in {g \in Grants : g.arena = src}}
  <2> DEFINE Moved(b) == IF b.pool = src THEN [b EXCEPT !.pool = dest] ELSE b
             Passed == {[arena |-> dest, at |-> g.at] : g \in {g \in Grants : g.arena = src}}
  <2>1. Grants' = {GrantFor(Moved(b)) : b \in blocks}
    BY <1>2, <1>6
  <2>2. \A b \in blocks : GrantFor(Moved(b)) =
            IF b.pool = src THEN [arena |-> dest, at |-> GrantFor(b).at] ELSE GrantFor(b)
    BY <1>5
  <2> HIDE DEF Moved, GrantFor
  <2>3. ASSUME NEW b \in blocks
        PROVE  GrantFor(Moved(b)) \in (Grants \ {g \in Grants : g.arena = src}) \cup Passed
    BY <1>7, <2>2 DEF Grants
  <2>4. ASSUME NEW g \in Grants, g.arena # src
        PROVE  g \in Grants'
    <3>1. PICK b \in blocks : g = GrantFor(b)
      BY DEF Grants
    <3>2. g = GrantFor(Moved(b))
      BY <1>7, <2>2, <2>4, <3>1
    <3> QED
      BY <2>1, <3>2
  <2>5. ASSUME NEW g \in Grants, g.arena = src
        PROVE  [arena |-> dest, at |-> g.at] \in Grants'
    <3>1. PICK b \in blocks : g = GrantFor(b)
      BY DEF Grants
    <3>2. [arena |-> dest, at |-> g.at] = GrantFor(Moved(b))
      BY <1>7, <2>2, <2>5, <3>1
    <3> QED
      BY <2>1, <3>2
  <2>6. Grants' \subseteq (Grants \ {g \in Grants : g.arena = src}) \cup Passed
    BY <2>1, <2>3
  <2>7. (Grants \ {g \in Grants : g.arena = src}) \cup Passed \subseteq Grants'
    BY <2>4, <2>5
  <2> QED
    BY <2>6, <2>7
<1> QED
  BY <1>3, <1>4, <1>8 DEF A!Absorb, A!Of, A!GrantOf, Opens, Grants, GrantFor

LEMMA ArenaRelease ==
    ASSUME IInv, NEW s \in Slot, Clear(s) \/ Reset(s) \/ ShrinkRewinds(s)
    PROVE  \E a \in Chunk : A!Release(a)
<1>1. PICK p \in Chunk : p = handle[s] /\ s \in held
  BY DEF Clear, Reset, ShrinkRewinds, On, IInv, TypeOK
<1>2. /\ held' = held /\ handle' = handle /\ blocks' \subseteq blocks
      /\ \A b \in blocks : b.pool # p => b \in blocks'
  BY <1>1 DEF Clear, Reset, ShrinkRewinds
<1>3. p \in Opens /\ Opens' = Opens
  BY <1>1, <1>2 DEF Opens
<1>4. Grants \ {g \in Grants : g.arena = p} \subseteq Grants' /\ Grants' \subseteq Grants
  BY <1>2 DEF Grants, GrantFor, SpanOf
<1> QED
  BY <1>3, <1>4 DEF A!Release, A!Of, Opens, Grants, GrantFor

(* A new block is a grant, as the invariant keeps it apart from the rest.  *)
LEMMA ArenaGrant ==
    ASSUME IInv, IInv', NEW s \in Slot, NEW k \in Kinds, AllocHere(s, k) \/ AllocGrow(s, k)
    PROVE  (\E a \in Chunk : A!Grant(a)) \/ A!vars' = A!vars
<1>0. PICK p \in Chunk : \E new :
          /\ p = handle[s] /\ s \in held
          /\ new.pool = p /\ blocks' = blocks \cup {new}
          /\ held' = held /\ handle' = handle
  BY DEF AllocHere, AllocGrow, Asks, On, Block
<1>1. PICK new :
          /\ p = handle[s] /\ s \in held
          /\ new.pool = p /\ blocks' = blocks \cup {new}
          /\ held' = held /\ handle' = handle
  BY <1>0
<1>2. CASE new \in blocks
  BY <1>1, <1>2, ArenaSame
<1>3. CASE new \notin blocks
  <2>1. new \in BlockType /\ 0 <= new.off /\ \A b \in blocks : Apart(new, b)
    BY <1>1, <1>3 DEF IInv, TypeOK, BlocksSafe, BlockSound, Apart
  <2>2. SpanOf(new) \in Span
    BY <2>1 DEF SpanOf, Span, BlockType
  <2>3. \A g \in Grants : Apart(SpanOf(new), g.at)
    BY <2>1, GrantSpan DEF Grants, GrantFor
  <2>4. Grants' = Grants \cup {GrantFor(new)}
    BY <1>1 DEF Grants, GrantFor, SpanOf
  <2>5. p \in Opens /\ Opens' = Opens
    BY <1>1 DEF Opens
  <2>6. GrantFor(new) = [arena |-> p, at |-> SpanOf(new)]
    BY <1>1 DEF GrantFor
  <2>7. A!Grant(p)
    BY <2>2, <2>3, <2>4, <2>5, <2>6 DEF A!Grant, A!GrantOf, A!Free, Opens, Grants, GrantFor
  <2> QED
    BY <2>7
<1> QED
  BY <1>2, <1>3

(* A block that takes the place of another.                                *)
LEMMA ArenaReplace ==
    ASSUME SaneSizes, IInv, IInv', NEW s \in held, NEW b \in blocks, b.pool = handle[s],
           NEW new, new \notin blocks \ {b}, new.pool = handle[s],
           blocks' = (blocks \ {b}) \cup {new},
           held' = held, handle' = handle
    PROVE  \E a \in Chunk : A!Regrant(a)
<1>1. PICK p \in Chunk : p = handle[s]
  BY DEF IInv, TypeOK
<1>2. new \in BlockType /\ 0 <= new.off /\ \A a \in blocks \ {b} : Apart(new, a)
  BY DEF IInv, TypeOK, BlocksSafe, BlockSound, Apart
<1>3. SpanOf(new) \in Span
  BY <1>2 DEF SpanOf, Span, BlockType
<1>4. \A a \in blocks \ {b} : GrantFor(a) # GrantFor(b)
  BY GrantsDiffer
<1>5. Grants' = (Grants \ {GrantFor(b)}) \cup {GrantFor(new)}
  <2>1. Grants' = {GrantFor(a) : a \in blocks'}
    BY DEF Grants, GrantFor, SpanOf
  <2> HIDE DEF GrantFor
  <2> QED
    BY <1>4, <2>1 DEF Grants
<1>6. \A g \in Grants \ {GrantFor(b)} : Apart(SpanOf(new), g.at)
  BY <1>2, GrantSpan DEF Grants, GrantFor
<1>7. p \in Opens /\ Opens' = Opens
  BY <1>1 DEF Opens
<1>8. /\ GrantFor(b) \in {g \in Grants : g.arena = p}
      /\ GrantFor(new) = [arena |-> p, at |-> SpanOf(new)]
  BY <1>1 DEF Grants, GrantFor
<1>9. A!Regrant(p)
  BY <1>3, <1>5, <1>6, <1>7, <1>8
  DEF A!Regrant, A!Of, A!GrantOf, A!Free, Opens, Grants, GrantFor
<1> QED
  BY <1>9

LEMMA ArenaRegrant ==
    ASSUME SaneSizes, IInv, IInv', NEW s \in Slot, RallocInPlace(s) \/ RallocMove(s)
    PROVE  \E a \in Chunk : A!Regrant(a)
<1>0. ASSUME NEW a \in blocks PROVE a.off \in Int /\ a.len \in Nat /\ 1 <= a.len
  <2>1. a.req \in Nat /\ 1 <= a.req /\ a.req <= a.len /\ a.off \in Int /\ a.len \in Nat
    BY RequestBounds DEF BlockType, IInv, TypeOK, BlocksSafe, BlockSound
  <2> QED
    BY <2>1
<1>1. CASE RallocInPlace(s)
  <2>1. PICK p \in Chunk, b \in blocks, r \in Requests, n \in Nat : InPlace(s, p, b, r, n)
    BY <1>1, InPlaceStep
  <2>2. PICK new : new = [b EXCEPT !.len = n, !.req = r]
    OBVIOUS
  <2>3. b \in BlockType
    BY DEF IInv, TypeOK
  <2>4. new.pool = b.pool /\ new.mem = b.mem /\ new.off = b.off /\ new.len = n
    BY <2>2, <2>3 DEF BlockType
  <2>5. /\ s \in held /\ b.pool = handle[s] /\ blocks' = (blocks \ {b}) \cup {new}
        /\ held' = held /\ handle' = handle
    BY <1>1, <2>1, <2>2 DEF InPlace, RallocInPlace
  <2>6. new \notin blocks \ {b}
    <3> SUFFICES ASSUME new \in blocks \ {b} PROVE FALSE
      OBVIOUS
    <3>1. Apart(new, b)
      BY DEF IInv, BlocksSafe
    <3> QED
      BY <1>0, <2>4, <3>1 DEF Apart
  <2> QED
    BY <2>4, <2>5, <2>6, ArenaReplace
<1>2. CASE RallocMove(s)
  <2>0. PICK p \in Chunk, b \in blocks, r \in Requests :
            /\ s \in held /\ p = handle[s] /\ b.pool = p
            /\ blocks' = (blocks \ {b}) \cup {Block(p, p, chunk[p].pos, Need(p, r), r, "d")}
            /\ held' = held /\ handle' = handle
    BY <1>2 DEF RallocMove, Resizes, On, Replace
  <2>a. PICK new : new = Block(p, p, chunk[p].pos, Need(p, r), r, "d")
    OBVIOUS
  <2>1. /\ s \in held /\ p = handle[s] /\ b.pool = p
        /\ new = Block(p, p, chunk[p].pos, Need(p, r), r, "d")
        /\ blocks' = (blocks \ {b}) \cup {new}
        /\ held' = held /\ handle' = handle
    BY <2>0, <2>a
  <2>2. new.pool = p /\ new.mem = p /\ new.off = chunk[p].pos /\ new.kind = "d"
    BY <2>1 DEF Block
  <2>3. new \notin blocks \ {b}
    <3> SUFFICES ASSUME new \in blocks PROVE FALSE
      OBVIOUS
    <3>1. new.off + new.len <= chunk[p].pos
      BY <2>2 DEF IInv, BlocksSafe, BlockSound
    <3>2. chunk[p].pos \in Nat
      BY DEF IInv, TypeOK, ChunkType
    <3> QED
      BY <1>0, <2>2, <3>1, <3>2
  <2> QED
    BY <2>1, <2>2, <2>3, ArenaReplace
<1> QED
  BY <1>1, <1>2

LEMMA ArenaKeep ==
    ASSUME IInv, NEW s \in Slot, RallocKeep(s)
    PROVE  A!vars' = A!vars
<1>1. PICK b \in blocks, r \in Requests :
          /\ blocks' = (blocks \ {b}) \cup {[b EXCEPT !.req = r]}
          /\ held' = held /\ handle' = handle
  BY DEF RallocKeep, Replace
<1>2. GrantFor([b EXCEPT !.req = r]) = GrantFor(b)
  <2>1. b \in BlockType
    BY DEF IInv, TypeOK
  <2> QED
    BY <2>1 DEF GrantFor, SpanOf, BlockType
<1>3. Grants' = {GrantFor(a) : a \in blocks'}
  BY DEF Grants, GrantFor, SpanOf
<1>4. Grants' = Grants
  <2> HIDE DEF GrantFor
  <2> QED
    BY <1>1, <1>2, <1>3 DEF Grants
<1>5. Opens' = Opens
  BY <1>1 DEF Opens
<1> QED
  BY <1>4, <1>5 DEF A!vars, Opens, Grants, GrantFor

LEMMA ArenaNext ==
    ASSUME SaneSizes, NoOverrun, IInv, [Next]_vars
    PROVE  [A!Next]_(A!vars)
<1>1. IInv'
  BY SafeNext
<1>2. ASSUME NEW f, Crashes(f) PROVE A!vars' = A!vars
  BY <1>2, ArenaSame DEF Crashes
<1>3. ASSUME NEW f, Fails(f) PROVE A!vars' = A!vars
  BY <1>3, ArenaSame DEF Fails
<1>4. ASSUME NEW s \in Slot, NewRejected(s) \/ NewCrash(s) \/ FreeCrash(s)
                 \/ UseFreed(s) \/ ShrinkCrash(s) \/ RallocCrash(s)
                 \/ RallocRefused(s)
      PROVE  A!vars' = A!vars
  <2>1. (\E f : Crashes(f)) \/ (\E f : Fails(f))
    BY <1>4 DEF NewRejected, NewCrash, FreeCrash, UseFreed, ShrinkCrash,
                RallocCrash, RallocRefused
  <2> QED
    BY <1>2, <1>3, <2>1
<1>5. ASSUME NEW s \in Slot, NEW k \in Kinds, AllocFull(s, k) \/ AllocCrash(s, k)
      PROVE  A!vars' = A!vars
  <2>1. (\E f : Crashes(f)) \/ (\E f : Fails(f))
    BY <1>5 DEF AllocFull, AllocCrash
  <2> QED
    BY <1>2, <1>3, <2>1
<1>6. ASSUME NEW s \in Slot, Info(s) \/ ShrinkNothing(s) \/ DallocNoStruct(s)
      PROVE  A!vars' = A!vars
  BY <1>6, ArenaSame DEF Info, ShrinkNothing, DallocNoStruct
<1>7. ASSUME NEW s \in Slot, NewNoStruct(s) PROVE A!vars' = A!vars
  <2>1. \A t \in held : handle'[t] = handle[t]
    BY <1>7 DEF NewNoStruct, IInv, TypeOK
  <2> QED
    BY <1>7, <2>1, ArenaSame DEF NewNoStruct
<1>8. CASE Destroy \/ DestroyCrash \/ UNCHANGED vars
  BY <1>2, <1>8, ArenaSame DEF Destroy, DestroyCrash, vars
<1>9. ASSUME NEW s \in Slot, NewPool(s) PROVE A!Next
  BY <1>9, ArenaOpen DEF A!Next
<1>10. ASSUME NEW s \in Slot, Free(s) PROVE A!Next
  BY <1>10, ArenaClose DEF A!Next
<1>11. ASSUME NEW d \in Slot, NEW s \in Slot, Merge(d, s) PROVE A!Next
  BY <1>11, ArenaAbsorb DEF A!Next
<1>12. ASSUME NEW s \in Slot, Clear(s) \/ Reset(s) \/ ShrinkRewinds(s) PROVE A!Next
  BY <1>12, ArenaRelease DEF A!Next
<1>13. ASSUME NEW s \in Slot, NEW k \in Kinds, AllocHere(s, k) \/ AllocGrow(s, k)
       PROVE  A!Next \/ A!vars' = A!vars
  BY <1>1, <1>13, ArenaGrant DEF A!Next
<1>14. ASSUME NEW s \in Slot, RallocInPlace(s) \/ RallocMove(s) PROVE A!Next
  BY <1>1, <1>14, ArenaRegrant DEF A!Next
<1>15. ASSUME NEW s \in Slot, RallocKeep(s) PROVE A!vars' = A!vars
  BY <1>15, ArenaKeep
<1>16. ASSUME NEW s \in Slot, RallocSpill(s) PROVE FALSE
  BY <1>16, NoSpill
<1> HIDE DEF A!Next, A!vars
<1> QED
  BY <1>4, <1>5, <1>6, <1>7, <1>8, <1>9, <1>10, <1>11, <1>12, <1>13, <1>14,
     <1>15, <1>16
  DEF Next, Alloc, Ralloc

(* Every call of the pool API does what Arena allows, or leaves the        *)
(* client's grants alone: what dalloc, nalloc and ralloc grant is apart    *)
(* from every other grant, and only clear, reset, shrink, merge and free   *)
(* of its own pool end it.                                                 *)
THEOREM PoolsImplementArena ==
    ASSUME SaneSizes, NoOverrun
    PROVE  Spec => ImplementsArena
<1>1. Init => A!Init
  BY DEF Init, A!Init
<1>2. IInv /\ [Next]_vars => [A!Next]_(A!vars)
  BY ArenaNext
<1>3. Spec => []IInv
  BY PoolsStaySafe
<1> QED
  BY <1>1, <1>2, <1>3, PTL DEF Spec, A!Spec, ImplementsArena

-----------------------------------------------------------------------------
(* Blocks in chunks that ralloc may have overrun.                          *)

(* ralloc is told the size of the old block by its caller and rounds it as *)
(* the pool does: a block that was granted by a pool which does not round  *)
(* is then taken for a longer one.                                         *)
LengthsKnown == {"ralloc", "merge"} \subseteq Calls => {"BESTFIT"} \notin CfChoices

SizesSound ==
    \A c \in Chunk : Live(c) =>
        /\ chunk[c].end <= chunk[c].size /\ chunk[c].size <= HeapMax
        /\ chunk[c].cf \ {"CHILD"} \in CfChoices

(* A block is on its side of the free space, which may have been overrun.  *)
GrantSound(b) ==
    /\ Live(b.mem) /\ b.req <= b.len
    /\ 0 <= b.off /\ b.off <= chunk[b.mem].size
    /\ b.kind = "d" => b.off + b.len <= chunk[b.mem].pos
    /\ b.kind = "n" => /\ chunk[b.mem].end <= b.off
                       /\ b.off + b.len <= chunk[b.mem].size

(* No two blocks of one side share a byte, overrun or not.                 *)
SidesApart == \A a, b \in blocks : a # b /\ a.kind = b.kind => Apart(a, b)

SideInv ==
    /\ SizesSound /\ BlocksOwned /\ LensCover
    /\ \A b \in blocks : GrantSound(b)
    /\ SidesApart

LEMMA SideTypes ==
    ASSUME TypeOK
    PROVE  /\ \A x \in Chunk : /\ chunk[x] \in ChunkType /\ chunk[x].pos \in Nat
                               /\ chunk[x].end \in Int /\ chunk[x].size \in Nat
           /\ \A b \in blocks : /\ b \in BlockType /\ b.mem \in Chunk /\ b.pool \in Chunk
                                /\ b.off \in Int /\ b.len \in Nat /\ b.req \in Requests
                                /\ b.kind \in {"d", "n"}
BY DEF TypeOK, ChunkType, BlockType, Kinds

LEMMA SideInvSafe == TypeOK /\ SideInv => BlocksSafeUnlessOverrun
<1> SUFFICES ASSUME TypeOK, SideInv PROVE BlocksSafeUnlessOverrun
  OBVIOUS
<1>1. ASSUME NEW b \in blocks, Intact(b) PROVE BlockSound(b)
  <2>1. GrantSound(b) /\ chunk[b.mem].end <= chunk[b.mem].size
    BY SideTypes DEF SideInv, SizesSound, GrantSound
  <2>2. b.off + b.len <= chunk[b.mem].size
    BY <1>1, <2>1, SideTypes DEF GrantSound, Intact
  <2> QED
    BY <2>1, <2>2 DEF GrantSound, BlockSound
<1>2. ASSUME NEW a \in blocks, NEW b \in blocks, a # b, Intact(a), Intact(b)
      PROVE  Apart(a, b)
  <2>1. CASE a.kind = b.kind
    BY <1>2, <2>1 DEF SideInv, SidesApart
  <2>2. CASE a.kind # b.kind
    BY <1>2, <2>2, SideTypes DEF SideInv, GrantSound, Apart, Intact
  <2> QED
    BY <2>1, <2>2
<1> QED
  BY <1>1, <1>2 DEF BlocksSafeUnlessOverrun

(* Blocks that are left alone, in chunks and pools that stay.              *)
LEMMA SidesRemain ==
    ASSUME TypeOK, SideInv, SizesSound', blocks' \subseteq blocks,
           \A b \in blocks' :
              /\ chunk'[b.mem].live /\ chunk'[b.mem].size = chunk[b.mem].size
              /\ chunk'[b.mem].end = chunk[b.mem].end
              /\ chunk'[b.mem].root = chunk[b.mem].root
              /\ b.kind = "d" => chunk'[b.mem].pos = chunk[b.mem].pos
              /\ chunk'[b.pool].live /\ chunk'[b.pool].cf = chunk[b.pool].cf
              /\ chunk'[b.pool].root = chunk[b.pool].root
    PROVE  SideInv'
<1>1. BlocksOwned'
  BY DEF SideInv, BlocksOwned, Live
<1>2. LensCover'
  BY DEF SideInv, LensCover, Need
<1>3. (\A b \in blocks : GrantSound(b))'
  BY DEF SideInv, GrantSound, Live
<1>4. SidesApart'
  BY DEF SideInv, SidesApart, Apart
<1> QED
  BY <1>1, <1>2, <1>3, <1>4 DEF SideInv

(* One block more, the blocks in old given up for it.                      *)
LEMMA SidesAdd ==
    ASSUME TypeOK, SideInv, SizesSound', NEW old, NEW new,
           blocks' = (blocks \ old) \cup {new},
           \A x \in Chunk : Live(x) => /\ chunk'[x].live /\ chunk'[x].root = chunk[x].root
                                       /\ chunk'[x].cf = chunk[x].cf,
           \A a \in blocks \ old : GrantSound(a)',
           \A a \in blocks \ old : a.kind = new.kind => Apart(a, new) /\ Apart(new, a),
           GrantSound(new)',
           chunk'[new.mem].root = new.pool,
           chunk'[new.pool].live, chunk'[new.pool].root = new.pool,
           Need(new.pool, new.req)' <= new.len
    PROVE  SideInv'
<1>1. \A b \in blocks : b.mem \in Chunk /\ b.pool \in Chunk /\ Live(b.mem) /\ Live(b.pool)
  BY SideTypes DEF SideInv, BlocksOwned, GrantSound
<1>2. BlocksOwned'
  BY <1>1 DEF SideInv, BlocksOwned, Live
<1>3. LensCover'
  <2>1. \A b \in blocks : Need(b.pool, b.req)' = Need(b.pool, b.req)
    BY <1>1 DEF Need
  <2> QED
    BY <2>1 DEF SideInv, LensCover
<1>4. (\A b \in blocks : GrantSound(b))'
  OBVIOUS
<1>5. SidesApart'
  BY DEF SideInv, SidesApart, Apart
<1> QED
  BY <1>2, <1>3, <1>4, <1>5 DEF SideInv

(* n bytes are taken of side k of the chunk c: at the top only where there *)
(* is room, at the bottom also beyond the top.                             *)
LEMMA SidesTake ==
    ASSUME TypeOK, ChainInv, SideInv, SizesSound', NEW c \in Chunk, Live(c), NEW old, NEW b,
           b \in BlockType, b.mem = c, b.req <= b.len, 1 <= b.len,
           blocks' = (blocks \ old) \cup {b},
           \A x \in Chunk : Live(x) =>
              /\ chunk'[x].live /\ chunk'[x].root = chunk[x].root
              /\ chunk'[x].cf = chunk[x].cf /\ chunk'[x].size = chunk[x].size
              /\ x # c => chunk'[x].pos = chunk[x].pos /\ chunk'[x].end = chunk[x].end,
           \/ /\ b.kind = "d" /\ b.off = chunk[c].pos /\ chunk[c].pos <= chunk[c].size
              /\ chunk'[c].pos = chunk[c].pos + b.len /\ chunk'[c].end = chunk[c].end
           \/ /\ b.kind = "n" /\ b.off = chunk[c].end - b.len /\ 0 <= b.off
              /\ chunk'[c].pos = chunk[c].pos /\ chunk'[c].end = chunk[c].end - b.len,
           chunk[c].root = b.pool, b.pool \in Chunk, Live(b.pool),
           chunk[b.pool].root = b.pool, Need(b.pool, b.req) = b.len
    PROVE  SideInv'
<1>1. /\ b.off \in Int /\ b.len \in Nat /\ chunk[c].pos \in Nat /\ chunk[c].end \in Int
      /\ chunk[c].size \in Nat
  BY SideTypes DEF BlockType
<1>2. 0 <= chunk[c].end /\ chunk[c].end <= chunk[c].size
  BY DEF ChainInv, EndsSound
<1>3. ASSUME NEW a \in blocks
      PROVE  GrantSound(a)' /\ (a.kind = b.kind => Apart(a, b) /\ Apart(b, a))
  <2>1. GrantSound(a) /\ a.mem \in Chunk /\ Live(a.mem) /\ a.off \in Int /\ a.len \in Nat
    BY SideTypes DEF SideInv, GrantSound
  <2>2. CASE a.mem # c
    BY <2>1, <2>2 DEF GrantSound, Live, Apart
  <2>3. CASE a.mem = c
    <3>1. /\ a.kind = "d" => a.off + a.len <= chunk[c].pos
          /\ a.kind = "n" => chunk[c].end <= a.off /\ a.off + a.len <= chunk[c].size
          /\ 0 <= a.off /\ a.off <= chunk[c].size /\ a.req <= a.len
      BY <2>1, <2>3 DEF GrantSound
    <3>2. /\ a.kind = "d" => a.off + a.len <= chunk'[c].pos
          /\ a.kind = "n" => chunk'[c].end <= a.off
      BY <1>1, <2>1, <3>1
    <3>3. GrantSound(a)'
      BY <2>3, <3>1, <3>2 DEF GrantSound, Live
    <3>4. a.kind = b.kind => Apart(a, b) /\ Apart(b, a)
      BY <1>1, <2>1, <3>1 DEF Apart
    <3> QED
      BY <3>3, <3>4
  <2> QED
    BY <2>2, <2>3
<1>4. GrantSound(b)'
  <2>1. chunk'[c].live /\ chunk'[c].size = chunk[c].size
    OBVIOUS
  <2>2. CASE b.kind = "d" /\ b.off = chunk[c].pos
    BY <1>1, <2>1, <2>2 DEF GrantSound, Live
  <2>3. CASE b.kind = "n" /\ b.off = chunk[c].end - b.len
    BY <1>1, <1>2, <2>1, <2>3 DEF GrantSound, Live
  <2> QED
    BY <2>2, <2>3
<1>5. chunk'[b.mem].root = b.pool /\ chunk'[b.pool].live /\ chunk'[b.pool].root = b.pool
  OBVIOUS
<1>6. Need(b.pool, b.req)' <= b.len
  BY <1>1 DEF Need
<1> QED
  BY <1>3, <1>4, <1>5, <1>6, SidesAdd

(* No block and no bump pointer is changed.                                *)
LEMMA SidesSame ==
    ASSUME TypeOK, SideInv, blocks' = blocks,
           \A x \in Chunk : /\ chunk'[x].live = chunk[x].live /\ chunk'[x].size = chunk[x].size
                            /\ chunk'[x].pos = chunk[x].pos /\ chunk'[x].end = chunk[x].end
                            /\ chunk'[x].cf = chunk[x].cf /\ chunk'[x].root = chunk[x].root
    PROVE  SideInv'
<1>1. SizesSound'
  BY DEF SideInv, SizesSound, Live
<1>2. \A b \in blocks : b.mem \in Chunk /\ b.pool \in Chunk /\ Live(b.mem) /\ Live(b.pool)
  BY SideTypes DEF SideInv, BlocksOwned, GrantSound
<1> QED
  BY <1>1, <1>2, SidesRemain DEF Live

(* Blocks of the pool p are given up, its chunks freed or set back.        *)
LEMMA SidesRelease ==
    ASSUME TypeOK, SideInv, NEW p, blocks' \subseteq blocks,
           \A x \in Chunk : chunk'[x].live =>
              /\ Live(x) /\ chunk'[x].size = chunk[x].size /\ chunk'[x].end = chunk[x].end
              /\ chunk'[x].cf = chunk[x].cf /\ chunk'[x].root = chunk[x].root,
           \A x \in Chunk : Live(x) /\ chunk[x].root # p =>
              chunk'[x].live /\ chunk'[x].pos = chunk[x].pos,
           \A b \in blocks' : b.pool = p =>
              b.kind = "n" /\ \A x \in Chunk : Live(x) => chunk'[x].live
    PROVE  SideInv'
<1>1. SizesSound'
  BY DEF SideInv, SizesSound, Live
<1>2. \A b \in blocks : /\ b.mem \in Chunk /\ b.pool \in Chunk /\ Live(b.mem) /\ Live(b.pool)
                        /\ chunk[b.mem].root = b.pool /\ chunk[b.pool].root = b.pool
  BY SideTypes DEF SideInv, BlocksOwned, GrantSound
<1>3. ASSUME NEW b \in blocks'
      PROVE  /\ chunk'[b.mem].live /\ chunk'[b.mem].size = chunk[b.mem].size
             /\ chunk'[b.mem].end = chunk[b.mem].end
             /\ chunk'[b.mem].root = chunk[b.mem].root
             /\ b.kind = "d" => chunk'[b.mem].pos = chunk[b.mem].pos
             /\ chunk'[b.pool].live /\ chunk'[b.pool].cf = chunk[b.pool].cf
             /\ chunk'[b.pool].root = chunk[b.pool].root
  <2>1. b \in blocks
    OBVIOUS
  <2>2. CASE b.pool # p
    BY <1>2, <2>1, <2>2
  <2>3. CASE b.pool = p
    BY <1>2, <2>1, <2>3
  <2> QED
    BY <2>2, <2>3
<1> QED
  BY <1>1, <1>3, SidesRemain

LEMMA SidesNewPool ==
    ASSUME ChainInv, SideInv, NEW s \in Slot, NewPool(s)
    PROVE  SideInv'
<1>1. PICK n \in PoolSizes \ {0}, cf \in CfChoices, c \in Chunk :
          /\ Reusable(c)
          /\ "ok" \in NewOutcomes(PoolBytes(n), cf)
          /\ chunk' = [chunk EXCEPT ![c] = NewChunk(c, PoolBytes(n), cf, NIL, c)]
          /\ blocks' = blocks
  BY DEF NewPool
<1>2. PICK size \in Nat : size = PoolBytes(n) /\ size <= HeapMax
  <2>1. PoolBytes(n) \in Nat
    BY PoolBytesType, SizeAssumption
  <2> QED
    BY <1>1, <2>1, Consts DEF NewOutcomes
<1>3. cf \ {"CHILD"} \in CfChoices
  BY ChoiceAssumption
<1>4. chunk'[c].size = size /\ chunk'[c].end = size /\ chunk'[c].cf = cf
  BY <1>1, <1>2 DEF NewChunk, ChainInv, TypeOK
<1>5. \A x \in Chunk \ {c} : chunk'[x] = chunk[x]
  BY <1>1 DEF ChainInv, TypeOK
<1>6. SizesSound'
  <2> SUFFICES ASSUME NEW x \in Chunk, chunk'[x].live
               PROVE  /\ chunk'[x].end <= chunk'[x].size /\ chunk'[x].size <= HeapMax
                      /\ chunk'[x].cf \ {"CHILD"} \in CfChoices
    BY DEF SizesSound, Live
  <2>1. CASE x = c
    BY <1>2, <1>3, <1>4, <2>1
  <2>2. CASE x # c
    BY <1>5, <2>2 DEF SideInv, SizesSound, Live
  <2> QED
    BY <2>1, <2>2
<1>7. \A b \in blocks : /\ b.mem \in Chunk \ {c} /\ b.pool \in Chunk \ {c}
                        /\ Live(b.mem) /\ Live(b.pool)
  BY <1>1, SideTypes DEF SideInv, BlocksOwned, GrantSound, Reusable, ChainInv
<1> QED
  BY <1>1, <1>5, <1>6, <1>7, SidesRemain DEF Live, ChainInv

LEMMA SidesFree ==
    ASSUME ChainInv, SideInv, NEW s \in Slot, Free(s)
    PROVE  SideInv'
<1>1. PICK p \in Chunk :
          /\ p = handle[s] /\ s \in held /\ Live(p) /\ RootFree(p)
          /\ \A x \in Chain(p) : chunk'[x].live = FALSE
          /\ \A x \in Chunk \ Chain(p) : chunk'[x] = chunk[x]
  BY FreeLinks
<1>2. blocks' = {b \in blocks : b.pool # p}
  BY <1>1 DEF Free
<1>3. \A x \in Chain(p) : chunk[x].root = p
  BY <1>1, ChainLives DEF ChainInv, RootFree
<1>4. \A x \in Chunk : chunk'[x].live => chunk'[x] = chunk[x] /\ Live(x)
  BY <1>1 DEF Live
<1>5. \A x \in Chunk : Live(x) /\ chunk[x].root # p => chunk'[x] = chunk[x]
  BY <1>1, <1>3
<1>6. \A x \in Chunk : Live(x) /\ chunk[x].root # p =>
         chunk'[x].live /\ chunk'[x].pos = chunk[x].pos
  BY <1>5 DEF Live
<1> QED
  BY <1>2, <1>4, <1>6, SidesRelease DEF ChainInv

LEMMA SidesClear ==
    ASSUME ChainInv, SideInv, NEW s \in Slot, Clear(s) \/ Reset(s)
    PROVE  SideInv'
<1>1. PICK p \in Chunk : p = handle[s] /\ s \in held /\ Live(p)
  BY DEF Clear, Reset, On, ChainInv, TypeOK
<1>2. PICK rewound :
          /\ rewound = [c \in Chunk |->
                 IF c \in Chain(p)
                 THEN [chunk[c] EXCEPT !.pos = 0, !.zeroed = TRUE,
                                       !.lo = 0, !.hi = chunk[c].size]
                 ELSE chunk[c]]
             \/ rewound = [c \in Chunk |->
                 IF c \in Chain(p) THEN Rewound(chunk[c]) ELSE chunk[c]]
          /\ chunk' = [rewound EXCEPT ![p].current = p]
  BY <1>1 DEF Clear, Reset
<1>3. ASSUME NEW c \in Chunk
      PROVE  /\ rewound[c].live = chunk[c].live /\ rewound[c].root = chunk[c].root
             /\ rewound[c].end = chunk[c].end /\ rewound[c].size = chunk[c].size
             /\ rewound[c].cf = chunk[c].cf
             /\ c \notin Chain(p) => rewound[c].pos = chunk[c].pos
  <2>1. chunk[c] \in ChunkType
    BY DEF ChainInv, TypeOK
  <2>2. CASE rewound[c] = chunk[c]
    BY <2>2
  <2>3. CASE c \in Chain(p) /\ rewound[c] = Rewound(chunk[c])
    BY <2>1, <2>3 DEF Rewound, ChunkType
  <2>4. CASE c \in Chain(p) /\ rewound[c] = [chunk[c] EXCEPT !.pos = 0, !.zeroed = TRUE,
                                           !.lo = 0, !.hi = chunk[c].size]
    BY <2>1, <2>4 DEF ChunkType
  <2> QED
    BY <1>2, <2>2, <2>3, <2>4
<1>4. rewound \in [Chunk -> ChunkType]
  <2>1. \A c \in Chunk : chunk[c] \in ChunkType
    BY DEF ChainInv, TypeOK
  <2> QED
    BY <1>2, <2>1, ClearedType, RewoundType
<1>5. ASSUME NEW c \in Chunk
      PROVE  /\ chunk'[c].live = rewound[c].live /\ chunk'[c].root = rewound[c].root
             /\ chunk'[c].end = rewound[c].end /\ chunk'[c].size = rewound[c].size
             /\ chunk'[c].cf = rewound[c].cf /\ chunk'[c].pos = rewound[c].pos
  BY <1>2, <1>4 DEF ChunkType
<1>6. \A x \in Chain(p) : chunk[x].root = p
  BY <1>1, ChainLives DEF ChainInv, RootsFree, RootFree
<1>7. blocks' \subseteq blocks /\ \A b \in blocks' : b.pool = p => b.kind = "n"
  BY <1>1 DEF Clear, Reset
<1>8. \A x \in Chunk : /\ chunk'[x].live = Live(x)
                       /\ chunk'[x].size = chunk[x].size /\ chunk'[x].end = chunk[x].end
                       /\ chunk'[x].cf = chunk[x].cf /\ chunk'[x].root = chunk[x].root
  BY <1>3, <1>5 DEF Live
<1>9. \A x \in Chunk : chunk[x].root # p => chunk'[x].pos = chunk[x].pos
  BY <1>3, <1>5, <1>6
<1> QED
  BY <1>7, <1>8, <1>9, SidesRelease DEF ChainInv

LEMMA SidesShrink ==
    ASSUME ChainInv, SideInv, NEW s \in Slot, ShrinkRewinds(s)
    PROVE  SideInv'
<1>1. PICK p \in Chunk : p = handle[s] /\ s \in held /\ Live(p)
  BY DEF ShrinkRewinds, On, ChainInv, TypeOK
<1>2. chunk[p].root = p /\ \A x \in Chain(p) : chunk[x].root = p
  BY <1>1, ChainLives DEF ChainInv, RootsFree, RootFree
<1>3. PICK gone \in {{}, {p}} :
          chunk' = [c \in Chunk |->
             IF c \in gone THEN BlankChunk
             ELSE IF c \in Chain(p) THEN Rewound(chunk[c]) ELSE chunk[c]]
  BY <1>1 DEF ShrinkRewinds
<1>4. blocks' = {b \in blocks : b.pool # p}
  BY <1>1 DEF ShrinkRewinds
<1>5. \A x \in gone : x = p /\ chunk'[x].live = FALSE
  BY <1>3 DEF BlankChunk
<1>6. ASSUME NEW x \in Chunk \ gone
      PROVE  /\ chunk'[x].live = chunk[x].live /\ chunk'[x].root = chunk[x].root
             /\ chunk'[x].end = chunk[x].end /\ chunk'[x].size = chunk[x].size
             /\ chunk'[x].cf = chunk[x].cf
             /\ x \notin Chain(p) => chunk'[x].pos = chunk[x].pos
  <2>1. chunk[x] \in ChunkType
    BY DEF ChainInv, TypeOK
  <2> QED
    BY <1>3, <2>1 DEF Rewound, ChunkType
<1>7. \A x \in Chunk : chunk'[x].live =>
         /\ Live(x) /\ chunk'[x].size = chunk[x].size /\ chunk'[x].end = chunk[x].end
         /\ chunk'[x].cf = chunk[x].cf /\ chunk'[x].root = chunk[x].root
  BY <1>5, <1>6 DEF Live
<1>8. \A x \in Chunk : Live(x) /\ chunk[x].root # p =>
         chunk'[x].live /\ chunk'[x].pos = chunk[x].pos
  BY <1>2, <1>5, <1>6 DEF Live
<1> QED
  BY <1>4, <1>7, <1>8, SidesRelease DEF ChainInv

(* Without pools that do not round, every pool needs as much for a request.*)
LEMMA NeedsAgree ==
    ASSUME SizesSound, {"BESTFIT"} \notin CfChoices, NEW p \in Chunk, Live(p), NEW n
    PROVE  Need(p, n) = MemAlign(n)
<1>1. chunk[p].cf # {"BESTFIT"}
  <2> SUFFICES ASSUME chunk[p].cf = {"BESTFIT"} PROVE FALSE
    OBVIOUS
  <2>1. chunk[p].cf \ {"CHILD"} = {"BESTFIT"}
    OBVIOUS
  <2> QED
    BY <2>1 DEF SizesSound
<1> QED
  BY <1>1 DEF Need

LEMMA SidesMerge ==
    ASSUME ChainInv, SideInv, LengthsKnown, NEW d \in Slot, NEW s \in Slot, Merge(d, s)
    PROVE  SideInv'
<1>1. PICK dest \in Chunk, src \in Chunk :
          /\ dest = handle[d] /\ src = handle[s] /\ d \in held /\ s \in held
          /\ Live(dest) /\ Live(src) /\ d # s /\ "merge" \in Calls
  BY DEF Merge, On, Call, ChainInv, TypeOK
<1>2. chunk[src].root = src /\ chunk[dest].root = dest /\ src # dest
  BY <1>1 DEF ChainInv, RootsFree, RootFree, OneHandle
<1> DEFINE moved(b) == IF b.pool = src THEN [b EXCEPT !.pool = dest] ELSE b
<1>3. /\ chunk' = [c \in Chunk |->
             IF c = src THEN [chunk[c] EXCEPT !.parent = dest,
                                 !.child = chunk[dest].child, !.root = dest]
             ELSE IF c = dest THEN [chunk[c] EXCEPT !.child = src]
             ELSE IF chunk[c].root = src THEN [chunk[c] EXCEPT !.root = dest]
             ELSE chunk[c]]
      /\ blocks' = {moved(b) : b \in blocks}
  BY <1>1 DEF Merge
<1>4. ASSUME NEW x \in Chunk
      PROVE  /\ chunk'[x].live = chunk[x].live
             /\ chunk'[x].root = IF chunk[x].root = src THEN dest ELSE chunk[x].root
             /\ chunk'[x].end = chunk[x].end /\ chunk'[x].size = chunk[x].size
             /\ chunk'[x].pos = chunk[x].pos /\ chunk'[x].cf = chunk[x].cf
  <2>1. chunk[x] \in ChunkType
    BY DEF ChainInv, TypeOK
  <2> QED
    BY <1>2, <1>3, <2>1 DEF ChunkType
<1>5. ASSUME NEW b \in blocks
      PROVE  /\ moved(b).mem = b.mem /\ moved(b).off = b.off /\ moved(b).len = b.len
             /\ moved(b).req = b.req /\ moved(b).kind = b.kind
             /\ moved(b).pool = IF b.pool = src THEN dest ELSE b.pool
  BY SideTypes DEF ChainInv, BlockType
<1> HIDE DEF moved
<1>6. \A b \in blocks : /\ b.mem \in Chunk /\ b.pool \in Chunk /\ Live(b.mem) /\ Live(b.pool)
                        /\ chunk[b.mem].root = b.pool /\ chunk[b.pool].root = b.pool
                        /\ GrantSound(b)
  BY SideTypes DEF SideInv, BlocksOwned, GrantSound, ChainInv
<1>7. SizesSound'
  BY <1>4 DEF SideInv, SizesSound, Live
<1>8. BlocksOwned'
  <2> SUFFICES ASSUME NEW b \in blocks
               PROVE  /\ chunk'[moved(b).mem].root = moved(b).pool
                      /\ chunk'[moved(b).pool].live
                      /\ chunk'[moved(b).pool].root = moved(b).pool
    BY <1>3 DEF BlocksOwned, Live
  <2>1. CASE b.pool = src
    BY <1>1, <1>2, <1>4, <1>5, <1>6, <2>1 DEF Live
  <2>2. CASE b.pool # src
    BY <1>4, <1>5, <1>6, <2>2 DEF Live
  <2> QED
    BY <2>1, <2>2
<1>9. LensCover'
  <2> SUFFICES ASSUME "ralloc" \in Calls, NEW x \in blocks', x.kind = "d"
               PROVE  Need(x.pool, x.req)' <= x.len
    BY DEF LensCover
  <2>a. PICK b \in blocks : x = moved(b)
    BY <1>3
  <2>0. x = moved(b) /\ b.kind = "d"
    BY <1>5, <2>a
  <2>1. {"BESTFIT"} \notin CfChoices
    BY <1>1 DEF LengthsKnown
  <2>2. Need(b.pool, b.req) = MemAlign(b.req)
    BY <1>6, <2>1, NeedsAgree DEF SideInv
  <2>3. moved(b).pool \in Chunk /\ Live(moved(b).pool)
    BY <1>1, <1>5, <1>6
  <2>4. Need(x.pool, x.req) = MemAlign(b.req)
    BY <1>5, <2>0, <2>1, <2>3, NeedsAgree DEF SideInv
  <2>5. Need(x.pool, x.req)' = Need(x.pool, x.req)
    BY <1>4, <2>0, <2>3 DEF Need
  <2>6. Need(b.pool, b.req) <= b.len
    BY <2>0 DEF SideInv, LensCover
  <2> QED
    BY <1>5, <2>0, <2>2, <2>4, <2>5, <2>6
<1>10. (\A b \in blocks : GrantSound(b))'
  <2> SUFFICES ASSUME NEW x \in blocks' PROVE GrantSound(x)'
    OBVIOUS
  <2>1. PICK b \in blocks : x = moved(b)
    BY <1>3
  <2> QED
    BY <1>4, <1>5, <1>6, <2>1 DEF GrantSound, Live
<1>11. SidesApart'
  <2> SUFFICES ASSUME NEW x \in blocks', NEW y \in blocks', x # y, x.kind = y.kind
               PROVE  Apart(x, y)
    BY DEF SidesApart, Apart
  <2>1. PICK a \in blocks, b \in blocks : x = moved(a) /\ y = moved(b)
    BY <1>3
  <2>2. a # b /\ a.kind = b.kind
    BY <1>5, <2>1
  <2>3. Apart(a, b)
    BY <2>2 DEF SideInv, SidesApart
  <2> QED
    BY <1>5, <2>1, <2>3 DEF Apart
<1> QED
  BY <1>7, <1>8, <1>9, <1>10, <1>11 DEF SideInv

(* The pool a call is made on.                                             *)
LEMMA SideOpen ==
    ASSUME ChainInv, NEW s \in Slot, NEW p, p = handle[s], s \in held, Live(p)
    PROVE  /\ p \in Chunk /\ chunk[p].root = p
           /\ chunk[p].current \in Chunk /\ Live(chunk[p].current)
           /\ chunk[chunk[p].current].root = p
<1>1. p \in Chunk /\ Owned(p)
  BY DEF ChainInv, TypeOK, Owned
<1> QED
  BY <1>1, CurrentOwned

LEMMA SidesAllocHere ==
    ASSUME ChainInv, TypeOK', SideInv, SaneSizes, NEW s \in Slot, NEW k \in Kinds,
           AllocHere(s, k)
    PROVE  SideInv'
<1>1. PICK p \in Chunk, r \in Requests :
          LET n == Need(p, r)
              cur == chunk[p].current
              off == IF k = "d" THEN chunk[cur].pos ELSE chunk[cur].end - n
          IN  /\ Asks(s, k, p, r, n)
              /\ ~Lacks(cur, n)
              /\ chunk' = [chunk EXCEPT ![cur] = Taken(@, k, n)]
              /\ blocks' = blocks \cup {Block(p, cur, off, n, r, k)}
  BY DEF AllocHere
<1>2. PICK n \in Nat : /\ n = Need(p, r) /\ n < SizeMod /\ r <= n /\ 1 <= r
                       /\ n \in 0 .. SizeMod - 1
  BY NeedGrows, NeedType, RequestBounds, Consts DEF ChainInv
<1>3. PICK c \in Chunk : c = chunk[p].current
  BY <1>1, AskedPool DEF ChainInv
<1>4. /\ chunk[c] \in ChunkType /\ chunk[c].pos \in Nat /\ chunk[c].end \in Int
      /\ chunk[c].size \in Nat
  BY SideTypes DEF ChainInv
<1>5. PICK off \in Int : off = IF k = "d" THEN chunk[c].pos ELSE chunk[c].end - n
  BY <1>2, <1>4
<1> DEFINE b == Block(p, c, off, n, r, k)
<1>6. /\ ~Lacks(c, n) /\ chunk' = [chunk EXCEPT ![c] = Taken(@, k, n)]
      /\ blocks' = blocks \cup {b} /\ s \in held /\ p = handle[s] /\ Live(p)
  BY <1>1, <1>2, <1>3, <1>5 DEF Asks, On
<1>7. Live(c) /\ chunk[c].root = p /\ chunk[p].root = p
  BY <1>3, <1>6, SideOpen
<1>8. /\ b \in BlockType /\ b.mem = c /\ b.len = n /\ b.pool = p /\ b.off = off /\ b.kind = k
      /\ b.req = r
  BY <1>2, <1>5, BlockInType DEF Block
<1> HIDE DEF b
<1>9. chunk[c].pos + n <= chunk[c].end
  BY <1>2, <1>6, NotLacks DEF ChainInv
<1>10. k = "d" \/ k = "n"
  BY DEF Kinds
<1>11. /\ chunk'[c].live = chunk[c].live /\ chunk'[c].root = chunk[c].root
       /\ chunk'[c].size = chunk[c].size /\ chunk'[c].cf = chunk[c].cf
       /\ chunk'[c].pos = IF k = "d" THEN chunk[c].pos + n ELSE chunk[c].pos
       /\ chunk'[c].end = IF k = "n" THEN chunk[c].end - n ELSE chunk[c].end
  <2>1. chunk'[c] = Taken(chunk[c], k, n)
    BY <1>6 DEF ChainInv, TypeOK
  <2> QED
    BY <1>4, <1>10, <2>1 DEF Taken, ChunkType
<1>12. \A x \in Chunk \ {c} : chunk'[x] = chunk[x]
  BY <1>6 DEF ChainInv, TypeOK
<1>13. SizesSound'
  <2>1. chunk'[c].end <= chunk[c].end
    BY <1>2, <1>4, <1>10, <1>11
  <2>2. chunk'[c].end \in Int
    BY <1>2, <1>4, <1>10, <1>11
  <2>3. chunk[c].end <= chunk[c].size
    BY <1>7 DEF SideInv, SizesSound
  <2>4. chunk'[c].end <= chunk'[c].size
    BY <1>4, <1>11, <2>1, <2>2, <2>3
  <2> QED
    BY <1>7, <1>11, <1>12, <2>4 DEF SideInv, SizesSound, Live
<1>14. chunk[c].pos <= chunk[c].size /\ 0 <= chunk[c].end - n
  <2>1. chunk[c].end <= chunk[c].size
    BY <1>7 DEF SideInv, SizesSound
  <2> QED
    BY <1>2, <1>4, <1>9, <2>1
<1>15. \/ /\ b.kind = "d" /\ b.off = chunk[c].pos /\ chunk[c].pos <= chunk[c].size
          /\ chunk'[c].pos = chunk[c].pos + b.len /\ chunk'[c].end = chunk[c].end
       \/ /\ b.kind = "n" /\ b.off = chunk[c].end - b.len /\ 0 <= b.off
          /\ chunk'[c].pos = chunk[c].pos /\ chunk'[c].end = chunk[c].end - b.len
  BY <1>5, <1>8, <1>10, <1>11, <1>14
<1>16. \A x \in Chunk : Live(x) =>
          /\ chunk'[x].live /\ chunk'[x].root = chunk[x].root
          /\ chunk'[x].cf = chunk[x].cf /\ chunk'[x].size = chunk[x].size
          /\ x # c => chunk'[x].pos = chunk[x].pos /\ chunk'[x].end = chunk[x].end
  BY <1>11, <1>12 DEF Live
<1>17. b.req <= b.len /\ 1 <= b.len /\ Need(b.pool, b.req) = b.len
  <2>1. r \in Nat
    BY RequestBounds
  <2> QED
    BY <1>2, <1>8, <2>1
<1>18. blocks' = (blocks \ {}) \cup {b}
  BY <1>6
<1>19. /\ TypeOK /\ Live(c) /\ chunk[c].root = b.pool /\ b.pool \in Chunk
       /\ Live(b.pool) /\ chunk[b.pool].root = b.pool
  BY <1>6, <1>7, <1>8 DEF ChainInv
<1> QED
  BY <1>8, <1>13, <1>15, <1>16, <1>17, <1>18, <1>19, SidesTake

(* What growth by a chunk c for n bytes does to sizes and pointers.        *)
LEMMA GrownSizes ==
    ASSUME ChainInv, SideInv, NEW p \in Chunk, Live(p), NEW c \in Chunk, Reusable(c),
           NEW n \in 0 .. SizeMod - 1, "ok" \in Growths(p, n), NEW g, g = Grown(p, n, c)
    PROVE  /\ g \in [Chunk -> ChunkType] /\ c # p /\ ~Live(c)
           /\ GrowthSize(p, n) \in Nat /\ n <= GrowthSize(p, n) /\ GrowthSize(p, n) <= HeapMax
           /\ g[c].live /\ g[c].root = p /\ g[c].size = GrowthSize(p, n)
           /\ g[c].pos = 0 /\ g[c].end = GrowthSize(p, n)
           /\ g[c].cf \ {"CHILD"} \in CfChoices
           /\ \A x \in Chunk \ {c} :
                 /\ g[x].live = chunk[x].live /\ g[x].size = chunk[x].size
                 /\ g[x].pos = chunk[x].pos /\ g[x].end = chunk[x].end
                 /\ g[x].cf = chunk[x].cf /\ g[x].root = chunk[x].root
<1>1. chunk[p].current \in Chunk /\ c # p /\ c # chunk[p].current /\ ~Live(c)
  BY ReusableFresh DEF ChainInv, CurrentsExist
<1>2. GrowthOf(p, n, c, g) /\ g \in [Chunk -> ChunkType]
  BY <1>1, GrownChunks, GrownType DEF ChainInv
<1>3. GrowthSize(p, n) \in Nat /\ n <= GrowthSize(p, n)
  BY GrowthHoldsRequest DEF ChainInv
<1>4. GrowthSize(p, n) <= HeapMax
  BY <1>3, Consts DEF Growths, NewOutcomes
<1>5. (chunk[p].cf \cup {"CHILD"}) \ {"CHILD"} \in CfChoices
  <2>1. (chunk[p].cf \cup {"CHILD"}) \ {"CHILD"} = chunk[p].cf \ {"CHILD"}
    OBVIOUS
  <2> QED
    BY <2>1 DEF SideInv, SizesSound
<1>6. /\ g[c].live /\ g[c].root = p /\ g[c].size = GrowthSize(p, n)
      /\ g[c].pos = 0 /\ g[c].end = GrowthSize(p, n)
      /\ g[c].cf = chunk[p].cf \cup {"CHILD"}
  BY <1>2 DEF GrowthOf
<1>7. \A x \in Chunk \ {c} :
         /\ g[x].live = chunk[x].live /\ g[x].size = chunk[x].size
         /\ g[x].pos = chunk[x].pos /\ g[x].end = chunk[x].end
         /\ g[x].cf = chunk[x].cf /\ g[x].root = chunk[x].root
  BY <1>2 DEF GrowthOf
<1> QED
  BY <1>1, <1>2, <1>3, <1>4, <1>5, <1>6, <1>7

LEMMA SidesAllocGrow ==
    ASSUME ChainInv, SideInv, SaneSizes, NEW s \in Slot, NEW k \in Kinds,
           AllocGrow(s, k)
    PROVE  SideInv'
<1>1. PICK p \in Chunk, r \in Requests, c \in Chunk :
          LET n == Need(p, r)
              size == GrowthSize(p, n)
              off == IF k = "d" THEN 0 ELSE size - n
          IN  /\ Asks(s, k, p, r, n)
              /\ "ok" \in Growths(p, n)
              /\ Reusable(c)
              /\ chunk' = [Grown(p, n, c) EXCEPT ![c] = Taken(@, k, n)]
              /\ blocks' = blocks \cup {Block(p, c, off, n, r, k)}
  BY DEF AllocGrow
<1>2. PICK n \in Nat : /\ n = Need(p, r) /\ r <= n /\ n \in 0 .. SizeMod - 1
  BY NeedGrows, NeedType, Consts DEF ChainInv
<1>3. Live(p) /\ chunk[p].root = p
  BY <1>1, SideOpen DEF Asks, On
<1>4. PICK g : g = Grown(p, n, c)
  OBVIOUS
<1>5. PICK size \in Nat : size = GrowthSize(p, n)
  BY <1>1, <1>2, GrowthHoldsRequest DEF ChainInv
<1>6. /\ g \in [Chunk -> ChunkType] /\ c # p /\ ~Live(c)
      /\ n <= size /\ size <= HeapMax
      /\ g[c].live /\ g[c].root = p /\ g[c].size = size
      /\ g[c].pos = 0 /\ g[c].end = size /\ g[c].cf \ {"CHILD"} \in CfChoices
      /\ \A x \in Chunk \ {c} :
            /\ g[x].live = chunk[x].live /\ g[x].size = chunk[x].size
            /\ g[x].pos = chunk[x].pos /\ g[x].end = chunk[x].end
            /\ g[x].cf = chunk[x].cf /\ g[x].root = chunk[x].root
  BY <1>1, <1>2, <1>3, <1>4, <1>5, GrownSizes
<1>7. PICK off \in Nat : off = IF k = "d" THEN 0 ELSE size - n
  BY <1>2, <1>6
<1>8. k = "d" \/ k = "n"
  BY DEF Kinds
<1> DEFINE b == Block(p, c, off, n, r, k)
<1>9. /\ chunk' = [g EXCEPT ![c] = Taken(g[c], k, n)]
      /\ blocks' = (blocks \ {}) \cup {b}
  BY <1>1, <1>2, <1>4, <1>5, <1>7
<1>10. /\ b.mem = c /\ b.len = n /\ b.pool = p /\ b.off = off /\ b.kind = k /\ b.req = r
  BY DEF Block
<1> HIDE DEF b
<1>11. /\ chunk'[c].live /\ chunk'[c].root = p /\ chunk'[c].size = size
       /\ chunk'[c].cf = g[c].cf
       /\ chunk'[c].pos = IF k = "d" THEN 0 + n ELSE 0
       /\ chunk'[c].end = IF k = "n" THEN size - n ELSE size
  <2>1. chunk'[c] = Taken(g[c], k, n) /\ g[c] \in ChunkType
    BY <1>6, <1>9
  <2> QED
    BY <1>6, <1>8, <2>1 DEF Taken, ChunkType
<1>12. ASSUME NEW x \in Chunk \ {c}
       PROVE  /\ chunk'[x].live = chunk[x].live /\ chunk'[x].size = chunk[x].size
              /\ chunk'[x].pos = chunk[x].pos /\ chunk'[x].end = chunk[x].end
              /\ chunk'[x].cf = chunk[x].cf /\ chunk'[x].root = chunk[x].root
  <2>1. chunk'[x] = g[x]
    BY <1>6, <1>9
  <2> QED
    BY <1>6, <2>1
<1>13. SizesSound'
  <2> SUFFICES ASSUME NEW x \in Chunk, chunk'[x].live
               PROVE  /\ chunk'[x].end <= chunk'[x].size /\ chunk'[x].size <= HeapMax
                      /\ chunk'[x].cf \ {"CHILD"} \in CfChoices
    BY DEF SizesSound, Live
  <2>1. CASE x = c
    <3>1. size - n <= size /\ size <= size
      BY <1>2
    <3>2. chunk'[x].end = size - n \/ chunk'[x].end = size
      BY <1>11, <2>1
    <3> QED
      BY <1>6, <1>11, <2>1, <3>1, <3>2
  <2>2. CASE x # c
    BY <1>12, <2>2 DEF SideInv, SizesSound, Live
  <2> QED
    BY <2>1, <2>2
<1>14. ASSUME NEW a \in blocks PROVE GrantSound(a)' /\ Apart(a, b) /\ Apart(b, a)
  <2>1. GrantSound(a) /\ a.mem \in Chunk /\ Live(a.mem)
    BY SideTypes DEF SideInv, GrantSound, ChainInv
  <2>2. a.mem # c
    BY <1>6, <2>1
  <2> QED
    BY <1>10, <1>12, <2>1, <2>2 DEF GrantSound, Live, Apart
<1>15. GrantSound(b)'
  <2>1. /\ b.kind = "d" => b.off + b.len <= chunk'[c].pos
        /\ b.kind = "n" => chunk'[c].end <= b.off /\ b.off + b.len <= chunk'[c].size
        /\ 0 <= b.off /\ b.off <= chunk'[c].size
    BY <1>2, <1>6, <1>7, <1>8, <1>10, <1>11
  <2> QED
    BY <1>2, <1>10, <1>11, <2>1 DEF GrantSound, Live
<1>16. chunk'[b.mem].root = b.pool /\ chunk'[b.pool].live /\ chunk'[b.pool].root = b.pool
  BY <1>3, <1>6, <1>10, <1>11, <1>12 DEF Live
<1>17. Need(b.pool, b.req)' <= b.len
  <2>1. chunk'[p].cf = chunk[p].cf
    BY <1>6, <1>12
  <2>2. Need(p, r)' = Need(p, r)
    BY <2>1 DEF Need
  <2>3. Need(b.pool, b.req)' = Need(p, r)'
    BY <1>10 DEF Need
  <2> QED
    BY <1>2, <1>10, <2>2, <2>3
<1>18. \A x \in Chunk : Live(x) => /\ chunk'[x].live /\ chunk'[x].root = chunk[x].root
                                   /\ chunk'[x].cf = chunk[x].cf
  BY <1>6, <1>12 DEF Live
<1>19. TypeOK
  BY DEF ChainInv
<1> QED
  BY <1>9, <1>13, <1>14, <1>15, <1>16, <1>17, <1>18, <1>19, SidesAdd

LEMMA SidesRallocKeep ==
    ASSUME ChainInv, SideInv, SaneSizes, NEW s \in Slot, RallocKeep(s)
    PROVE  SideInv'
<1>1. PICK p \in Chunk, b \in blocks, r \in Requests :
          /\ Resizes(s, p, b, r, Need(p, b.req), Need(p, r))
          /\ Need(p, r) <= Need(p, b.req)
          /\ Replace(b, [b EXCEPT !.req = r])
  BY DEF RallocKeep
<1>2. TypeOK /\ b \in BlockType
  BY DEF ChainInv, TypeOK
<1>3. PICK new : new = [b EXCEPT !.req = r]
  OBVIOUS
<1>4. /\ new.pool = b.pool /\ new.mem = b.mem /\ new.off = b.off /\ new.len = b.len
      /\ new.kind = b.kind /\ new.req = r
  BY <1>2, <1>3 DEF BlockType
<1>5. chunk' = chunk /\ blocks' = (blocks \ {b}) \cup {new}
  BY <1>1, <1>3 DEF RallocKeep, Replace
<1>6. "ralloc" \in Calls /\ b.pool = p /\ b.kind = "d"
  BY <1>1 DEF Resizes, On, Call
<1>7. Need(p, r) <= b.len /\ r <= b.len
  <2>1. Need(p, r) \in Nat /\ r <= Need(p, r) /\ r \in Nat
    BY <1>2, NeedGrows, RequestBounds
  <2>2. Need(p, b.req) \in Nat /\ b.len \in Nat
    BY <1>2, NeedType, Consts DEF BlockType
  <2>3. Need(p, b.req) <= b.len
    BY <1>6 DEF SideInv, LensCover
  <2> HIDE DEF Need
  <2> QED
    BY <1>1, <2>1, <2>2, <2>3
<1>8. SizesSound'
  BY <1>5 DEF SideInv, SizesSound, Live
<1>9. \A a \in blocks : GrantSound(a)'
  BY <1>5 DEF SideInv, GrantSound, Live
<1>10. GrantSound(new)'
  BY <1>4, <1>5, <1>7 DEF SideInv, GrantSound, Live
<1>11. \A a \in blocks \ {b} : a.kind = new.kind => Apart(a, new) /\ Apart(new, a)
  BY <1>4 DEF SideInv, SidesApart, Apart
<1>12. chunk'[new.mem].root = new.pool /\ chunk'[new.pool].live /\ chunk'[new.pool].root = new.pool
  BY <1>4, <1>5 DEF SideInv, BlocksOwned, Live
<1>13. Need(new.pool, new.req)' <= new.len
  BY <1>4, <1>5, <1>6, <1>7 DEF Need
<1> QED
  BY <1>2, <1>5, <1>8, <1>9, <1>10, <1>11, <1>12, <1>13, SidesAdd DEF Live

(* The block is the last of the root, and ends where its bytes end.        *)
LEMMA SidesInPlace ==
    ASSUME ChainInv, SideInv, SaneSizes, NEW s \in Slot, RallocInPlace(s)
    PROVE  SideInv'
<1>1. PICK p \in Chunk, b \in blocks, r \in Requests :
          LET old == Need(p, b.req)
              n == Need(p, r)
              pos == Wrap(chunk[p].pos - old + n)
          IN  /\ Resizes(s, p, b, r, old, n)
              /\ IsLast(p, b, old)
              /\ chunk' = [chunk EXCEPT ![p].pos = pos,
                                        ![p].lo = LoAfterResize(p, old, n, pos)]
              /\ Replace(b, [b EXCEPT !.len = n, !.req = r])
  BY DEF RallocInPlace
<1>2. /\ TypeOK /\ b \in BlockType /\ chunk[p] \in ChunkType
      /\ chunk[p].pos \in Nat /\ chunk[p].end \in Int /\ chunk[p].size \in Nat
      /\ b.off \in Int /\ b.len \in Nat
  BY SideTypes DEF ChainInv
<1>3. PICK n \in Nat : /\ n = Need(p, r) /\ r <= n /\ n + HeapMax + AlignSize < SizeMod
                       /\ n \in 0 .. SizeMod - 1
  BY <1>2, NeedGrows, NeedType, Consts
<1>4. PICK old \in Nat : old = Need(p, b.req)
  <2>1. b.req \in Requests
    BY <1>2 DEF BlockType
  <2> QED
    BY <1>2, <2>1, NeedType, Consts
<1>5. /\ "ralloc" \in Calls /\ b.pool = p /\ b.kind = "d" /\ Live(p) /\ chunk[p].root = p
      /\ b.mem = p /\ b.off = chunk[p].pos - old
  BY <1>1, <1>4, SideOpen DEF Resizes, On, Call, IsLast
<1>6. GrantSound(b) /\ old <= b.len
  BY <1>4, <1>5 DEF SideInv, LensCover
<1>7. /\ 0 <= b.off /\ b.off <= chunk[p].size /\ b.off + b.len <= chunk[p].pos
      /\ chunk[p].end <= chunk[p].size /\ chunk[p].size <= HeapMax
  BY <1>5, <1>6 DEF GrantSound, SideInv, SizesSound
<1>8. b.len = old /\ b.off + b.len = chunk[p].pos
  BY <1>2, <1>4, <1>5, <1>6, <1>7
<1>9. Wrap(chunk[p].pos - old + n) = b.off + n
  <2>1. chunk[p].pos - old + n = b.off + n /\ b.off + n < SizeMod
    BY <1>2, <1>3, <1>4, <1>5, <1>7, Consts
  <2> QED
    BY <1>2, <1>3, <2>1, Consts DEF Wrap
<1>10. PICK lo : chunk' = [chunk EXCEPT ![p].pos = b.off + n, ![p].lo = lo]
  BY <1>1, <1>3, <1>4, <1>9
<1>11. ASSUME NEW x \in Chunk
       PROVE  /\ chunk'[x].live = chunk[x].live /\ chunk'[x].size = chunk[x].size
              /\ chunk'[x].end = chunk[x].end /\ chunk'[x].cf = chunk[x].cf
              /\ chunk'[x].root = chunk[x].root
              /\ chunk'[x].pos = IF x = p THEN b.off + n ELSE chunk[x].pos
  <2>1. chunk[x] \in ChunkType
    BY <1>2 DEF TypeOK
  <2> QED
    BY <1>2, <1>10, <2>1 DEF TypeOK, ChunkType
<1>12. PICK new : new = [b EXCEPT !.len = n, !.req = r]
  OBVIOUS
<1>13. /\ new.pool = p /\ new.mem = p /\ new.off = b.off /\ new.len = n
       /\ new.kind = "d" /\ new.req = r
  BY <1>2, <1>5, <1>12 DEF BlockType
<1>14. blocks' = (blocks \ {b}) \cup {new}
  BY <1>1, <1>3, <1>12 DEF Replace
<1>15. SizesSound'
  BY <1>11 DEF SideInv, SizesSound, Live
<1>16. ASSUME NEW a \in blocks \ {b}
       PROVE  /\ GrantSound(a)'
              /\ a.kind = new.kind => Apart(a, new) /\ Apart(new, a)
  <2>1. /\ GrantSound(a) /\ a.mem \in Chunk /\ a.off \in Int /\ a.len \in Nat
        /\ a.kind \in {"d", "n"} /\ a.req \in Nat /\ 1 <= a.req
    BY <1>2, SideTypes, RequestBounds DEF SideInv
  <2>2. CASE a.mem # p
    BY <1>11, <1>13, <2>1, <2>2 DEF GrantSound, Live, Apart
  <2>3. CASE a.mem = p /\ a.kind = "n"
    BY <1>11, <1>13, <2>1, <2>3 DEF GrantSound, Live
  <2>4. CASE a.mem = p /\ a.kind = "d"
    <3>1. /\ a.off + a.len <= chunk[p].pos /\ a.req <= a.len
          /\ 0 <= a.off /\ a.off <= chunk[p].size
      BY <2>1, <2>4 DEF GrantSound
    <3>2. a.off + a.len <= b.off \/ b.off + b.len <= a.off
      BY <1>5, <2>4 DEF SideInv, SidesApart, Apart
    <3>3. a.off + a.len <= b.off
      BY <1>2, <1>8, <2>1, <3>1, <3>2
    <3>4. a.off + a.len <= b.off + n
      BY <1>2, <1>3, <2>1, <3>3
    <3> QED
      BY <1>5, <1>11, <1>13, <2>1, <2>4, <3>1, <3>3, <3>4 DEF GrantSound, Live, Apart
  <2> QED
    BY <2>1, <2>2, <2>3, <2>4
<1>17. GrantSound(new)'
  BY <1>2, <1>3, <1>5, <1>7, <1>11, <1>13 DEF GrantSound, Live
<1>18. chunk'[new.mem].root = new.pool /\ chunk'[new.pool].live /\ chunk'[new.pool].root = new.pool
  BY <1>5, <1>11, <1>13 DEF Live
<1>19. Need(new.pool, new.req)' <= new.len
  <2>1. Need(p, r)' = Need(p, r)
    BY <1>11 DEF Need
  <2>2. Need(new.pool, new.req)' = Need(p, r)'
    BY <1>13 DEF Need
  <2> QED
    BY <1>3, <1>13, <2>1, <2>2
<1>20. \A x \in Chunk : Live(x) => /\ chunk'[x].live /\ chunk'[x].root = chunk[x].root
                                   /\ chunk'[x].cf = chunk[x].cf
  BY <1>11 DEF Live
<1> QED
  BY <1>2, <1>14, <1>15, <1>16, <1>17, <1>18, <1>19, <1>20, SidesAdd

(* The block moves to the end of the root: into its free space, or beyond  *)
(* it when the pool has grown for it.                                      *)
LEMMA SidesMoved ==
    ASSUME ChainInv, SideInv, SaneSizes, NEW s \in Slot, NEW p \in Chunk, NEW b \in blocks,
           NEW r \in Requests, NEW n \in Nat, n = Need(p, r), 1 <= n,
           Resizes(s, p, b, r, Need(p, b.req), n),
           Replace(b, Block(p, p, chunk[p].pos, n, r, "d")),
           chunk[p].pos <= chunk[p].size, SizesSound',
           chunk'[p].pos = chunk[p].pos + n, chunk'[p].end = chunk[p].end,
           \A x \in Chunk : Live(x) =>
              /\ chunk'[x].live /\ chunk'[x].root = chunk[x].root
              /\ chunk'[x].cf = chunk[x].cf /\ chunk'[x].size = chunk[x].size
              /\ x # p => chunk'[x].pos = chunk[x].pos /\ chunk'[x].end = chunk[x].end
    PROVE  SideInv'
<1> DEFINE new == Block(p, p, chunk[p].pos, n, r, "d")
<1>1. TypeOK /\ p = handle[s] /\ s \in held /\ Live(p)
  BY DEF Resizes, On, ChainInv
<1>2. chunk[p].root = p
  BY <1>1, SideOpen
<1>3. n \in 0 .. SizeMod - 1 /\ r <= n
  BY <1>1, NeedType, NeedGrows
<1>4. chunk[p].pos \in Int /\ "d" \in Kinds
  BY <1>1, SideTypes DEF Kinds
<1>5. /\ new \in BlockType /\ new.mem = p /\ new.len = n /\ new.pool = p
      /\ new.off = chunk[p].pos /\ new.kind = "d" /\ new.req = r
  BY <1>3, <1>4, BlockInType DEF Block
<1>6. blocks' = (blocks \ {b}) \cup {new}
  BY DEF Replace
<1> HIDE DEF new
<1>7. /\ new.req <= new.len /\ 1 <= new.len /\ Need(new.pool, new.req) = new.len
      /\ chunk[p].root = new.pool /\ new.pool \in Chunk /\ Live(new.pool)
      /\ chunk[new.pool].root = new.pool
  BY <1>1, <1>2, <1>3, <1>5
<1>8. /\ new.kind = "d" /\ new.off = chunk[p].pos /\ chunk[p].pos <= chunk[p].size
      /\ chunk'[p].pos = chunk[p].pos + new.len /\ chunk'[p].end = chunk[p].end
  BY <1>5
<1> QED
  BY <1>1, <1>5, <1>6, <1>7, <1>8, SidesTake

LEMMA SidesRallocMove ==
    ASSUME ChainInv, SideInv, SaneSizes, NEW s \in Slot, RallocMove(s)
    PROVE  SideInv'
<1>1. PICK p \in Chunk, b \in blocks, r \in Requests :
          LET old == Need(p, b.req)
              n == Need(p, r)
          IN  /\ Resizes(s, p, b, r, old, n)
              /\ FitsBehind(p, n)
              /\ chunk' = [chunk EXCEPT ![p] = Taken(@, "d", n)]
              /\ Replace(b, Block(p, p, chunk[p].pos, n, r, "d"))
  BY DEF RallocMove
<1>2. /\ TypeOK /\ chunk[p] \in ChunkType /\ p = handle[s] /\ s \in held /\ Live(p)
      /\ chunk[p].pos \in 0 .. SizeMod - 1 /\ chunk[p].end \in Int /\ chunk[p].size \in Nat
      /\ chunk[p].end <= chunk[p].size /\ chunk[p].size <= HeapMax
  <2>1. TypeOK /\ p = handle[s] /\ s \in held /\ Live(p)
    BY <1>1 DEF Resizes, On, ChainInv
  <2>2. chunk[p] \in ChunkType
    BY <2>1 DEF TypeOK
  <2>3. chunk[p].pos \in 0 .. SizeMod - 1 /\ chunk[p].end \in Int /\ chunk[p].size \in Nat
    BY <2>2, Consts DEF ChunkType
  <2>4. chunk[p].end <= chunk[p].size /\ chunk[p].size <= HeapMax
    BY <2>1 DEF SideInv, SizesSound
  <2> QED
    BY <2>1, <2>2, <2>3, <2>4
<1>3. PICK n \in Nat : /\ n = Need(p, r) /\ r <= n /\ n + HeapMax + AlignSize < SizeMod
  BY <1>2, NeedGrows
<1>4. 1 <= n
  BY <1>3, RequestBounds
<1>5. Wrap(chunk[p].pos + n) <= chunk[p].end /\ chunk[p].pos <= Wrap(chunk[p].pos + n)
  BY <1>1, <1>3 DEF FitsBehind
<1>6. chunk[p].pos <= chunk[p].size
  <2>1. Wrap(chunk[p].pos + n) \in Int
    BY <1>2, <1>3, Consts DEF Wrap
  <2> QED
    BY <1>2, <1>5, <2>1
<1>7. chunk'[p] = Taken(chunk[p], "d", n) /\ \A x \in Chunk \ {p} : chunk'[x] = chunk[x]
  BY <1>1, <1>2, <1>3 DEF TypeOK
<1>8. /\ chunk'[p].pos = chunk[p].pos + n /\ chunk'[p].end = chunk[p].end
      /\ chunk'[p].live = chunk[p].live /\ chunk'[p].root = chunk[p].root
      /\ chunk'[p].cf = chunk[p].cf /\ chunk'[p].size = chunk[p].size
  BY <1>2, <1>7 DEF Taken, ChunkType
<1>9. SizesSound'
  BY <1>7, <1>8 DEF SideInv, SizesSound, Live
<1>10. \A x \in Chunk : Live(x) =>
          /\ chunk'[x].live /\ chunk'[x].root = chunk[x].root
          /\ chunk'[x].cf = chunk[x].cf /\ chunk'[x].size = chunk[x].size
          /\ x # p => chunk'[x].pos = chunk[x].pos /\ chunk'[x].end = chunk[x].end
  BY <1>7, <1>8 DEF Live
<1>11. Resizes(s, p, b, r, Need(p, b.req), n) /\ Replace(b, Block(p, p, chunk[p].pos, n, r, "d"))
  BY <1>1, <1>3
<1> QED
  BY <1>3, <1>4, <1>6, <1>8, <1>9, <1>10, <1>11, SidesMoved

(* The call reads the old block at pos of the root, which must be inside   *)
(* the root for that.                                                      *)
LEMMA SidesRallocSpill ==
    ASSUME ChainInv, SideInv, SaneSizes, NEW s \in Slot, RallocSpill(s)
    PROVE  SideInv'
<1>1. PICK p \in Chunk, b \in blocks, r \in Requests, c \in Chunk :
          LET old == Need(p, b.req)
              n == Need(p, r)
          IN  /\ Resizes(s, p, b, r, old, n)
              /\ "ok" \in Growths(p, n)
              /\ Reusable(c)
              /\ chunk[p].pos + old <= chunk[p].size
              /\ chunk' = Spilled(p, n, c)
              /\ Replace(b, Block(p, p, chunk[p].pos, n, r, "d"))
  BY DEF RallocSpill
<1>2. /\ TypeOK /\ p = handle[s] /\ s \in held /\ Live(p) /\ b.req \in Requests
      /\ chunk[p].pos \in Nat /\ chunk[p].size \in Nat /\ chunk[p].size <= HeapMax
  BY <1>1, SideTypes DEF Resizes, On, ChainInv, SideInv, SizesSound
<1>3. PICK n \in Nat : /\ n = Need(p, r) /\ r <= n /\ n + HeapMax + AlignSize < SizeMod
                       /\ n \in 0 .. SizeMod - 1
  BY <1>2, NeedGrows, NeedType, Consts
<1>4. 1 <= n
  BY <1>3, RequestBounds
<1>5. PICK old \in Nat : old = Need(p, b.req)
  BY <1>2, NeedType, Consts
<1>6. chunk[p].pos <= chunk[p].size
  BY <1>1, <1>2, <1>5
<1>7. Wrap(chunk[p].pos + n) = chunk[p].pos + n
  BY <1>2, <1>3, <1>6, Consts DEF Wrap
<1>8. PICK g : g = Grown(p, n, c)
  OBVIOUS
<1>9. PICK size \in Nat : size = GrowthSize(p, n)
  BY <1>1, <1>3, GrowthHoldsRequest DEF ChainInv
<1>10. /\ g \in [Chunk -> ChunkType] /\ c # p /\ ~Live(c) /\ size <= HeapMax
       /\ g[c].size = size /\ g[c].end = size /\ g[c].cf \ {"CHILD"} \in CfChoices
       /\ \A x \in Chunk \ {c} :
             /\ g[x].live = chunk[x].live /\ g[x].size = chunk[x].size
             /\ g[x].pos = chunk[x].pos /\ g[x].end = chunk[x].end
             /\ g[x].cf = chunk[x].cf /\ g[x].root = chunk[x].root
  <2>1. "ok" \in Growths(p, n) /\ Reusable(c)
    BY <1>1, <1>3
  <2>2. Live(p) /\ n \in 0 .. SizeMod - 1
    BY <1>2, <1>3
  <2>3. /\ g \in [Chunk -> ChunkType] /\ c # p /\ ~Live(c) /\ GrowthSize(p, n) <= HeapMax
        /\ g[c].size = GrowthSize(p, n) /\ g[c].end = GrowthSize(p, n)
        /\ g[c].cf \ {"CHILD"} \in CfChoices
        /\ \A x \in Chunk \ {c} :
              /\ g[x].live = chunk[x].live /\ g[x].size = chunk[x].size
              /\ g[x].pos = chunk[x].pos /\ g[x].end = chunk[x].end
              /\ g[x].cf = chunk[x].cf /\ g[x].root = chunk[x].root
    BY <1>8, <2>1, <2>2, GrownSizes
  <2> QED
    BY <1>9, <2>3
<1>11. PICK lo : chunk' = [g EXCEPT ![p].pos = chunk[p].pos + n, ![p].lo = lo]
  BY <1>1, <1>3, <1>7, <1>8 DEF Spilled
<1>12. ASSUME NEW x \in Chunk
       PROVE  /\ chunk'[x].live = g[x].live /\ chunk'[x].size = g[x].size
              /\ chunk'[x].end = g[x].end /\ chunk'[x].cf = g[x].cf
              /\ chunk'[x].root = g[x].root
              /\ chunk'[x].pos = IF x = p THEN chunk[p].pos + n ELSE g[x].pos
  <2>1. g[x] \in ChunkType
    BY <1>10
  <2> QED
    BY <1>10, <1>11, <2>1 DEF ChunkType
<1>13. SizesSound'
  <2> SUFFICES ASSUME NEW x \in Chunk, chunk'[x].live
               PROVE  /\ chunk'[x].end <= chunk'[x].size /\ chunk'[x].size <= HeapMax
                      /\ chunk'[x].cf \ {"CHILD"} \in CfChoices
    BY DEF SizesSound, Live
  <2>1. CASE x = c
    <3>1. size <= size
      OBVIOUS
    <3> QED
      BY <1>10, <1>12, <2>1, <3>1
  <2>2. CASE x # c
    BY <1>10, <1>12, <2>2 DEF SideInv, SizesSound, Live
  <2> QED
    BY <2>1, <2>2
<1>14. \A x \in Chunk : Live(x) =>
          /\ chunk'[x].live /\ chunk'[x].root = chunk[x].root
          /\ chunk'[x].cf = chunk[x].cf /\ chunk'[x].size = chunk[x].size
          /\ x # p => chunk'[x].pos = chunk[x].pos /\ chunk'[x].end = chunk[x].end
  BY <1>10, <1>12 DEF Live
<1>15. chunk'[p].pos = chunk[p].pos + n /\ chunk'[p].end = chunk[p].end
  BY <1>10, <1>12
<1>16. Resizes(s, p, b, r, Need(p, b.req), n) /\ Replace(b, Block(p, p, chunk[p].pos, n, r, "d"))
  BY <1>1, <1>3
<1> QED
  BY <1>3, <1>4, <1>6, <1>13, <1>14, <1>15, <1>16, SidesMoved

LEMMA SidesDallocNoStruct ==
    ASSUME ChainInv, SideInv, NEW s \in Slot, DallocNoStruct(s)
    PROVE  SideInv'
<1>1. PICK p \in Chunk : Live(p) /\ chunk' = Childless(p)
  BY DEF DallocNoStruct, Asks, On
<1>2. PICK cur \in Chunk : cur = chunk[p].current
  BY <1>1 DEF ChainInv, CurrentsExist
<1>3. chunk' = [chunk EXCEPT ![cur].child = NIL]
  BY <1>1, <1>2 DEF Childless
<1>4. \A x \in Chunk : /\ chunk'[x].live = chunk[x].live /\ chunk'[x].size = chunk[x].size
                       /\ chunk'[x].pos = chunk[x].pos /\ chunk'[x].end = chunk[x].end
                       /\ chunk'[x].cf = chunk[x].cf /\ chunk'[x].root = chunk[x].root
  BY <1>3, SideTypes DEF ChainInv, TypeOK, ChunkType
<1>5. blocks' = blocks
  BY DEF DallocNoStruct
<1> QED
  BY <1>4, <1>5, SidesSame DEF ChainInv

LEMMA SidesInit == Init => SideInv
BY DEF Init, SideInv, SizesSound, BlocksOwned, LensCover, SidesApart, Live, BlankChunk

LEMMA SidesNext ==
    ASSUME SaneSizes, LengthsKnown, ChainInv, TypeOK', SideInv, [Next]_vars
    PROVE  SideInv'
<1>0. TypeOK
  BY DEF ChainInv
<1>1. ASSUME chunk' = chunk, blocks' = blocks PROVE SideInv'
  BY <1>0, <1>1, SidesSame
<1>2. ASSUME NEW f, Crashes(f) \/ Fails(f) PROVE SideInv'
  BY <1>1, <1>2 DEF Crashes, Fails
<1>3. ASSUME NEW s \in Slot, NewRejected(s) \/ NewCrash(s) \/ FreeCrash(s)
                 \/ UseFreed(s) \/ ShrinkCrash(s) \/ RallocCrash(s) \/ RallocRefused(s)
      PROVE  SideInv'
  <2>1. \E f : Crashes(f) \/ Fails(f)
    BY <1>3 DEF NewRejected, NewCrash, FreeCrash, UseFreed, ShrinkCrash, RallocCrash,
                RallocRefused
  <2> QED
    BY <1>2, <2>1
<1>4. ASSUME NEW s \in Slot, NEW k \in Kinds, AllocFull(s, k) \/ AllocCrash(s, k)
      PROVE  SideInv'
  <2>1. \E f : Crashes(f) \/ Fails(f)
    BY <1>4 DEF AllocFull, AllocCrash
  <2> QED
    BY <1>2, <2>1
<1>5. ASSUME NEW s \in Slot, Info(s) \/ ShrinkNothing(s) \/ NewNoStruct(s) PROVE SideInv'
  BY <1>1, <1>5 DEF Info, ShrinkNothing, NewNoStruct
<1>6. CASE Destroy \/ DestroyCrash \/ UNCHANGED vars
  BY <1>1, <1>2, <1>6 DEF Destroy, DestroyCrash, vars
<1>7. ASSUME NEW s \in Slot, NewPool(s) PROVE SideInv'
  BY <1>7, SidesNewPool
<1>8. ASSUME NEW s \in Slot, Free(s) PROVE SideInv'
  BY <1>8, SidesFree
<1>9. ASSUME NEW s \in Slot, Clear(s) \/ Reset(s) PROVE SideInv'
  BY <1>9, SidesClear
<1>10. ASSUME NEW s \in Slot, ShrinkRewinds(s) PROVE SideInv'
  BY <1>10, SidesShrink
<1>11. ASSUME NEW d \in Slot, NEW s \in Slot, Merge(d, s) PROVE SideInv'
  BY <1>11, SidesMerge
<1>12. ASSUME NEW s \in Slot, NEW k \in Kinds, AllocHere(s, k) PROVE SideInv'
  BY <1>12, SidesAllocHere
<1>13. ASSUME NEW s \in Slot, NEW k \in Kinds, AllocGrow(s, k) PROVE SideInv'
  BY <1>13, SidesAllocGrow
<1>14. ASSUME NEW s \in Slot, DallocNoStruct(s) PROVE SideInv'
  BY <1>14, SidesDallocNoStruct
<1>15. ASSUME NEW s \in Slot, RallocInPlace(s) PROVE SideInv'
  BY <1>15, SidesInPlace
<1>16. ASSUME NEW s \in Slot, RallocKeep(s) PROVE SideInv'
  BY <1>16, SidesRallocKeep
<1>17. ASSUME NEW s \in Slot, RallocMove(s) PROVE SideInv'
  BY <1>17, SidesRallocMove
<1>18. ASSUME NEW s \in Slot, RallocSpill(s) PROVE SideInv'
  BY <1>18, SidesRallocSpill
<1> QED
  BY <1>3, <1>4, <1>5, <1>6, <1>7, <1>8, <1>9, <1>10, <1>11, <1>12, <1>13, <1>14, <1>15,
     <1>16, <1>17, <1>18 DEF Next, Alloc, Ralloc

(* Every call in use, pools that grow, malloc failing, merges, shrinking,  *)
(* dangling handles, and ralloc placing blocks beyond the free space of a  *)
(* root: in every chunk whose two pointers have not crossed, every block   *)
(* still lies in live memory on its side, holds what was asked for and     *)
(* shares no byte with another.  What ralloc overruns does not spread,     *)
(* provided no pool of unrounded blocks is merged and then resized from.   *)
THEOREM BlocksSafeBesideOverruns ==
    ASSUME SaneSizes, LengthsKnown
    PROVE  Spec => []BlocksSafeUnlessOverrun
<1>1. Init => SideInv
  BY SidesInit
<1>2. ChainInv /\ TypeOK' /\ SideInv /\ [Next]_vars => SideInv'
  BY SidesNext
<1>3. TypeOK /\ SideInv => BlocksSafeUnlessOverrun
  BY SideInvSafe
<1> QED
  BY <1>1, <1>2, <1>3, ChainsAlways, TypeCorrect, PTL DEF Spec

=============================================================================
