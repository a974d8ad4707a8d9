---------------------------- MODULE MemPoolProofs ----------------------------
(* Theorems about MemPool for every value of its constants.                *)
EXTENDS MemPoolArena, TLAPS

-----------------------------------------------------------------------------
(* Sizes.                                                                  *)

LEMMA Consts ==
    /\ AlignSize \in Nat /\ AlignSize > 0
    /\ MinPoolSize \in Nat /\ MinPoolSize > 0
    /\ SizeMod \in Nat /\ SizeMod > 0
    /\ MinPoolSize < SizeMod /\ AlignSize <= SizeMod
    /\ HeapMax \in Nat /\ Overhead \in Nat
BY SizeAssumption

LEMMA ModRange ==
    ASSUME NEW a \in Nat
    PROVE  a % AlignSize \in 0 .. AlignSize - 1
BY Consts

LEMMA AlignUpBounds ==
    ASSUME NEW n \in Nat
    PROVE  /\ AlignUp(n) \in Nat
           /\ n <= AlignUp(n) /\ AlignUp(n) <= n + AlignSize - 1
<1>1. n + (AlignSize - 1) \in Nat
  BY Consts
<1>2. PICK m \in 0 .. AlignSize - 1 : (n + (AlignSize - 1)) % AlignSize = m
  BY <1>1, ModRange
<1>3. AlignUp(n) = n + (AlignSize - 1) - m
  BY <1>2 DEF AlignUp
<1> QED
  BY <1>3, Consts

LEMMA MemAlignType ==
    ASSUME NEW n \in 0 .. SizeMod - 1
    PROVE  MemAlign(n) \in 0 .. SizeMod - 1
BY AlignUpBounds, Consts DEF MemAlign, Wrap

LEMMA PoolBytesType ==
    ASSUME NEW n \in 0 .. SizeMod - 1
    PROVE  PoolBytes(n) \in 0 .. SizeMod - 1
BY MemAlignType, Consts DEF PoolBytes, Larger

LEMMA NeedType ==
    ASSUME TypeOK, NEW p \in Chunk, NEW r \in Requests
    PROVE  Need(p, r) \in 0 .. SizeMod - 1
BY MemAlignType, SizeAssumption DEF Need

LEMMA GrowthSizeType ==
    ASSUME TypeOK, NEW p \in Chunk, NEW n \in 0 .. SizeMod - 1
    PROVE  GrowthSize(p, n) \in 0 .. SizeMod - 1
<1>1. chunk[p].size \in 0 .. SizeMod - 1
  BY DEF TypeOK, ChunkType
<1> QED
  BY <1>1, PoolBytesType DEF GrowthSize

-----------------------------------------------------------------------------
(* Records of chunks.                                                      *)

LEMMA BlankChunkType == BlankChunk \in ChunkType
BY Consts DEF BlankChunk, ChunkType

LEMMA NewChunkType ==
    ASSUME NEW c \in Chunk, NEW size \in 0 .. SizeMod - 1, NEW cf \in SUBSET Flags,
           NEW parent \in Chunk \cup {NIL}, NEW root \in Chunk \cup {NIL}
    PROVE  NewChunk(c, size, cf, parent, root) \in ChunkType
BY Consts DEF NewChunk, ChunkType

LEMMA RewoundType ==
    ASSUME NEW ch \in ChunkType
    PROVE  Rewound(ch) \in ChunkType
<1> DEFINE a == [ch EXCEPT !.pos = 0]
<1>1. a \in ChunkType
  BY Consts DEF ChunkType
<1> HIDE DEF a
<1> DEFINE b == [a EXCEPT !.zeroed = FALSE]
<1>2. b \in ChunkType
  BY <1>1 DEF ChunkType
<1> HIDE DEF b
<1> DEFINE d == [b EXCEPT !.lo = 0]
<1>3. d \in ChunkType
  BY <1>2 DEF ChunkType
<1> HIDE DEF d
<1>4. [d EXCEPT !.hi = ch.size] \in ChunkType
  BY <1>3 DEF ChunkType
<1>5. Rewound(ch) = [d EXCEPT !.hi = ch.size]
  BY DEF a, b, d, Rewound
<1> QED
  BY <1>4, <1>5

LEMMA DirtyToType ==
    ASSUME NEW ch \in ChunkType, NEW pos \in Int
    PROVE  DirtyTo(ch, pos) \in Int
BY DEF DirtyTo, Larger, ChunkType

LEMMA TakenType ==
    ASSUME NEW ch \in ChunkType, NEW k \in Kinds, NEW n \in 0 .. SizeMod - 1,
           k = "d" => ch.pos + n < SizeMod
    PROVE  Taken(ch, k, n) \in ChunkType
<1>1. ch.pos \in 0 .. SizeMod - 1 /\ ch.end \in Int /\ ch.hi \in Int
  BY DEF ChunkType
<1>2. DirtyTo(ch, ch.pos + n) \in Int
  BY <1>1, DirtyToType
<1>3. (IF ch.zeroed THEN Smaller(ch.hi, ch.end - n) ELSE ch.hi) \in Int
  BY <1>1 DEF Smaller
<1>4. CASE k = "d"
  <2> DEFINE a == [ch EXCEPT !.pos = ch.pos + n]
  <2>1. ch.pos + n \in 0 .. SizeMod - 1
    BY <1>1, <1>4, Consts
  <2>2. a \in ChunkType
    BY <2>1 DEF ChunkType
  <2>3. Taken(ch, k, n) = [a EXCEPT !.lo = DirtyTo(ch, ch.pos + n)]
    BY <1>4 DEF Taken
  <2> HIDE DEF a
  <2> QED
    BY <1>2, <2>2, <2>3 DEF ChunkType
<1>5. CASE k # "d"
  <2> DEFINE a == [ch EXCEPT !.end = ch.end - n]
             hi == IF ch.zeroed THEN Smaller(ch.hi, ch.end - n) ELSE ch.hi
  <2>1. ch.end - n \in Int
    BY <1>1
  <2>2. a \in ChunkType
    BY <2>1 DEF ChunkType
  <2>3. Taken(ch, k, n) = [a EXCEPT !.hi = hi]
    BY <1>5 DEF Taken
  <2>4. hi \in Int
    BY <1>3
  <2> HIDE DEF a, hi
  <2> QED
    BY <2>2, <2>3, <2>4 DEF ChunkType
<1> QED
  BY <1>4, <1>5

LEMMA GrownType ==
    ASSUME TypeOK, NEW p \in Chunk, NEW c \in Chunk, NEW n \in 0 .. SizeMod - 1
    PROVE  Grown(p, n, c) \in [Chunk -> ChunkType]
<1> DEFINE cur == chunk[p].current
           new == NewChunk(c, GrowthSize(p, n), chunk[p].cf \cup {"CHILD"}, cur, p)
           f == [chunk EXCEPT ![c] = new]
           g == [f EXCEPT ![cur].child = c]
<1>1. chunk[p] \in ChunkType /\ chunk \in [Chunk -> ChunkType]
  BY DEF TypeOK
<1>2. cur \in Chunk \cup {NIL} /\ chunk[p].cf \cup {"CHILD"} \in SUBSET Flags
  BY <1>1 DEF ChunkType, Flags
<1>3. new \in ChunkType
  BY <1>2, GrowthSizeType, NewChunkType
<1>4. f \in [Chunk -> ChunkType]
  BY <1>1, <1>3
<1>5. g \in [Chunk -> ChunkType]
  <2>1. \A x \in Chunk : [f[x] EXCEPT !.child = c] \in ChunkType
    BY <1>4 DEF ChunkType
  <2> QED
    BY <1>4, <2>1
<1>6. [g EXCEPT ![p].current = c] \in [Chunk -> ChunkType]
  <2> HIDE DEF g
  <2>1. [g[p] EXCEPT !.current = c] \in ChunkType
    BY <1>5 DEF ChunkType
  <2> QED
    BY <1>5, <2>1
<1> QED
  BY <1>6 DEF Grown

-----------------------------------------------------------------------------
(* Every action keeps the types.                                           *)

LEMMA HeldPool ==
    ASSUME TypeOK, NEW s \in held
    PROVE  handle[s] \in Chunk /\ s \in Slot
BY DEF TypeOK

LEMMA BlockInType ==
    ASSUME NEW p \in Chunk, NEW c \in Chunk, NEW off \in Int,
           NEW n \in 0 .. SizeMod - 1, NEW r \in Requests, NEW k \in Kinds
    PROVE  Block(p, c, off, n, r, k) \in BlockType
BY DEF Block, BlockType

LEMMA TypeFails ==
    ASSUME TypeOK, NEW code \in Codes, Fails(code)
    PROVE  TypeOK'
BY DEF TypeOK, Fails, Returns

LEMMA TypeCrashes ==
    ASSUME TypeOK, NEW f \in {"null", "uaf", "oob"}, Crashes(f)
    PROVE  TypeOK'
BY DEF TypeOK, Crashes

LEMMA OutcomeType ==
    ASSUME NEW size, NEW cf
    PROVE  NewOutcomes(size, cf) \subseteq {"ok", "oom", "null", "uaf", "oob"}
BY DEF NewOutcomes

LEMMA TypeNewPool ==
    ASSUME TypeOK, NEW s \in Slot, NewPool(s)
    PROVE  TypeOK'
<1>1. PICK n \in PoolSizes \ {0}, cf \in CfChoices, c \in Chunk :
          /\ chunk' = [chunk EXCEPT ![c] = NewChunk(c, PoolBytes(n), cf, NIL, c)]
          /\ pools' = Append(pools, c)
          /\ handle' = [handle EXCEPT ![s] = c]
  BY DEF NewPool
<1>2. NewChunk(c, PoolBytes(n), cf, NIL, c) \in ChunkType
  <2>1. n \in 0 .. SizeMod - 1 /\ cf \in SUBSET Flags
    BY SizeAssumption, ChoiceAssumption
  <2> QED
    BY <2>1, PoolBytesType, NewChunkType
<1>3. chunk' \in [Chunk -> ChunkType]
  BY <1>1, <1>2 DEF TypeOK
<1>4. pools' \in Seq(Chunk)
  BY <1>1 DEF TypeOK
<1>5. handle' \in [Slot -> Chunk \cup {NIL}] /\ \A t \in held' : handle'[t] \in Chunk
  BY <1>1 DEF TypeOK, NewPool
<1> QED
  BY <1>3, <1>4, <1>5 DEF TypeOK, NewPool, Returns, Codes

LEMMA TypeNewNoStruct ==
    ASSUME TypeOK, NEW s \in Slot, NewNoStruct(s)
    PROVE  TypeOK'
BY DEF TypeOK, NewNoStruct, Returns, Codes

LEMMA ListFaultType ==
    ASSUME NEW touched
    PROVE  ListFault(touched) \in {"none", "null", "uaf"}
BY DEF ListFault

LEMMA TypeFree ==
    ASSUME TypeOK, NEW s \in Slot, Free(s)
    PROVE  TypeOK'
<1> DEFINE p == handle[s]
<1>1. PICK i \in DOMAIN pools :
          /\ pools' = Unlinked(i)
          /\ chunk' = [c \in Chunk |->
                 IF c \in Chain(p) THEN BlankChunk
                 ELSE IF c = chunk[p].parent
                      THEN [chunk[c] EXCEPT !.child = NIL]
                 ELSE chunk[c]]
          /\ blocks' = {b \in blocks : b.pool # p}
  BY DEF Free
<1>2. \A ch \in ChunkType : [ch EXCEPT !.child = NIL] \in ChunkType
  BY DEF ChunkType
<1>3. chunk' \in [Chunk -> ChunkType]
  BY <1>1, <1>2, BlankChunkType DEF TypeOK
<1>4. pools' \in Seq(Chunk)
  BY <1>1 DEF TypeOK, Unlinked, RemoveAt
<1> QED
  BY <1>1, <1>3, <1>4 DEF TypeOK, Free, Returns, Codes

LEMMA TypeMerge ==
    ASSUME TypeOK, NEW d \in Slot, NEW s \in Slot, Merge(d, s)
    PROVE  TypeOK'
<1> DEFINE dest == handle[d]
           src == handle[s]
<1>1. dest \in Chunk /\ src \in Chunk
  BY DEF TypeOK, Merge, On
<1>2. chunk' = [c \in Chunk |->
          IF c = src THEN [chunk[c] EXCEPT !.parent = dest,
                              !.child = chunk[dest].child, !.root = dest]
          ELSE IF c = dest THEN [chunk[c] EXCEPT !.child = src]
          ELSE IF chunk[c].root = src THEN [chunk[c] EXCEPT !.root = dest]
          ELSE chunk[c]]
  BY DEF Merge
<1>3. ASSUME NEW c \in Chunk
      PROVE  /\ [chunk[c] EXCEPT !.child = src] \in ChunkType
             /\ [chunk[c] EXCEPT !.root = dest] \in ChunkType
             /\ [chunk[c] EXCEPT !.parent = dest, !.child = chunk[dest].child,
                                 !.root = dest] \in ChunkType
  <2>1. chunk[c] \in ChunkType /\ chunk[dest].child \in Chunk \cup {NIL}
    BY <1>1 DEF TypeOK, ChunkType
  <2> DEFINE a == [chunk[c] EXCEPT !.parent = dest]
  <2>2. a \in ChunkType
    BY <1>1, <2>1 DEF ChunkType
  <2>3. [chunk[c] EXCEPT !.parent = dest, !.child = chunk[dest].child, !.root = dest]
           = [a EXCEPT !.child = chunk[dest].child, !.root = dest]
    OBVIOUS
  <2> HIDE DEF a
  <2> DEFINE e == [a EXCEPT !.child = chunk[dest].child]
  <2>4. e \in ChunkType
    BY <2>1, <2>2 DEF ChunkType
  <2>5. [a EXCEPT !.child = chunk[dest].child, !.root = dest] = [e EXCEPT !.root = dest]
    OBVIOUS
  <2> HIDE DEF e
  <2>6. [e EXCEPT !.root = dest] \in ChunkType
    BY <1>1, <2>4 DEF ChunkType
  <2>7. [chunk[c] EXCEPT !.child = src] \in ChunkType
    BY <1>1, <2>1 DEF ChunkType
  <2>8. [chunk[c] EXCEPT !.root = dest] \in ChunkType
    BY <1>1, <2>1 DEF ChunkType
  <2> QED
    BY <2>3, <2>5, <2>6, <2>7, <2>8
<1>4. chunk' \in [Chunk -> ChunkType]
  BY <1>2, <1>3 DEF TypeOK
<1>5. blocks' \subseteq BlockType
  <2>1. \A b \in BlockType : [b EXCEPT !.pool = dest] \in BlockType
    BY <1>1 DEF BlockType
  <2> QED
    BY <2>1 DEF TypeOK, Merge
<1> QED
  BY <1>4, <1>5 DEF TypeOK, Merge, Returns, Codes

LEMMA ClearedType ==
    ASSUME NEW ch \in ChunkType
    PROVE  [ch EXCEPT !.pos = 0, !.zeroed = TRUE, !.lo = 0, !.hi = ch.size]
               \in ChunkType
<1> DEFINE a == [ch EXCEPT !.pos = 0]
<1>1. a \in ChunkType
  BY Consts DEF ChunkType
<1>2. [ch EXCEPT !.pos = 0, !.zeroed = TRUE, !.lo = 0, !.hi = ch.size]
          = [a EXCEPT !.zeroed = TRUE, !.lo = 0, !.hi = ch.size]
  OBVIOUS
<1> HIDE DEF a
<1> DEFINE b == [a EXCEPT !.zeroed = TRUE]
<1>3. b \in ChunkType
  BY <1>1 DEF ChunkType
<1>4. [a EXCEPT !.zeroed = TRUE, !.lo = 0, !.hi = ch.size]
          = [b EXCEPT !.lo = 0, !.hi = ch.size]
  OBVIOUS
<1> HIDE DEF b
<1> DEFINE d == [b EXCEPT !.lo = 0]
<1>5. d \in ChunkType
  BY <1>3 DEF ChunkType
<1>6. [b EXCEPT !.lo = 0, !.hi = ch.size] = [d EXCEPT !.hi = ch.size]
  OBVIOUS
<1> HIDE DEF d
<1>7. [d EXCEPT !.hi = ch.size] \in ChunkType
  BY <1>5 DEF ChunkType
<1> QED
  BY <1>2, <1>4, <1>6, <1>7

LEMMA CurrentType ==
    ASSUME NEW f \in [Chunk -> ChunkType], NEW p \in Chunk
    PROVE  [f EXCEPT ![p].current = p] \in [Chunk -> ChunkType]
<1>1. [f[p] EXCEPT !.current = p] \in ChunkType
  BY DEF ChunkType
<1> QED
  BY <1>1

LEMMA TypeClear ==
    ASSUME TypeOK, NEW s \in Slot, Clear(s)
    PROVE  TypeOK'
<1> DEFINE p == handle[s]
           rewound == [c \in Chunk |->
               IF c \in Chain(p)
               THEN [chunk[c] EXCEPT !.pos = 0, !.zeroed = TRUE,
                                     !.lo = 0, !.hi = chunk[c].size]
               ELSE chunk[c]]
<1>1. p \in Chunk
  BY DEF TypeOK, Clear, On
<1>2. rewound \in [Chunk -> ChunkType]
  BY ClearedType DEF TypeOK
<1>3. chunk' = [rewound EXCEPT ![p].current = p]
  BY DEF Clear
<1> HIDE DEF rewound
<1>4. chunk' \in [Chunk -> ChunkType]
  BY <1>1, <1>2, <1>3, CurrentType
<1> QED
  BY <1>4 DEF TypeOK, Clear, Returns, Codes

LEMMA TypeReset ==
    ASSUME TypeOK, NEW s \in Slot, Reset(s)
    PROVE  TypeOK'
<1> DEFINE p == handle[s]
           rewound == [c \in Chunk |->
               IF c \in Chain(p) THEN Rewound(chunk[c]) ELSE chunk[c]]
<1>1. p \in Chunk
  BY DEF TypeOK, Reset, On
<1>2. rewound \in [Chunk -> ChunkType]
  BY RewoundType DEF TypeOK
<1>3. chunk' = [rewound EXCEPT ![p].current = p]
  BY DEF Reset
<1> HIDE DEF rewound
<1>4. chunk' \in [Chunk -> ChunkType]
  BY <1>1, <1>2, <1>3, CurrentType
<1> QED
  BY <1>4 DEF TypeOK, Reset, Returns, Codes

LEMMA TypeShrinkRewinds ==
    ASSUME TypeOK, NEW s \in Slot, ShrinkRewinds(s)
    PROVE  TypeOK'
<1>1. chunk' \in [Chunk -> ChunkType]
  BY RewoundType, BlankChunkType DEF TypeOK, ShrinkRewinds
<1> QED
  BY <1>1 DEF TypeOK, ShrinkRewinds, Codes

LEMMA NotLacks ==
    ASSUME TypeOK, NEW c \in Chunk, NEW n \in 0 .. SizeMod - 1, ~Lacks(c, n)
    PROVE  chunk[c].pos + n < SizeMod /\ chunk[c].pos + n <= chunk[c].end
<1>1. chunk[c].pos \in 0 .. SizeMod - 1 /\ chunk[c].end \in Int
  BY DEF TypeOK, ChunkType
<1> QED
  BY <1>1, Consts DEF Lacks, Wrap

LEMMA AskedPool ==
    ASSUME TypeOK, CurrentsExist, NEW s \in Slot, NEW k \in Kinds,
           NEW p \in Chunk, NEW r, NEW n, Asks(s, k, p, r, n)
    PROVE  /\ s \in held /\ p = handle[s] /\ Live(p)
           /\ chunk[p].current \in Chunk
BY DEF Asks, On, CurrentsExist

LEMMA TypeAllocHere ==
    ASSUME TypeOK, CurrentsExist, NEW s \in Slot, NEW k \in Kinds,
           AllocHere(s, k)
    PROVE  TypeOK'
<1>1. PICK p \in Chunk, r \in Requests :
          LET n == Need(p, r)
              cur == chunk[p].current
              off == IF k = "d" THEN chunk[cur].pos ELSE chunk[cur].end - n
          IN  /\ Asks(s, k, p, r, n)
              /\ ~Lacks(cur, n)
              /\ chunk' = [chunk EXCEPT ![cur] = Taken(@, k, n)]
              /\ blocks' = blocks \cup {Block(p, cur, off, n, r, k)}
  BY DEF AllocHere
<1> DEFINE n == Need(p, r)
           cur == chunk[p].current
           off == IF k = "d" THEN chunk[cur].pos ELSE chunk[cur].end - n
<1>2. n \in 0 .. SizeMod - 1 /\ cur \in Chunk
  BY <1>1, NeedType, AskedPool
<1>3. /\ chunk[cur] \in ChunkType
      /\ chunk[cur].pos \in 0 .. SizeMod - 1 /\ chunk[cur].end \in Int
  BY <1>2 DEF TypeOK, ChunkType
<1> HIDE DEF n, cur
<1>4. Taken(chunk[cur], k, n) \in ChunkType
  <2>1. ~Lacks(cur, n)
    BY <1>1 DEF n, cur
  <2> QED
    BY <1>2, <1>3, <2>1, NotLacks, TakenType
<1>5. chunk' = [chunk EXCEPT ![cur] = Taken(@, k, n)]
  BY <1>1 DEF n, cur
<1>6. chunk' \in [Chunk -> ChunkType]
  BY <1>2, <1>4, <1>5 DEF TypeOK
<1>7. Block(p, cur, off, n, r, k) \in BlockType
  BY <1>2, <1>3, BlockInType
<1>8. blocks' \subseteq BlockType
  BY <1>1, <1>7 DEF TypeOK, n, cur
<1> QED
  BY <1>6, <1>8 DEF TypeOK, AllocHere, Returns, Codes

(* What growing a pool p by a chunk c does to every struct.                *)
GrowthOf(p, n, c, g) ==
    /\ g[c].live = TRUE /\ g[c].size = GrowthSize(p, n)
    /\ g[c].pos = 0 /\ g[c].end = GrowthSize(p, n)
    /\ g[c].lo = 0 /\ g[c].hi = GrowthSize(p, n)
    /\ g[c].cf = chunk[p].cf \cup {"CHILD"} /\ g[c].root = p
    /\ g[c].current = c /\ g[c].child = NIL
    /\ g[p].current = c
    /\ \A x \in Chunk \ {c} :
          /\ x # p => g[x].current = chunk[x].current
          /\ g[x].child = IF x = chunk[p].current THEN c ELSE chunk[x].child
          /\ g[x].live = chunk[x].live
          /\ g[x].size = chunk[x].size
          /\ g[x].pos = chunk[x].pos
          /\ g[x].end = chunk[x].end
          /\ g[x].cf = chunk[x].cf
          /\ g[x].root = chunk[x].root
          /\ g[x].parent = chunk[x].parent
          /\ g[x].zeroed = chunk[x].zeroed
          /\ g[x].lo = chunk[x].lo /\ g[x].hi = chunk[x].hi

LEMMA GrownChunks ==
    ASSUME TypeOK, NEW p \in Chunk, NEW c \in Chunk, NEW n \in 0 .. SizeMod - 1,
           chunk[p].current \in Chunk, c # chunk[p].current, c # p
    PROVE  GrowthOf(p, n, c, Grown(p, n, c))
<1> DEFINE cur == chunk[p].current
           g == Grown(p, n, c)
           new == NewChunk(c, GrowthSize(p, n), chunk[p].cf \cup {"CHILD"}, cur, p)
<1>1. chunk \in [Chunk -> ChunkType] /\ chunk[p] \in ChunkType
  BY DEF TypeOK
<1>2. new \in ChunkType
  BY <1>1, GrowthSizeType, NewChunkType DEF ChunkType, Flags
<1>3. g = [[[chunk EXCEPT ![c] = new] EXCEPT ![cur].child = c]
              EXCEPT ![p].current = c]
  BY DEF Grown
<1>4. cur \in Chunk /\ c # cur
  OBVIOUS
<1>5. /\ new.live = TRUE /\ new.size = GrowthSize(p, n)
      /\ new.pos = 0 /\ new.end = GrowthSize(p, n)
      /\ new.lo = 0 /\ new.hi = GrowthSize(p, n)
      /\ new.cf = chunk[p].cf \cup {"CHILD"} /\ new.root = p
      /\ new.current = c /\ new.child = NIL
  BY DEF NewChunk
<1> HIDE DEF new, cur, g
<1>6. g[c] = new
  BY <1>1, <1>2, <1>3, <1>4
<1>7. g[p].current = c
  BY <1>1, <1>2, <1>3, <1>4 DEF ChunkType
<1>8. ASSUME NEW x \in Chunk \ {c}
      PROVE  /\ x # p => g[x].current = chunk[x].current
             /\ g[x].child = IF x = cur THEN c ELSE chunk[x].child
             /\ g[x].live = chunk[x].live
             /\ g[x].size = chunk[x].size
             /\ g[x].pos = chunk[x].pos
             /\ g[x].end = chunk[x].end
             /\ g[x].cf = chunk[x].cf
             /\ g[x].root = chunk[x].root
             /\ g[x].parent = chunk[x].parent
             /\ g[x].zeroed = chunk[x].zeroed
             /\ g[x].lo = chunk[x].lo /\ g[x].hi = chunk[x].hi
  BY <1>1, <1>2, <1>3, <1>4 DEF ChunkType
<1> QED
  BY <1>5, <1>6, <1>7, <1>8 DEF GrowthOf, cur, g

LEMMA ReusableFresh ==
    ASSUME TypeOK, CurrentsExist, NEW c \in Chunk, NEW p \in Chunk,
           Reusable(c), Live(p)
    PROVE  c # p /\ c # chunk[p].current /\ ~Live(c)
BY DEF Reusable

LEMMA TypeAllocGrow ==
    ASSUME TypeOK, CurrentsExist, NEW s \in Slot, NEW k \in Kinds,
           AllocGrow(s, k)
    PROVE  TypeOK'
<1>1. PICK p \in Chunk, r \in Requests, c \in Chunk :
          LET n == Need(p, r)
              size == GrowthSize(p, n)
              off == IF k = "d" THEN 0 ELSE size - n
          IN  /\ Asks(s, k, p, r, n)
              /\ Reusable(c)
              /\ chunk' = [Grown(p, n, c) EXCEPT ![c] = Taken(@, k, n)]
              /\ blocks' = blocks \cup {Block(p, c, off, n, r, k)}
  BY DEF AllocGrow
<1> DEFINE n == Need(p, r)
           size == GrowthSize(p, n)
           off == IF k = "d" THEN 0 ELSE size - n
           g == Grown(p, n, c)
<1>2. n \in 0 .. SizeMod - 1
  BY NeedType
<1>3. /\ Live(p) /\ chunk[p].current \in Chunk
      /\ c # p /\ c # chunk[p].current
  BY <1>1, AskedPool, ReusableFresh
<1>4. size \in 0 .. SizeMod - 1
  BY <1>2, GrowthSizeType
<1>5. g \in [Chunk -> ChunkType]
  BY <1>2, GrownType
<1>6. g[c].pos = 0
  <2>1. GrowthOf(p, n, c, g)
    BY <1>2, <1>3, GrownChunks
  <2> QED
    BY <2>1 DEF GrowthOf
<1>7. chunk' = [g EXCEPT ![c] = Taken(@, k, n)]
  BY <1>1
<1>8. blocks' = blocks \cup {Block(p, c, off, n, r, k)}
  BY <1>1
<1> HIDE DEF n, size, g
<1>9. Taken(g[c], k, n) \in ChunkType
  <2>1. g[c] \in ChunkType /\ g[c].pos + n < SizeMod
    BY <1>2, <1>5, <1>6, Consts
  <2> QED
    BY <1>2, <2>1, TakenType
<1>10. chunk' \in [Chunk -> ChunkType]
  BY <1>5, <1>7, <1>9
<1>11. Block(p, c, off, n, r, k) \in BlockType
  BY <1>2, <1>4, BlockInType
<1> QED
  BY <1>8, <1>10, <1>11 DEF TypeOK, AllocGrow, Returns, Codes

LEMMA TypeDallocNoStruct ==
    ASSUME TypeOK, NEW s \in Slot, DallocNoStruct(s)
    PROVE  TypeOK'
<1>1. PICK p \in Chunk : chunk' = Childless(p)
  BY DEF DallocNoStruct
<1>2. chunk' = [chunk EXCEPT ![chunk[p].current].child = NIL]
  BY <1>1 DEF Childless
<1>3. \A ch \in ChunkType : [ch EXCEPT !.child = NIL] \in ChunkType
  BY DEF ChunkType
<1>4. chunk' \in [Chunk -> ChunkType]
  BY <1>2, <1>3 DEF TypeOK
<1> QED
  BY <1>4 DEF TypeOK, DallocNoStruct, Returns, Codes

LEMMA TypeAllocCrash ==
    ASSUME TypeOK, NEW s \in Slot, NEW k \in Kinds, AllocCrash(s, k)
    PROVE  TypeOK'
<1>1. PICK f \in {"null", "uaf", "oob"} : Crashes(f)
  <2>1. PICK p \in Chunk, r \in Requests : \E o \in Growths(p, Need(p, r)) \ {"ok"} :
           (o # "oom" /\ Crashes(o)) \/ Crashes("null")
    BY DEF AllocCrash
  <2> QED
    BY <2>1, OutcomeType DEF Growths
<1> QED
  BY <1>1, TypeCrashes

LEMMA TypeAllocFull ==
    ASSUME TypeOK, NEW s \in Slot, NEW k \in Kinds, AllocFull(s, k)
    PROVE  TypeOK'
<1>1. Fails("SIZE_INVALID") \/ Fails("POOL_FULL")
  BY DEF AllocFull
<1> QED
  BY <1>1, TypeFails DEF Codes

LEMMA TypeNewCrash ==
    ASSUME TypeOK, NEW s \in Slot, NewCrash(s)
    PROVE  TypeOK'
<1>1. PICK f \in {"null", "uaf", "oob"} : Crashes(f)
  BY ListFaultType DEF NewCrash
<1> QED
  BY <1>1, TypeCrashes

LEMMA ResizeArgs ==
    ASSUME TypeOK, NEW s \in Slot, NEW p \in Chunk, NEW b \in blocks,
           NEW r \in Requests, NEW old, NEW n, Resizes(s, p, b, r, old, n)
    PROVE  /\ old \in 0 .. SizeMod - 1 /\ n \in 0 .. SizeMod - 1
           /\ b \in BlockType /\ s \in held /\ Live(p) /\ p = handle[s]
<1>1. b \in BlockType /\ b.req \in Requests
  BY DEF TypeOK, BlockType
<1> QED
  BY <1>1, NeedType DEF Resizes, On

LEMMA TypeRallocInPlace ==
    ASSUME TypeOK, NEW s \in Slot, RallocInPlace(s)
    PROVE  TypeOK'
<1>1. PICK p \in Chunk, b \in blocks, r \in Requests :
          LET old == Need(p, b.req)
              n == Need(p, r)
              pos == Wrap(chunk[p].pos - old + n)
          IN  /\ Resizes(s, p, b, r, old, n)
              /\ IsLast(p, b, old)
              /\ chunk' = [chunk EXCEPT ![p].pos = pos,
                                        ![p].lo = LoAfterResize(p, old, n, pos)]
              /\ Replace(b, [b EXCEPT !.len = n, !.req = r])
  BY DEF RallocInPlace
<1> DEFINE old == Need(p, b.req)
           n == Need(p, r)
<1>0. Resizes(s, p, b, r, old, n)
  BY <1>1
<1> DEFINE pos == Wrap(chunk[p].pos - old + n)
           lo == LoAfterResize(p, old, n, pos)
<1>2. /\ old \in 0 .. SizeMod - 1 /\ n \in 0 .. SizeMod - 1
      /\ b \in BlockType
  BY <1>0, ResizeArgs
<1>3. /\ chunk[p] \in ChunkType
      /\ chunk[p].pos \in 0 .. SizeMod - 1 /\ chunk[p].lo \in Int
  BY DEF TypeOK, ChunkType
<1>4. pos \in 0 .. SizeMod - 1
  BY <1>1, <1>2, <1>3, Consts DEF IsLast, Wrap
<1> HIDE DEF pos
<1>5. lo \in Int
  BY <1>3, <1>4 DEF LoAfterResize, DirtyTo, Smaller, Larger
<1>6. chunk' = [chunk EXCEPT ![p].pos = pos, ![p].lo = lo]
  BY <1>1 DEF pos
<1> HIDE DEF lo
<1>7. chunk' \in [Chunk -> ChunkType]
  <2> DEFINE f == [chunk EXCEPT ![p].pos = pos]
  <2>1. [chunk[p] EXCEPT !.pos = pos] \in ChunkType
    BY <1>3, <1>4 DEF ChunkType
  <2>2. f \in [Chunk -> ChunkType]
    BY <2>1 DEF TypeOK
  <2>3. chunk' = [f EXCEPT ![p].lo = lo]
    BY <1>6
  <2> HIDE DEF f
  <2>4. [f[p] EXCEPT !.lo = lo] \in ChunkType
    BY <1>5, <2>2 DEF ChunkType
  <2> QED
    BY <2>2, <2>3, <2>4
<1>8. [b EXCEPT !.len = n, !.req = r] \in BlockType
  <2> DEFINE d == [b EXCEPT !.len = n]
  <2>1. d \in BlockType
    BY <1>2 DEF BlockType
  <2>2. [b EXCEPT !.len = n, !.req = r] = [d EXCEPT !.req = r]
    OBVIOUS
  <2> HIDE DEF d
  <2> QED
    BY <2>1, <2>2 DEF BlockType
<1> QED
  BY <1>1, <1>7, <1>8 DEF TypeOK, RallocInPlace, Replace, Returns, Codes

LEMMA TypeRallocKeep ==
    ASSUME TypeOK, NEW s \in Slot, RallocKeep(s)
    PROVE  TypeOK'
<1>1. PICK b \in blocks, r \in Requests : Replace(b, [b EXCEPT !.req = r])
  BY DEF RallocKeep
<1>2. [b EXCEPT !.req = r] \in BlockType
  BY DEF TypeOK, BlockType
<1> QED
  BY <1>1, <1>2 DEF TypeOK, RallocKeep, Replace, Returns, Codes

LEMMA TypeRallocMove ==
    ASSUME TypeOK, NEW s \in Slot, RallocMove(s)
    PROVE  TypeOK'
<1>1. PICK p \in Chunk, b \in blocks, r \in Requests :
          LET old == Need(p, b.req)
              n == Need(p, r)
          IN  /\ Resizes(s, p, b, r, old, n)
              /\ FitsBehind(p, n)
              /\ chunk' = [chunk EXCEPT ![p] = Taken(@, "d", n)]
              /\ Replace(b, Block(p, p, chunk[p].pos, n, r, "d"))
  BY DEF RallocMove
<1> DEFINE old == Need(p, b.req)
           n == Need(p, r)
<1>0. Resizes(s, p, b, r, old, n)
  BY <1>1
<1>2. n \in 0 .. SizeMod - 1
  BY <1>0, ResizeArgs
<1>3. chunk[p] \in ChunkType /\ chunk[p].pos \in 0 .. SizeMod - 1
  BY DEF TypeOK, ChunkType
<1>4. chunk[p].pos + n < SizeMod
  BY <1>1, <1>2, <1>3, Consts DEF FitsBehind, Wrap
<1>5. Taken(chunk[p], "d", n) \in ChunkType
  BY <1>2, <1>3, <1>4, TakenType DEF Kinds
<1>6. chunk' \in [Chunk -> ChunkType]
  BY <1>1, <1>5 DEF TypeOK
<1>7. Block(p, p, chunk[p].pos, n, r, "d") \in BlockType
  BY <1>2, <1>3, BlockInType DEF Kinds
<1> QED
  BY <1>1, <1>6, <1>7 DEF TypeOK, RallocMove, Replace, Returns, Codes

LEMMA TypeRallocSpill ==
    ASSUME TypeOK, NEW s \in Slot, RallocSpill(s)
    PROVE  TypeOK'
<1>1. PICK p \in Chunk, b \in blocks, r \in Requests, c \in Chunk :
          LET old == Need(p, b.req)
              n == Need(p, r)
          IN  /\ Resizes(s, p, b, r, old, n)
              /\ chunk' = Spilled(p, n, c)
              /\ Replace(b, Block(p, p, chunk[p].pos, n, r, "d"))
  BY DEF RallocSpill
<1> DEFINE old == Need(p, b.req)
           n == Need(p, r)
<1>0. Resizes(s, p, b, r, old, n)
  BY <1>1
<1> DEFINE pos == Wrap(chunk[p].pos + n)
           lo == DirtyTo(chunk[p], pos)
           g == Grown(p, n, c)
<1>2. n \in 0 .. SizeMod - 1
  BY <1>0, ResizeArgs
<1>3. chunk[p] \in ChunkType /\ chunk[p].pos \in 0 .. SizeMod - 1
  BY DEF TypeOK, ChunkType
<1>4. pos \in 0 .. SizeMod - 1
  BY <1>2, <1>3, Consts DEF Wrap
<1> HIDE DEF pos
<1>5. lo \in Int
  BY <1>3, <1>4, DirtyToType
<1>6. g \in [Chunk -> ChunkType]
  BY <1>2, GrownType
<1>7. chunk' = [g EXCEPT ![p].pos = pos, ![p].lo = lo]
  BY <1>1 DEF pos, Spilled
<1> HIDE DEF lo, g
<1>8. chunk' \in [Chunk -> ChunkType]
  <2> DEFINE f == [g EXCEPT ![p].pos = pos]
  <2>1. [g[p] EXCEPT !.pos = pos] \in ChunkType
    BY <1>4, <1>6 DEF ChunkType
  <2>2. f \in [Chunk -> ChunkType]
    BY <1>6, <2>1
  <2>3. chunk' = [f EXCEPT ![p].lo = lo]
    BY <1>7
  <2> HIDE DEF f
  <2>4. [f[p] EXCEPT !.lo = lo] \in ChunkType
    BY <1>5, <2>2 DEF ChunkType
  <2> QED
    BY <2>2, <2>3, <2>4
<1>9. Block(p, p, chunk[p].pos, n, r, "d") \in BlockType
  BY <1>2, <1>3, BlockInType DEF Kinds
<1> QED
  BY <1>1, <1>8, <1>9 DEF TypeOK, RallocSpill, Replace, Returns, Codes

LEMMA TypeRallocCrash ==
    ASSUME TypeOK, NEW s \in Slot, RallocCrash(s)
    PROVE  TypeOK'
<1>1. PICK f \in {"null", "uaf", "oob"} : Crashes(f)
  <2>1. \/ Crashes("oob")
        \/ \E p \in Chunk, r \in Requests : \E o \in Growths(p, Need(p, r)) :
              \/ o \notin {"ok", "oom"} /\ Crashes(o)
              \/ Crashes("null") \/ Crashes("oob")
    BY DEF RallocCrash
  <2> QED
    BY <2>1, OutcomeType DEF Growths
<1> QED
  BY <1>1, TypeCrashes

LEMMA TypeRallocRefused ==
    ASSUME TypeOK, NEW s \in Slot, RallocRefused(s)
    PROVE  TypeOK'
<1>1. Fails("SIZE_INVALID") \/ Fails("POOL_FULL") \/ Fails("OUT_OF_MEMORY")
  BY DEF RallocRefused
<1> QED
  BY <1>1, TypeFails DEF Codes

-----------------------------------------------------------------------------
(* The current chunk of every struct in use exists.                        *)

LEMMA SameChunks ==
    ASSUME CurrentsExist, chunk' = chunk
    PROVE  CurrentsExist'
BY DEF CurrentsExist, Live

LEMMA CurrentsNewPool ==
    ASSUME TypeOK, CurrentsExist, NEW s \in Slot, NewPool(s)
    PROVE  CurrentsExist'
<1>1. PICK n \in PoolSizes \ {0}, cf \in CfChoices, c \in Chunk :
          chunk' = [chunk EXCEPT ![c] = NewChunk(c, PoolBytes(n), cf, NIL, c)]
  BY DEF NewPool
<1>2. NewChunk(c, PoolBytes(n), cf, NIL, c).current = c
  BY DEF NewChunk
<1>3. \A x \in Chunk : chunk'[x].current = IF x = c THEN c ELSE chunk[x].current
  BY <1>1, <1>2 DEF TypeOK
<1>4. \A x \in Chunk \ {c} : chunk'[x].live = chunk[x].live
  BY <1>1 DEF TypeOK
<1> QED
  BY <1>3, <1>4 DEF CurrentsExist, Live

LEMMA CurrentsFree ==
    ASSUME TypeOK, CurrentsExist, NEW s \in Slot, Free(s)
    PROVE  CurrentsExist'
<1> DEFINE p == handle[s]
<1>1. chunk' = [c \in Chunk |->
          IF c \in Chain(p) THEN BlankChunk
          ELSE IF c = chunk[p].parent THEN [chunk[c] EXCEPT !.child = NIL]
          ELSE chunk[c]]
  BY DEF Free
<1>2. ASSUME NEW c \in Chunk, chunk'[c].live
      PROVE  chunk[c].live /\ chunk'[c].current = chunk[c].current
  BY <1>1, <1>2 DEF TypeOK, ChunkType, BlankChunk
<1> QED
  BY <1>2 DEF CurrentsExist, Live

LEMMA CurrentsMerge ==
    ASSUME TypeOK, CurrentsExist, NEW d \in Slot, NEW s \in Slot, Merge(d, s)
    PROVE  CurrentsExist'
<1> DEFINE dest == handle[d]
           src == handle[s]
<1>1. chunk' = [c \in Chunk |->
          IF c = src THEN [chunk[c] EXCEPT !.parent = dest,
                              !.child = chunk[dest].child, !.root = dest]
          ELSE IF c = dest THEN [chunk[c] EXCEPT !.child = src]
          ELSE IF chunk[c].root = src THEN [chunk[c] EXCEPT !.root = dest]
          ELSE chunk[c]]
  BY DEF Merge
<1>2. ASSUME NEW c \in Chunk
      PROVE  chunk'[c].live = chunk[c].live /\ chunk'[c].current = chunk[c].current
  BY <1>1 DEF TypeOK, ChunkType
<1> QED
  BY <1>2 DEF CurrentsExist, Live

LEMMA CurrentsClear ==
    ASSUME TypeOK, CurrentsExist, NEW s \in Slot, Clear(s) \/ Reset(s)
    PROVE  CurrentsExist'
<1> DEFINE p == handle[s]
<1>1. p \in Chunk
  BY DEF TypeOK, Clear, Reset, On
<1>2. PICK rewound :
          /\ rewound = [c \in Chunk |->
                 IF c \in Chain(p)
                 THEN [chunk[c] EXCEPT !.pos = 0, !.zeroed = TRUE,
                                       !.lo = 0, !.hi = chunk[c].size]
                 ELSE chunk[c]]
             \/ rewound = [c \in Chunk |->
                 IF c \in Chain(p) THEN Rewound(chunk[c]) ELSE chunk[c]]
          /\ chunk' = [rewound EXCEPT ![p].current = p]
  BY DEF Clear, Reset
<1>3. ASSUME NEW c \in Chunk
      PROVE  /\ rewound[c].live = chunk[c].live
             /\ rewound[c].current = chunk[c].current
  <2>1. chunk[c] \in ChunkType
    BY DEF TypeOK
  <2>2. Rewound(chunk[c]).live = chunk[c].live
        /\ Rewound(chunk[c]).current = chunk[c].current
    BY <2>1 DEF Rewound, ChunkType
  <2>3. rewound[c] \in {chunk[c], Rewound(chunk[c]),
            [chunk[c] EXCEPT !.pos = 0, !.zeroed = TRUE, !.lo = 0, !.hi = chunk[c].size]}
    BY <1>2
  <2> QED
    BY <2>1, <2>2, <2>3 DEF ChunkType
<1>4. rewound \in [Chunk -> ChunkType]
  BY <1>2, ClearedType, RewoundType DEF TypeOK
<1>5. ASSUME NEW c \in Chunk
      PROVE  /\ chunk'[c].live = chunk[c].live
             /\ chunk'[c].current \in {chunk[c].current, p}
  BY <1>1, <1>2, <1>3, <1>4 DEF ChunkType
<1> QED
  BY <1>1, <1>5 DEF CurrentsExist, Live

LEMMA CurrentsShrink ==
    ASSUME TypeOK, CurrentsExist, NEW s \in Slot, ShrinkRewinds(s)
    PROVE  CurrentsExist'
<1> DEFINE p == handle[s]
<1>1. PICK dropped : chunk' = [c \in Chunk |->
          IF c \in dropped THEN BlankChunk
          ELSE IF c \in Chain(p) THEN Rewound(chunk[c]) ELSE chunk[c]]
  BY DEF ShrinkRewinds
<1>2. ASSUME NEW c \in Chunk, chunk'[c].live
      PROVE  chunk[c].live /\ chunk'[c].current = chunk[c].current
  BY <1>1, <1>2 DEF TypeOK, ChunkType, BlankChunk, Rewound
<1> QED
  BY <1>2 DEF CurrentsExist, Live

LEMMA TakenKeeps ==
    ASSUME NEW ch \in ChunkType, NEW k \in Kinds, NEW n
    PROVE  /\ Taken(ch, k, n).live = ch.live
           /\ Taken(ch, k, n).current = ch.current
BY DEF Taken, ChunkType

LEMMA CurrentsAllocHere ==
    ASSUME TypeOK, CurrentsExist, NEW s \in Slot, NEW k \in Kinds,
           AllocHere(s, k)
    PROVE  CurrentsExist'
<1>1. PICK c, n : chunk' = [chunk EXCEPT ![c] = Taken(@, k, n)]
  BY DEF AllocHere
<1>2. ASSUME NEW x \in Chunk
      PROVE  /\ chunk'[x].live = chunk[x].live
             /\ chunk'[x].current = chunk[x].current
  BY <1>1, TakenKeeps DEF TypeOK
<1> QED
  BY <1>2 DEF CurrentsExist, Live

LEMMA CurrentsAllocGrow ==
    ASSUME TypeOK, CurrentsExist, NEW s \in Slot, NEW k \in Kinds,
           AllocGrow(s, k)
    PROVE  CurrentsExist'
<1>1. PICK p \in Chunk, r \in Requests, c \in Chunk :
          /\ Asks(s, k, p, r, Need(p, r))
          /\ Reusable(c)
          /\ chunk' = [Grown(p, Need(p, r), c) EXCEPT ![c] = Taken(@, k, Need(p, r))]
  BY DEF AllocGrow
<1> DEFINE n == Need(p, r)
           g == Grown(p, n, c)
<1>2. n \in 0 .. SizeMod - 1
  BY NeedType
<1>3. /\ Live(p) /\ chunk[p].current \in Chunk
      /\ c # p /\ c # chunk[p].current
  BY <1>1, AskedPool, ReusableFresh
<1>4. g \in [Chunk -> ChunkType]
  BY <1>2, GrownType
<1>5. GrowthOf(p, n, c, g)
  BY <1>2, <1>3, GrownChunks
<1>6. chunk' = [g EXCEPT ![c] = Taken(@, k, n)]
  BY <1>1
<1> HIDE DEF n, g
<1>7. ASSUME NEW x \in Chunk
      PROVE  chunk'[x].live = g[x].live /\ chunk'[x].current = g[x].current
  BY <1>4, <1>6, TakenKeeps
<1>8. ASSUME NEW x \in Chunk
      PROVE  /\ x \in {p, c} => g[x].current = c
             /\ x \notin {p, c} => /\ g[x].current = chunk[x].current
                                   /\ g[x].live = chunk[x].live
  BY <1>5 DEF GrowthOf
<1> QED
  BY <1>7, <1>8 DEF CurrentsExist, Live

LEMMA CurrentsDallocNoStruct ==
    ASSUME TypeOK, CurrentsExist, NEW s \in Slot, DallocNoStruct(s)
    PROVE  CurrentsExist'
<1>1. PICK c : chunk' = [chunk EXCEPT ![c].child = NIL]
  BY DEF DallocNoStruct, Childless
<1>2. ASSUME NEW x \in Chunk
      PROVE  chunk'[x].live = chunk[x].live /\ chunk'[x].current = chunk[x].current
  BY <1>1 DEF TypeOK, ChunkType
<1> QED
  BY <1>2 DEF CurrentsExist, Live

LEMMA CurrentsRalloc ==
    ASSUME TypeOK, CurrentsExist, NEW s \in Slot,
           RallocInPlace(s) \/ RallocMove(s)
    PROVE  CurrentsExist'
<1>1. (\E c, pos, lo : chunk' = [chunk EXCEPT ![c].pos = pos, ![c].lo = lo])
      \/ (\E c, n : chunk' = [chunk EXCEPT ![c] = Taken(@, "d", n)])
  BY DEF RallocInPlace, RallocMove
<1>2. ASSUME NEW x \in Chunk
      PROVE  chunk'[x].live = chunk[x].live /\ chunk'[x].current = chunk[x].current
  <2>1. CASE \E c, pos, lo : chunk' = [chunk EXCEPT ![c].pos = pos, ![c].lo = lo]
    BY <2>1 DEF TypeOK, ChunkType
  <2>2. CASE \E c, n : chunk' = [chunk EXCEPT ![c] = Taken(@, "d", n)]
    BY <2>2, TakenKeeps DEF TypeOK, Kinds
  <2> QED
    BY <1>1, <2>1, <2>2
<1> QED
  BY <1>2 DEF CurrentsExist, Live

LEMMA CurrentsRallocSpill ==
    ASSUME TypeOK, CurrentsExist, NEW s \in Slot, RallocSpill(s)
    PROVE  CurrentsExist'
<1>1. PICK p \in Chunk, b \in blocks, r \in Requests, c \in Chunk :
          /\ Resizes(s, p, b, r, Need(p, b.req), Need(p, r))
          /\ Reusable(c)
          /\ chunk' = Spilled(p, Need(p, r), c)
  BY DEF RallocSpill
<1> DEFINE n == Need(p, r)
           g == Grown(p, n, c)
<1>2. n \in 0 .. SizeMod - 1
  BY NeedType
<1>3. Live(p)
  BY <1>1, ResizeArgs
<1>4. chunk[p].current \in Chunk /\ c # p /\ c # chunk[p].current
  BY <1>1, <1>3, ReusableFresh DEF CurrentsExist
<1>5. g \in [Chunk -> ChunkType]
  BY <1>2, GrownType
<1>6. GrowthOf(p, n, c, g)
  BY <1>2, <1>4, GrownChunks
<1>7. \E pos, lo : chunk' = [g EXCEPT ![p].pos = pos, ![p].lo = lo]
  BY <1>1 DEF Spilled
<1> HIDE DEF n, g
<1>8. ASSUME NEW x \in Chunk
      PROVE  chunk'[x].live = g[x].live /\ chunk'[x].current = g[x].current
  BY <1>5, <1>7 DEF ChunkType
<1>9. ASSUME NEW x \in Chunk
      PROVE  /\ x \in {p, c} => g[x].current = c
             /\ x \notin {p, c} => /\ g[x].current = chunk[x].current
                                   /\ g[x].live = chunk[x].live
  BY <1>6 DEF GrowthOf
<1> QED
  BY <1>8, <1>9 DEF CurrentsExist, Live

-----------------------------------------------------------------------------
(* The two together are inductive.                                         *)

LEMMA TypeInit == Init => TypeOK /\ CurrentsExist
<1> SUFFICES ASSUME Init PROVE TypeOK /\ CurrentsExist
  OBVIOUS
<1>1. chunk \in [Chunk -> ChunkType]
  BY BlankChunkType DEF Init
<1>2. \A c \in Chunk : ~chunk[c].live
  BY DEF Init, BlankChunk
<1> QED
  BY <1>1, <1>2 DEF Init, TypeOK, CurrentsExist, Live, Codes

LEMMA TypeNext ==
    ASSUME TypeOK, CurrentsExist, [Next]_vars
    PROVE  TypeOK' /\ CurrentsExist'
<1>1. ASSUME NEW s \in Slot, NewRejected(s)
      PROVE  TypeOK' /\ CurrentsExist'
  BY <1>1, TypeFails, SameChunks DEF NewRejected, Fails, Codes
<1>2. ASSUME NEW s \in Slot, NewPool(s)
      PROVE  TypeOK' /\ CurrentsExist'
  BY <1>2, TypeNewPool, CurrentsNewPool
<1>3. ASSUME NEW s \in Slot, NewNoStruct(s)
      PROVE  TypeOK' /\ CurrentsExist'
  BY <1>3, TypeNewNoStruct, SameChunks DEF NewNoStruct
<1>4. ASSUME NEW s \in Slot, NewCrash(s)
      PROVE  TypeOK' /\ CurrentsExist'
  BY <1>4, TypeNewCrash, SameChunks DEF NewCrash, Crashes
<1>5. ASSUME NEW s \in Slot, Free(s)
      PROVE  TypeOK' /\ CurrentsExist'
  BY <1>5, TypeFree, CurrentsFree
<1>6. ASSUME NEW s \in Slot, FreeCrash(s)
      PROVE  TypeOK' /\ CurrentsExist'
  BY <1>6, TypeCrashes, ListFaultType, SameChunks DEF FreeCrash, Crashes
<1>7. ASSUME NEW s \in Slot, UseFreed(s)
      PROVE  TypeOK' /\ CurrentsExist'
  BY <1>7, TypeCrashes, SameChunks DEF UseFreed, Crashes
<1>8. ASSUME NEW s \in Slot, Info(s) \/ ShrinkNothing(s)
      PROVE  TypeOK' /\ CurrentsExist'
  <2>1. chunk' = chunk
    BY <1>8 DEF Info, ShrinkNothing
  <2>2. TypeOK'
    BY <1>8 DEF TypeOK, Info, ShrinkNothing, Codes
  <2> QED
    BY <2>1, <2>2, SameChunks
<1>9. ASSUME NEW s \in Slot, Clear(s)
      PROVE  TypeOK' /\ CurrentsExist'
  BY <1>9, TypeClear, CurrentsClear
<1>10. ASSUME NEW s \in Slot, Reset(s)
       PROVE  TypeOK' /\ CurrentsExist'
  BY <1>10, TypeReset, CurrentsClear
<1>11. ASSUME NEW s \in Slot, ShrinkRewinds(s)
       PROVE  TypeOK' /\ CurrentsExist'
  BY <1>11, TypeShrinkRewinds, CurrentsShrink
<1>12. ASSUME NEW s \in Slot, ShrinkCrash(s)
       PROVE  TypeOK' /\ CurrentsExist'
  BY <1>12, TypeCrashes, SameChunks DEF ShrinkCrash, Crashes
<1>13. ASSUME NEW s \in Slot, NEW k \in Kinds, AllocHere(s, k)
       PROVE  TypeOK' /\ CurrentsExist'
  BY <1>13, TypeAllocHere, CurrentsAllocHere
<1>14. ASSUME NEW s \in Slot, NEW k \in Kinds, AllocGrow(s, k)
       PROVE  TypeOK' /\ CurrentsExist'
  BY <1>14, TypeAllocGrow, CurrentsAllocGrow
<1>15. ASSUME NEW s \in Slot, NEW k \in Kinds, AllocFull(s, k)
       PROVE  TypeOK' /\ CurrentsExist'
  BY <1>15, TypeAllocFull, SameChunks DEF AllocFull, Fails
<1>16. ASSUME NEW s \in Slot, NEW k \in Kinds, AllocCrash(s, k)
       PROVE  TypeOK' /\ CurrentsExist'
  <2>1. chunk' = chunk
    BY <1>16 DEF AllocCrash, Crashes
  <2> QED
    BY <1>16, <2>1, TypeAllocCrash, SameChunks
<1>17. ASSUME NEW s \in Slot, DallocNoStruct(s)
       PROVE  TypeOK' /\ CurrentsExist'
  BY <1>17, TypeDallocNoStruct, CurrentsDallocNoStruct
<1>18. ASSUME NEW s \in Slot, RallocInPlace(s)
       PROVE  TypeOK' /\ CurrentsExist'
  BY <1>18, TypeRallocInPlace, CurrentsRalloc
<1>19. ASSUME NEW s \in Slot, RallocKeep(s)
       PROVE  TypeOK' /\ CurrentsExist'
  BY <1>19, TypeRallocKeep, SameChunks DEF RallocKeep
<1>20. ASSUME NEW s \in Slot, RallocMove(s)
       PROVE  TypeOK' /\ CurrentsExist'
  BY <1>20, TypeRallocMove, CurrentsRalloc
<1>21. ASSUME NEW s \in Slot, RallocSpill(s)
       PROVE  TypeOK' /\ CurrentsExist'
  BY <1>21, TypeRallocSpill, CurrentsRallocSpill
<1>22. ASSUME NEW s \in Slot, RallocCrash(s)
       PROVE  TypeOK' /\ CurrentsExist'
  <2>1. chunk' = chunk
    BY <1>22 DEF RallocCrash, Crashes
  <2> QED
    BY <1>22, <2>1, TypeRallocCrash, SameChunks
<1>23. ASSUME NEW s \in Slot, RallocRefused(s)
       PROVE  TypeOK' /\ CurrentsExist'
  <2>1. chunk' = chunk
    BY <1>23 DEF RallocRefused, Fails
  <2> QED
    BY <1>23, <2>1, TypeRallocRefused, SameChunks
<1>24. ASSUME NEW d \in Slot, NEW s \in Slot, Merge(d, s)
       PROVE  TypeOK' /\ CurrentsExist'
  BY <1>24, TypeMerge, CurrentsMerge
<1>25. ASSUME Destroy
       PROVE  TypeOK' /\ CurrentsExist'
  <2>1. chunk' = chunk
    BY <1>25 DEF Destroy
  <2>2. pools' \in Seq(Chunk)
    <3>1. pools' = <<>>
      BY <1>25 DEF Destroy
    <3> QED
      BY <3>1
  <2>3. TypeOK'
    BY <1>25, <2>2 DEF TypeOK, Destroy, Returns, Codes
  <2> QED
    BY <2>1, <2>3, SameChunks
<1>26. ASSUME DestroyCrash
       PROVE  TypeOK' /\ CurrentsExist'
  BY <1>26, TypeCrashes, SameChunks DEF DestroyCrash, Crashes
<1>27. CASE UNCHANGED vars
  <2>1. TypeOK' /\ chunk' = chunk
    BY <1>27 DEF vars, TypeOK
  <2> QED
    BY <2>1, SameChunks
<1> QED
  BY <1>1, <1>2, <1>3, <1>4, <1>5, <1>6, <1>7, <1>8, <1>9, <1>10, <1>11, <1>12,
     <1>13, <1>14, <1>15, <1>16, <1>17, <1>18, <1>19, <1>20, <1>21, <1>22,
     <1>23, <1>24, <1>25, <1>26, <1>27
  DEF Next, Alloc, Ralloc

(* Whatever the client calls and however malloc fails, every variable      *)
(* keeps its type: sizes and positions stay values of size_t, links and    *)
(* handles of open pools stay addresses, and the calls return one of the   *)
(* five documented codes.                                                  *)
THEOREM TypeCorrect == Spec => []TypeOK
<1>1. Init => TypeOK /\ CurrentsExist
  BY TypeInit
<1>2. TypeOK /\ CurrentsExist /\ [Next]_vars => (TypeOK /\ CurrentsExist)'
  BY TypeNext
<1> QED
  BY <1>1, <1>2, PTL DEF Spec
=============================================================================
