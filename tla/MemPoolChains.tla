---------------------------- MODULE MemPoolChains ----------------------------
(* The chunk chains of MemPool, for all values of the constants: freeing,  *)
(* growing, merging and shrinking pools keep them apart, whatever malloc   *)
(* does and whatever ralloc has overrun.                                   *)
EXTENDS MemPoolProofs, FiniteSetTheorems, SequenceTheorems, WellFoundedInduction

-----------------------------------------------------------------------------
(* The invariant.                                                          *)

(* Freed structs lead nowhere, live ones to live ones of the same pool.    *)
ChildrenLive ==
    \A c \in Chunk :
        /\ ~Live(c) => chunk[c].child = NIL
        /\ Live(c) /\ chunk[c].child # NIL =>
              Live(chunk[c].child) /\ chunk[chunk[c].child].root = chunk[c].root

(* No struct is the child of two: freeing a chain leaves no pointer to it. *)
OneParent ==
    \A x, y \in Chunk :
        Live(x) /\ Live(y) /\ chunk[x].child # NIL /\ chunk[x].child = chunk[y].child
            => x = y

(* q is the root of a pool, and clear, reset, info and free come from it   *)
(* to the current chunk.                                                   *)
RootFree(q) ==
    /\ chunk[q].root = q /\ chunk[q].parent = NIL
    /\ \A x \in Chunk : Live(x) => chunk[x].child # q
    /\ chunk[q].current \in Chain(q)

RootsFree ==
    \A q \in Chunk : Live(q) /\ (\E s \in held : handle[s] = q) => RootFree(q)

OneHandle == \A s, t \in held : handle[s] = handle[t] => s = t

EndsSound == \A c \in Chunk : Live(c) => 0 <= chunk[c].end /\ chunk[c].end <= chunk[c].size

ChainInv ==
    TypeOK /\ CurrentsExist /\ ChildrenLive /\ OneParent /\ RootsFree /\ OneHandle /\ EndsSound

-----------------------------------------------------------------------------
(* Chains.                                                                 *)

LEMMA ChainBegins ==
    ASSUME NEW p \in Chunk
    PROVE  p \in Chain(p) /\ Chain(p) \subseteq Chunk
BY DEF Chain

LEMMA ChainClosed ==
    ASSUME TypeOK, NEW p \in Chunk, NEW x \in Chain(p), chunk[x].child # NIL
    PROVE  chunk[x].child \in Chain(p)
<1>1. chunk[x].child \in Chunk
  BY ChainBegins DEF TypeOK, ChunkType
<1> QED
  BY <1>1, ChainBegins DEF Chain, ChildClosed

LEMMA ChainLeast ==
    ASSUME NEW p \in Chunk, NEW S \in SUBSET Chunk, p \in S, ChildClosed(S)
    PROVE  Chain(p) \subseteq S
BY DEF Chain

(* The chunks of a chain are live and belong to its pool.                  *)
LEMMA ChainLives ==
    ASSUME TypeOK, ChildrenLive, NEW p \in Chunk, Live(p), chunk[p].root = p,
           NEW x \in Chain(p)
    PROVE  x \in Chunk /\ Live(x) /\ chunk[x].root = p
<1> DEFINE S == {y \in Chunk : Live(y) /\ chunk[y].root = p}
<1>1. ChildClosed(S)
  BY DEF ChildClosed, ChildrenLive, TypeOK, ChunkType
<1>2. Chain(p) \subseteq S
  BY <1>1, ChainLeast
<1> QED
  BY <1>2

(* The chain of a struct that was freed is the struct.                     *)
LEMMA ChainDead ==
    ASSUME ChildrenLive, NEW p \in Chunk, ~Live(p)
    PROVE  Chain(p) = {p}
<1>1. ChildClosed({p})
  BY DEF ChildClosed, ChildrenLive
<1> QED
  BY <1>1, ChainLeast, ChainBegins

(* Every other chunk of a chain is the child of one.                       *)
LEMMA ChainParent ==
    ASSUME TypeOK, NEW p \in Chunk, NEW y \in Chain(p), y # p
    PROVE  \E z \in Chain(p) : chunk[z].child = y
<1> SUFFICES ASSUME \A z \in Chain(p) : chunk[z].child # y PROVE FALSE
  OBVIOUS
<1> DEFINE S == Chain(p) \ {y}
<1>1. ChildClosed(S)
  BY ChainClosed DEF ChildClosed
<1>2. p \in S /\ S \in SUBSET Chunk
  BY ChainBegins
<1> QED
  BY <1>1, <1>2, ChainLeast

(* A chain only grows when none of its links is changed.                   *)
LEMMA ChainKept ==
    ASSUME TypeOK, ChildrenLive, NEW q \in Chunk, Live(q), chunk[q].root = q,
           \A x \in Chunk : Live(x) /\ chunk[x].root = q => chunk'[x].child = chunk[x].child
    PROVE  Chain(q) \subseteq Chain(q)'
<1> SUFFICES ASSUME NEW y \in Chain(q), NEW S \in SUBSET Chunk, q \in S, ChildClosed(S)'
             PROVE  y \in S
  BY ChainBegins DEF Chain
<1> DEFINE T == {x \in S : Live(x) /\ chunk[x].root = q}
<1>1. ChildClosed(T)
  BY DEF ChildClosed, ChildrenLive, TypeOK, ChunkType
<1>2. Chain(q) \subseteq T
  BY <1>1, ChainLeast
<1> QED
  BY <1>2

(* A pool none of whose links is changed stays as it was.                  *)
LEMMA RootKept ==
    ASSUME ChainInv, NEW s \in held, Live(handle[s]), NEW q \in Chunk, q = handle[s],
           \A x \in Chunk : Live(x) /\ chunk[x].root = q => chunk'[x].child = chunk[x].child,
           chunk'[q].root = q, chunk'[q].parent = NIL,
           chunk'[q].current \in {chunk[q].current, q},
           \A x \in Chunk : chunk'[x].live => chunk'[x].child # q
    PROVE  RootFree(q)'
<1>1. RootFree(q)
  BY DEF ChainInv, RootsFree
<1>2. Chain(q) \subseteq Chain(q)'
  BY <1>1, ChainKept DEF ChainInv, RootFree
<1>3. q \in Chain(q)
  BY ChainBegins
<1> QED
  BY <1>1, <1>2, <1>3 DEF RootFree, Live

-----------------------------------------------------------------------------
(* The shapes of the steps, by what they do to the links.                  *)

Chained == ChildrenLive /\ OneParent /\ RootsFree /\ OneHandle

(* No struct is taken or freed and no link set, but for a current chunk    *)
(* that clear or reset moves back to its root.                             *)
LEMMA ChainsQuiet ==
    ASSUME ChainInv, TypeOK',
           \A x \in Chunk : /\ chunk'[x].live = chunk[x].live
                            /\ chunk'[x].child = chunk[x].child
                            /\ chunk'[x].root = chunk[x].root
                            /\ chunk'[x].parent = chunk[x].parent
                            /\ chunk'[x].current \in {chunk[x].current, x},
           held' \subseteq held, \A s \in held' : handle'[s] = handle[s]
    PROVE  Chained'
<1>1. ChildrenLive'
  <2>1. \A x \in Chunk : chunk[x].child \in Chunk \cup {NIL}
    BY DEF ChainInv, TypeOK, ChunkType
  <2> QED
    BY <2>1 DEF ChainInv, ChildrenLive, Live
<1>2. OneParent'
  BY DEF ChainInv, OneParent, Live
<1>3. ASSUME NEW q \in Chunk, chunk'[q].live, NEW s \in held', handle'[s] = q
      PROVE  RootFree(q)'
  <2>1. q \in Chunk /\ q = handle[s] /\ s \in held
    BY <1>3 DEF ChainInv, TypeOK
  <2>2. Live(q)
    BY <1>3, <2>1 DEF Live
  <2>3. RootFree(q)
    BY <2>1, <2>2 DEF ChainInv, RootsFree
  <2>4. chunk'[q].root = q /\ chunk'[q].parent = NIL
    BY <2>3 DEF RootFree
  <2>5. \A x \in Chunk : chunk'[x].live => chunk'[x].child # q
    BY <2>3 DEF RootFree, Live
  <2> QED
    BY <2>1, <2>2, <2>4, <2>5, RootKept
<1>4. OneHandle'
  BY DEF ChainInv, OneHandle
<1> QED
  BY <1>1, <1>2, <1>3, <1>4 DEF Chained, RootsFree, Live

(* A struct c that nothing referred to becomes the root of a pool.         *)
LEMMA ChainsOpened ==
    ASSUME ChainInv, TypeOK', NEW s \in Slot, s \notin held,
           NEW c \in Chunk, Reusable(c),
           chunk'[c].live = TRUE, chunk'[c].child = NIL, chunk'[c].root = c,
           chunk'[c].parent = NIL, chunk'[c].current = c,
           \A x \in Chunk \ {c} : chunk'[x] = chunk[x],
           held' = held \cup {s}, handle' = [handle EXCEPT ![s] = c]
    PROVE  Chained'
<1>1. /\ ~Live(c) /\ \A t \in held : handle[t] # c
      /\ \A x \in Chunk : Live(x) => chunk[x].child # c
  BY DEF Reusable
<1>2. \A x \in Chunk : chunk[x].child \in Chunk \cup {NIL}
  BY DEF ChainInv, TypeOK, ChunkType
<1>3. ChildrenLive'
  BY <1>1, <1>2 DEF ChainInv, ChildrenLive, Live
<1>4. OneParent'
  BY <1>1 DEF ChainInv, OneParent, Live
<1>5. /\ handle'[s] = c
      /\ \A t \in held : handle'[t] = handle[t] /\ handle[t] \in Chunk \ {c}
  BY <1>1 DEF ChainInv, TypeOK
<1>6. OneHandle'
  BY <1>5 DEF ChainInv, OneHandle
<1>7. RootFree(c)'
  <2>1. c \in Chain(c)'
    BY DEF Chain
  <2>2. \A x \in Chunk : chunk'[x].live => chunk'[x].child # c
    BY <1>1, NilAssumption DEF Live
  <2> QED
    BY <2>1, <2>2 DEF RootFree, Live
<1>8. ASSUME NEW q \in Chunk, chunk'[q].live, NEW t \in held, handle'[t] = q
      PROVE  RootFree(q)'
  <2>1. q \in Chunk \ {c} /\ q = handle[t]
    BY <1>5, <1>8
  <2>2. Live(q)
    BY <1>8, <2>1 DEF Live
  <2>3. RootFree(q)
    BY <2>1, <2>2 DEF ChainInv, RootsFree
  <2>4. \A x \in Chunk : Live(x) => x # c
    BY <1>1
  <2>5. \A x \in Chunk : chunk'[x].live => chunk'[x].child # q
    BY <2>3, NilAssumption DEF RootFree, Live
  <2>6. chunk'[q] = chunk[q]
    BY <2>1
  <2>7. \A x \in Chunk : Live(x) => chunk'[x].child = chunk[x].child
    BY <2>4
  <2> QED
    BY <2>1, <2>2, <2>3, <2>5, <2>6, <2>7, RootKept DEF RootFree
<1>9. RootsFree'
  BY <1>5, <1>7, <1>8 DEF RootsFree, Live
<1> QED
  BY <1>3, <1>4, <1>6, <1>9 DEF Chained, RootsFree, Live

(* What linking c behind the current chunk cur of pool p does to links.    *)
LinksBehind(p, cur, c) ==
    /\ chunk'[c].live = TRUE /\ chunk'[c].child = NIL /\ chunk'[c].root = p
    /\ \A x \in Chunk \ {c} :
          /\ chunk'[x].live = chunk[x].live
          /\ chunk'[x].child = IF x = cur THEN c ELSE chunk[x].child
          /\ chunk'[x].root = chunk[x].root
          /\ chunk'[x].parent = chunk[x].parent
          /\ chunk'[x].current = IF x = p THEN c ELSE chunk[x].current

(* A struct c that nothing referred to is linked behind the current chunk  *)
(* of an open pool p and made current.                                     *)
LEMMA ChainsGrown ==
    ASSUME ChainInv, TypeOK', NEW p \in Chunk, Live(p), \E s \in held : handle[s] = p,
           NEW cur \in Chunk, cur = chunk[p].current,
           NEW c \in Chunk, Reusable(c), LinksBehind(p, cur, c),
           held' = held, handle' = handle
    PROVE  Chained'
<1>0. /\ chunk'[c].live = TRUE /\ chunk'[c].child = NIL /\ chunk'[c].root = p
      /\ \A x \in Chunk \ {c} :
            /\ chunk'[x].live = chunk[x].live
            /\ chunk'[x].child = IF x = cur THEN c ELSE chunk[x].child
            /\ chunk'[x].root = chunk[x].root
            /\ chunk'[x].parent = chunk[x].parent
            /\ chunk'[x].current = IF x = p THEN c ELSE chunk[x].current
  BY DEF LinksBehind
<1>1. /\ ~Live(c) /\ \A t \in held : handle[t] # c
      /\ \A x \in Chunk : Live(x) => chunk[x].child # c
  BY DEF Reusable
<1>2. \A x \in Chunk : chunk[x].child \in Chunk \cup {NIL}
  BY DEF ChainInv, TypeOK, ChunkType
<1>3. RootFree(p) /\ cur \in Chain(p)
  BY DEF ChainInv, RootsFree, RootFree
<1>4. Live(cur) /\ chunk[cur].root = p /\ cur # c /\ p # c
  BY <1>1, <1>3, ChainLives DEF ChainInv, RootFree
<1>5. ChildrenLive'
  <2>1. ASSUME NEW x \in Chunk, ~chunk'[x].live PROVE chunk'[x].child = NIL
    BY <1>0, <1>4, <2>1 DEF ChainInv, ChildrenLive, Live
  <2>2. ASSUME NEW x \in Chunk, chunk'[x].live, chunk'[x].child # NIL
        PROVE  /\ chunk'[chunk'[x].child].live
               /\ chunk'[chunk'[x].child].root = chunk'[x].root
    <3>1. CASE x = cur
      BY <1>0, <1>4, <3>1
    <3>2. CASE x # cur
      <4>1. x # c /\ Live(x) /\ chunk'[x].child = chunk[x].child
        BY <1>0, <2>2, <3>2 DEF Live
      <4>2. chunk[x].child \in Chunk \ {c}
        BY <1>1, <1>2, <2>2, <4>1
      <4> QED
        BY <1>0, <2>2, <4>1, <4>2 DEF ChainInv, ChildrenLive, Live
    <3> QED
      BY <3>1, <3>2
  <2> QED
    BY <1>0, <2>1, <2>2 DEF ChildrenLive, Live
<1>6. OneParent'
  BY <1>0, <1>1, <1>4 DEF ChainInv, OneParent, Live
<1>7. RootFree(p)'
  <2>1. c \in Chain(p)'
    <3> SUFFICES ASSUME NEW S \in SUBSET Chunk, p \in S, ChildClosed(S)', c \notin S
                 PROVE  FALSE
      BY DEF Chain
    <3>1. cur \notin S
      BY <1>0, <1>4, NilAssumption DEF ChildClosed
    <3>2. ChildClosed(S)
      BY <1>0, <3>1 DEF ChildClosed
    <3> QED
      BY <1>3, <3>1, <3>2, ChainLeast
  <2>2. \A x \in Chunk : chunk'[x].live => chunk'[x].child # p
    BY <1>0, <1>3, <1>4, NilAssumption DEF RootFree, Live
  <2> QED
    BY <1>0, <1>3, <1>4, <2>1, <2>2 DEF RootFree, Live
<1>8. ASSUME NEW q \in Chunk, chunk'[q].live, NEW t \in held, handle'[t] = q
      PROVE  RootFree(q)'
  <2>1. q \in Chunk \ {c} /\ q = handle[t]
    BY <1>1, <1>8 DEF ChainInv, TypeOK
  <2>2. CASE q = p
    BY <1>7, <2>1, <2>2
  <2>3. CASE q # p
    <3>1. Live(q)
      BY <1>0, <1>8, <2>1 DEF Live
    <3>2. RootFree(q)
      BY <1>0, <2>1, <3>1 DEF ChainInv, RootsFree
    <3>3. \A x \in Chunk : Live(x) /\ chunk[x].root = q => chunk'[x].child = chunk[x].child
      BY <1>0, <1>1, <1>4, <2>3
    <3>4. \A x \in Chunk : chunk'[x].live => chunk'[x].child # q
      BY <1>0, <2>1, <3>2, NilAssumption DEF RootFree, Live
    <3>5. /\ chunk'[q].root = q /\ chunk'[q].parent = NIL
          /\ chunk'[q].current = chunk[q].current
      BY <1>0, <2>1, <2>3, <3>2 DEF RootFree
    <3> QED
      BY <1>0, <2>1, <3>1, <3>3, <3>4, <3>5, RootKept
  <2> QED
    BY <2>2, <2>3
<1>9. OneHandle'
  BY <1>0 DEF ChainInv, OneHandle
<1> QED
  BY <1>0, <1>5, <1>6, <1>8, <1>9 DEF Chained, RootsFree, Live

(* A failed growth forgets what was linked behind the current chunk.       *)
LEMMA ChainsCut ==
    ASSUME ChainInv, TypeOK', NEW s \in held, NEW p \in Chunk, p = handle[s], Live(p),
           NEW cur \in Chunk, cur = chunk[p].current,
           \A x \in Chunk :
              /\ chunk'[x].live = chunk[x].live
              /\ chunk'[x].child = IF x = cur THEN NIL ELSE chunk[x].child
              /\ chunk'[x].root = chunk[x].root
              /\ chunk'[x].parent = chunk[x].parent
              /\ chunk'[x].current = chunk[x].current,
           held' = held, handle' = handle
    PROVE  Chained'
<1>1. \A x \in Chunk : chunk[x].child \in Chunk \cup {NIL}
  BY DEF ChainInv, TypeOK, ChunkType
<1>2. RootFree(p) /\ cur \in Chain(p)
  BY DEF ChainInv, RootsFree, RootFree
<1>3. Live(cur) /\ chunk[cur].root = p
  BY <1>2, ChainLives DEF ChainInv, RootFree
<1>4. ChildrenLive'
  BY <1>1 DEF ChainInv, ChildrenLive, Live
<1>5. OneParent'
  BY DEF ChainInv, OneParent, Live
<1>6. RootFree(p)'
  <2>1. cur \in Chain(p)'
    <3> SUFFICES ASSUME NEW S \in SUBSET Chunk, p \in S, ChildClosed(S)', cur \notin S
                 PROVE  FALSE
      BY DEF Chain
    <3>1. ChildClosed(S)
      BY DEF ChildClosed
    <3> QED
      BY <1>2, <3>1, ChainLeast
  <2>2. \A x \in Chunk : chunk'[x].live => chunk'[x].child # p
    BY <1>2, NilAssumption DEF RootFree, Live
  <2> QED
    BY <1>2, <2>1, <2>2 DEF RootFree, Live
<1>7. ASSUME NEW q \in Chunk, chunk'[q].live, NEW t \in held, handle'[t] = q
      PROVE  RootFree(q)'
  <2>1. q \in Chunk /\ q = handle[t]
    BY <1>7 DEF ChainInv, TypeOK
  <2>2. CASE q = p
    BY <1>6, <2>1, <2>2
  <2>3. CASE q # p
    <3>1. Live(q)
      BY <1>7, <2>1 DEF Live
    <3>2. RootFree(q)
      BY <2>1, <3>1 DEF ChainInv, RootsFree
    <3>3. \A x \in Chunk : Live(x) /\ chunk[x].root = q => chunk'[x].child = chunk[x].child
      BY <1>3, <2>3
    <3>4. \A x \in Chunk : chunk'[x].live => chunk'[x].child # q
      BY <2>1, <3>2, NilAssumption DEF RootFree, Live
    <3>5. /\ chunk'[q].root = q /\ chunk'[q].parent = NIL
          /\ chunk'[q].current = chunk[q].current
      BY <3>2 DEF RootFree
    <3> QED
      BY <2>1, <3>1, <3>3, <3>4, <3>5, RootKept
  <2> QED
    BY <2>2, <2>3
<1>8. OneHandle'
  BY DEF ChainInv, OneHandle
<1> QED
  BY <1>4, <1>5, <1>7, <1>8 DEF Chained, RootsFree, Live

(* Structs of pool p, its root among them, are freed, and nothing that     *)
(* stays points to them.                                                   *)
LEMMA ChainsReleased ==
    ASSUME ChainInv, TypeOK', NEW p \in Chunk, NEW gone \in SUBSET Chunk, p \in gone,
           \A x \in gone : Live(x) /\ chunk[x].root = p,
           \A x \in gone : chunk'[x].live = FALSE /\ chunk'[x].child = NIL,
           \A x \in Chunk \ gone : Live(x) => chunk[x].child \notin gone,
           \A x \in Chunk \ gone : /\ chunk'[x].live = chunk[x].live
                                   /\ chunk'[x].child = chunk[x].child
                                   /\ chunk'[x].root = chunk[x].root
                                   /\ chunk'[x].parent = chunk[x].parent
                                   /\ chunk'[x].current = chunk[x].current,
           held' \subseteq held, handle' = handle
    PROVE  Chained'
<1>1. \A x \in Chunk : chunk[x].child \in Chunk \cup {NIL}
  BY DEF ChainInv, TypeOK, ChunkType
<1>2. ChildrenLive'
  BY <1>1 DEF ChainInv, ChildrenLive, Live
<1>3. OneParent'
  BY DEF ChainInv, OneParent, Live
<1>4. ASSUME NEW q \in Chunk, chunk'[q].live, NEW t \in held', handle'[t] = q
      PROVE  RootFree(q)'
  <2>1. q \in Chunk /\ q = handle[t] /\ t \in held
    BY <1>4 DEF ChainInv, TypeOK
  <2>2. q \notin gone /\ Live(q) /\ q # p
    BY <1>4, <2>1 DEF Live
  <2>3. RootFree(q)
    BY <2>1, <2>2 DEF ChainInv, RootsFree
  <2>4. \A x \in Chunk : Live(x) /\ chunk[x].root = q => chunk'[x].child = chunk[x].child
    BY <2>2
  <2>5. \A x \in Chunk : chunk'[x].live => chunk'[x].child # q
    BY <2>3 DEF RootFree, Live
  <2>6. /\ chunk'[q].root = q /\ chunk'[q].parent = NIL
        /\ chunk'[q].current = chunk[q].current
    BY <2>2, <2>3 DEF RootFree
  <2> QED
    BY <2>1, <2>2, <2>4, <2>5, <2>6, RootKept
<1>5. OneHandle'
  BY DEF ChainInv, OneHandle
<1> QED
  BY <1>2, <1>3, <1>4, <1>5 DEF Chained, RootsFree, Live

(* The root src becomes the first child of the root dest.                  *)
LEMMA ChainsMerged ==
    ASSUME ChainInv, TypeOK', NEW d \in held, NEW s \in held, d # s,
           NEW dest \in Chunk, NEW src \in Chunk, dest = handle[d], src = handle[s],
           Live(dest), Live(src),
           \A x \in Chunk :
              /\ chunk'[x].live = chunk[x].live
              /\ chunk'[x].child = IF x = src THEN chunk[dest].child
                                   ELSE IF x = dest THEN src ELSE chunk[x].child
              /\ chunk'[x].root = IF chunk[x].root = src THEN dest ELSE chunk[x].root
              /\ x # src => chunk'[x].parent = chunk[x].parent
              /\ chunk'[x].current = chunk[x].current,
           held' = held \ {s}, handle' = handle
    PROVE  Chained'
<1>1. \A x \in Chunk : chunk[x].child \in Chunk \cup {NIL}
  BY DEF ChainInv, TypeOK, ChunkType
<1>2. RootFree(dest) /\ RootFree(src) /\ dest # src
  BY DEF ChainInv, RootsFree, OneHandle
<1>3. chunk[dest].root = dest /\ chunk[src].root = src
  BY <1>2 DEF RootFree
<1>4. ChildrenLive'
  BY <1>1, <1>2, <1>3 DEF ChainInv, ChildrenLive, Live
<1>5. OneParent'
  <2>1. \A x \in Chunk : Live(x) => chunk[x].child # src
    BY <1>2 DEF RootFree
  <2>2. \A x \in Chunk : Live(x) /\ x # dest /\ chunk[x].child # NIL
                            => chunk[x].child # chunk[dest].child
    BY DEF ChainInv, OneParent
  <2> QED
    BY <1>2, <2>1, <2>2 DEF ChainInv, OneParent, Live
<1>6. RootFree(dest)'
  <2>1. chunk[dest].current \in Chain(dest)'
    <3> SUFFICES ASSUME NEW S \in SUBSET Chunk, dest \in S, ChildClosed(S)'
                 PROVE  chunk[dest].current \in S
      BY <1>2, ChainBegins DEF Chain, RootFree
    <3> DEFINE T == {x \in S : Live(x) /\ chunk[x].root = dest}
    <3>1. src \in S /\ (chunk[dest].child # NIL => chunk[dest].child \in S)
      BY <1>2, NilAssumption DEF ChildClosed
    <3>2. ChildClosed(T)
      <4> SUFFICES ASSUME NEW x \in T, chunk[x].child # NIL PROVE chunk[x].child \in T
        BY DEF ChildClosed
      <4>1. chunk[x].child \in S
        BY <1>2, <1>3, <3>1 DEF ChildClosed
      <4> QED
        BY <4>1 DEF ChainInv, ChildrenLive
    <3>3. dest \in T /\ T \in SUBSET Chunk
      BY <1>3
    <3>4. Chain(dest) \subseteq T
      BY <3>2, <3>3, ChainLeast
    <3> QED
      BY <1>2, <3>4 DEF RootFree
  <2>2. \A x \in Chunk : chunk'[x].live => chunk'[x].child # dest
    BY <1>2 DEF RootFree, Live
  <2> QED
    BY <1>2, <1>3, <2>1, <2>2 DEF RootFree, Live
<1>7. ASSUME NEW q \in Chunk, chunk'[q].live, NEW t \in held', handle'[t] = q
      PROVE  RootFree(q)'
  <2>1. q \in Chunk \ {src} /\ q = handle[t] /\ t \in held
    BY <1>7 DEF ChainInv, TypeOK, OneHandle
  <2>2. CASE q = dest
    BY <1>6, <2>1, <2>2
  <2>3. CASE q # dest
    <3>1. Live(q)
      BY <1>7, <2>1 DEF Live
    <3>2. RootFree(q)
      BY <2>1, <3>1 DEF ChainInv, RootsFree
    <3>3. \A x \in Chunk : Live(x) /\ chunk[x].root = q => chunk'[x].child = chunk[x].child
      BY <1>3, <2>1, <2>3
    <3>4. \A x \in Chunk : chunk'[x].live => chunk'[x].child # q
      BY <2>1, <3>2 DEF RootFree, Live
    <3>5. /\ chunk'[q].root = q /\ chunk'[q].parent = NIL
          /\ chunk'[q].current = chunk[q].current
      BY <2>1, <3>2 DEF RootFree
    <3> QED
      BY <2>1, <3>1, <3>3, <3>4, <3>5, RootKept
  <2> QED
    BY <2>2, <2>3
<1>8. OneHandle'
  BY DEF ChainInv, OneHandle
<1> QED
  BY <1>4, <1>5, <1>7, <1>8 DEF Chained, RootsFree, Live

-----------------------------------------------------------------------------
(* Sizes: rounding up either grows a size or wraps to exactly 0, which     *)
(* malloc refuses.                                                         *)

LEMMA MultipleGap ==
    ASSUME NEW a \in Nat \ {0}, NEW q \in Int, NEW k \in Int,
           a * k <= a * q, a * q < a * k + a
    PROVE  q = k
<1>1. ASSUME q < k PROVE FALSE
  <2>1. PICK d \in Nat : k = q + 1 + d
    <3>1. k - q - 1 \in Nat /\ k = q + 1 + (k - q - 1)
      BY <1>1
    <3> QED
      BY <3>1
  <2>2. a * k = a * q + a + a * d /\ a * d >= 0
    BY <2>1
  <2> QED
    BY <2>2
<1>2. ASSUME q > k PROVE FALSE
  <2>1. PICK d \in Nat : q = k + 1 + d
    <3>1. q - k - 1 \in Nat /\ q = k + 1 + (q - k - 1)
      BY <1>2
    <3> QED
      BY <3>1
  <2>2. a * q = a * k + a + a * d /\ a * d >= 0
    BY <2>1
  <2> QED
    BY <2>2
<1> QED
  BY <1>1, <1>2

LEMMA AlignUpMultiple ==
    ASSUME NEW n \in Nat
    PROVE  \E q \in Int : AlignUp(n) = AlignSize * q
<1>1. PICK a \in Nat \ {0} : a = AlignSize
  BY Consts
<1>2. PICK y \in Nat : y = n + (a - 1)
  OBVIOUS
<1>3. AlignUp(n) = y - (y % a)
  BY <1>1, <1>2, Consts DEF AlignUp
<1>4. y \div a \in Int /\ y - (y % a) = a * (y \div a)
  OBVIOUS
<1> QED
  BY <1>1, <1>3, <1>4

LEMMA SizeModMultiple == \E k \in Int : SizeMod = AlignSize * k
<1>1. PICK a \in Nat \ {0}, m \in Nat : a = AlignSize /\ m = SizeMod
  BY Consts
<1>2. m % a = 0
  BY <1>1, SizeAssumption
<1>3. m \div a \in Int /\ m = a * (m \div a) + (m % a)
  OBVIOUS
<1>4. m = a * (m \div a)
  BY <1>2, <1>3
<1> QED
  BY <1>1, <1>3, <1>4

LEMMA MemAlignGrowsOrZero ==
    ASSUME NEW n \in 0 .. SizeMod - 1
    PROVE  n <= MemAlign(n) \/ MemAlign(n) = 0
<1>1. /\ AlignUp(n) \in Nat
      /\ n <= AlignUp(n) /\ AlignUp(n) <= n + AlignSize - 1
  BY AlignUpBounds
<1>2. CASE AlignUp(n) < SizeMod
  BY <1>1, <1>2, Consts DEF MemAlign, Wrap
<1>3. CASE AlignUp(n) >= SizeMod
  <2>1. PICK q \in Int : AlignUp(n) = AlignSize * q
    BY AlignUpMultiple
  <2>2. PICK k \in Int : SizeMod = AlignSize * k
    BY SizeModMultiple
  <2>3. AlignUp(n) < SizeMod + AlignSize
    BY <1>1, Consts
  <2>4. q = k
    BY <1>3, <2>1, <2>2, <2>3, MultipleGap, Consts
  <2>5. AlignUp(n) = SizeMod
    BY <2>1, <2>2, <2>4
  <2> QED
    BY <2>5, Consts DEF MemAlign, Wrap
<1> QED
  BY <1>1, <1>2, <1>3, Consts

LEMMA GrowthHoldsRequest ==
    ASSUME TypeOK, NEW p \in Chunk, NEW n \in 0 .. SizeMod - 1, "ok" \in Growths(p, n)
    PROVE  n <= GrowthSize(p, n) /\ GrowthSize(p, n) \in Nat
<1>1. chunk[p].size \in 0 .. SizeMod - 1
  BY DEF TypeOK, ChunkType
<1> DEFINE m == IF "AUTOSIZE" \in chunk[p].cf \/ n > chunk[p].size
                THEN n ELSE chunk[p].size
<1>2. PICK size \in 0 .. SizeMod - 1 : size = Larger(m, MinPoolSize)
  BY <1>1, Consts DEF Larger
<1>3. n <= size
  BY <1>1, <1>2, Consts DEF Larger
<1>4. GrowthSize(p, n) = MemAlign(size)
  BY <1>2 DEF GrowthSize, PoolBytes
<1>5. GrowthSize(p, n) \in 0 .. SizeMod - 1
  BY GrowthSizeType
<1>6. GrowthSize(p, n) # 0
  BY DEF Growths, NewOutcomes
<1> QED
  BY <1>2, <1>3, <1>4, <1>5, <1>6, MemAlignGrowsOrZero, Consts

-----------------------------------------------------------------------------
(* Every action keeps the chains.                                          *)

(* Every struct keeps its links.                                           *)
LinksSame ==
    \A x \in Chunk : /\ chunk'[x].live = chunk[x].live
                     /\ chunk'[x].child = chunk[x].child
                     /\ chunk'[x].root = chunk[x].root
                     /\ chunk'[x].current = chunk[x].current

LEMMA EndsKept ==
    ASSUME ChainInv,
           \A x \in Chunk : chunk'[x].live => /\ Live(x) /\ chunk'[x].end = chunk[x].end
                                              /\ chunk'[x].size = chunk[x].size
    PROVE  EndsSound'
BY DEF ChainInv, EndsSound, Live

LEMMA TakenLinks ==
    ASSUME NEW ch \in ChunkType, NEW k \in Kinds, NEW n
    PROVE  /\ Taken(ch, k, n).live = ch.live /\ Taken(ch, k, n).child = ch.child
           /\ Taken(ch, k, n).root = ch.root /\ Taken(ch, k, n).parent = ch.parent
           /\ Taken(ch, k, n).current = ch.current /\ Taken(ch, k, n).size = ch.size
           /\ Taken(ch, k, n).end = IF k = "n" THEN ch.end - n ELSE ch.end
BY DEF Taken, ChunkType, Kinds

LEMMA ChainsNewPool ==
    ASSUME ChainInv, TypeOK', NEW s \in Slot, NewPool(s)
    PROVE  Chained' /\ EndsSound'
<1>1. PICK n \in PoolSizes \ {0}, cf \in CfChoices, c \in Chunk :
          /\ Reusable(c)
          /\ chunk' = [chunk EXCEPT ![c] = NewChunk(c, PoolBytes(n), cf, NIL, c)]
          /\ handle' = [handle EXCEPT ![s] = c]
          /\ s \notin held /\ held' = held \cup {s}
  BY DEF NewPool
<1>2. PICK size \in Nat : size = PoolBytes(n)
  BY PoolBytesType, SizeAssumption
<1>3. /\ chunk'[c].live = TRUE /\ chunk'[c].size = size /\ chunk'[c].end = size
      /\ chunk'[c].current = c /\ chunk'[c].child = NIL
      /\ chunk'[c].parent = NIL /\ chunk'[c].root = c
  BY <1>1, <1>2 DEF NewChunk, ChainInv, TypeOK
<1>4. \A x \in Chunk \ {c} : chunk'[x] = chunk[x]
  BY <1>1 DEF ChainInv, TypeOK
<1>5. EndsSound'
  BY <1>3, <1>4 DEF ChainInv, EndsSound, Live
<1> QED
  BY <1>1, <1>3, <1>4, <1>5, ChainsOpened

(* free blanks the structs of the chain and leaves the rest as it is: the  *)
(* root of an open pool has no parent to be unlinked from.                 *)
LEMMA FreeLinks ==
    ASSUME ChainInv, NEW s \in Slot, Free(s)
    PROVE  \E p \in Chunk :
              /\ p = handle[s] /\ s \in held /\ Live(p) /\ RootFree(p)
              /\ \A x \in Chain(p) : chunk'[x].live = FALSE /\ chunk'[x].child = NIL
              /\ \A x \in Chunk \ Chain(p) : chunk'[x] = chunk[x]
<1>1. PICK p \in Chunk : p = handle[s] /\ s \in held /\ Live(p)
  BY DEF Free, On, ChainInv, TypeOK
<1>2. RootFree(p)
  BY <1>1 DEF ChainInv, RootsFree
<1>3. chunk' = [c \in Chunk |->
          IF c \in Chain(p) THEN BlankChunk
          ELSE IF c = chunk[p].parent THEN [chunk[c] EXCEPT !.child = NIL]
          ELSE chunk[c]]
  BY <1>1 DEF Free
<1>4. \A x \in Chain(p) : chunk'[x].live = FALSE /\ chunk'[x].child = NIL
  BY <1>1, <1>3, ChainBegins DEF BlankChunk
<1>5. \A x \in Chunk \ Chain(p) : chunk'[x] = chunk[x]
  BY <1>2, <1>3, NilAssumption DEF RootFree
<1> QED
  BY <1>1, <1>2, <1>4, <1>5

LEMMA ChainsFree ==
    ASSUME ChainInv, TypeOK', NEW s \in Slot, Free(s)
    PROVE  Chained' /\ EndsSound'
<1>1. PICK p \in Chunk :
          /\ p = handle[s] /\ s \in held /\ Live(p) /\ RootFree(p)
          /\ \A x \in Chain(p) : chunk'[x].live = FALSE /\ chunk'[x].child = NIL
          /\ \A x \in Chunk \ Chain(p) : chunk'[x] = chunk[x]
  BY FreeLinks
<1>2. PICK gone \in SUBSET Chunk : gone = Chain(p)
  BY DEF Chain
<1>3. held' \subseteq held /\ handle' = handle
  BY DEF Free
<1>4. p \in gone /\ \A x \in gone : Live(x) /\ chunk[x].root = p
  BY <1>1, <1>2, ChainBegins, ChainLives DEF ChainInv, RootFree
<1>5. ASSUME NEW x \in Chunk \ gone, Live(x)
      PROVE  chunk[x].child \notin gone
  <2> SUFFICES ASSUME NEW y \in gone, chunk[x].child = y PROVE FALSE
    OBVIOUS
  <2>1. y # p
    BY <1>1, <1>5 DEF RootFree
  <2>2. PICK z \in gone : chunk[z].child = y
    BY <1>2, <2>1, ChainParent DEF ChainInv
  <2>3. x = z
    BY <1>4, <1>5, <2>2, NilAssumption DEF ChainInv, OneParent
  <2> QED
    BY <2>3
<1>6. /\ \A x \in gone : chunk'[x].live = FALSE /\ chunk'[x].child = NIL
      /\ \A x \in Chunk \ gone : chunk'[x] = chunk[x]
  BY <1>1, <1>2
<1>7. EndsSound'
  BY <1>6, EndsKept DEF Live
<1>8. Chained'
  BY <1>3, <1>4, <1>5, <1>6, ChainsReleased
<1> QED
  BY <1>7, <1>8

LEMMA ChainsClear ==
    ASSUME ChainInv, TypeOK', NEW s \in Slot, Clear(s) \/ Reset(s)
    PROVE  Chained' /\ EndsSound' /\ \A x \in Chunk : chunk'[x].live = chunk[x].live
<1>1. PICK p \in Chunk : p = handle[s]
  BY DEF Clear, Reset, On, ChainInv, TypeOK
<1>2. PICK rewound :
          /\ rewound = [c \in Chunk |->
                 IF c \in Chain(p)
                 THEN [chunk[c] EXCEPT !.pos = 0, !.zeroed = TRUE,
                                       !.lo = 0, !.hi = chunk[c].size]
                 ELSE chunk[c]]
             \/ rewound = [c \in Chunk |->
                 IF c \in Chain(p) THEN Rewound(chunk[c]) ELSE chunk[c]]
          /\ chunk' = [rewound EXCEPT ![p].current = p]
  BY <1>1 DEF Clear, Reset
<1>3. ASSUME NEW c \in Chunk
      PROVE  /\ rewound[c].live = chunk[c].live
             /\ rewound[c].child = chunk[c].child
             /\ rewound[c].root = chunk[c].root
             /\ rewound[c].parent = chunk[c].parent
             /\ rewound[c].current = chunk[c].current
             /\ rewound[c].end = chunk[c].end
             /\ rewound[c].size = chunk[c].size
  <2>1. chunk[c] \in ChunkType
    BY DEF ChainInv, TypeOK
  <2>2. CASE rewound[c] = chunk[c]
    BY <2>2
  <2>3. CASE rewound[c] = Rewound(chunk[c])
    BY <2>1, <2>3 DEF Rewound, ChunkType
  <2>4. CASE rewound[c] = [chunk[c] EXCEPT !.pos = 0, !.zeroed = TRUE,
                                           !.lo = 0, !.hi = chunk[c].size]
    BY <2>1, <2>4 DEF ChunkType
  <2> QED
    BY <1>2, <2>2, <2>3, <2>4
<1>4. rewound \in [Chunk -> ChunkType]
  <2>1. \A c \in Chunk : chunk[c] \in ChunkType
    BY DEF ChainInv, TypeOK
  <2> QED
    BY <1>2, <2>1, ClearedType, RewoundType
<1>5. ASSUME NEW c \in Chunk
      PROVE  /\ chunk'[c].live = rewound[c].live
             /\ chunk'[c].child = rewound[c].child
             /\ chunk'[c].root = rewound[c].root
             /\ chunk'[c].parent = rewound[c].parent
             /\ chunk'[c].current \in {rewound[c].current, c}
             /\ chunk'[c].end = rewound[c].end
             /\ chunk'[c].size = rewound[c].size
  BY <1>2, <1>4 DEF ChunkType
<1>6. held' = held /\ handle' = handle
  BY DEF Clear, Reset
<1>7. EndsSound'
  BY <1>3, <1>5, EndsKept DEF Live
<1>8. Chained'
  BY <1>3, <1>5, <1>6, ChainsQuiet
<1> QED
  BY <1>3, <1>5, <1>7, <1>8

LEMMA ChainsShrink ==
    ASSUME ChainInv, TypeOK', NEW s \in Slot, ShrinkRewinds(s)
    PROVE  Chained' /\ EndsSound'
<1>1. PICK p \in Chunk : p = handle[s] /\ s \in held /\ Live(p)
  BY DEF ShrinkRewinds, On, ChainInv, TypeOK
<1>2. RootFree(p)
  BY <1>1 DEF ChainInv, RootsFree
<1>3. PICK gone \in {{}, {p}} :
          chunk' = [c \in Chunk |->
             IF c \in gone THEN BlankChunk
             ELSE IF c \in Chain(p) THEN Rewound(chunk[c]) ELSE chunk[c]]
  BY <1>1 DEF ShrinkRewinds
<1>4. held' = held /\ handle' = handle
  BY DEF ShrinkRewinds
<1>5. \A x \in gone : chunk'[x].live = FALSE /\ chunk'[x].child = NIL
  BY <1>3 DEF BlankChunk
<1>6. ASSUME NEW x \in Chunk \ gone
      PROVE  /\ chunk'[x].live = chunk[x].live
             /\ chunk'[x].child = chunk[x].child
             /\ chunk'[x].root = chunk[x].root
             /\ chunk'[x].parent = chunk[x].parent
             /\ chunk'[x].current = chunk[x].current
             /\ chunk'[x].end = chunk[x].end
             /\ chunk'[x].size = chunk[x].size
  <2>1. chunk[x] \in ChunkType
    BY DEF ChainInv, TypeOK
  <2> QED
    BY <1>3, <2>1 DEF Rewound, ChunkType
<1>7. EndsSound'
  BY <1>5, <1>6, EndsKept DEF Live
<1>8. CASE gone = {}
  <2>1. \A x \in Chunk : x \in Chunk \ gone
    BY <1>8
  <2>2. Chained'
    BY <1>4, <1>6, <2>1, ChainsQuiet
  <2> QED
    BY <1>7, <2>2
<1>9. CASE gone = {p}
  <2>1. p \in gone /\ gone \in SUBSET Chunk /\ \A x \in gone : Live(x) /\ chunk[x].root = p
    BY <1>1, <1>2, <1>9 DEF RootFree
  <2>2. \A x \in Chunk \ gone : Live(x) => chunk[x].child \notin gone
    BY <1>2, <1>9 DEF RootFree
  <2>3. Chained'
    BY <1>4, <1>5, <1>6, <2>1, <2>2, ChainsReleased
  <2> QED
    BY <1>7, <2>3
<1> QED
  BY <1>8, <1>9

LEMMA ChainsMerge ==
    ASSUME ChainInv, TypeOK', NEW d \in Slot, NEW s \in Slot, Merge(d, s)
    PROVE  Chained' /\ EndsSound' /\ \A x \in Chunk : chunk'[x].live = chunk[x].live
<1>1. PICK dest \in Chunk, src \in Chunk :
          /\ dest = handle[d] /\ src = handle[s] /\ d \in held /\ s \in held
          /\ Live(dest) /\ Live(src) /\ d # s
  BY DEF Merge, On, ChainInv, TypeOK
<1>2. chunk[src].root = src
  BY <1>1 DEF ChainInv, RootsFree, RootFree
<1>3. /\ chunk' = [c \in Chunk |->
             IF c = src THEN [chunk[c] EXCEPT !.parent = dest,
                                 !.child = chunk[dest].child, !.root = dest]
             ELSE IF c = dest THEN [chunk[c] EXCEPT !.child = src]
             ELSE IF chunk[c].root = src THEN [chunk[c] EXCEPT !.root = dest]
             ELSE chunk[c]]
      /\ held' = held \ {s} /\ handle' = handle
  BY <1>1 DEF Merge
<1>4. src # dest /\ chunk[dest].root = dest
  BY <1>1 DEF ChainInv, OneHandle, RootsFree, RootFree
<1>5. ASSUME NEW x \in Chunk
      PROVE  /\ chunk'[x].live = chunk[x].live
             /\ chunk'[x].child = IF x = src THEN chunk[dest].child
                                  ELSE IF x = dest THEN src ELSE chunk[x].child
             /\ chunk'[x].root = IF chunk[x].root = src THEN dest ELSE chunk[x].root
             /\ x # src => chunk'[x].parent = chunk[x].parent
             /\ chunk'[x].current = chunk[x].current
             /\ chunk'[x].end = chunk[x].end
             /\ chunk'[x].size = chunk[x].size
  <2>1. chunk[x] \in ChunkType
    BY DEF ChainInv, TypeOK
  <2> QED
    BY <1>2, <1>3, <1>4, <2>1 DEF ChunkType
<1>6. EndsSound'
  BY <1>5, EndsKept DEF Live
<1>7. held' = held \ {s} /\ handle' = handle
  BY <1>3
<1>8. Chained'
  BY <1>1, <1>5, <1>7, ChainsMerged
<1> QED
  BY <1>5, <1>6, <1>8

LEMMA ChainsAllocHere ==
    ASSUME ChainInv, TypeOK', NEW s \in Slot, NEW k \in Kinds, AllocHere(s, k)
    PROVE  Chained' /\ EndsSound' /\ LinksSame
<1>1. PICK p \in Chunk, r \in Requests :
          /\ Asks(s, k, p, r, Need(p, r))
          /\ ~Lacks(chunk[p].current, Need(p, r))
          /\ chunk' = [chunk EXCEPT ![chunk[p].current] = Taken(@, k, Need(p, r))]
  BY DEF AllocHere
<1>2. PICK n \in 0 .. SizeMod - 1 : n = Need(p, r)
  BY NeedType DEF ChainInv
<1>3. PICK c \in Chunk : c = chunk[p].current
  BY <1>1, AskedPool DEF ChainInv
<1>4. chunk[c].pos + n <= chunk[c].end /\ chunk[c].pos \in Nat /\ chunk[c].end \in Int
  BY <1>1, <1>2, <1>3, NotLacks DEF ChainInv, TypeOK, ChunkType
<1>5. ASSUME NEW x \in Chunk
      PROVE  /\ chunk'[x].live = chunk[x].live
             /\ chunk'[x].child = chunk[x].child
             /\ chunk'[x].root = chunk[x].root
             /\ chunk'[x].parent = chunk[x].parent
             /\ chunk'[x].current = chunk[x].current
             /\ chunk'[x].size = chunk[x].size
             /\ chunk'[x].end = IF x = c /\ k = "n" THEN chunk[x].end - n ELSE chunk[x].end
  <2>1. chunk'[x] = IF x = c THEN Taken(chunk[c], k, n) ELSE chunk[x]
    BY <1>1, <1>2, <1>3 DEF ChainInv, TypeOK
  <2>2. chunk[c] \in ChunkType
    BY DEF ChainInv, TypeOK
  <2> QED
    BY <2>1, <2>2, TakenLinks
<1>6. EndsSound'
  <2>1. ASSUME NEW x \in Chunk, chunk'[x].live
        PROVE  0 <= chunk'[x].end /\ chunk'[x].end <= chunk'[x].size
    <3>0. chunk[x].size \in Nat
      BY DEF ChainInv, TypeOK, ChunkType
    <3>1. 0 <= chunk[x].end /\ chunk[x].end <= chunk[x].size
      BY <1>5, <2>1 DEF ChainInv, EndsSound, Live
    <3>2. CASE x = c /\ k = "n"
      <4>1. 0 <= chunk[c].end - n /\ chunk[c].end - n <= chunk[c].size
        BY <1>4, <3>0, <3>1, <3>2
      <4> QED
        BY <1>5, <3>2, <4>1
    <3>3. CASE ~(x = c /\ k = "n")
      BY <1>5, <3>1, <3>3
    <3> QED
      BY <3>2, <3>3
  <2> QED
    BY <2>1 DEF EndsSound, Live
<1>7. held' = held /\ handle' = handle
  BY DEF AllocHere
<1>8. Chained'
  BY <1>5, <1>7, ChainsQuiet
<1>9. LinksSame
  BY <1>5 DEF LinksSame
<1> QED
  BY <1>6, <1>8, <1>9

(* What both calls that grow a pool do to its links.                       *)
LEMMA GrowLinks ==
    ASSUME ChainInv, NEW s \in Slot,
           (\E k \in Kinds : AllocGrow(s, k)) \/ RallocSpill(s)
    PROVE  \E p \in Chunk, c \in Chunk, cur \in Chunk :
              /\ p = handle[s] /\ s \in held /\ Live(p)
              /\ cur = chunk[p].current /\ Reusable(c) /\ LinksBehind(p, cur, c)
              /\ held' = held /\ handle' = handle
              /\ 0 <= chunk'[c].end /\ chunk'[c].end <= chunk'[c].size
              /\ \A x \in Chunk \ {c} : /\ chunk'[x].end = chunk[x].end
                                       /\ chunk'[x].size = chunk[x].size
<1>1. PICK p \in Chunk, r \in Requests, c \in Chunk :
          /\ p = handle[s] /\ s \in held /\ Live(p) /\ Reusable(c)
          /\ "ok" \in Growths(p, Need(p, r))
          /\ \/ \E k \in Kinds :
                   chunk' = [Grown(p, Need(p, r), c) EXCEPT ![c] = Taken(@, k, Need(p, r))]
             \/ chunk' = Spilled(p, Need(p, r), c)
  BY DEF AllocGrow, RallocSpill, Asks, Resizes, On
<1>2. PICK n \in 0 .. SizeMod - 1 : n = Need(p, r)
  BY NeedType DEF ChainInv
<1>3. PICK cur \in Chunk : cur = chunk[p].current
  BY <1>1 DEF ChainInv, CurrentsExist
<1>4. c # p /\ c # cur
  BY <1>1, <1>3, ReusableFresh DEF ChainInv
<1>5. PICK g : g = Grown(p, n, c)
  OBVIOUS
<1>6. GrowthOf(p, n, c, g) /\ g \in [Chunk -> ChunkType]
  BY <1>3, <1>4, <1>5, GrownChunks, GrownType DEF ChainInv
<1>7. PICK size \in Nat : size = GrowthSize(p, n) /\ n <= size
  BY <1>1, <1>2, GrowthHoldsRequest DEF ChainInv
<1>8. ASSUME NEW x \in Chunk
      PROVE  /\ chunk'[x].live = g[x].live
             /\ chunk'[x].child = g[x].child
             /\ chunk'[x].root = g[x].root
             /\ chunk'[x].parent = g[x].parent
             /\ chunk'[x].current = g[x].current
             /\ chunk'[x].size = g[x].size
             /\ chunk'[x].end = g[x].end \/ (x = c /\ chunk'[x].end = g[x].end - n)
  <2>0. g[c] \in ChunkType /\ g[p] \in ChunkType
    BY <1>6
  <2>1. CASE \E k \in Kinds : chunk' = [g EXCEPT ![c] = Taken(@, k, n)]
    <3>1. PICK k \in Kinds : chunk' = [g EXCEPT ![c] = Taken(@, k, n)]
      BY <2>1
    <3>2. chunk'[x] = IF x = c THEN Taken(g[c], k, n) ELSE g[x]
      BY <1>6, <3>1
    <3> QED
      BY <2>0, <3>2, TakenLinks
  <2>2. CASE chunk' = Spilled(p, n, c)
    <3>1. PICK pos, lo : chunk' = [g EXCEPT ![p].pos = pos, ![p].lo = lo]
      BY <1>5, <2>2 DEF Spilled
    <3> QED
      BY <1>6, <3>1 DEF ChunkType
  <2> QED
    BY <1>1, <1>2, <1>5, <2>1, <2>2
<1>9. 0 <= chunk'[c].end /\ chunk'[c].end <= chunk'[c].size
  <2>1. g[c].end = size /\ g[c].size = size
    BY <1>6, <1>7 DEF GrowthOf
  <2>2. 0 <= size - n /\ size - n <= size /\ 0 <= size /\ size <= size
    BY <1>7
  <2>3. chunk'[c].size = size /\ (chunk'[c].end = size \/ chunk'[c].end = size - n)
    BY <1>8, <2>1
  <2> QED
    BY <2>2, <2>3
<1>10. \A x \in Chunk \ {c} : /\ chunk'[x].end = chunk[x].end
                              /\ chunk'[x].size = chunk[x].size
  BY <1>6, <1>8 DEF GrowthOf
<1>11. held' = held /\ handle' = handle
  BY DEF AllocGrow, RallocSpill
<1>12. chunk'[c].live = TRUE /\ chunk'[c].child = NIL /\ chunk'[c].root = p
  BY <1>6, <1>8 DEF GrowthOf
<1>13. ASSUME NEW x \in Chunk \ {c}
       PROVE  /\ chunk'[x].live = chunk[x].live
              /\ chunk'[x].child = IF x = cur THEN c ELSE chunk[x].child
              /\ chunk'[x].root = chunk[x].root
              /\ chunk'[x].parent = chunk[x].parent
              /\ chunk'[x].current = IF x = p THEN c ELSE chunk[x].current
  BY <1>3, <1>4, <1>6, <1>8 DEF GrowthOf
<1>14. LinksBehind(p, cur, c)
  BY <1>12, <1>13 DEF LinksBehind
<1>15. Reusable(c) /\ p = handle[s] /\ s \in held /\ Live(p)
  BY <1>1
<1> QED
  BY <1>3, <1>9, <1>10, <1>11, <1>14, <1>15

LEMMA ChainsGrow ==
    ASSUME ChainInv, TypeOK', NEW s \in Slot,
           (\E k \in Kinds : AllocGrow(s, k)) \/ RallocSpill(s)
    PROVE  Chained' /\ EndsSound'
<1>1. PICK p \in Chunk, c \in Chunk, cur \in Chunk :
          /\ p = handle[s] /\ s \in held /\ Live(p)
          /\ cur = chunk[p].current /\ Reusable(c) /\ LinksBehind(p, cur, c)
          /\ held' = held /\ handle' = handle
          /\ 0 <= chunk'[c].end /\ chunk'[c].end <= chunk'[c].size
          /\ \A x \in Chunk \ {c} : /\ chunk'[x].end = chunk[x].end
                                   /\ chunk'[x].size = chunk[x].size
  BY GrowLinks
<1>2. \A x \in Chunk \ {c} : chunk'[x].live = chunk[x].live
  BY <1>1 DEF LinksBehind
<1>3. EndsSound'
  BY <1>1, <1>2 DEF ChainInv, EndsSound, Live
<1>4. \E t \in held : handle[t] = p
  BY <1>1
<1>5. Chained'
  BY <1>1, <1>4, ChainsGrown
<1> QED
  BY <1>3, <1>5

LEMMA ChainsDallocNoStruct ==
    ASSUME ChainInv, TypeOK', NEW s \in Slot, DallocNoStruct(s)
    PROVE  Chained' /\ EndsSound' /\ \A x \in Chunk : chunk'[x].live = chunk[x].live
<1>1. PICK p \in Chunk : /\ p = handle[s] /\ s \in held /\ Live(p)
                         /\ chunk' = Childless(p)
  BY DEF DallocNoStruct, Asks, On
<1>2. PICK cur \in Chunk : cur = chunk[p].current
  BY <1>1 DEF ChainInv, CurrentsExist
<1>3. held' = held /\ handle' = handle
  BY DEF DallocNoStruct
<1>4. ASSUME NEW x \in Chunk
      PROVE  /\ chunk'[x].live = chunk[x].live
             /\ chunk'[x].child = IF x = cur THEN NIL ELSE chunk[x].child
             /\ chunk'[x].root = chunk[x].root
             /\ chunk'[x].parent = chunk[x].parent
             /\ chunk'[x].current = chunk[x].current
             /\ chunk'[x].end = chunk[x].end
             /\ chunk'[x].size = chunk[x].size
  <2>1. chunk' = [chunk EXCEPT ![cur].child = NIL]
    BY <1>1, <1>2 DEF Childless
  <2>2. chunk[x] \in ChunkType /\ chunk[cur] \in ChunkType
    BY DEF ChainInv, TypeOK
  <2> QED
    BY <2>1, <2>2 DEF ChainInv, TypeOK, ChunkType
<1>5. EndsSound'
  BY <1>4, EndsKept DEF Live
<1>6. Chained'
  BY <1>1, <1>2, <1>3, <1>4, ChainsCut
<1> QED
  BY <1>4, <1>5, <1>6

LEMMA ChainsRalloc ==
    ASSUME ChainInv, TypeOK', NEW s \in Slot, RallocInPlace(s) \/ RallocMove(s)
    PROVE  Chained' /\ EndsSound' /\ LinksSame
<1>1. \/ \E c \in Chunk : \E pos, lo : chunk' = [chunk EXCEPT ![c].pos = pos, ![c].lo = lo]
      \/ \E c \in Chunk : \E n : chunk' = [chunk EXCEPT ![c] = Taken(@, "d", n)]
  BY DEF RallocInPlace, RallocMove
<1>2. ASSUME NEW x \in Chunk
      PROVE  /\ chunk'[x].live = chunk[x].live
             /\ chunk'[x].child = chunk[x].child
             /\ chunk'[x].root = chunk[x].root
             /\ chunk'[x].parent = chunk[x].parent
             /\ chunk'[x].current = chunk[x].current
             /\ chunk'[x].end = chunk[x].end
             /\ chunk'[x].size = chunk[x].size
  <2>0. chunk \in [Chunk -> ChunkType] /\ chunk[x] \in ChunkType
    BY DEF ChainInv, TypeOK
  <2>1. CASE \E c \in Chunk : \E pos, lo : chunk' = [chunk EXCEPT ![c].pos = pos, ![c].lo = lo]
    BY <2>0, <2>1 DEF ChunkType
  <2>2. CASE \E c \in Chunk : \E n : chunk' = [chunk EXCEPT ![c] = Taken(@, "d", n)]
    <3>0. PICK c \in Chunk : \E n : chunk' = [chunk EXCEPT ![c] = Taken(@, "d", n)]
      BY <2>2
    <3>1. PICK n : chunk' = [chunk EXCEPT ![c] = Taken(@, "d", n)]
      BY <3>0
    <3>2. chunk'[x] = IF x = c THEN Taken(chunk[x], "d", n) ELSE chunk[x]
      BY <2>0, <3>1
    <3> QED
      BY <2>0, <3>2, TakenLinks DEF Kinds
  <2> QED
    BY <1>1, <2>1, <2>2
<1>3. held' = held /\ handle' = handle
  BY DEF RallocInPlace, RallocMove
<1>4. EndsSound'
  BY <1>2, EndsKept DEF Live
<1>5. Chained'
  BY <1>2, <1>3, ChainsQuiet
<1>6. LinksSame
  BY <1>2 DEF LinksSame
<1> QED
  BY <1>4, <1>5, <1>6

-----------------------------------------------------------------------------
(* The invariant is inductive, with no condition on the client's calls.    *)

LEMMA ChainsInit == Init => ChainInv
<1> SUFFICES ASSUME Init PROVE ChainInv
  OBVIOUS
<1>1. \A c \in Chunk : ~chunk[c].live /\ chunk[c].child = NIL
  BY DEF Init, BlankChunk
<1>2. held = {}
  BY DEF Init
<1> QED
  BY <1>1, <1>2, TypeInit
  DEF ChainInv, ChildrenLive, OneParent, RootsFree, OneHandle, EndsSound, Live

LEMMA ChainsSame ==
    ASSUME ChainInv, TypeOK', chunk' = chunk,
           held' \subseteq held, \A s \in held' : handle'[s] = handle[s]
    PROVE  Chained' /\ EndsSound'
<1>1. Chained'
  BY ChainsQuiet
<1>2. EndsSound'
  BY EndsKept DEF Live
<1> QED
  BY <1>1, <1>2

LEMMA ChainsNext ==
    ASSUME ChainInv, [Next]_vars
    PROVE  ChainInv'
<1>1. TypeOK' /\ CurrentsExist'
  BY TypeNext DEF ChainInv
<1> SUFFICES Chained' /\ EndsSound'
  BY <1>1 DEF ChainInv, Chained
<1>2. ASSUME NEW f, Crashes(f) PROVE Chained' /\ EndsSound'
  BY <1>1, <1>2, ChainsSame DEF Crashes
<1>3. ASSUME NEW f, Fails(f) PROVE Chained' /\ EndsSound'
  BY <1>1, <1>3, ChainsSame DEF Fails
<1>4. ASSUME NEW s \in Slot, NewRejected(s) \/ NewCrash(s) \/ FreeCrash(s)
                 \/ UseFreed(s) \/ ShrinkCrash(s) \/ RallocCrash(s)
                 \/ RallocRefused(s) \/ DestroyCrash
      PROVE  Chained' /\ EndsSound'
  <2>1. (\E f : Crashes(f)) \/ (\E f : Fails(f))
    BY <1>4 DEF NewRejected, NewCrash, FreeCrash, UseFreed, ShrinkCrash,
                RallocCrash, RallocRefused, DestroyCrash
  <2> QED
    BY <1>2, <1>3, <2>1
<1>5. ASSUME NEW s \in Slot, NEW k \in Kinds, AllocFull(s, k) \/ AllocCrash(s, k)
      PROVE  Chained' /\ EndsSound'
  <2>1. (\E f : Crashes(f)) \/ (\E f : Fails(f))
    BY <1>5 DEF AllocFull, AllocCrash
  <2> QED
    BY <1>2, <1>3, <2>1
<1>6. ASSUME NEW s \in Slot, Info(s) \/ ShrinkNothing(s) \/ RallocKeep(s)
      PROVE  Chained' /\ EndsSound'
  BY <1>1, <1>6, ChainsSame DEF Info, ShrinkNothing, RallocKeep
<1>7. ASSUME NEW s \in Slot, NewNoStruct(s) PROVE Chained' /\ EndsSound'
  <2>1. \A t \in held : handle'[t] = handle[t]
    BY <1>7 DEF NewNoStruct, ChainInv, TypeOK
  <2> QED
    BY <1>1, <1>7, <2>1, ChainsSame DEF NewNoStruct
<1>8. CASE Destroy
  BY <1>1, <1>8, ChainsSame DEF Destroy
<1>9. CASE DestroyCrash
  BY <1>2, <1>9 DEF DestroyCrash
<1>10. CASE UNCHANGED vars
  BY <1>1, <1>10, ChainsSame DEF vars
<1>11. ASSUME NEW s \in Slot, NewPool(s) PROVE Chained' /\ EndsSound'
  BY <1>1, <1>11, ChainsNewPool
<1>12. ASSUME NEW s \in Slot, Free(s) PROVE Chained' /\ EndsSound'
  BY <1>1, <1>12, ChainsFree
<1>13. ASSUME NEW s \in Slot, Clear(s) \/ Reset(s) PROVE Chained' /\ EndsSound'
  BY <1>1, <1>13, ChainsClear
<1>14. ASSUME NEW s \in Slot, ShrinkRewinds(s) PROVE Chained' /\ EndsSound'
  BY <1>1, <1>14, ChainsShrink
<1>15. ASSUME NEW d \in Slot, NEW s \in Slot, Merge(d, s) PROVE Chained' /\ EndsSound'
  BY <1>1, <1>15, ChainsMerge
<1>16. ASSUME NEW s \in Slot, NEW k \in Kinds, AllocHere(s, k) PROVE Chained' /\ EndsSound'
  BY <1>1, <1>16, ChainsAllocHere
<1>17. ASSUME NEW s \in Slot, NEW k \in Kinds, AllocGrow(s, k) PROVE Chained' /\ EndsSound'
  BY <1>1, <1>17, ChainsGrow
<1>18. ASSUME NEW s \in Slot, DallocNoStruct(s) PROVE Chained' /\ EndsSound'
  BY <1>1, <1>18, ChainsDallocNoStruct
<1>19. ASSUME NEW s \in Slot, RallocInPlace(s) \/ RallocMove(s) PROVE Chained' /\ EndsSound'
  BY <1>1, <1>19, ChainsRalloc
<1>20. ASSUME NEW s \in Slot, RallocSpill(s) PROVE Chained' /\ EndsSound'
  BY <1>1, <1>20, ChainsGrow
<1> QED
  BY <1>4, <1>5, <1>6, <1>7, <1>8, <1>9, <1>10, <1>11, <1>12, <1>13, <1>14,
     <1>15, <1>16, <1>17, <1>18, <1>19, <1>20
  DEF Next, Alloc, Ralloc

LEMMA ChainsAlways == Spec => []ChainInv
<1>1. Init => ChainInv
  BY ChainsInit
<1>2. ChainInv /\ [Next]_vars => ChainInv'
  BY ChainsNext
<1> QED
  BY <1>1, <1>2, PTL DEF Spec

LEMMA ChainInvSound == ChainInv => ChainsSound
<1> SUFFICES ASSUME ChainInv PROVE ChainsSound
  OBVIOUS
<1>1. ASSUME NEW s \in held, Live(handle[s])
      PROVE  /\ chunk[handle[s]].root = handle[s]
             /\ chunk[handle[s]].current \in Chain(handle[s])
  <2>1. PICK q \in Chunk : q = handle[s]
    BY DEF ChainInv, TypeOK
  <2>2. RootFree(q)
    BY <1>1, <2>1 DEF ChainInv, RootsFree
  <2> QED
    BY <2>1, <2>2 DEF RootFree
<1> QED
  BY <1>1 DEF ChainInv, ChildrenLive, EndsSound, ChainsSound

(* Whatever the client calls in whatever order, however malloc fails and   *)
(* even after ralloc has overrun a chunk: child pointers lead to live      *)
(* structs of the same pool, no chain leads into another pool, and clear,  *)
(* reset, info and free reach the current chunk of every open pool.        *)
THEOREM ChainsStaySound == Spec => []ChainsSound
BY ChainsAlways, ChainInvSound, PTL

-----------------------------------------------------------------------------
(* Freeing, clearing and shrinking spare the other pools.                  *)

(* The chains of two open pools, one of them not freed, share nothing.     *)
LEMMA ChainsApart ==
    ASSUME ChainInv, NEW s \in held, NEW t \in held, s # t, Live(handle[s]),
           NEW c \in Chain(handle[t])
    PROVE  /\ c \in Chunk /\ c \notin Chain(handle[s])
           /\ Live(c) => chunk[c].root # handle[s]
<1>1. PICK p \in Chunk, q \in Chunk : p = handle[s] /\ q = handle[t]
  BY DEF ChainInv, TypeOK
<1>2. p # q
  BY <1>1 DEF ChainInv, OneHandle
<1>3. chunk[p].root = p
  BY <1>1 DEF ChainInv, RootsFree, RootFree
<1>4. \A x \in Chain(p) : Live(x) /\ chunk[x].root = p
  BY <1>1, <1>3, ChainLives DEF ChainInv
<1>5. CASE Live(q)
  <2>1. chunk[q].root = q
    BY <1>1, <1>5 DEF ChainInv, RootsFree, RootFree
  <2>2. c \in Chunk /\ Live(c) /\ chunk[c].root = q
    BY <1>1, <1>5, <2>1, ChainLives DEF ChainInv
  <2> QED
    BY <1>1, <1>2, <1>4, <2>2
<1>6. CASE ~Live(q)
  <2>1. c = q
    BY <1>1, <1>6, ChainDead DEF ChainInv
  <2> QED
    BY <1>1, <1>4, <1>6, <2>1
<1> QED
  BY <1>5, <1>6

(* Only free and shrink free structs, and both only of the chain they      *)
(* were called on.                                                         *)
LEMMA NewPoolKeepsLive ==
    ASSUME ChainInv, NEW s \in Slot, NewPool(s), NEW x \in Chunk, Live(x)
    PROVE  chunk'[x].live
<1>1. PICK n \in PoolSizes \ {0}, cf \in CfChoices, c \in Chunk :
          chunk' = [chunk EXCEPT ![c] = NewChunk(c, PoolBytes(n), cf, NIL, c)]
  BY DEF NewPool
<1>2. NewChunk(c, PoolBytes(n), cf, NIL, c).live = TRUE
  BY DEF NewChunk
<1> QED
  BY <1>1, <1>2 DEF ChainInv, TypeOK, Live

LEMMA StaysLive ==
    ASSUME ChainInv, [Next]_vars, NEW x \in Chunk, Live(x), ~chunk'[x].live
    PROVE  \E u \in Slot : Free(u) \/ ShrinkRewinds(u)
<1> SUFFICES ASSUME \A u \in Slot : ~Free(u) /\ ~ShrinkRewinds(u) PROVE FALSE
  OBVIOUS
<1>1. TypeOK'
  BY TypeNext DEF ChainInv
<1>2. ASSUME chunk' = chunk PROVE FALSE
  BY <1>2 DEF Live
<1>3. ASSUME NEW f, Crashes(f) PROVE FALSE
  BY <1>2, <1>3 DEF Crashes
<1>4. ASSUME NEW f, Fails(f) PROVE FALSE
  BY <1>2, <1>4 DEF Fails
<1>5. ASSUME NEW s \in Slot, NewRejected(s) \/ NewCrash(s) \/ FreeCrash(s)
                 \/ UseFreed(s) \/ ShrinkCrash(s) \/ RallocCrash(s)
                 \/ RallocRefused(s) \/ DestroyCrash
      PROVE  FALSE
  <2>1. (\E f : Crashes(f)) \/ (\E f : Fails(f))
    BY <1>5 DEF NewRejected, NewCrash, FreeCrash, UseFreed, ShrinkCrash,
                RallocCrash, RallocRefused, DestroyCrash
  <2> QED
    BY <1>3, <1>4, <2>1
<1>6. ASSUME NEW s \in Slot, NEW k \in Kinds, AllocFull(s, k) \/ AllocCrash(s, k)
      PROVE  FALSE
  <2>1. (\E f : Crashes(f)) \/ (\E f : Fails(f))
    BY <1>6 DEF AllocFull, AllocCrash
  <2> QED
    BY <1>3, <1>4, <2>1
<1>7. ASSUME NEW s \in Slot, Info(s) \/ ShrinkNothing(s) \/ RallocKeep(s) \/ NewNoStruct(s)
      PROVE  FALSE
  BY <1>2, <1>7 DEF Info, ShrinkNothing, RallocKeep, NewNoStruct
<1>8. CASE Destroy \/ DestroyCrash \/ UNCHANGED vars
  BY <1>2, <1>3, <1>8 DEF Destroy, DestroyCrash, vars
<1>9. ASSUME NEW s \in Slot, NewPool(s) PROVE FALSE
  BY <1>9, NewPoolKeepsLive
<1>10. ASSUME NEW s \in Slot, Clear(s) \/ Reset(s) PROVE FALSE
  BY <1>1, <1>10, ChainsClear DEF Live
<1>11. ASSUME NEW d \in Slot, NEW s \in Slot, Merge(d, s) PROVE FALSE
  BY <1>1, <1>11, ChainsMerge DEF Live
<1>12. ASSUME NEW s \in Slot, NEW k \in Kinds, AllocHere(s, k) PROVE FALSE
  BY <1>1, <1>12, ChainsAllocHere DEF LinksSame, Live
<1>13. ASSUME NEW s \in Slot, (\E k \in Kinds : AllocGrow(s, k)) \/ RallocSpill(s)
       PROVE  FALSE
  <2>1. PICK p \in Chunk, c \in Chunk, cur \in Chunk : LinksBehind(p, cur, c)
    BY <1>13, GrowLinks
  <2> QED
    BY <2>1 DEF LinksBehind, Live
<1>14. ASSUME NEW s \in Slot, DallocNoStruct(s) PROVE FALSE
  BY <1>1, <1>14, ChainsDallocNoStruct DEF Live
<1>15. ASSUME NEW s \in Slot, RallocInPlace(s) \/ RallocMove(s) PROVE FALSE
  BY <1>1, <1>15, ChainsRalloc DEF LinksSame, Live
<1> QED
  BY <1>5, <1>6, <1>7, <1>8, <1>9, <1>10, <1>11, <1>12, <1>13, <1>14, <1>15
  DEF Next, Alloc, Ralloc

LEMMA GoneTouches ==
    ASSUME ChainInv, NEW u \in Slot, Free(u) \/ ShrinkRewinds(u)
    PROVE  /\ u \in held /\ Live(handle[u])
           /\ \A x \in Chunk \ Chain(handle[u]) : chunk'[x] = chunk[x]
           /\ blocks' = {b \in blocks : b.pool # handle[u]}
<1>1. CASE Free(u)
  <2>1. PICK p \in Chunk :
            /\ p = handle[u] /\ u \in held /\ Live(p)
            /\ \A x \in Chunk \ Chain(p) : chunk'[x] = chunk[x]
    BY <1>1, FreeLinks
  <2> QED
    BY <1>1, <2>1 DEF Free
<1>2. CASE ShrinkRewinds(u)
  <2>1. PICK p \in Chunk : p = handle[u] /\ u \in held /\ Live(p)
    BY <1>2 DEF ShrinkRewinds, On, ChainInv, TypeOK
  <2>2. p \in Chain(p)
    BY ChainBegins
  <2>3. \A x \in Chunk \ Chain(p) : chunk'[x] = chunk[x]
    BY <1>2, <2>1, <2>2 DEF ShrinkRewinds
  <2> QED
    BY <1>2, <2>1, <2>3 DEF ShrinkRewinds
<1> QED
  BY <1>1, <1>2

(* A step that frees a chunk of one open pool changes no chunk that any    *)
(* other client variable can reach and takes no block of another pool,     *)
(* whatever the client calls.                                              *)
Spared(s, t) ==
    /\ \A c \in Chain(handle[t]) : chunk'[c] = chunk[c]
    /\ \A b \in blocks : b.pool = handle[t] => b \in blocks'

LEMMA SparedNext ==
    ASSUME ChainInv, [Next]_vars, NEW s \in held, NEW t \in held, s # t,
           NEW c \in Chain(handle[s]), Live(c), ~chunk'[c].live
    PROVE  Spared(s, t)
<1>1. c \in Chunk
  BY ChainBegins, HeldPool DEF ChainInv
<1>2. PICK u \in Slot : Free(u) \/ ShrinkRewinds(u)
  BY <1>1, StaysLive
<1>3. /\ u \in held /\ Live(handle[u])
      /\ \A x \in Chunk \ Chain(handle[u]) : chunk'[x] = chunk[x]
      /\ blocks' = {b \in blocks : b.pool # handle[u]}
  BY <1>2, GoneTouches
<1>4. u = s
  BY <1>1, <1>3, ChainsApart DEF Live
<1>5. \A x \in Chain(handle[t]) : x \in Chunk /\ x \notin Chain(handle[s])
  BY <1>3, <1>4, ChainsApart
<1>6. handle[t] # handle[s]
  BY DEF ChainInv, OneHandle
<1> QED
  BY <1>3, <1>4, <1>5, <1>6 DEF Spared

(* Freeing, clearing or shrinking a pool never touches the memory of       *)
(* another: no step frees a chunk of one open pool and changes a chunk or  *)
(* takes a block of a different one.                                       *)
THEOREM OthersAlwaysSpared == Spec => OthersSpared
<1>1. ASSUME ChainInv, [Next]_vars
      PROVE  [\A s, t \in held :
                 /\ \E c \in Chain(handle[s]) : Live(c) /\ ~chunk'[c].live
                 /\ s # t
                 => /\ \A c \in Chain(handle[t]) : chunk'[c] = chunk[c]
                    /\ \A b \in blocks : b.pool = handle[t] => b \in blocks']_vars
  BY <1>1, SparedNext DEF Spared
<1> QED
  BY <1>1, ChainsAlways, PTL DEF Spec, OthersSpared

-----------------------------------------------------------------------------
(* Nothing leaks while no call makes an earlier chunk current again.       *)

(* clear, reset and shrink do, and merge links a pool behind its root:     *)
(* what is linked there is lost when the current chunk is grown.           *)
NeverRewinds == Calls \cap {"clear", "reset", "merge", "shrink"} = {}

Owned(q) == \E s \in held : handle[s] = q

Covered == \A c \in Chunk : Live(c) => \E q \in Chunk : Owned(q) /\ c \in Chain(q)

(* The current chunk is the last one.                                      *)
LastCurrent ==
    \A q \in Chunk : Live(q) /\ Owned(q) => chunk[chunk[q].current].child = NIL

LeakInv == ChainInv /\ Covered /\ LastCurrent

LEMMA CoveredNoLeak == TypeOK /\ Covered => NoLeak
BY DEF Covered, NoLeak, Owned

(* A chunk is live only in the chain of a pool that is.                    *)
LEMMA CoverLives ==
    ASSUME ChainInv, Covered, NEW x \in Chunk, Live(x)
    PROVE  \E q \in Chunk : Owned(q) /\ x \in Chain(q) /\ Live(q) /\ RootFree(q)
<1>1. PICK q \in Chunk : Owned(q) /\ x \in Chain(q)
  BY DEF Covered
<1>2. Live(q)
  BY <1>1, ChainDead DEF ChainInv
<1> QED
  BY <1>1, <1>2 DEF ChainInv, RootsFree, Owned

(* The current chunk belongs to its pool.                                  *)
LEMMA CurrentOwned ==
    ASSUME ChainInv, NEW q \in Chunk, Owned(q), Live(q)
    PROVE  /\ chunk[q].root = q
           /\ chunk[q].current \in Chunk /\ Live(chunk[q].current)
           /\ chunk[chunk[q].current].root = q
<1>1. RootFree(q)
  BY DEF ChainInv, RootsFree, Owned
<1> QED
  BY <1>1, ChainLives DEF ChainInv, RootFree

LEMMA ChainSame ==
    ASSUME NEW q \in Chunk, \A x \in Chunk : chunk'[x].child = chunk[x].child
    PROVE  Chain(q)' = Chain(q)
<1>1. \A S \in SUBSET Chunk : ChildClosed(S)' <=> ChildClosed(S)
  BY DEF ChildClosed
<1> QED
  BY <1>1 DEF Chain

LEMMA LeakSame ==
    ASSUME LeakInv, LinksSame, held' = held, \A s \in held : handle'[s] = handle[s]
    PROVE  Covered' /\ LastCurrent'
<1>1. \A q \in Chunk : Owned(q)' <=> Owned(q)
  BY DEF Owned
<1>2. \A q \in Chunk : Chain(q)' = Chain(q)
  BY ChainSame DEF LinksSame
<1>3. Covered'
  BY <1>1, <1>2 DEF LeakInv, Covered, LinksSame, Live
<1>4. LastCurrent'
  <2>1. \A q \in Chunk : chunk[q].current \in Chunk \cup {NIL}
    BY DEF LeakInv, ChainInv, TypeOK, ChunkType
  <2>2. \A q \in Chunk : Live(q) => chunk[q].current \in Chunk
    BY DEF LeakInv, ChainInv, CurrentsExist
  <2> QED
    BY <1>1, <2>2 DEF LeakInv, LastCurrent, LinksSame, Live
<1> QED
  BY <1>3, <1>4

LEMMA LeakUnchanged ==
    ASSUME LeakInv, chunk' = chunk, held' = held, \A s \in held : handle'[s] = handle[s]
    PROVE  Covered' /\ LastCurrent'
BY LeakSame DEF LinksSame

LEMMA LeakNewPool ==
    ASSUME LeakInv, NEW s \in Slot, NewPool(s)
    PROVE  Covered' /\ LastCurrent'
<1>1. PICK n \in PoolSizes \ {0}, cf \in CfChoices, c \in Chunk :
          /\ Reusable(c)
          /\ chunk' = [chunk EXCEPT ![c] = NewChunk(c, PoolBytes(n), cf, NIL, c)]
          /\ handle' = [handle EXCEPT ![s] = c]
          /\ s \notin held /\ held' = held \cup {s}
  BY DEF NewPool
<1>2. /\ chunk'[c].current = c /\ chunk'[c].child = NIL
      /\ \A x \in Chunk \ {c} : chunk'[x] = chunk[x]
  BY <1>1 DEF NewChunk, LeakInv, ChainInv, TypeOK
<1>3. ~Live(c)
  BY <1>1 DEF Reusable
<1>4. /\ handle'[s] = c
      /\ \A t \in held : handle'[t] = handle[t] /\ handle[t] # c
  BY <1>1 DEF LeakInv, ChainInv, TypeOK, Reusable
<1>5. \A q \in Chunk : Owned(q)' <=> Owned(q) \/ q = c
  BY <1>1, <1>4 DEF Owned
<1>6. ASSUME NEW x \in Chunk, chunk'[x].live
      PROVE  \E q \in Chunk : Owned(q)' /\ x \in Chain(q)'
  <2>1. CASE x = c
    <3>1. x \in Chain(x)'
      BY DEF Chain
    <3> QED
      BY <1>5, <2>1, <3>1
  <2>2. CASE x # c
    <3>1. Live(x)
      BY <1>2, <1>6, <2>2 DEF Live
    <3>2. PICK q \in Chunk : Owned(q) /\ x \in Chain(q) /\ Live(q) /\ RootFree(q)
      BY <3>1, CoverLives DEF LeakInv
    <3>3. \A y \in Chunk : Live(y) /\ chunk[y].root = q => chunk'[y].child = chunk[y].child
      BY <1>2, <1>3
    <3>4. Chain(q) \subseteq Chain(q)'
      BY <3>2, <3>3, ChainKept DEF LeakInv, ChainInv, RootFree
    <3> QED
      BY <1>5, <3>2, <3>4
  <2> QED
    BY <2>1, <2>2
<1>7. ASSUME NEW q \in Chunk, chunk'[q].live, Owned(q)'
      PROVE  chunk'[chunk'[q].current].child = NIL
  <2>1. CASE q = c
    BY <1>2, <2>1
  <2>2. CASE q # c
    <3>1. Live(q) /\ Owned(q) /\ chunk'[q].current = chunk[q].current
      BY <1>2, <1>5, <1>7, <2>2 DEF Live
    <3>2. chunk[q].current \in Chunk /\ Live(chunk[q].current)
      BY <3>1, CurrentOwned DEF LeakInv
    <3> QED
      BY <1>2, <1>3, <3>1, <3>2 DEF LeakInv, LastCurrent
  <2> QED
    BY <2>1, <2>2
<1> QED
  BY <1>6, <1>7 DEF Covered, LastCurrent, Live

LEMMA LeakFree ==
    ASSUME LeakInv, NEW s \in Slot, Free(s)
    PROVE  Covered' /\ LastCurrent'
<1>1. PICK p \in Chunk :
          /\ p = handle[s] /\ s \in held /\ Live(p) /\ RootFree(p)
          /\ \A x \in Chain(p) : chunk'[x].live = FALSE
          /\ \A x \in Chunk \ Chain(p) : chunk'[x] = chunk[x]
  BY FreeLinks DEF LeakInv
<1>2. held' = held \ {s} /\ handle' = handle
  BY DEF Free
<1>3. \A q \in Chunk : Owned(q)' <=> Owned(q) /\ q # p
  BY <1>1, <1>2 DEF Owned, LeakInv, ChainInv, OneHandle
<1>4. \A x \in Chain(p) : x \in Chunk /\ chunk[x].root = p
  BY <1>1, ChainLives DEF LeakInv, ChainInv, RootFree
<1>5. ASSUME NEW x \in Chunk, chunk'[x].live
      PROVE  \E q \in Chunk : Owned(q)' /\ x \in Chain(q)'
  <2>1. x \notin Chain(p) /\ Live(x)
    BY <1>1, <1>5 DEF Live
  <2>2. PICK q \in Chunk : Owned(q) /\ x \in Chain(q) /\ Live(q) /\ RootFree(q)
    BY <2>1, CoverLives DEF LeakInv
  <2>3. \A y \in Chunk : Live(y) /\ chunk[y].root = q => chunk'[y].child = chunk[y].child
    BY <1>1, <1>4, <2>1, <2>2
  <2>4. Chain(q) \subseteq Chain(q)'
    BY <2>2, <2>3, ChainKept DEF LeakInv, ChainInv, RootFree
  <2> QED
    BY <1>3, <2>1, <2>2, <2>4
<1>6. ASSUME NEW q \in Chunk, chunk'[q].live, Owned(q)'
      PROVE  chunk'[chunk'[q].current].child = NIL
  <2>1. q \notin Chain(p) /\ Owned(q) /\ q # p
    BY <1>1, <1>3, <1>6
  <2>2. Live(q) /\ chunk'[q].current = chunk[q].current
    BY <1>1, <1>6, <2>1 DEF Live
  <2>3. chunk[q].current \in Chunk /\ chunk[chunk[q].current].root = q
    BY <2>1, <2>2, CurrentOwned DEF LeakInv
  <2> QED
    BY <1>1, <1>4, <2>1, <2>2, <2>3 DEF LeakInv, LastCurrent
<1> QED
  BY <1>5, <1>6 DEF Covered, LastCurrent, Live

LEMMA LeakGrow ==
    ASSUME LeakInv, NEW s \in Slot,
           (\E k \in Kinds : AllocGrow(s, k)) \/ RallocSpill(s)
    PROVE  Covered' /\ LastCurrent'
<1>1. PICK p \in Chunk, c \in Chunk, cur \in Chunk :
          /\ p = handle[s] /\ s \in held /\ Live(p)
          /\ cur = chunk[p].current /\ Reusable(c) /\ LinksBehind(p, cur, c)
          /\ held' = held /\ handle' = handle
  BY GrowLinks DEF LeakInv
<1>2. Owned(p) /\ \A q \in Chunk : Owned(q)' <=> Owned(q)
  BY <1>1 DEF Owned
<1>3. RootFree(p) /\ chunk[cur].root = p /\ chunk[cur].child = NIL /\ Live(cur)
  BY <1>1, <1>2, CurrentOwned DEF LeakInv, LastCurrent, ChainInv, RootsFree
<1>4. ~Live(c) /\ \A x \in Chunk : chunk[x].child # c
  BY <1>1, NilAssumption DEF Reusable, LeakInv, ChainInv, ChildrenLive
<1>5. /\ chunk'[c].child = NIL
      /\ \A x \in Chunk \ {c} :
            /\ chunk'[x].live = chunk[x].live
            /\ chunk'[x].child = IF x = cur THEN c ELSE chunk[x].child
            /\ chunk'[x].current = IF x = p THEN c ELSE chunk[x].current
  BY <1>1 DEF LinksBehind
<1>6. c # p /\ c # cur
  BY <1>1, <1>3, <1>4
<1>7. Chain(p) \subseteq Chain(p)' /\ c \in Chain(p)'
  <2> SUFFICES ASSUME NEW S \in SUBSET Chunk, p \in S, ChildClosed(S)'
               PROVE  Chain(p) \subseteq S /\ c \in S
    BY ChainBegins DEF Chain
  <2> DEFINE T == S \ {c}
  <2>1. ChildClosed(T)
    BY <1>3, <1>4, <1>5 DEF ChildClosed
  <2>2. Chain(p) \subseteq T
    BY <1>6, <2>1, ChainLeast
  <2>3. cur \in S
    BY <1>1, <1>3, <2>2 DEF RootFree
  <2>4. c \in S
    BY <1>5, <1>6, <2>3, NilAssumption DEF ChildClosed
  <2> QED
    BY <2>2, <2>4
<1>8. ASSUME NEW x \in Chunk, chunk'[x].live
      PROVE  \E q \in Chunk : Owned(q)' /\ x \in Chain(q)'
  <2>1. CASE x = c
    BY <1>2, <1>7, <2>1
  <2>2. CASE x # c
    <3>1. Live(x)
      BY <1>5, <1>8, <2>2 DEF Live
    <3>2. PICK q \in Chunk : Owned(q) /\ x \in Chain(q) /\ Live(q) /\ RootFree(q)
      BY <3>1, CoverLives DEF LeakInv
    <3>3. CASE q = p
      BY <1>2, <1>7, <3>2, <3>3
    <3>4. CASE q # p
      <4>1. \A y \in Chunk : Live(y) /\ chunk[y].root = q => chunk'[y].child = chunk[y].child
        BY <1>3, <1>4, <1>5, <3>4
      <4>2. Chain(q) \subseteq Chain(q)'
        BY <3>2, <4>1, ChainKept DEF LeakInv, ChainInv, RootFree
      <4> QED
        BY <1>2, <3>2, <4>2
    <3> QED
      BY <3>3, <3>4
  <2> QED
    BY <2>1, <2>2
<1>9. ASSUME NEW q \in Chunk, chunk'[q].live, Owned(q)'
      PROVE  chunk'[chunk'[q].current].child = NIL
  <2>1. CASE q = p
    BY <1>5, <1>6, <2>1
  <2>2. CASE q # p
    <3>1. Owned(q) /\ q # c
      BY <1>1, <1>2, <1>9 DEF Owned, Reusable
    <3>2. Live(q) /\ chunk'[q].current = chunk[q].current
      BY <1>5, <1>9, <2>2, <3>1 DEF Live
    <3>3. /\ chunk[q].current \in Chunk /\ Live(chunk[q].current)
          /\ chunk[chunk[q].current].root = q
      BY <3>1, <3>2, CurrentOwned DEF LeakInv
    <3>4. chunk[q].current # c /\ chunk[q].current # cur
      BY <1>3, <1>4, <2>2, <3>3
    <3> QED
      BY <1>5, <3>1, <3>2, <3>3, <3>4 DEF LeakInv, LastCurrent
  <2> QED
    BY <2>1, <2>2
<1> QED
  BY <1>8, <1>9 DEF Covered, LastCurrent, Live

(* What the failed growth forgets is nothing.                              *)
LEMMA FailedGrowth ==
    ASSUME LeakInv, NEW s \in Slot, DallocNoStruct(s)
    PROVE  chunk' = chunk /\ held' = held /\ handle' = handle
<1>1. PICK p \in Chunk : /\ p = handle[s] /\ s \in held /\ Live(p)
                         /\ chunk' = Childless(p)
  BY DEF DallocNoStruct, Asks, On
<1>2. PICK cur \in Chunk : cur = chunk[p].current
  BY <1>1 DEF LeakInv, ChainInv, CurrentsExist
<1>3. chunk[cur].child = NIL
  BY <1>1, <1>2 DEF LeakInv, LastCurrent, Owned
<1>4. chunk' = [chunk EXCEPT ![cur].child = NIL]
  BY <1>1, <1>2 DEF Childless
<1>5. chunk \in [Chunk -> ChunkType] /\ chunk[cur] \in ChunkType
  BY DEF LeakInv, ChainInv, TypeOK
<1>6. [chunk[cur] EXCEPT !.child = NIL] = chunk[cur]
  BY <1>3, <1>5 DEF ChunkType
<1>7. chunk' = [chunk EXCEPT ![cur] = chunk[cur]]
  BY <1>4, <1>5, <1>6
<1> QED
  BY <1>5, <1>7 DEF DallocNoStruct

LEMMA LeakNext ==
    ASSUME NeverRewinds, LeakInv, [Next]_vars
    PROVE  LeakInv'
<1>1. ChainInv'
  BY ChainsNext DEF LeakInv
<1> SUFFICES Covered' /\ LastCurrent'
  BY <1>1 DEF LeakInv
<1>2. ASSUME NEW f, Crashes(f) PROVE Covered' /\ LastCurrent'
  BY <1>2, LeakUnchanged DEF Crashes
<1>3. ASSUME NEW f, Fails(f) PROVE Covered' /\ LastCurrent'
  BY <1>3, LeakUnchanged DEF Fails
<1>4. ASSUME NEW s \in Slot, NewRejected(s) \/ NewCrash(s) \/ FreeCrash(s)
                 \/ UseFreed(s) \/ ShrinkCrash(s) \/ RallocCrash(s)
                 \/ RallocRefused(s) \/ DestroyCrash
      PROVE  Covered' /\ LastCurrent'
  <2>1. (\E f : Crashes(f)) \/ (\E f : Fails(f))
    BY <1>4 DEF NewRejected, NewCrash, FreeCrash, UseFreed, ShrinkCrash,
                RallocCrash, RallocRefused, DestroyCrash
  <2> QED
    BY <1>2, <1>3, <2>1
<1>5. ASSUME NEW s \in Slot, NEW k \in Kinds, AllocFull(s, k) \/ AllocCrash(s, k)
      PROVE  Covered' /\ LastCurrent'
  <2>1. (\E f : Crashes(f)) \/ (\E f : Fails(f))
    BY <1>5 DEF AllocFull, AllocCrash
  <2> QED
    BY <1>2, <1>3, <2>1
<1>6. ASSUME NEW s \in Slot, Info(s) \/ ShrinkNothing(s) \/ RallocKeep(s) \/ DallocNoStruct(s)
      PROVE  Covered' /\ LastCurrent'
  BY <1>6, FailedGrowth, LeakUnchanged DEF Info, ShrinkNothing, RallocKeep
<1>7. ASSUME NEW s \in Slot, NewNoStruct(s) PROVE Covered' /\ LastCurrent'
  <2>1. \A t \in held : handle'[t] = handle[t]
    BY <1>7 DEF NewNoStruct, LeakInv, ChainInv, TypeOK
  <2> QED
    BY <1>7, <2>1, LeakUnchanged DEF NewNoStruct
<1>8. CASE Destroy \/ DestroyCrash \/ UNCHANGED vars
  BY <1>2, <1>8, LeakUnchanged DEF Destroy, DestroyCrash, vars
<1>9. ASSUME NEW s \in Slot, NewPool(s) PROVE Covered' /\ LastCurrent'
  BY <1>9, LeakNewPool
<1>10. ASSUME NEW s \in Slot, Free(s) PROVE Covered' /\ LastCurrent'
  BY <1>10, LeakFree
<1>11. ASSUME NEW s \in Slot, Clear(s) \/ Reset(s) \/ ShrinkRewinds(s) PROVE FALSE
  BY <1>11 DEF Clear, Reset, ShrinkRewinds, On, Call, NeverRewinds
<1>12. ASSUME NEW d \in Slot, NEW s \in Slot, Merge(d, s) PROVE FALSE
  BY <1>12 DEF Merge, On, Call, NeverRewinds
<1>13. ASSUME NEW s \in Slot, NEW k \in Kinds, AllocHere(s, k) PROVE Covered' /\ LastCurrent'
  <2>1. LinksSame
    BY <1>1, <1>13, ChainsAllocHere DEF LeakInv, ChainInv
  <2> QED
    BY <1>13, <2>1, LeakSame DEF AllocHere
<1>14. ASSUME NEW s \in Slot, (\E k \in Kinds : AllocGrow(s, k)) \/ RallocSpill(s)
       PROVE  Covered' /\ LastCurrent'
  BY <1>14, LeakGrow
<1>15. ASSUME NEW s \in Slot, RallocInPlace(s) \/ RallocMove(s) PROVE Covered' /\ LastCurrent'
  <2>1. LinksSame
    BY <1>1, <1>15, ChainsRalloc DEF LeakInv, ChainInv
  <2> QED
    BY <1>15, <2>1, LeakSame DEF RallocInPlace, RallocMove
<1> QED
  BY <1>4, <1>5, <1>6, <1>7, <1>8, <1>9, <1>10, <1>11, <1>12, <1>13, <1>14, <1>15
  DEF Next, Alloc, Ralloc

LEMMA LeakAlways ==
    ASSUME NeverRewinds
    PROVE  Spec => []LeakInv
<1>1. Init => LeakInv
  <2> SUFFICES ASSUME Init PROVE LeakInv
    OBVIOUS
  <2>1. ChainInv
    BY ChainsInit
  <2>2. \A c \in Chunk : ~Live(c)
    BY DEF Init, BlankChunk, Live
  <2> QED
    BY <2>1, <2>2 DEF LeakInv, Covered, LastCurrent
<1>2. LeakInv /\ [Next]_vars => LeakInv'
  BY LeakNext
<1> QED
  BY <1>1, <1>2, PTL DEF Spec

(* However pools grow and whatever malloc refuses, every struct allocated  *)
(* and not freed is found by the free of an open pool (manual.md: "Avoid   *)
(* memory leaks"), for clients that keep to new, free, info, dalloc,       *)
(* nalloc, ralloc and destroy.                                             *)
THEOREM NothingLeaks ==
    ASSUME NeverRewinds
    PROVE  Spec => []NoLeak
<1>1. LeakInv => NoLeak
  BY CoveredNoLeak DEF LeakInv, ChainInv
<1> QED
  BY <1>1, LeakAlways, PTL

(* For the same clients a call that reports an error has changed no pool:  *)
(* the NULL that a failed growth stores behind the current chunk was there.*)
THEOREM FailuresAreClean ==
    ASSUME NeverRewinds
    PROVE  Spec => FailureIsClean
<1>1. ASSUME LeakInv, [Next]_vars
      PROVE  [rc' # "SUCCESS" => UNCHANGED <<chunk, pools, blocks>>]_vars
  <2> SUFFICES ASSUME Next, rc' # "SUCCESS" PROVE UNCHANGED <<chunk, pools, blocks>>
    BY <1>1 DEF vars
  <2>1. ASSUME NEW f, Crashes(f) PROVE UNCHANGED <<chunk, pools, blocks>>
    BY <2>1 DEF Crashes
  <2>2. ASSUME NEW f, Fails(f) PROVE UNCHANGED <<chunk, pools, blocks>>
    BY <2>2 DEF Fails
  <2>3. ASSUME NEW s \in Slot, NewRejected(s) \/ NewCrash(s) \/ FreeCrash(s)
                   \/ UseFreed(s) \/ ShrinkCrash(s) \/ RallocCrash(s)
                   \/ RallocRefused(s) \/ DestroyCrash
        PROVE  UNCHANGED <<chunk, pools, blocks>>
    <3>1. (\E f : Crashes(f)) \/ (\E f : Fails(f))
      BY <2>3 DEF NewRejected, NewCrash, FreeCrash, UseFreed, ShrinkCrash,
                  RallocCrash, RallocRefused, DestroyCrash
    <3> QED
      BY <2>1, <2>2, <3>1
  <2>4. ASSUME NEW s \in Slot, NEW k \in Kinds, AllocFull(s, k) \/ AllocCrash(s, k)
        PROVE  UNCHANGED <<chunk, pools, blocks>>
    <3>1. (\E f : Crashes(f)) \/ (\E f : Fails(f))
      BY <2>4 DEF AllocFull, AllocCrash
    <3> QED
      BY <2>1, <2>2, <3>1
  <2>5. ASSUME NEW s \in Slot, NewNoStruct(s) \/ DallocNoStruct(s)
        PROVE  UNCHANGED <<chunk, pools, blocks>>
    BY <1>1, <2>5, FailedGrowth DEF NewNoStruct, DallocNoStruct
  <2>6. ASSUME NEW s \in Slot,
               \/ NewPool(s) \/ Free(s) \/ Info(s) \/ Clear(s) \/ Reset(s)
               \/ ShrinkNothing(s) \/ ShrinkRewinds(s) \/ RallocInPlace(s)
               \/ RallocKeep(s) \/ RallocMove(s) \/ RallocSpill(s)
        PROVE  FALSE
    BY <2>6 DEF NewPool, Free, Info, Clear, Reset, ShrinkNothing, ShrinkRewinds,
                RallocInPlace, RallocKeep, RallocMove, RallocSpill, Returns
  <2>7. ASSUME NEW s \in Slot, NEW k \in Kinds, AllocHere(s, k) \/ AllocGrow(s, k)
        PROVE  FALSE
    BY <2>7 DEF AllocHere, AllocGrow, Returns
  <2>8. ASSUME NEW d \in Slot, NEW s \in Slot, Merge(d, s)
        PROVE  FALSE
    BY <2>8 DEF Merge, Returns
  <2>9. CASE Destroy
    BY <2>9 DEF Destroy, Returns
  <2>10. CASE DestroyCrash
    BY <2>1, <2>10 DEF DestroyCrash
  <2> QED
    BY <2>3, <2>4, <2>5, <2>6, <2>7, <2>8, <2>9, <2>10 DEF Next, Alloc, Ralloc
<1> QED
  BY <1>1, LeakAlways, PTL DEF Spec, FailureIsClean

-----------------------------------------------------------------------------
(* The registry.                                                           *)

(* Sizes malloc grants with room to spare.                                 *)
Served == {n \in 1 .. HeapMax : n + Overhead < SizeMod}

(* malloc serves every pool the client makes and, where pools can grow,    *)
(* every chunk a request may call for.                                     *)
HeapServes ==
    /\ ~MallocMayFail
    /\ \A n \in PoolSizes \ {0} : PoolBytes(n) \in Served
    /\ (\E cf \in CfChoices : "DYNAMIC" \in cf) =>
          \A n \in Requests : {PoolBytes(n), PoolBytes(MemAlign(n))} \subseteq Served

(* merge leaves its source in __pools, shrink may free a root that stays   *)
(* there, and destroy forgets the pools without freeing them.              *)
RootsKept == Calls \cap {"merge", "shrink", "destroy"} = {}

RallocOnFixed == "ralloc" \in Calls => \A cf \in CfChoices : "DYNAMIC" \notin cf

Shaped(ch) ==
    ch.live => PoolBytes(ch.size) \in Served /\ ch.cf \ {"CHILD"} \in CfChoices

Listed ==
    /\ {pools[i] : i \in DOMAIN pools} = {handle[s] : s \in held}
    /\ \A i, j \in DOMAIN pools : pools[i] = pools[j] => i = j

RegInv ==
    /\ up /\ fault = "none" /\ Listed
    /\ \A s \in held : Live(handle[s])
    /\ \A x \in Chunk : Shaped(chunk[x])

LEMMA AlignedTwice ==
    ASSUME NEW n \in 0 .. SizeMod - 1, NEW k \in Int, n = AlignSize * k
    PROVE  MemAlign(n) = n
<1>1. AlignUp(n) \in Nat /\ n <= AlignUp(n) /\ AlignUp(n) <= n + AlignSize - 1
  BY AlignUpBounds, Consts
<1>2. PICK q \in Int : AlignUp(n) = AlignSize * q
  <2>1. n \in Nat
    BY Consts
  <2> QED
    BY <2>1, AlignUpMultiple
<1>3. AlignSize \in Nat \ {0}
  BY Consts
<1>4. AlignSize * k <= AlignSize * q /\ AlignSize * q < AlignSize * k + AlignSize
  BY <1>1, <1>2, <1>3
<1>5. q = k
  BY <1>3, <1>4, MultipleGap
<1>6. AlignUp(n) = n
  BY <1>2, <1>5
<1> QED
  BY <1>6, Consts DEF MemAlign, Wrap

(* A size that was rounded up once stays as it is.                         *)
LEMMA PoolBytesTwice ==
    ASSUME NEW n \in 0 .. SizeMod - 1, PoolBytes(n) # 0
    PROVE  PoolBytes(PoolBytes(n)) = PoolBytes(n)
<1>1. PICK y \in 0 .. SizeMod - 1 : y = Larger(n, MinPoolSize) /\ MinPoolSize <= y
  BY Consts DEF Larger
<1>2. PICK m \in 0 .. SizeMod - 1 : m = MemAlign(y) /\ m = PoolBytes(n)
  BY <1>1, MemAlignType DEF PoolBytes
<1>3. y <= m
  BY <1>1, <1>2, MemAlignGrowsOrZero
<1>4. Larger(m, MinPoolSize) = m
  BY <1>1, <1>2, <1>3, Consts DEF Larger
<1>5. AlignUp(y) \in Nat /\ AlignUp(y) < SizeMod + AlignSize
  BY <1>1, AlignUpBounds, Consts
<1>6. m = AlignUp(y)
  <2>1. CASE AlignUp(y) < SizeMod
    BY <1>2, <1>5, <2>1, Consts DEF MemAlign, Wrap
  <2>2. CASE AlignUp(y) >= SizeMod
    <3>1. m = AlignUp(y) - SizeMod
      BY <1>2, <2>2 DEF MemAlign, Wrap
    <3>2. m < AlignSize
      BY <1>5, <3>1, Consts
    <3>3. PICK q \in Int, k \in Int : AlignUp(y) = AlignSize * q /\ SizeMod = AlignSize * k
      BY <1>1, AlignUpMultiple, SizeModMultiple
    <3>4. AlignSize * k <= AlignSize * q /\ AlignSize * q < AlignSize * k + AlignSize
      BY <1>5, <2>2, <3>3
    <3>5. q = k
      BY <3>3, <3>4, MultipleGap, Consts
    <3>6. m = 0
      BY <3>1, <3>3, <3>5, Consts
    <3> QED
      BY <1>2, <3>6
  <2> QED
    BY <1>5, <2>1, <2>2, Consts
<1>7. PICK q \in Int : m = AlignSize * q
  BY <1>1, <1>6, AlignUpMultiple
<1>8. MemAlign(m) = m
  BY <1>7, AlignedTwice
<1> QED
  BY <1>2, <1>4, <1>8 DEF PoolBytes

LEMMA ServedTwice ==
    ASSUME NEW n \in 0 .. SizeMod - 1, PoolBytes(n) \in Served
    PROVE  PoolBytes(PoolBytes(n)) \in Served
<1>1. PoolBytes(n) # 0
  BY DEF Served
<1> QED
  BY <1>1, PoolBytesTwice

(* A growth of a shaped pool is served.                                    *)
LEMMA GrowthServed ==
    ASSUME HeapServes, TypeOK, NEW p \in Chunk, Live(p), Shaped(chunk[p]),
           "DYNAMIC" \in chunk[p].cf, NEW r \in Requests
    PROVE  /\ GrowthSize(p, Need(p, r)) \in Served
           /\ PoolBytes(GrowthSize(p, Need(p, r))) \in Served
           /\ Growths(p, Need(p, r)) = {"ok"}
<1>1. PICK n \in 0 .. SizeMod - 1 : n = Need(p, r)
  BY NeedType
<1>2. n \in {r, MemAlign(r)}
  BY <1>1 DEF Need
<1>3. chunk[p].cf \ {"CHILD"} \in CfChoices /\ PoolBytes(chunk[p].size) \in Served
  BY DEF Shaped, Live
<1>4. "DYNAMIC" \in chunk[p].cf \ {"CHILD"}
  OBVIOUS
<1>5. PoolBytes(n) \in Served
  BY <1>2, <1>3, <1>4 DEF HeapServes
<1>6. PICK m \in {n, chunk[p].size} : GrowthSize(p, n) = PoolBytes(m)
  BY DEF GrowthSize
<1>7. PoolBytes(m) \in Served /\ m \in 0 .. SizeMod - 1
  BY <1>3, <1>5, <1>6 DEF TypeOK, ChunkType
<1>8. PoolBytes(PoolBytes(m)) \in Served
  BY <1>7, ServedTwice
<1>9. NewOutcomes(GrowthSize(p, n), chunk[p].cf) = {"ok"}
  <2>1. PICK z \in Nat : z = GrowthSize(p, n) /\ z # 0 /\ z <= HeapMax /\ z + Overhead < SizeMod
    BY <1>6, <1>7 DEF Served
  <2>2. ~(z > 0 /\ z + Overhead >= SizeMod) /\ ~(z = 0 \/ z > HeapMax)
    BY <2>1, Consts
  <2>3. NewOutcomes(z, chunk[p].cf) = {"ok"}
    BY <2>2 DEF NewOutcomes, HeapServes
  <2> QED
    BY <2>1, <2>3
<1> QED
  BY <1>1, <1>6, <1>7, <1>8, <1>9 DEF Growths

(* Steps that neither free a struct nor change the list or the handles.    *)
LEMMA RegKept ==
    ASSUME RootsKept, ChainInv, RegInv, [Next]_vars,
           pools' = pools, up' = up, fault' = "none",
           held' = held, \A s \in held : handle'[s] = handle[s],
           \A x \in Chunk : Shaped(chunk'[x])
    PROVE  RegInv'
<1>1. Listed'
  BY DEF RegInv, Listed
<1>2. ASSUME NEW u \in Slot, Free(u) \/ ShrinkRewinds(u) PROVE FALSE
  <2>1. CASE Free(u)
    BY <2>1 DEF Free, On
  <2>2. CASE ShrinkRewinds(u)
    BY <2>2 DEF ShrinkRewinds, On, Call, RootsKept
  <2> QED
    BY <1>2, <2>1, <2>2
<1>3. ASSUME NEW s \in held PROVE chunk'[handle'[s]].live
  <2>1. handle[s] \in Chunk /\ Live(handle[s])
    BY DEF RegInv, ChainInv, TypeOK
  <2>2. chunk'[handle[s]].live
    BY <1>2, <2>1, StaysLive
  <2> QED
    BY <2>2
<1> QED
  BY <1>1, <1>3 DEF RegInv, Live

LEMMA RegSame ==
    ASSUME ChainInv, RegInv, chunk' = chunk, pools' = pools, up' = up, fault' = "none",
           held' = held, \A s \in held : handle'[s] = handle[s]
    PROVE  RegInv'
BY DEF RegInv, Listed, Live

(* The list is sound: every node of it that a call touches is live.        *)
LEMMA ListSound ==
    ASSUME TypeOK, RegInv
    PROVE  /\ ListFault(TouchedByInsert) = "none"
           /\ \A i \in DOMAIN pools : ListFault(TouchedByRemove(i)) = "none"
<1>1. up /\ \A i \in DOMAIN pools : Live(pools[i])
  BY DEF RegInv, Listed
<1>2. pools \in Seq(Chunk) /\ Len(pools) \in Nat /\ DOMAIN pools = 1 .. Len(pools)
  BY DEF TypeOK
<1>3. \A c \in TouchedByInsert : Live(c)
  <2>1. CASE pools = <<>>
    BY <2>1 DEF TouchedByInsert
  <2>2. CASE pools # <<>>
    <3>1. 1 \in DOMAIN pools /\ Len(pools) \in DOMAIN pools
      BY <1>2, <2>2
    <3> QED
      BY <1>1, <2>2, <3>1 DEF TouchedByInsert
  <2> QED
    BY <2>1, <2>2
<1>4. ASSUME NEW i \in DOMAIN pools PROVE \A c \in TouchedByRemove(i) : Live(c)
  <2>1. 1 \in DOMAIN pools
    BY <1>2
  <2> QED
    BY <1>1, <2>1 DEF TouchedByRemove
<1> QED
  BY <1>1, <1>3, <1>4 DEF ListFault

LEMMA RegNewPool ==
    ASSUME ChainInv, RegInv, HeapServes, NEW s \in Slot, NewPool(s)
    PROVE  RegInv'
<1>1. PICK n \in PoolSizes \ {0}, cf \in CfChoices, c \in Chunk :
          /\ Reusable(c)
          /\ chunk' = [chunk EXCEPT ![c] = NewChunk(c, PoolBytes(n), cf, NIL, c)]
          /\ pools' = Append(pools, c)
          /\ handle' = [handle EXCEPT ![s] = c]
          /\ s \notin held /\ held' = held \cup {s}
          /\ up' = up /\ fault' = "none"
  BY DEF NewPool, Returns
<1>2. PICK new : /\ new = NewChunk(c, PoolBytes(n), cf, NIL, c)
                 /\ new.live = TRUE /\ new.size = PoolBytes(n) /\ new.cf = cf
  <2>1. PICK ch : ch = NewChunk(c, PoolBytes(n), cf, NIL, c)
    OBVIOUS
  <2>2. PICK z : z = PoolBytes(n)
    OBVIOUS
  <2>3. ch.live = TRUE /\ ch.size = z /\ ch.cf = cf
    BY <2>1, <2>2 DEF NewChunk
  <2> QED
    BY <2>1, <2>2, <2>3
<1>3. chunk'[c] = new /\ \A x \in Chunk \ {c} : chunk'[x] = chunk[x]
  BY <1>1, <1>2 DEF ChainInv, TypeOK
<1>4. Shaped(new)
  <2>1. PoolBytes(PoolBytes(n)) \in Served
    <3>1. PoolBytes(n) \in Served /\ n \in 0 .. SizeMod - 1
      BY SizeAssumption DEF HeapServes
    <3> QED
      BY <3>1, ServedTwice
  <2>2. cf \ {"CHILD"} = cf
    BY ChoiceAssumption
  <2> QED
    BY <1>2, <2>1, <2>2 DEF Shaped
<1>5. \A x \in Chunk : Shaped(chunk'[x])
  BY <1>3, <1>4 DEF RegInv
<1>6. /\ handle'[s] = c
      /\ \A t \in held : handle'[t] = handle[t] /\ handle[t] \in Chunk \ {c}
  BY <1>1 DEF ChainInv, TypeOK, Reusable
<1>7. \A t \in held' : chunk'[handle'[t]].live
  BY <1>1, <1>2, <1>3, <1>6 DEF RegInv, Live
<1>8. Listed'
  <2>1. /\ pools \in Seq(Chunk) /\ Len(pools) \in Nat /\ DOMAIN pools = 1 .. Len(pools)
        /\ \A i \in DOMAIN pools : pools[i] # c
    BY <1>1 DEF ChainInv, TypeOK, Reusable
  <2>2. /\ DOMAIN pools' = 1 .. Len(pools) + 1
        /\ \A i \in 1 .. Len(pools) : pools'[i] = pools[i]
        /\ pools'[Len(pools) + 1] = c
    BY <1>1, <2>1
  <2>3. {pools'[i] : i \in DOMAIN pools'} = {pools[i] : i \in DOMAIN pools} \cup {c}
    BY <2>1, <2>2
  <2>4. {handle'[t] : t \in held'} = {handle[t] : t \in held} \cup {c}
    BY <1>1, <1>6
  <2>5. \A i, j \in DOMAIN pools' : pools'[i] = pools'[j] => i = j
    BY <2>1, <2>2 DEF RegInv, Listed
  <2> QED
    BY <2>3, <2>4, <2>5 DEF RegInv, Listed
<1> QED
  BY <1>1, <1>5, <1>7, <1>8 DEF RegInv, Live

LEMMA Removal ==
    ASSUME NEW q \in Seq(Chunk), NEW i \in DOMAIN q
    PROVE  /\ DOMAIN RemoveAt(q, i) = 1 .. Len(q) - 1
           /\ \A j \in 1 .. Len(q) - 1 : RemoveAt(q, i)[j] = IF j < i THEN q[j] ELSE q[j + 1]
<1>1. Len(q) \in Nat /\ DOMAIN q = 1 .. Len(q) /\ i \in 1 .. Len(q)
  OBVIOUS
<1>2. PICK a \in Seq(Chunk) : a = SubSeq(q, 1, i - 1)
  <2>1. i - 1 \in Int /\ \A j \in 1 .. i - 1 : q[j] \in Chunk
    BY <1>1
  <2>2. SubSeq(q, 1, i - 1) \in Seq(Chunk)
    BY <2>1, SubSeqProperties
  <2> QED
    BY <2>2
<1>3. Len(a) = i - 1 /\ \A j \in 1 .. i - 1 : a[j] = q[j]
  BY <1>1, <1>2, SubSeqProperties
<1>4. PICK b \in Seq(Chunk) : b = SubSeq(q, i + 1, Len(q))
  <2>1. i + 1 \in Int /\ \A j \in i + 1 .. Len(q) : q[j] \in Chunk
    BY <1>1
  <2>2. SubSeq(q, i + 1, Len(q)) \in Seq(Chunk)
    BY <1>1, <2>1, SubSeqProperties
  <2> QED
    BY <2>2
<1>5. Len(b) = Len(q) - i /\ \A j \in 1 .. Len(q) - i : b[j] = q[i + j]
  BY <1>1, <1>4, SubSeqProperties
<1>6. RemoveAt(q, i) = a \o b
  BY <1>2, <1>4 DEF RemoveAt
<1>7. PICK r \in Seq(Chunk) : r = a \o b
  BY ConcatProperties
<1>8. /\ Len(r) = Len(a) + Len(b)
      /\ \A j \in 1 .. Len(a) + Len(b) : r[j] = IF j <= Len(a) THEN a[j] ELSE b[j - Len(a)]
  BY <1>7, ConcatProperties
<1>9. DOMAIN r = 1 .. Len(q) - 1
  BY <1>1, <1>3, <1>5, <1>8
<1>10. ASSUME NEW j \in 1 .. Len(q) - 1
       PROVE  r[j] = IF j < i THEN q[j] ELSE q[j + 1]
  <2>1. CASE j < i
    BY <1>1, <1>3, <1>5, <1>8, <2>1
  <2>2. CASE j >= i
    <3>1. j - (i - 1) \in 1 .. Len(q) - i
      BY <1>1, <2>2
    <3>2. r[j] = b[j - (i - 1)]
      BY <1>1, <1>3, <1>5, <1>8, <2>2
    <3>3. b[j - (i - 1)] = q[i + (j - (i - 1))]
      BY <1>5, <3>1
    <3> QED
      BY <1>1, <2>2, <3>2, <3>3
  <2> QED
    BY <1>1, <2>1, <2>2
<1> QED
  BY <1>6, <1>7, <1>9, <1>10

Entries(q) == {q[j] : j \in DOMAIN q}
Distinct(q) == \A j, k \in DOMAIN q : q[j] = q[k] => j = k

(* A list without repetition loses the removed node and nothing else.      *)
LEMMA RemovalListed ==
    ASSUME NEW q \in Seq(Chunk), NEW i \in DOMAIN q, Distinct(q), NEW r, r = RemoveAt(q, i)
    PROVE  Entries(r) = Entries(q) \ {q[i]} /\ Distinct(r)
<1>0. \A j, k \in DOMAIN q : q[j] = q[k] => j = k
  BY DEF Distinct
<1>1. Len(q) \in Nat /\ DOMAIN q = 1 .. Len(q) /\ i \in Nat
  OBVIOUS
<1>2. /\ DOMAIN r = 1 .. Len(q) - 1
      /\ \A j \in 1 .. Len(q) - 1 : r[j] = IF j < i THEN q[j] ELSE q[j + 1]
  BY Removal
<1>3. ASSUME NEW j \in DOMAIN r
      PROVE  r[j] \in {q[k] : k \in DOMAIN q} \ {q[i]}
  <2>1. CASE j < i
    <3>1. j \in DOMAIN q /\ j # i /\ r[j] = q[j]
      BY <1>1, <1>2, <1>3, <2>1
    <3> QED
      BY <1>0, <3>1
  <2>2. CASE j >= i
    <3>1. j + 1 \in DOMAIN q /\ j + 1 # i /\ r[j] = q[j + 1]
      BY <1>1, <1>2, <1>3, <2>2
    <3> QED
      BY <1>0, <3>1
  <2> QED
    BY <1>1, <1>2, <1>3, <2>1, <2>2
<1>4. ASSUME NEW k \in DOMAIN q, q[k] # q[i]
      PROVE  \E j \in DOMAIN r : r[j] = q[k]
  <2>1. CASE k < i
    <3>1. k \in DOMAIN r /\ r[k] = q[k]
      BY <1>1, <1>2, <2>1
    <3> QED
      BY <3>1
  <2>2. CASE k > i
    <3>1. k - 1 \in DOMAIN r /\ r[k - 1] = q[k]
      BY <1>1, <1>2, <2>2
    <3> QED
      BY <3>1
  <2>3. k # i
    BY <1>4
  <2> QED
    BY <1>1, <2>1, <2>2, <2>3
<1>5. \A j, k \in DOMAIN r : r[j] = r[k] => j = k
  BY <1>0, <1>1, <1>2
<1> QED
  BY <1>3, <1>4, <1>5 DEF Entries, Distinct

LEMMA RegFree ==
    ASSUME ChainInv, RegInv, NEW s \in Slot, Free(s)
    PROVE  RegInv'
<1>1. PICK p \in Chunk :
          /\ p = handle[s] /\ s \in held /\ Live(p)
          /\ \A x \in Chain(p) : chunk'[x].live = FALSE
          /\ \A x \in Chunk \ Chain(p) : chunk'[x] = chunk[x]
  BY FreeLinks
<1>2. PICK i \in DOMAIN pools : pools[i] = p /\ pools' = RemoveAt(pools, i)
  BY <1>1 DEF Free, Unlinked
<1>3. held' = held \ {s} /\ handle' = handle /\ up' = up /\ fault' = "none"
  BY DEF Free, Returns
<1>4. {handle'[t] : t \in held'} = {handle[t] : t \in held} \ {p}
  BY <1>1, <1>3 DEF ChainInv, OneHandle
<1>5. Listed'
  <2>1. /\ {pools'[j] : j \in DOMAIN pools'} = {pools[j] : j \in DOMAIN pools} \ {p}
        /\ \A j, k \in DOMAIN pools' : pools'[j] = pools'[k] => j = k
    <3>1. PICK q \in Seq(Chunk) : q = pools /\ Distinct(q)
      BY DEF RegInv, Listed, Distinct, ChainInv, TypeOK
    <3>2. PICK r : r = RemoveAt(q, i) /\ pools' = r
      BY <1>2, <3>1
    <3>3. i \in DOMAIN q /\ q[i] = p
      BY <1>2, <3>1
    <3>4. Entries(r) = Entries(q) \ {p} /\ Distinct(r)
      BY <3>1, <3>2, <3>3, RemovalListed
    <3> QED
      BY <3>1, <3>2, <3>4 DEF Entries, Distinct
  <2> QED
    BY <1>4, <2>1 DEF RegInv, Listed
<1>6. ASSUME NEW t \in held' PROVE chunk'[handle'[t]].live
  <2>1. t \in held /\ t # s /\ Live(handle[t]) /\ handle[t] \in Chunk
    BY <1>3 DEF RegInv, ChainInv, TypeOK
  <2>2. handle[t] \in Chain(handle[t])
    BY <2>1, ChainBegins
  <2>3. handle[t] \notin Chain(p)
    BY <1>1, <2>1, <2>2, ChainsApart
  <2> QED
    BY <1>1, <1>3, <2>1, <2>3 DEF Live
<1>7. \A x \in Chunk : Shaped(chunk'[x])
  BY <1>1 DEF RegInv, Shaped
<1> QED
  BY <1>3, <1>5, <1>6, <1>7 DEF RegInv, Live

(* The steps that only move pointers within chunks keep sizes and flags.   *)
LEMMA ShapeTaken ==
    ASSUME NEW ch \in ChunkType, NEW k \in Kinds, NEW n, Shaped(ch)
    PROVE  Shaped(Taken(ch, k, n))
<1>1. /\ Taken(ch, k, n).live = ch.live /\ Taken(ch, k, n).size = ch.size
      /\ Taken(ch, k, n).cf = ch.cf
  BY DEF Taken, ChunkType, Kinds
<1> QED
  BY <1>1 DEF Shaped

LEMMA ShapeRewound ==
    ASSUME NEW ch \in ChunkType, Shaped(ch), NEW clean \in ChunkType,
           \/ clean = Rewound(ch)
           \/ clean = [ch EXCEPT !.pos = 0, !.zeroed = TRUE, !.lo = 0, !.hi = ch.size]
    PROVE  Shaped(clean)
<1>1. clean.live = ch.live /\ clean.size = ch.size /\ clean.cf = ch.cf
  BY DEF Rewound, ChunkType
<1> QED
  BY <1>1 DEF Shaped

LEMMA ShapeClear ==
    ASSUME ChainInv, RegInv, NEW s \in Slot, Clear(s) \/ Reset(s), NEW x \in Chunk
    PROVE  Shaped(chunk'[x])
<1>1. PICK p \in Chunk : p = handle[s]
  BY DEF Clear, Reset, On, ChainInv, TypeOK
<1>2. PICK rewound :
          /\ \/ rewound = [c \in Chunk |->
                   IF c \in Chain(p)
                   THEN [chunk[c] EXCEPT !.pos = 0, !.zeroed = TRUE,
                                         !.lo = 0, !.hi = chunk[c].size]
                   ELSE chunk[c]]
             \/ rewound = [c \in Chunk |->
                   IF c \in Chain(p) THEN Rewound(chunk[c]) ELSE chunk[c]]
          /\ chunk' = [rewound EXCEPT ![p].current = p]
  BY <1>1 DEF Clear, Reset
<1>3. chunk[x] \in ChunkType /\ Shaped(chunk[x])
  BY DEF ChainInv, TypeOK, RegInv
<1>4. rewound[x] \in ChunkType /\ Shaped(rewound[x])
  <2>1. CASE rewound[x] = chunk[x]
    BY <1>3, <2>1
  <2>2. CASE rewound[x] = Rewound(chunk[x])
    <3>1. rewound[x] \in ChunkType
      BY <1>3, <2>2, RewoundType
    <3> QED
      BY <1>3, <2>2, <3>1, ShapeRewound
  <2>3. CASE rewound[x] = [chunk[x] EXCEPT !.pos = 0, !.zeroed = TRUE,
                                           !.lo = 0, !.hi = chunk[x].size]
    <3>1. rewound[x] \in ChunkType
      BY <1>3, <2>3, ClearedType
    <3> QED
      BY <1>3, <2>3, <3>1, ShapeRewound
  <2> QED
    BY <1>2, <2>1, <2>2, <2>3
<1>5. ASSUME NEW ch \in ChunkType, Shaped(ch) PROVE Shaped([ch EXCEPT !.current = p])
  BY <1>5 DEF Shaped, ChunkType
<1>6. chunk'[x] \in {rewound[x], [rewound[x] EXCEPT !.current = p]}
  BY <1>2
<1> QED
  BY <1>4, <1>5, <1>6

LEMMA ShapeTake ==
    ASSUME ChainInv, RegInv, NEW s \in Slot, NEW x \in Chunk,
           \/ \E k \in Kinds : AllocHere(s, k)
           \/ RallocMove(s) \/ RallocInPlace(s)
    PROVE  Shaped(chunk'[x])
<1>1. \/ \E k \in Kinds : \E n, c : chunk' = [chunk EXCEPT ![c] = Taken(@, k, n)]
      \/ \E c, pos, lo : chunk' = [chunk EXCEPT ![c].pos = pos, ![c].lo = lo]
  BY DEF AllocHere, RallocMove, RallocInPlace, Kinds
<1>2. chunk[x] \in ChunkType /\ Shaped(chunk[x]) /\ chunk \in [Chunk -> ChunkType]
  BY DEF ChainInv, TypeOK, RegInv
<1>3. CASE \E k \in Kinds : \E n, c : chunk' = [chunk EXCEPT ![c] = Taken(@, k, n)]
  <2>0. PICK k \in Kinds : \E n, c : chunk' = [chunk EXCEPT ![c] = Taken(@, k, n)]
    BY <1>3
  <2>1. PICK n, c : chunk' = [chunk EXCEPT ![c] = Taken(@, k, n)]
    BY <2>0
  <2>2. chunk'[x] \in {chunk[x], Taken(chunk[x], k, n)}
    BY <1>2, <2>1
  <2> QED
    BY <1>2, <2>2, ShapeTaken
<1>4. CASE \E c, pos, lo : chunk' = [chunk EXCEPT ![c].pos = pos, ![c].lo = lo]
  <2>1. PICK c, pos, lo : chunk' = [chunk EXCEPT ![c].pos = pos, ![c].lo = lo]
    BY <1>4
  <2>2. chunk'[x].live = chunk[x].live /\ chunk'[x].size = chunk[x].size
        /\ chunk'[x].cf = chunk[x].cf
    BY <1>2, <2>1 DEF ChunkType
  <2> QED
    BY <1>2, <2>2 DEF Shaped
<1> QED
  BY <1>1, <1>3, <1>4

LEMMA ShapeGrow ==
    ASSUME ChainInv, RegInv, HeapServes, NEW s \in Slot, NEW k \in Kinds, AllocGrow(s, k),
           NEW x \in Chunk
    PROVE  Shaped(chunk'[x])
<1>1. PICK p \in Chunk, r \in Requests, c \in Chunk :
          /\ Live(p) /\ Reusable(c) /\ "DYNAMIC" \in chunk[p].cf
          /\ chunk' = [Grown(p, Need(p, r), c) EXCEPT ![c] = Taken(@, k, Need(p, r))]
  BY DEF AllocGrow, Asks, On
<1>2. PICK n \in 0 .. SizeMod - 1 : n = Need(p, r)
  BY NeedType DEF ChainInv
<1>3. /\ chunk[p].current \in Chunk /\ c # p /\ c # chunk[p].current
  BY <1>1, ReusableFresh DEF ChainInv, CurrentsExist
<1>4. PICK g \in [Chunk -> ChunkType] : g = Grown(p, n, c) /\ GrowthOf(p, n, c, g)
  BY <1>3, GrownType, GrownChunks DEF ChainInv
<1>5. PoolBytes(GrowthSize(p, n)) \in Served
  BY <1>1, <1>2, GrowthServed DEF ChainInv, RegInv
<1>6. Shaped(g[x])
  <2>1. CASE x = c
    <3>1. g[c].size = GrowthSize(p, n) /\ g[c].cf = chunk[p].cf \cup {"CHILD"}
      BY <1>4 DEF GrowthOf
    <3>2. chunk[p].cf \ {"CHILD"} \in CfChoices
      BY <1>1 DEF RegInv, Shaped, Live
    <3>3. (chunk[p].cf \cup {"CHILD"}) \ {"CHILD"} = chunk[p].cf \ {"CHILD"}
      OBVIOUS
    <3> QED
      BY <1>5, <2>1, <3>1, <3>2, <3>3 DEF Shaped
  <2>2. CASE x # c
    <3>1. g[x].live = chunk[x].live /\ g[x].size = chunk[x].size /\ g[x].cf = chunk[x].cf
      BY <1>4, <2>2 DEF GrowthOf
    <3> QED
      BY <3>1 DEF RegInv, Shaped
  <2> QED
    BY <2>1, <2>2
<1>7. chunk'[x] \in {g[x], Taken(g[x], k, n)}
  BY <1>1, <1>2, <1>4
<1> QED
  BY <1>4, <1>6, <1>7, ShapeTaken

LEMMA RegNext ==
    ASSUME HeapServes, RootsKept, RallocOnFixed, ChainInv, RegInv, [Next]_vars
    PROVE  RegInv'
<1>0. TypeOK
  BY DEF ChainInv
<1>1. ASSUME NEW n \in PoolSizes \ {0}, NEW cf PROVE NewOutcomes(PoolBytes(n), cf) = {"ok"}
  <2>1. PICK z \in Nat : z = PoolBytes(n) /\ z # 0 /\ z <= HeapMax /\ z + Overhead < SizeMod
    BY DEF HeapServes, Served
  <2>2. ~(z > 0 /\ z + Overhead >= SizeMod) /\ ~(z = 0 \/ z > HeapMax)
    BY <2>1, Consts
  <2>3. NewOutcomes(z, cf) = {"ok"}
    BY <2>2 DEF NewOutcomes, HeapServes
  <2> QED
    BY <2>1, <2>3
<1>2. ASSUME NEW p \in Chunk, NEW r \in Requests, Live(p), "DYNAMIC" \in chunk[p].cf
      PROVE  Growths(p, Need(p, r)) = {"ok"}
  BY <1>0, <1>2, GrowthServed DEF RegInv
<1>3. ASSUME NEW p \in Chunk, Live(p), "ralloc" \in Calls PROVE "DYNAMIC" \notin chunk[p].cf
  <2>1. chunk[p].cf \ {"CHILD"} \in CfChoices
    BY <1>3 DEF RegInv, Shaped, Live
  <2>2. "DYNAMIC" \notin chunk[p].cf \ {"CHILD"}
    BY <1>3, <2>1 DEF RallocOnFixed
  <2> QED
    BY <2>2
<1>4. ASSUME NEW code, Fails(code) PROVE RegInv'
  BY <1>4, RegSame DEF Fails, Returns
<1>5. ASSUME NEW s \in Slot, NewRejected(s) \/ RallocRefused(s) PROVE RegInv'
  BY <1>4, <1>5 DEF NewRejected, RallocRefused
<1>6. ASSUME NEW s \in Slot, NewPool(s) PROVE RegInv'
  BY <1>6, RegNewPool
<1>7. ASSUME NEW s \in Slot, NewNoStruct(s) PROVE FALSE
  BY <1>1, <1>7 DEF NewNoStruct
<1>8. ASSUME NEW s \in Slot, NewCrash(s) PROVE FALSE
  BY <1>0, <1>1, <1>8, ListSound DEF NewCrash
<1>9. ASSUME NEW s \in Slot, Free(s) PROVE RegInv'
  BY <1>9, RegFree
<1>10. ASSUME NEW s \in Slot, FreeCrash(s) PROVE FALSE
  BY <1>0, <1>10, ListSound DEF FreeCrash, RegInv
<1>11. ASSUME NEW s \in Slot, UseFreed(s) PROVE FALSE
  BY <1>11 DEF UseFreed, RegInv
<1>12. ASSUME NEW s \in Slot, Info(s) PROVE RegInv'
  BY <1>12, RegSame DEF Info, RegInv
<1>13. ASSUME NEW s \in Slot, Clear(s) \/ Reset(s) PROVE RegInv'
  <2>1. \A x \in Chunk : Shaped(chunk'[x])
    BY <1>13, ShapeClear
  <2> QED
    BY <1>13, <2>1, RegKept DEF Clear, Reset, Returns
<1>14. ASSUME NEW s \in Slot, ShrinkNothing(s) \/ ShrinkRewinds(s) \/ ShrinkCrash(s) PROVE FALSE
  BY <1>14 DEF ShrinkNothing, ShrinkRewinds, ShrinkCrash, On, Call, RootsKept
<1>15. ASSUME NEW d \in Slot, NEW s \in Slot, Merge(d, s) PROVE FALSE
  BY <1>15 DEF Merge, On, Call, RootsKept
<1>16. CASE Destroy \/ DestroyCrash
  BY <1>16 DEF Destroy, DestroyCrash, Call, RootsKept
<1>17. CASE UNCHANGED vars
  BY <1>17, RegSame DEF vars, RegInv
<1>18. ASSUME NEW s \in Slot, NEW k \in Kinds, AllocHere(s, k) PROVE RegInv'
  <2>1. \A x \in Chunk : Shaped(chunk'[x])
    BY <1>18, ShapeTake
  <2> QED
    BY <1>18, <2>1, RegKept DEF AllocHere, Returns
<1>19. ASSUME NEW s \in Slot, NEW k \in Kinds, AllocGrow(s, k) PROVE RegInv'
  <2>1. \A x \in Chunk : Shaped(chunk'[x])
    BY <1>19, ShapeGrow
  <2> QED
    BY <1>19, <2>1, RegKept DEF AllocGrow, Returns
<1>20. ASSUME NEW s \in Slot, NEW k \in Kinds, AllocFull(s, k) PROVE RegInv'
  BY <1>4, <1>20 DEF AllocFull
<1>21. ASSUME NEW s \in Slot, NEW k \in Kinds, AllocCrash(s, k) PROVE FALSE
  BY <1>0, <1>2, <1>21 DEF AllocCrash, Asks, On
<1>22. ASSUME NEW s \in Slot, DallocNoStruct(s) PROVE FALSE
  BY <1>0, <1>2, <1>22 DEF DallocNoStruct, Asks, On
<1>23. ASSUME NEW s \in Slot, RallocMove(s) \/ RallocInPlace(s) PROVE RegInv'
  <2>1. \A x \in Chunk : Shaped(chunk'[x])
    BY <1>23, ShapeTake
  <2> QED
    BY <1>23, <2>1, RegKept DEF RallocMove, RallocInPlace, Returns
<1>24. ASSUME NEW s \in Slot, RallocKeep(s) PROVE RegInv'
  BY <1>24, RegSame DEF RallocKeep, Returns
<1>25. ASSUME NEW s \in Slot, RallocSpill(s) \/ RallocCrash(s) PROVE FALSE
  BY <1>3, <1>25 DEF RallocSpill, RallocCrash, Resizes, On, Call
<1> QED
  BY <1>5, <1>6, <1>7, <1>8, <1>9, <1>10, <1>11, <1>12, <1>13, <1>14, <1>15, <1>16,
     <1>17, <1>18, <1>19, <1>20, <1>21, <1>22, <1>23, <1>24, <1>25
  DEF Next, Alloc, Ralloc

(* A client that keeps its roots (no merge, shrink or destroy) and does    *)
(* not resize in pools that can grow, on a heap that serves it: __pools    *)
(* lists exactly the open pools, each once, no freed struct is followed    *)
(* through the links of the list, and nothing else undefined is done.      *)
THEOREM RegistryStaysExact ==
    ASSUME HeapServes, RootsKept, RallocOnFixed
    PROVE  Spec => []RegistryExact
<1>1. Init => RegInv
  <2> SUFFICES ASSUME Init PROVE RegInv
    OBVIOUS
  <2>1. pools = <<>> /\ held = {} /\ up /\ fault = "none"
    BY DEF Init
  <2>2. \A x \in Chunk : ~chunk[x].live
    BY DEF Init, BlankChunk
  <2>3. DOMAIN pools = {}
    BY <2>1
  <2> QED
    BY <2>1, <2>2, <2>3 DEF RegInv, Listed, Shaped
<1>2. ChainInv /\ RegInv /\ [Next]_vars => RegInv'
  BY RegNext
<1>3. RegInv => RegistryExact
  BY DEF RegInv, Listed, RegistryExact, NoFault
<1> QED
  BY <1>1, <1>2, <1>3, ChainsAlways, PTL DEF Spec

-----------------------------------------------------------------------------
(* Sums over finite sets: what MapThenSumSet computes.                     *)

LEMMA LeastNumber ==
    ASSUME NEW S \in SUBSET Nat, S # {}
    PROVE  \E m \in S : \A k \in S : m <= k
<1> DEFINE R == {ss \in Nat \X Nat : ss[1] < ss[2]}
<1>1. IsWellFoundedOn(R, Nat)
  BY NatLessThanWellFounded DEF OpToRel
<1> HIDE DEF R
<1>2. PICK m \in S : \A k \in S : ~(<<k, m>> \in R)
  BY <1>1, WFMin
<1>3. \A k \in S : ~(k < m)
  BY <1>2 DEF R
<1> QED
  BY <1>3

AnyOf(s) == CHOOSE x \in s : TRUE

(* One unrolling of the sum of f over s.                                   *)
Summed(f, it, s) == IF s = {} THEN 0 ELSE f[AnyOf(s)] + it[s \ {AnyOf(s)}]

Sums(f, D, it) == it = [s \in D |-> Summed(f, it, s)]

SumsOf(f, S, it) == Sums(f, SUBSET S, it)

Total(f, S) == (CHOOSE it : SumsOf(f, S, it))[S]

Below(S, n) == {s \in SUBSET S : Cardinality(s) <= n}

(* What is left without the element that is summed next.                   *)
LEMMA Without ==
    ASSUME NEW s, IsFiniteSet(s), s # {}
    PROVE  /\ AnyOf(s) \in s /\ IsFiniteSet(s \ {AnyOf(s)})
           /\ Cardinality(s) \in Nat \ {0}
           /\ Cardinality(s \ {AnyOf(s)}) = Cardinality(s) - 1
<1>1. AnyOf(s) \in s
  BY DEF AnyOf
<1>2. Cardinality(s) \in Nat /\ Cardinality(s) # 0
  BY FS_CardinalityType, FS_EmptySet
<1> QED
  BY <1>1, <1>2, FS_RemoveElement

LEMMA SumsBelow ==
    ASSUME NEW f, NEW S, IsFiniteSet(S), NEW n \in Nat
    PROVE  \E it : Sums(f, Below(S, n), it)
<1> DEFINE Bad == {m \in Nat : ~\E it : Sums(f, Below(S, m), it)}
<1> SUFFICES ASSUME Bad # {} PROVE FALSE
  OBVIOUS
<1>1. PICK m \in Bad : \A k \in Bad : m <= k
  BY LeastNumber
<1>2. m \in Nat /\ ~\E it : Sums(f, Below(S, m), it)
  BY <1>1
<1>3. \A s \in SUBSET S : IsFiniteSet(s) /\ Cardinality(s) \in Nat
  BY FS_Subset, FS_CardinalityType
<1>4. CASE m = 0
  <2> DEFINE it == [s \in Below(S, m) |-> 0]
  <2>1. \A s \in Below(S, m) : s = {}
    BY <1>3, <1>4, FS_EmptySet DEF Below
  <2>2. \A s \in Below(S, m) : Summed(f, it, s) = 0
    BY <2>1 DEF Summed
  <2>3. Sums(f, Below(S, m), it)
    BY <2>2 DEF Sums, SumsOf
  <2> HIDE DEF it
  <2> QED
    BY <1>2, <2>3
<1>5. CASE m # 0
  <2>1. m - 1 \in Nat /\ m - 1 \notin Bad
    <3> HIDE DEF Bad
    <3> QED BY <1>1, <1>2, <1>5
  <2>2. PICK h : Sums(f, Below(S, m - 1), h)
    BY <2>1
  <2> DEFINE it == [s \in Below(S, m) |-> Summed(f, h, s)]
  <2>3. \A s \in Below(S, m - 1) : s \in Below(S, m) /\ it[s] = h[s]
    <3>1. \A s \in Below(S, m - 1) : s \in Below(S, m)
      BY <1>2, <1>3 DEF Below
    <3>2. \A s \in Below(S, m - 1) : h[s] = Summed(f, h, s)
      BY <2>2 DEF Sums, SumsOf
    <3> QED BY <3>1, <3>2
  <2>4. \A s \in Below(S, m) : s # {} => s \ {AnyOf(s)} \in Below(S, m - 1)
    BY <1>2, <1>3, Without DEF Below
  <2>5. \A s \in Below(S, m) : Summed(f, it, s) = Summed(f, h, s)
    <3> HIDE DEF it
    <3> QED BY <2>3, <2>4 DEF Summed
  <2>6. Sums(f, Below(S, m), it)
    BY <2>5 DEF Sums, SumsOf
  <2> HIDE DEF it
  <2> QED
    BY <1>2, <2>6
<1> QED
  BY <1>4, <1>5

LEMMA SumsExist ==
    ASSUME NEW f, NEW S, IsFiniteSet(S)
    PROVE  \E it : SumsOf(f, S, it)
<1>1. Cardinality(S) \in Nat
  BY FS_CardinalityType
<1>2. Below(S, Cardinality(S)) = SUBSET S
  BY FS_Subset DEF Below
<1>3. \E it : Sums(f, Below(S, Cardinality(S)), it)
  BY <1>1, SumsBelow
<1> QED
  BY <1>2, <1>3 DEF SumsOf

(* There is one way to sum.                                                *)
LEMMA SumsAgree ==
    ASSUME NEW f, NEW S, IsFiniteSet(S), NEW T \in SUBSET S,
           NEW a, SumsOf(f, S, a),
           NEW b, SumsOf(f, T, b)
    PROVE  a[T] = b[T]
<1> DEFINE Bad == {n \in Nat : \E s \in SUBSET T : Cardinality(s) = n /\ a[s] # b[s]}
<1>1. \A s \in SUBSET T : s \in SUBSET S /\ IsFiniteSet(s) /\ Cardinality(s) \in Nat
  BY FS_Subset, FS_CardinalityType
<1>2. \A s \in SUBSET T : a[s] = Summed(f, a, s)
  BY <1>1 DEF Sums, SumsOf
<1>3. \A s \in SUBSET T : b[s] = Summed(f, b, s)
  BY DEF Sums, SumsOf
<1>4. ASSUME Bad # {} PROVE FALSE
  <2>1. PICK m \in Bad : \A k \in Bad : m <= k
    BY <1>4, LeastNumber
  <2>2. PICK s \in SUBSET T : Cardinality(s) = m /\ a[s] # b[s]
    BY <2>1
  <2>3. s # {}
    BY <1>2, <1>3, <2>2 DEF Summed
  <2>4. /\ s \ {AnyOf(s)} \in SUBSET T /\ m \in Nat \ {0}
        /\ Cardinality(s \ {AnyOf(s)}) = m - 1
    BY <1>1, <2>2, <2>3, Without
  <2>5. m - 1 \in Nat /\ m - 1 \notin Bad
    <3> HIDE DEF Bad
    <3> QED BY <2>1, <2>4
  <2>6. a[s \ {AnyOf(s)}] = b[s \ {AnyOf(s)}]
    BY <2>4, <2>5
  <2> QED
    BY <1>2, <1>3, <2>2, <2>3, <2>6 DEF Summed
<1>5. Cardinality(T) \in Nat /\ T \in SUBSET T
  BY <1>1
<1>6. Cardinality(T) \notin Bad
  BY <1>4
<1> QED
  BY <1>5, <1>6

LEMMA TotalIs ==
    ASSUME NEW f, NEW S, IsFiniteSet(S), NEW T \in SUBSET S,
           NEW it, SumsOf(f, S, it)
    PROVE  it[T] = Total(f, T)
<1> DEFINE h == CHOOSE h : SumsOf(f, T, h)
<1>1. IsFiniteSet(T) /\ SumsOf(f, T, h)
  BY FS_Subset, SumsExist
<1> HIDE DEF h
<1>2. it[T] = h[T]
  BY <1>1, SumsAgree
<1> QED
  BY <1>2 DEF Total, h

LEMMA TotalStep ==
    ASSUME NEW f, NEW S, IsFiniteSet(S)
    PROVE  Total(f, S) = IF S = {} THEN 0 ELSE f[AnyOf(S)] + Total(f, S \ {AnyOf(S)})
<1>1. PICK it : SumsOf(f, S, it)
  BY SumsExist
<1>2. it[S] = Total(f, S) /\ it[S \ {AnyOf(S)}] = Total(f, S \ {AnyOf(S)})
  BY <1>1, TotalIs
<1>3. it[S] = Summed(f, it, S)
  BY <1>1 DEF Sums, SumsOf
<1> QED
  BY <1>2, <1>3 DEF Summed

(* The sum of integers is one.                                             *)
LEMMA TotalInt ==
    ASSUME NEW f, NEW S, IsFiniteSet(S), \A x \in S : f[x] \in Int
    PROVE  Total(f, S) \in Int
<1> DEFINE Bad == {n \in Nat : \E s \in SUBSET S : Cardinality(s) = n /\ Total(f, s) \notin Int}
<1>1. \A s \in SUBSET S : IsFiniteSet(s) /\ Cardinality(s) \in Nat
  BY FS_Subset, FS_CardinalityType
<1>2. ASSUME Bad # {} PROVE FALSE
  <2>1. PICK m \in Bad : \A k \in Bad : m <= k
    BY <1>2, LeastNumber
  <2>2. PICK s \in SUBSET S : Cardinality(s) = m /\ Total(f, s) \notin Int
    BY <2>1
  <2>3. Total(f, s) = IF s = {} THEN 0 ELSE f[AnyOf(s)] + Total(f, s \ {AnyOf(s)})
    BY <1>1, TotalStep
  <2>4. s # {}
    BY <2>2, <2>3
  <2>5. /\ AnyOf(s) \in S /\ s \ {AnyOf(s)} \in SUBSET S /\ m \in Nat \ {0}
        /\ Cardinality(s \ {AnyOf(s)}) = m - 1
    BY <1>1, <2>2, <2>4, Without
  <2>6. m - 1 \in Nat /\ m - 1 \notin Bad
    <3> HIDE DEF Bad
    <3> QED BY <2>1, <2>5
  <2>7. Total(f, s \ {AnyOf(s)}) \in Int
    BY <2>5, <2>6
  <2> QED
    BY <2>2, <2>3, <2>4, <2>5, <2>7
<1>3. Cardinality(S) \in Nat /\ S \in SUBSET S /\ Cardinality(S) \notin Bad
  BY <1>1, <1>2
<1> QED
  BY <1>3

(* Only the values on the set count.                                       *)
LEMMA TotalSame ==
    ASSUME NEW f, NEW g, NEW S, IsFiniteSet(S), \A x \in S : f[x] = g[x]
    PROVE  Total(f, S) = Total(g, S)
<1> DEFINE Bad == {n \in Nat : \E s \in SUBSET S :
                      Cardinality(s) = n /\ Total(f, s) # Total(g, s)}
<1>1. \A s \in SUBSET S : IsFiniteSet(s) /\ Cardinality(s) \in Nat
  BY FS_Subset, FS_CardinalityType
<1>2. ASSUME Bad # {} PROVE FALSE
  <2>1. PICK m \in Bad : \A k \in Bad : m <= k
    BY <1>2, LeastNumber
  <2>2. PICK s \in SUBSET S : Cardinality(s) = m /\ Total(f, s) # Total(g, s)
    BY <2>1
  <2>3. /\ Total(f, s) = IF s = {} THEN 0 ELSE f[AnyOf(s)] + Total(f, s \ {AnyOf(s)})
        /\ Total(g, s) = IF s = {} THEN 0 ELSE g[AnyOf(s)] + Total(g, s \ {AnyOf(s)})
    BY <1>1, TotalStep
  <2>4. s # {}
    BY <2>2, <2>3
  <2>5. /\ AnyOf(s) \in S /\ s \ {AnyOf(s)} \in SUBSET S /\ m \in Nat \ {0}
        /\ Cardinality(s \ {AnyOf(s)}) = m - 1
    BY <1>1, <2>2, <2>4, Without
  <2>6. m - 1 \in Nat /\ m - 1 \notin Bad
    <3> HIDE DEF Bad
    <3> QED BY <2>1, <2>5
  <2>7. Total(f, s \ {AnyOf(s)}) = Total(g, s \ {AnyOf(s)})
    BY <2>5, <2>6
  <2> QED
    BY <2>2, <2>3, <2>4, <2>5, <2>7
<1>3. Cardinality(S) \in Nat /\ S \in SUBSET S /\ Cardinality(S) \notin Bad
  BY <1>1, <1>2
<1> QED
  BY <1>3

(* The order does not count: any element may be summed last.               *)
LEMMA TotalLast ==
    ASSUME NEW f, NEW S, IsFiniteSet(S), \A x \in S : f[x] \in Int, NEW z \in S
    PROVE  Total(f, S) = Total(f, S \ {z}) + f[z]
<1> DEFINE Bad == {n \in Nat : \E s \in SUBSET S, y \in S :
                      /\ Cardinality(s) = n /\ y \in s
                      /\ Total(f, s) # Total(f, s \ {y}) + f[y]}
<1>1. \A s \in SUBSET S : IsFiniteSet(s) /\ Cardinality(s) \in Nat
  BY FS_Subset, FS_CardinalityType
<1>2. \A s \in SUBSET S : Total(f, s) \in Int
  BY <1>1, TotalInt
<1>3. ASSUME Bad # {} PROVE FALSE
  <2>1. PICK m \in Bad : \A k \in Bad : m <= k
    BY <1>3, LeastNumber
  <2>2. PICK s \in SUBSET S, y \in S : /\ Cardinality(s) = m /\ y \in s
                                       /\ Total(f, s) # Total(f, s \ {y}) + f[y]
    BY <2>1
  <2> DEFINE x == AnyOf(s)
             t == s \ {x}
             u == s \ {y}
             v == t \ {y}
  <2>3. s # {} /\ x \in S /\ x \in s /\ m \in Nat \ {0}
        /\ IsFiniteSet(t) /\ Cardinality(t) = m - 1
    BY <1>1, <2>2, Without
  <2>4. Total(f, s) = f[x] + Total(f, t)
    BY <1>1, <2>3, TotalStep
  <2>5. t \in SUBSET S /\ u \in SUBSET S /\ v \in SUBSET S
    OBVIOUS
  <2>6. Total(f, t) \in Int /\ Total(f, u) \in Int /\ Total(f, v) \in Int
        /\ f[x] \in Int /\ f[y] \in Int
    <3> HIDE DEF t, u, v, x
    <3> QED BY <1>2, <2>3, <2>5
  <2>7. x # y
    <3> SUFFICES ASSUME x = y PROVE FALSE
      OBVIOUS
    <3>1. Total(f, s) = f[y] + Total(f, u)
      BY <2>4
    <3> HIDE DEF t, u, v, x
    <3> QED BY <2>2, <2>6, <3>1 DEF u
  <2>8. m - 1 \in Nat /\ m - 1 \notin Bad
    <3> HIDE DEF Bad
    <3> QED BY <2>1, <2>3
  <2>9. Total(f, t) = Total(f, v) + f[y]
    <3>1. y \in t
      BY <2>2, <2>7
    <3> HIDE DEF t, x, u
    <3> QED BY <2>3, <2>5, <2>8, <3>1
  <2>10. Total(f, u) = Total(f, v) + f[x]
    <3>1. x \in u /\ v = u \ {x}
      BY <2>3, <2>7
    <3>2. Cardinality(u) = m - 1
      BY <1>1, <2>2, <2>3, FS_RemoveElement
    <3> HIDE DEF t, u, v, x
    <3> QED BY <2>3, <2>5, <2>8, <3>1, <3>2
  <2> QED
    BY <2>2, <2>4, <2>6, <2>9, <2>10
<1>4. Cardinality(S) \in Nat /\ S \in SUBSET S /\ Cardinality(S) \notin Bad
  BY <1>1, <1>3
<1> QED
  BY <1>4

(* Two sets that have nothing in common.                                   *)
LEMMA TotalUnion ==
    ASSUME NEW f, NEW X, NEW Y, IsFiniteSet(X), IsFiniteSet(Y), X \cap Y = {},
           \A x \in X \cup Y : f[x] \in Int
    PROVE  Total(f, X \cup Y) = Total(f, X) + Total(f, Y)
<1> DEFINE Bad == {n \in Nat : \E s \in SUBSET Y :
                      Cardinality(s) = n /\ Total(f, X \cup s) # Total(f, X) + Total(f, s)}
<1>1. \A s \in SUBSET Y : /\ IsFiniteSet(s) /\ Cardinality(s) \in Nat
                          /\ IsFiniteSet(X \cup s)
  BY FS_Subset, FS_CardinalityType, FS_Union
<1>2. /\ Total(f, X) \in Int
      /\ \A s \in SUBSET Y : Total(f, X \cup s) \in Int /\ Total(f, s) \in Int
  BY <1>1, TotalInt
<1>3. ASSUME Bad # {} PROVE FALSE
  <2>1. PICK m \in Bad : \A k \in Bad : m <= k
    BY <1>3, LeastNumber
  <2>2. PICK s \in SUBSET Y : /\ Cardinality(s) = m
                              /\ Total(f, X \cup s) # Total(f, X) + Total(f, s)
    BY <2>1
  <2>3. s # {}
    <3>1. Total(f, {}) = 0
      BY FS_EmptySet, TotalStep
    <3>2. X \cup {} = X
      OBVIOUS
    <3> SUFFICES ASSUME s = {} PROVE FALSE
      OBVIOUS
    <3>3. Total(f, X \cup s) = Total(f, X) /\ Total(f, s) = 0
      BY <3>1, <3>2
    <3> QED BY <1>2, <2>2, <3>3
  <2> DEFINE x == AnyOf(s)
             t == s \ {x}
  <2>4. x \in s /\ m \in Nat \ {0} /\ Cardinality(t) = m - 1
    BY <1>1, <2>2, <2>3, Without
  <2>5. Total(f, s) = Total(f, t) + f[x]
    BY <1>1, <2>4, TotalLast
  <2>6. Total(f, X \cup s) = Total(f, X \cup t) + f[x]
    <3>1. (X \cup s) \ {x} = X \cup t /\ x \in X \cup s
      BY <2>4
    <3>2. Total(f, X \cup s) = Total(f, (X \cup s) \ {x}) + f[x]
      <4> HIDE DEF x, t
      <4> QED BY <1>1, <2>4, TotalLast
    <3> QED BY <3>1, <3>2
  <2>7. m - 1 \in Nat /\ m - 1 \notin Bad
    <3> HIDE DEF Bad
    <3> QED BY <2>1, <2>4
  <2>8. t \in SUBSET Y
    OBVIOUS
  <2>9. Total(f, X \cup t) = Total(f, X) + Total(f, t)
    <3> HIDE DEF t, x
    <3> QED BY <2>4, <2>7, <2>8
  <2>10. f[x] \in Int /\ Total(f, t) \in Int
    BY <1>2, <2>4, <2>8
  <2> QED
    BY <1>2, <2>2, <2>5, <2>6, <2>9, <2>10
<1>4. Cardinality(Y) \in Nat /\ Y \in SUBSET Y /\ Cardinality(Y) \notin Bad
  BY <1>1, <1>3
<1> QED
  BY <1>4

(* A set taken to parts that have nothing in common.                       *)
LEMMA TotalParts ==
    ASSUME NEW f, NEW g, NEW C, IsFiniteSet(C), NEW D, IsFiniteSet(D), NEW P,
           \A c \in C : P[c] \in SUBSET D,
           \A c, d \in C : c # d => P[c] \cap P[d] = {},
           \A x \in D : f[x] \in Int,
           \A c \in C : g[c] = Total(f, P[c])
    PROVE  Total(g, C) = Total(f, UNION {P[c] : c \in C})
<1> DEFINE All(s) == UNION {P[c] : c \in s}
           Bad == {n \in Nat : \E s \in SUBSET C :
                      Cardinality(s) = n /\ Total(g, s) # Total(f, All(s))}
<1>1. \A s \in SUBSET C : IsFiniteSet(s) /\ Cardinality(s) \in Nat
  BY FS_Subset, FS_CardinalityType
<1>2. \A s \in SUBSET C : All(s) \in SUBSET D
  OBVIOUS
<1>3. \A d \in SUBSET D : IsFiniteSet(d) /\ Total(f, d) \in Int
  <2>1. \A d \in SUBSET D : IsFiniteSet(d)
    BY FS_Subset
  <2> QED BY <2>1, TotalInt
<1>4. ASSUME Bad # {} PROVE FALSE
  <2>1. PICK m \in Bad : \A k \in Bad : m <= k
    BY <1>4, LeastNumber
  <2>2. PICK s \in SUBSET C : Cardinality(s) = m /\ Total(g, s) # Total(f, All(s))
    BY <2>1
  <2>3. s # {}
    <3>1. Total(f, {}) = 0 /\ Total(g, {}) = 0
      BY FS_EmptySet, TotalStep
    <3>2. All({}) = {}
      OBVIOUS
    <3> HIDE DEF All
    <3> QED BY <2>2, <3>1, <3>2
  <2> DEFINE x == AnyOf(s)
             t == s \ {x}
  <2>4. x \in s /\ m \in Nat \ {0} /\ Cardinality(t) = m - 1
    BY <1>1, <2>2, <2>3, Without
  <2>5. \A c \in C : g[c] \in Int
    BY <1>3
  <2>6. Total(g, s) = Total(g, t) + g[x]
    BY <1>1, <2>4, <2>5, TotalLast
  <2>7. m - 1 \in Nat /\ m - 1 \notin Bad
    <3> HIDE DEF Bad
    <3> QED BY <2>1, <2>4
  <2>8. t \in SUBSET C /\ x \in C
    BY <2>4
  <2>9. Total(g, t) = Total(f, All(t))
    <3> HIDE DEF t, x, All
    <3> QED BY <2>4, <2>7, <2>8
  <2>10. All(s) = All(t) \cup P[x]
    BY <2>4
  <2>11. All(t) \cap P[x] = {}
    <3>1. \A c \in t : P[c] \cap P[x] = {}
      BY <2>8
    <3> HIDE DEF t, x
    <3> QED BY <3>1
  <2>12. All(t) \in SUBSET D /\ P[x] \in SUBSET D
    BY <1>2, <2>8
  <2>13. Total(f, All(s)) = Total(f, All(t)) + Total(f, P[x])
    <3> HIDE DEF t, x, All
    <3> QED BY <1>3, <2>10, <2>11, <2>12, TotalUnion
  <2> QED
    BY <2>2, <2>6, <2>8, <2>9, <2>13
<1>5. Cardinality(C) \in Nat /\ C \in SUBSET C /\ Cardinality(C) \notin Bad
  BY <1>1, <1>4
<1>6. Total(g, C) = Total(f, All(C))
  BY <1>5
<1> QED
  BY <1>6

(* What ina_mempool_info adds up, and the blocks it should come to.        *)
UsedOf == [c \in Chunk |-> chunk[c].pos + (chunk[c].size - chunk[c].end)]
Lens == [b \in BlockType |-> b.len]

InfoUsed(S) == MapThenSumSet(LAMBDA c : chunk[c].pos + (chunk[c].size - chunk[c].end), S)
LensUsed(S) == MapThenSumSet(LAMBDA b : b.len, S)

LEMMA InfoUsedIs ==
    ASSUME NEW S \in SUBSET Chunk, IsFiniteSet(S)
    PROVE  InfoUsed(S) = Total(UsedOf, S)
<1> DEFINE Used(it) == it = [s \in SUBSET S |-> IF s = {} THEN 0
                ELSE (chunk[AnyOf(s)].pos + (chunk[AnyOf(s)].size - chunk[AnyOf(s)].end))
                        + it[s \ {AnyOf(s)}]]
           h == CHOOSE it : Used(it)
<1>1. InfoUsed(S) = h[S]
  BY DEF InfoUsed, MapThenSumSet, MapThenFoldSet, AnyOf
<1>2. ASSUME NEW it PROVE Used(it) <=> SumsOf(UsedOf, S, it)
  <2>1. \A s \in SUBSET S : s # {} => AnyOf(s) \in Chunk
    BY DEF AnyOf
  <2>2. \A c \in Chunk : UsedOf[c] = chunk[c].pos + (chunk[c].size - chunk[c].end)
    BY DEF UsedOf
  <2> HIDE DEF h
  <2> QED
    BY <2>1, <2>2 DEF SumsOf, Sums, Summed
<1> HIDE DEF Used
<1>3. Used(h)
  BY <1>2, SumsExist
<1>4. SumsOf(UsedOf, S, h)
  BY <1>2, <1>3
<1> HIDE DEF h
<1> QED
  BY <1>1, <1>4, TotalIs

LEMMA LensUsedIs ==
    ASSUME NEW S \in SUBSET BlockType, IsFiniteSet(S)
    PROVE  LensUsed(S) = Total(Lens, S)
<1> DEFINE Used(it) == it = [s \in SUBSET S |-> IF s = {} THEN 0
                                  ELSE AnyOf(s).len + it[s \ {AnyOf(s)}]]
           h == CHOOSE it : Used(it)
<1>1. LensUsed(S) = h[S]
  BY DEF LensUsed, MapThenSumSet, MapThenFoldSet, AnyOf
<1>2. ASSUME NEW it PROVE Used(it) <=> SumsOf(Lens, S, it)
  <2>1. \A s \in SUBSET S : s # {} => AnyOf(s) \in BlockType
    BY DEF AnyOf
  <2>2. \A b \in BlockType : Lens[b] = b.len
    BY DEF Lens
  <2> HIDE DEF h
  <2> QED
    BY <2>1, <2>2 DEF SumsOf, Sums, Summed
<1> HIDE DEF Used
<1>3. Used(h)
  BY <1>2, SumsExist
<1>4. SumsOf(Lens, S, h)
  BY <1>2, <1>3
<1> HIDE DEF h
<1> QED
  BY <1>1, <1>4, TotalIs

(* The uses in the model.                                                  *)
LEMMA UsedExactIs ==
    UsedExact <=> \A s \in held : InfoUsed(Chain(handle[s]))
                                    = LensUsed({b \in blocks : b.pool = handle[s]})
BY DEF UsedExact, InfoOf, InfoUsed, LensUsed

-----------------------------------------------------------------------------
(* What ina_mempool_info reports.                                          *)

(* merge drops chunks of the pool it takes, clear and shrink give up       *)
(* blocks whose space stays taken, after a reset the next growth loses     *)
(* chunks, and ralloc moves a block without giving back its space.         *)
TakesOnly == NeverRewinds /\ "ralloc" \notin Calls

InOf(bs, c) == {b \in bs : b.mem = c}

(* The bytes taken in a chunk, from both sides.                            *)
Room(ch) == ch.pos + (ch.size - ch.end)

OnItsSide(b, ch) ==
    /\ b.kind = "d" => b.off + b.len <= ch.pos
    /\ b.kind = "n" => ch.end <= b.off

(* Each chunk has given as many bytes as it has taken.                     *)
SpaceTold ==
    /\ IsFiniteSet(blocks) /\ IsFiniteSet({c \in Chunk : chunk[c].live})
    /\ \A s \in held : Live(handle[s])
    /\ \A b \in blocks : /\ Live(b.mem) /\ chunk[b.mem].root = b.pool
                         /\ OnItsSide(b, chunk[b.mem])
    /\ \A c \in Chunk : Live(c) => Total(Lens, InOf(blocks, c)) = Room(chunk[c])

SpaceInv == LeakInv /\ SpaceTold

LEMMA LensInt ==
    ASSUME TypeOK
    PROVE  /\ \A b \in blocks : b \in BlockType /\ Lens[b] = b.len /\ Lens[b] \in Int
           /\ \A c \in Chunk : InOf(blocks, c) \in SUBSET blocks
BY DEF TypeOK, BlockType, Lens, InOf

LEMMA SpaceInit == Init => SpaceTold
<1> SUFFICES ASSUME Init PROVE SpaceTold
  OBVIOUS
<1>1. blocks = {} /\ held = {} /\ \A c \in Chunk : chunk[c].live = FALSE
  BY DEF Init, BlankChunk
<1>2. {c \in Chunk : chunk[c].live} = {}
  BY <1>1
<1> QED
  BY <1>1, <1>2, FS_EmptySet DEF SpaceTold, Live

(* One block more, in a chunk that may be new.                             *)
LEMMA SpaceAdd ==
    ASSUME TypeOK, TypeOK', SpaceTold, NEW c \in Chunk, NEW b \in BlockType,
           b.mem = c, blocks' = blocks \cup {b}, b \in blocks => b.len = 0,
           held' = held, handle' = handle,
           \A x \in Chunk \ {c} :
              /\ chunk'[x].live = chunk[x].live /\ chunk'[x].root = chunk[x].root
              /\ chunk'[x].pos = chunk[x].pos /\ chunk'[x].end = chunk[x].end
              /\ chunk'[x].size = chunk[x].size,
           chunk'[c].live, chunk'[c].root = b.pool, OnItsSide(b, chunk'[c]),
           \A x \in blocks : x.mem = c => x.pool = b.pool /\ OnItsSide(x, chunk'[c]),
           Room(chunk'[c]) = Total(Lens, InOf(blocks, c)) + b.len
    PROVE  SpaceTold'
<1>1. IsFiniteSet(blocks')
  BY FS_AddElement DEF SpaceTold
<1>2. IsFiniteSet({x \in Chunk : chunk'[x].live})
  <2> DEFINE L == {x \in Chunk : chunk[x].live}
  <2>1. IsFiniteSet(L \cup {c})
    BY FS_AddElement DEF SpaceTold
  <2>2. {x \in Chunk : chunk'[x].live} \in SUBSET (L \cup {c})
    OBVIOUS
  <2> HIDE DEF L
  <2> QED
    BY <2>1, <2>2, FS_Subset
<1>3. \A s \in held' : Live(handle[s])'
  <2>1. \A s \in held : handle[s] \in Chunk /\ chunk[handle[s]].live
    BY DEF SpaceTold, Live, TypeOK
  <2>2. \A x \in Chunk : chunk[x].live => chunk'[x].live
    OBVIOUS
  <2> QED
    BY <2>1, <2>2 DEF Live
<1>4. ASSUME NEW x \in blocks'
      PROVE  /\ chunk'[x.mem].live /\ chunk'[x.mem].root = x.pool
             /\ OnItsSide(x, chunk'[x.mem])
  <2>1. CASE x = b
    BY <2>1
  <2>2. CASE x # b
    <3>1. x \in blocks /\ x.mem \in Chunk
      BY <2>2 DEF TypeOK, BlockType
    <3>2. /\ chunk[x.mem].live /\ chunk[x.mem].root = x.pool
          /\ OnItsSide(x, chunk[x.mem])
      BY <3>1 DEF SpaceTold, Live
    <3>3. CASE x.mem = c
      BY <3>1, <3>3
    <3>4. CASE x.mem # c
      BY <3>1, <3>2, <3>4 DEF OnItsSide
    <3> QED
      BY <3>3, <3>4
  <2> QED
    BY <2>1, <2>2
<1>5. ASSUME NEW x \in Chunk, chunk'[x].live
      PROVE  Total(Lens, InOf(blocks', x)) = Room(chunk'[x])
  <2>1. CASE x # c
    <3>1. InOf(blocks', x) = InOf(blocks, x)
      BY <2>1 DEF InOf
    <3>2. Live(x) /\ Room(chunk'[x]) = Room(chunk[x])
      BY <1>5, <2>1 DEF Live, Room
    <3> QED
      BY <3>1, <3>2 DEF SpaceTold
  <2>2. CASE x = c
    <3> DEFINE S == InOf(blocks, c)
               T == InOf(blocks', c)
    <3>1. T = S \cup {b}
      BY DEF InOf
    <3>2. IsFiniteSet(T)
      <4>1. T \in SUBSET blocks'
        BY DEF InOf
      <4> HIDE DEF T
      <4> QED BY <1>1, <4>1, FS_Subset
    <3>3. \A y \in T : Lens[y] \in Int
      BY DEF TypeOK, BlockType, Lens, InOf
    <3>4. Lens[b] = b.len /\ b.len \in Int
      BY DEF Lens, BlockType
    <3>5. CASE b \in S
      <4>1. T = S /\ b.len = 0
        BY <3>1, <3>5 DEF InOf
      <4>2. Total(Lens, S) \in Int
        <5> HIDE DEF S, T
        <5> QED BY <3>2, <3>3, <4>1, TotalInt
      <4> HIDE DEF S, T
      <4>3. Room(chunk'[c]) = Total(Lens, S)
        BY <4>1, <4>2 DEF S
      <4> QED
        BY <2>2, <4>1, <4>3 DEF S, T
    <3>6. CASE b \notin S
      <4>1. T \ {b} = S /\ b \in T
        BY <3>1, <3>6
      <4> HIDE DEF S, T
      <4>2. Total(Lens, T) = Total(Lens, S) + Lens[b]
        BY <3>2, <3>3, <4>1, TotalLast
      <4> QED
        BY <2>2, <3>4, <4>2 DEF S, T
    <3> QED
      BY <3>5, <3>6
  <2> QED
    BY <2>1, <2>2
<1> QED
  BY <1>1, <1>2, <1>3, <1>4, <1>5 DEF SpaceTold, Live

(* Nothing that counts is changed.                                         *)
LEMMA SpaceSame ==
    ASSUME SpaceTold, chunk' = chunk, blocks' = blocks, held' = held,
           \A s \in held : handle'[s] = handle[s]
    PROVE  SpaceTold'
BY DEF SpaceTold, Live

LEMMA SpaceNewPool ==
    ASSUME ChainInv, TypeOK', SpaceTold, NEW s \in Slot, NewPool(s)
    PROVE  SpaceTold'
<1>1. PICK n \in PoolSizes \ {0}, cf \in CfChoices, c \in Chunk :
          /\ Reusable(c)
          /\ chunk' = [chunk EXCEPT ![c] = NewChunk(c, PoolBytes(n), cf, NIL, c)]
          /\ handle' = [handle EXCEPT ![s] = c]
          /\ s \notin held /\ held' = held \cup {s} /\ blocks' = blocks
  BY DEF NewPool
<1>2. PICK size \in Nat : size = PoolBytes(n)
  BY PoolBytesType, SizeAssumption
<1>3. /\ chunk'[c].live = TRUE /\ chunk'[c].size = size /\ chunk'[c].end = size
      /\ chunk'[c].pos = 0
  BY <1>1, <1>2 DEF NewChunk, ChainInv, TypeOK
<1>4. \A x \in Chunk \ {c} : chunk'[x] = chunk[x]
  BY <1>1 DEF ChainInv, TypeOK
<1>5. IsFiniteSet({x \in Chunk : chunk'[x].live})
  <2> DEFINE L == {x \in Chunk : chunk[x].live}
  <2>1. IsFiniteSet(L \cup {c})
    BY FS_AddElement DEF SpaceTold
  <2>2. {x \in Chunk : chunk'[x].live} \in SUBSET (L \cup {c})
    BY <1>4
  <2> HIDE DEF L
  <2> QED
    BY <2>1, <2>2, FS_Subset
<1>6. \A t \in held' : chunk'[handle'[t]].live
  <2>1. handle'[s] = c /\ \A t \in held : handle'[t] = handle[t] /\ handle[t] \in Chunk
    BY <1>1 DEF ChainInv, TypeOK
  <2>2. \A t \in held : chunk[handle[t]].live
    BY DEF SpaceTold, Live
  <2> QED
    BY <1>1, <1>3, <1>4, <2>1, <2>2
<1>7. \A b \in blocks : b.mem \in Chunk /\ b.mem # c
  BY <1>1 DEF SpaceTold, Reusable, ChainInv, TypeOK, BlockType
<1>8. \A b \in blocks : /\ chunk'[b.mem].live /\ chunk'[b.mem].root = b.pool
                        /\ OnItsSide(b, chunk'[b.mem])
  BY <1>4, <1>7 DEF SpaceTold, Live
<1>9. ASSUME NEW x \in Chunk, chunk'[x].live
      PROVE  Total(Lens, InOf(blocks, x)) = Room(chunk'[x])
  <2>1. CASE x = c
    <3>1. InOf(blocks, c) = {}
      BY <1>7 DEF InOf
    <3>2. Total(Lens, {}) = 0
      BY FS_EmptySet, TotalStep
    <3>3. Room(chunk'[c]) = 0
      BY <1>3 DEF Room
    <3> QED
      BY <2>1, <3>1, <3>2, <3>3
  <2>2. CASE x # c
    BY <1>4, <1>9, <2>2 DEF SpaceTold, Live
  <2> QED
    BY <2>1, <2>2
<1> QED
  BY <1>1, <1>5, <1>6, <1>8, <1>9 DEF SpaceTold, Live

(* Every live chunk is in the chain of the pool it belongs to.             *)
LEMMA RootCovers ==
    ASSUME LeakInv, NEW c \in Chunk, Live(c)
    PROVE  /\ chunk[c].root \in Chunk /\ c \in Chain(chunk[c].root)
           /\ Owned(chunk[c].root) /\ Live(chunk[c].root)
<1>1. PICK q \in Chunk : Owned(q) /\ c \in Chain(q) /\ Live(q) /\ RootFree(q)
  BY CoverLives DEF LeakInv
<1>2. chunk[c].root = q
  BY <1>1, ChainLives DEF LeakInv, ChainInv, RootFree
<1> QED
  BY <1>1, <1>2

LEMMA SpaceFree ==
    ASSUME LeakInv, TypeOK', SpaceTold, NEW s \in Slot, Free(s)
    PROVE  SpaceTold'
<1>1. PICK p \in Chunk :
          /\ p = handle[s] /\ s \in held /\ Live(p) /\ RootFree(p)
          /\ \A x \in Chain(p) : chunk'[x].live = FALSE
          /\ \A x \in Chunk \ Chain(p) : chunk'[x] = chunk[x]
  BY FreeLinks DEF LeakInv
<1>2. held' = held \ {s} /\ handle' = handle /\ blocks' = {b \in blocks : b.pool # p}
  BY <1>1 DEF Free
<1>3. IsFiniteSet(blocks')
  <2>1. blocks' \in SUBSET blocks
    BY <1>2
  <2> QED
    BY <2>1, FS_Subset DEF SpaceTold
<1>4. IsFiniteSet({x \in Chunk : chunk'[x].live})
  <2>1. {x \in Chunk : chunk'[x].live} \in SUBSET {x \in Chunk : chunk[x].live}
    BY <1>1
  <2> QED
    BY <2>1, FS_Subset DEF SpaceTold
<1>5. \A t \in held' : chunk'[handle'[t]].live
  <2> SUFFICES ASSUME NEW t \in held, t # s PROVE chunk'[handle[t]].live
    BY <1>2
  <2>1. handle[t] \in Chunk /\ chunk[handle[t]].live
    BY DEF SpaceTold, Live, LeakInv, ChainInv, TypeOK
  <2>2. handle[t] \in Chain(handle[t])
    BY <2>1, ChainBegins
  <2>3. handle[t] \notin Chain(handle[s])
    BY <1>1, <2>2, ChainsApart DEF LeakInv
  <2> QED
    BY <1>1, <2>1, <2>3
<1>6. \A x \in Chunk \ Chain(p) : Live(x) => chunk[x].root # p
  BY RootCovers
<1>7. ASSUME NEW b \in blocks'
      PROVE  /\ chunk'[b.mem].live /\ chunk'[b.mem].root = b.pool
             /\ OnItsSide(b, chunk'[b.mem])
  <2>1. /\ b \in blocks /\ b.pool # p /\ b.mem \in Chunk
        /\ Live(b.mem) /\ chunk[b.mem].root = b.pool /\ OnItsSide(b, chunk[b.mem])
    BY <1>2 DEF SpaceTold, LeakInv, ChainInv, TypeOK, BlockType
  <2>2. b.mem \notin Chain(p)
    BY <1>1, <2>1, ChainLives DEF LeakInv, ChainInv, RootFree
  <2> QED
    BY <1>1, <2>1, <2>2 DEF Live
<1>8. ASSUME NEW x \in Chunk, chunk'[x].live
      PROVE  Total(Lens, InOf(blocks', x)) = Room(chunk'[x])
  <2>1. x \notin Chain(p) /\ chunk'[x] = chunk[x] /\ Live(x)
    BY <1>1, <1>8 DEF Live
  <2>2. chunk[x].root # p
    BY <1>6, <2>1
  <2>3. InOf(blocks', x) = InOf(blocks, x)
    BY <1>2, <2>2 DEF InOf, SpaceTold
  <2> QED
    BY <2>1, <2>3 DEF SpaceTold
<1> QED
  BY <1>3, <1>4, <1>5, <1>7, <1>8 DEF SpaceTold, Live

LEMMA SpaceAllocHere ==
    ASSUME LeakInv, TypeOK', SpaceTold, NEW s \in Slot, NEW k \in Kinds, AllocHere(s, k)
    PROVE  SpaceTold'
<1>1. PICK p \in Chunk, r \in Requests :
          LET n == Need(p, r)
              cur == chunk[p].current
              off == IF k = "d" THEN chunk[cur].pos ELSE chunk[cur].end - n
          IN  /\ Asks(s, k, p, r, n)
              /\ ~Lacks(cur, n)
              /\ chunk' = [chunk EXCEPT ![cur] = Taken(@, k, n)]
              /\ blocks' = blocks \cup {Block(p, cur, off, n, r, k)}
  BY DEF AllocHere
<1>2. PICK n \in 0 .. SizeMod - 1 : n = Need(p, r)
  BY NeedType DEF LeakInv, ChainInv
<1>3. PICK c \in Chunk : c = chunk[p].current
  BY <1>1, AskedPool DEF LeakInv, ChainInv
<1>4. PICK off \in Int : off = IF k = "d" THEN chunk[c].pos ELSE chunk[c].end - n
  BY <1>2 DEF LeakInv, ChainInv, TypeOK, ChunkType
<1> DEFINE b == Block(p, c, off, n, r, k)
<1>5. /\ ~Lacks(c, n) /\ chunk' = [chunk EXCEPT ![c] = Taken(@, k, n)]
      /\ blocks' = blocks \cup {b} /\ s \in held /\ p = handle[s] /\ Live(p)
  BY <1>1, <1>2, <1>3, <1>4 DEF Asks, On
<1>6. Owned(p) /\ Live(c) /\ chunk[c].root = p
  BY <1>3, <1>5, CurrentOwned DEF LeakInv, Owned
<1>7. /\ chunk[c] \in ChunkType /\ chunk[c].pos \in Nat /\ chunk[c].end \in Int
      /\ chunk[c].size \in Nat
  BY DEF LeakInv, ChainInv, TypeOK, ChunkType
<1>8. /\ b \in BlockType /\ b.mem = c /\ b.len = n /\ b.pool = p /\ b.off = off /\ b.kind = k
  BY <1>4 DEF Block, BlockType
<1> HIDE DEF b
<1>9. /\ chunk'[c].live = chunk[c].live /\ chunk'[c].root = chunk[c].root
      /\ chunk'[c].size = chunk[c].size
      /\ chunk'[c].pos = IF k = "d" THEN chunk[c].pos + n ELSE chunk[c].pos
      /\ chunk'[c].end = IF k = "n" THEN chunk[c].end - n ELSE chunk[c].end
  <2>1. chunk'[c] = Taken(chunk[c], k, n)
    BY <1>5 DEF LeakInv, ChainInv, TypeOK
  <2>2. Taken(chunk[c], k, n).pos = IF k = "d" THEN chunk[c].pos + n ELSE chunk[c].pos
    BY <1>7 DEF Taken, ChunkType
  <2> QED
    BY <1>7, <2>1, <2>2, TakenLinks
<1>10. \A x \in Chunk \ {c} : chunk'[x] = chunk[x]
  BY <1>5 DEF LeakInv, ChainInv, TypeOK
<1>11. k = "d" \/ k = "n"
  BY DEF Kinds
<1>12. OnItsSide(b, chunk'[c])
  BY <1>4, <1>7, <1>8, <1>9, <1>11 DEF OnItsSide
<1>13. b \in blocks => b.len = 0
  <2> SUFFICES ASSUME b \in blocks PROVE n = 0
    BY <1>8
  <2>1. OnItsSide(b, chunk[c])
    BY <1>8 DEF SpaceTold
  <2> QED
    BY <1>4, <1>7, <1>8, <1>11, <2>1 DEF OnItsSide
<1>14. \A x \in blocks : x.mem = c => x.pool = b.pool /\ OnItsSide(x, chunk'[c])
  <2> SUFFICES ASSUME NEW x \in blocks, x.mem = c
               PROVE  x.pool = p /\ OnItsSide(x, chunk'[c])
    BY <1>8
  <2>1. x.pool = p /\ OnItsSide(x, chunk[c])
    BY <1>6 DEF SpaceTold
  <2>2. x.off \in Int /\ x.len \in Nat
    BY DEF LeakInv, ChainInv, TypeOK, BlockType
  <2> QED
    BY <1>7, <1>9, <1>11, <2>1, <2>2 DEF OnItsSide
<1>15. Room(chunk'[c]) = Total(Lens, InOf(blocks, c)) + b.len
  <2>1. Total(Lens, InOf(blocks, c)) = Room(chunk[c])
    BY <1>6 DEF SpaceTold
  <2> QED
    BY <1>7, <1>8, <1>9, <1>11, <2>1 DEF Room
<1>16. held' = held /\ handle' = handle
  BY DEF AllocHere
<1>17. chunk'[c].live /\ chunk'[c].root = b.pool
  BY <1>6, <1>8, <1>9 DEF Live
<1> QED
  BY <1>5, <1>8, <1>10, <1>12, <1>13, <1>14, <1>15, <1>16, <1>17, SpaceAdd
  DEF LeakInv, ChainInv

LEMMA SpaceAllocGrow ==
    ASSUME LeakInv, TypeOK', SpaceTold, NEW s \in Slot, NEW k \in Kinds, AllocGrow(s, k)
    PROVE  SpaceTold'
<1>1. PICK p \in Chunk, r \in Requests, c \in Chunk :
          LET n == Need(p, r)
              size == GrowthSize(p, n)
              off == IF k = "d" THEN 0 ELSE size - n
          IN  /\ Asks(s, k, p, r, n)
              /\ "ok" \in Growths(p, n)
              /\ Reusable(c)
              /\ chunk' = [Grown(p, n, c) EXCEPT ![c] = Taken(@, k, n)]
              /\ blocks' = blocks \cup {Block(p, c, off, n, r, k)}
  BY DEF AllocGrow
<1>2. PICK n \in 0 .. SizeMod - 1 : n = Need(p, r)
  BY NeedType DEF LeakInv, ChainInv
<1>3. /\ Live(p) /\ chunk[p].current \in Chunk
      /\ c # p /\ c # chunk[p].current /\ ~Live(c)
  BY <1>1, AskedPool, ReusableFresh DEF LeakInv, ChainInv
<1>4. PICK size \in Nat : size = GrowthSize(p, n) /\ n <= size
  BY <1>1, <1>2, GrowthHoldsRequest DEF LeakInv, ChainInv
<1>5. PICK off \in Int : off = IF k = "d" THEN 0 ELSE size - n
  BY <1>2, <1>4
<1>6. PICK g : g = Grown(p, n, c)
  OBVIOUS
<1>7. GrowthOf(p, n, c, g) /\ g \in [Chunk -> ChunkType]
  BY <1>2, <1>3, <1>6, GrownChunks, GrownType DEF LeakInv, ChainInv
<1> DEFINE b == Block(p, c, off, n, r, k)
<1>8. /\ chunk' = [g EXCEPT ![c] = Taken(g[c], k, n)]
      /\ blocks' = blocks \cup {b}
  BY <1>1, <1>2, <1>4, <1>5, <1>6
<1>9. /\ b \in BlockType /\ b.mem = c /\ b.len = n /\ b.pool = p /\ b.off = off /\ b.kind = k
  BY <1>5 DEF Block, BlockType
<1> HIDE DEF b
<1>10. \A x \in Chunk \ {c} :
          /\ chunk'[x].live = chunk[x].live /\ chunk'[x].root = chunk[x].root
          /\ chunk'[x].pos = chunk[x].pos /\ chunk'[x].end = chunk[x].end
          /\ chunk'[x].size = chunk[x].size
  <2>1. \A x \in Chunk \ {c} : chunk'[x] = g[x]
    BY <1>7, <1>8
  <2> QED
    BY <1>7, <2>1 DEF GrowthOf
<1>11. /\ g[c].live = TRUE /\ g[c].root = p /\ g[c].pos = 0 /\ g[c].size = size
       /\ g[c].end = size
  BY <1>4, <1>7 DEF GrowthOf
<1>12. k = "d" \/ k = "n"
  BY DEF Kinds
<1>13. /\ chunk'[c].live = TRUE /\ chunk'[c].root = p /\ chunk'[c].size = size
       /\ chunk'[c].pos = IF k = "d" THEN 0 + n ELSE 0
       /\ chunk'[c].end = IF k = "n" THEN size - n ELSE size
  <2>1. chunk'[c] = Taken(g[c], k, n) /\ g[c] \in ChunkType
    BY <1>7, <1>8
  <2>2. Taken(g[c], k, n).pos = IF k = "d" THEN g[c].pos + n ELSE g[c].pos
    BY <1>12, <2>1 DEF Taken, ChunkType
  <2> QED
    BY <1>11, <2>1, <2>2, TakenLinks
<1>14. OnItsSide(b, chunk'[c])
  BY <1>4, <1>5, <1>9, <1>12, <1>13 DEF OnItsSide
<1>15. \A x \in blocks : x.mem # c
  BY <1>3 DEF SpaceTold
<1>16. Room(chunk'[c]) = Total(Lens, InOf(blocks, c)) + b.len
  <2>1. InOf(blocks, c) = {}
    BY <1>15 DEF InOf
  <2>2. Total(Lens, {}) = 0
    BY FS_EmptySet, TotalStep
  <2>3. Room(chunk'[c]) = 0 + n
    BY <1>2, <1>4, <1>12, <1>13 DEF Room
  <2> QED
    BY <1>9, <2>1, <2>2, <2>3
<1>17. held' = held /\ handle' = handle
  BY DEF AllocGrow
<1>18. chunk'[c].live /\ chunk'[c].root = b.pool
  BY <1>9, <1>13
<1>19. b \notin blocks
  BY <1>9, <1>15
<1> QED
  BY <1>8, <1>9, <1>10, <1>14, <1>15, <1>16, <1>17, <1>18, <1>19, SpaceAdd
  DEF LeakInv, ChainInv

LEMMA SpaceNext ==
    ASSUME TakesOnly, LeakInv, LeakInv', SpaceTold, [Next]_vars
    PROVE  SpaceTold'
<1>0. TypeOK'
  BY DEF LeakInv, ChainInv
<1>1. ASSUME NEW f, Crashes(f) \/ Fails(f) PROVE SpaceTold'
  BY <1>1, SpaceSame DEF Crashes, Fails
<1>2. ASSUME NEW s \in Slot, NewRejected(s) \/ NewCrash(s) \/ FreeCrash(s)
                 \/ UseFreed(s) \/ ShrinkCrash(s) \/ DestroyCrash
      PROVE  SpaceTold'
  <2>1. \E f : Crashes(f) \/ Fails(f)
    BY <1>2 DEF NewRejected, NewCrash, FreeCrash, UseFreed, ShrinkCrash, DestroyCrash
  <2> QED
    BY <1>1, <2>1
<1>3. ASSUME NEW s \in Slot, NEW k \in Kinds, AllocFull(s, k) \/ AllocCrash(s, k)
      PROVE  SpaceTold'
  <2>1. \E f : Crashes(f) \/ Fails(f)
    BY <1>3 DEF AllocFull, AllocCrash
  <2> QED
    BY <1>1, <2>1
<1>4. ASSUME NEW s \in Slot, Info(s) \/ ShrinkNothing(s) \/ DallocNoStruct(s)
      PROVE  SpaceTold'
  <2>1. chunk' = chunk /\ blocks' = blocks /\ held' = held /\ handle' = handle
    BY <1>4, FailedGrowth DEF Info, ShrinkNothing, DallocNoStruct
  <2> QED
    BY <2>1, SpaceSame
<1>5. ASSUME NEW s \in Slot, NewNoStruct(s) PROVE SpaceTold'
  <2>1. \A t \in held : handle'[t] = handle[t]
    BY <1>5 DEF NewNoStruct, LeakInv, ChainInv, TypeOK
  <2> QED
    BY <1>5, <2>1, SpaceSame DEF NewNoStruct
<1>6. CASE Destroy \/ DestroyCrash \/ UNCHANGED vars
  BY <1>1, <1>6, SpaceSame DEF Destroy, DestroyCrash, vars
<1>7. ASSUME NEW s \in Slot, NewPool(s) \/ Free(s) PROVE SpaceTold'
  BY <1>0, <1>7, SpaceNewPool, SpaceFree DEF LeakInv
<1>8. ASSUME NEW s \in Slot, NEW k \in Kinds, AllocHere(s, k) \/ AllocGrow(s, k)
      PROVE  SpaceTold'
  BY <1>0, <1>8, SpaceAllocHere, SpaceAllocGrow
<1>9. ASSUME NEW s \in Slot, Clear(s) \/ Reset(s) \/ ShrinkRewinds(s) PROVE FALSE
  BY <1>9 DEF Clear, Reset, ShrinkRewinds, On, Call, TakesOnly, NeverRewinds
<1>10. ASSUME NEW d \in Slot, NEW s \in Slot, Merge(d, s) PROVE FALSE
  BY <1>10 DEF Merge, On, Call, TakesOnly, NeverRewinds
<1>11. ASSUME NEW s \in Slot, Ralloc(s) PROVE FALSE
  <2>1. CASE RallocInPlace(s) \/ RallocKeep(s) \/ RallocMove(s) \/ RallocSpill(s)
    BY <2>1 DEF RallocInPlace, RallocKeep, RallocMove, RallocSpill, Resizes, On, Call, TakesOnly
  <2>2. CASE RallocCrash(s) \/ RallocRefused(s)
    BY <2>2 DEF RallocCrash, RallocRefused, Resizes, On, Call, TakesOnly
  <2> QED
    BY <1>11, <2>1, <2>2 DEF Ralloc
<1> QED
  BY <1>2, <1>3, <1>4, <1>5, <1>6, <1>7, <1>8, <1>9, <1>10, <1>11 DEF Next, Alloc

(* Summed over the chunks of a pool, what is taken is what was granted.    *)
LEMMA SpaceInvExact == SpaceInv => UsedExact
<1> SUFFICES ASSUME SpaceInv, NEW s \in held
             PROVE  InfoUsed(Chain(handle[s])) = LensUsed({b \in blocks : b.pool = handle[s]})
  BY UsedExactIs
<1>1. LeakInv /\ SpaceTold /\ ChainInv /\ TypeOK
  BY DEF SpaceInv, LeakInv, ChainInv
<1>2. PICK p \in Chunk : p = handle[s] /\ Live(p) /\ RootFree(p)
  BY <1>1 DEF SpaceTold, TypeOK, ChainInv, RootsFree
<1> DEFINE C == Chain(p)
           D == {b \in blocks : b.pool = p}
           P == [c \in Chunk |-> InOf(blocks, c)]
<1>3. C \in SUBSET {c \in Chunk : chunk[c].live} /\ C \in SUBSET Chunk
  <2>1. \A c \in C : c \in Chunk
    BY DEF Chain
  <2>2. \A c \in C : chunk[c].live
    BY <1>1, <1>2, <2>1, ChainLives DEF ChainInv, Live, RootFree
  <2> HIDE DEF C
  <2> QED
    BY <2>1, <2>2
<1>4. IsFiniteSet(C)
  <2> HIDE DEF C
  <2> QED BY <1>1, <1>3, FS_Subset DEF SpaceTold
<1>5. D \in SUBSET blocks /\ D \in SUBSET BlockType
  BY <1>1 DEF TypeOK
<1>6. IsFiniteSet(D)
  <2> HIDE DEF D
  <2> QED BY <1>1, <1>5, FS_Subset DEF SpaceTold
<1>7. \A c \in C : c \in Chunk /\ P[c] = InOf(blocks, c) /\ chunk[c].live /\ chunk[c].root = p
  BY <1>1, <1>2, ChainLives DEF ChainInv, RootFree, Live, Chain
<1>8. \A b \in blocks : b.mem \in Chunk /\ chunk[b.mem].live /\ chunk[b.mem].root = b.pool
  BY <1>1 DEF SpaceTold, TypeOK, BlockType, Live
<1>9. \A c \in C : P[c] \in SUBSET D
  BY <1>7, <1>8 DEF InOf
<1>10. \A c, d \in C : c # d => P[c] \cap P[d] = {}
  BY <1>7 DEF InOf
<1>11. \A b \in D : Lens[b] \in Int
  BY <1>1, LensInt
<1>12. \A c \in C : UsedOf[c] = Total(Lens, P[c])
  <2> SUFFICES ASSUME NEW c \in C PROVE UsedOf[c] = Total(Lens, P[c])
    OBVIOUS
  <2>1. Total(Lens, InOf(blocks, c)) = Room(chunk[c])
    BY <1>1, <1>7 DEF SpaceTold, Live
  <2>2. UsedOf[c] = Room(chunk[c])
    BY <1>7 DEF UsedOf, Room
  <2> QED
    BY <1>7, <2>1, <2>2
<1>13. UNION {P[c] : c \in C} = D
  <2>1. ASSUME NEW b \in D PROVE b.mem \in C
    BY <1>1, <1>8, RootCovers DEF Live
  <2>2. \A b \in D : b \in P[b.mem]
    BY <1>8 DEF InOf
  <2> HIDE DEF C, D, P
  <2> QED
    BY <1>9, <2>1, <2>2
<1> HIDE DEF C, D, P
<1>14. Total(UsedOf, C) = Total(Lens, D)
  BY <1>4, <1>6, <1>9, <1>10, <1>11, <1>12, <1>13, TotalParts
<1>15. InfoUsed(C) = Total(UsedOf, C) /\ LensUsed(D) = Total(Lens, D)
  BY <1>3, <1>4, <1>5, <1>6, InfoUsedIs, LensUsedIs
<1> QED
  BY <1>2, <1>14, <1>15 DEF C, D

(* However many chunks a pool has grown by and from whichever end they     *)
(* were filled, the used figure of ina_mempool_info is the sum of what its *)
(* client was granted, for clients that keep to new, free, info, dalloc,   *)
(* nalloc and destroy.                                                     *)
THEOREM UsedStaysExact ==
    ASSUME TakesOnly
    PROVE  Spec => []UsedExact
<1>1. NeverRewinds
  BY DEF TakesOnly
<1>2. Init => SpaceTold
  BY SpaceInit
<1>3. LeakInv /\ LeakInv' /\ SpaceTold /\ [Next]_vars => SpaceTold'
  BY SpaceNext
<1>4. LeakInv /\ SpaceTold => UsedExact
  BY SpaceInvExact DEF SpaceInv
<1> QED
  BY <1>1, <1>2, <1>3, <1>4, LeakAlways, PTL DEF Spec

=============================================================================
