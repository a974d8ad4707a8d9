---------------------------- MODULE InaListProofs ----------------------------
(* What InaList's lists keep, for any number of nodes and lists: the links *)
(* of a list no call has broken, its members, its tail, the recycled       *)
(* nodes, and that calls spare other lists.                                *)
EXTENDS InaListSeq, FiniteSetTheorems, SequenceTheorems, TLAPS

-----------------------------------------------------------------------------
(* The invariant, of nodes c and list structs li, so that a call that does *)
(* two things to a list can be taken in two steps.                         *)

ListType ==
    [open : BOOLEAN, head : Node \cup {NIL}, count : Int, mp : BOOLEAN,
     array : Nat, max : Nat, free : Seq(Node), taint : BOOLEAN]

Clean(r) == r.open /\ ~r.taint

Alive(c, n) == c[n].home # NIL

Typed(c, li) ==
    /\ c \in [Node -> CellType] /\ li \in [List -> ListType]
    /\ \A l \in List :
          /\ Len(li[l].free) <= li[l].max /\ (li[l].taint => li[l].open)
          /\ li[l].open \/ li[l].free = << >>

(* Nodes the client holds or has put into a list are allocated.            *)
NodesOK(c, li) ==
    \A n \in Node :
        /\ Alive(c, n) => c[n].data \in Data
        /\ c[n].use # "none" => Alive(c, n) /\ c[n].of \in List /\ li[c[n].of].open
        /\ c[n].use = "none" => c[n].of = NIL

(* From p, next leads along s to the end and prev leads back.              *)
Threads(c, s, p) ==
    /\ \A i, j \in 1 .. Len(s) : s[i] = s[j] => i = j
    /\ p = IF Len(s) = 0 THEN NIL ELSE s[1]
    /\ \A i \in 1 .. Len(s) : c[s[i]].next = IF i = Len(s) THEN NIL ELSE s[i + 1]
    /\ \A i \in 2 .. Len(s) : c[s[i]].prev = s[i - 1]
    /\ Len(s) > 0 => c[s[1]].prev \in {s[Len(s)], NIL}

Holds(c, l, s) ==
    /\ \A n \in Node : (\E i \in 1 .. Len(s) : s[i] = n) <=> c[n].use = "in" /\ c[n].of = l
    /\ \A i \in 1 .. Len(s) : c[s[i]].home \in {l, CLIENT}

ListOK(c, r, l, s) == Threads(c, s, r.head) /\ r.count = Len(s) /\ Holds(c, l, s)

(* A recycled node waits in one array, and the client does not have it.    *)
FreeOK(c, li) ==
    \A l \in List : Clean(li[l]) =>
        /\ \A i, j \in 1 .. Len(li[l].free) : li[l].free[i] = li[l].free[j] => i = j
        /\ \A i \in 1 .. Len(li[l].free) : c[li[l].free[i]].use = "none"
        /\ \A k \in List \ {l} : \A i \in 1 .. Len(li[l].free), j \in 1 .. Len(li[k].free) :
              li[l].free[i] # li[k].free[j]

Unclean(c, li, n) == c[n].use # "none" => ~Clean(li[c[n].of])

Leads(c, D, p) == p = NIL \/ p \in D \/ ~Alive(c, p)

(* The nodes D that can be reached from broken lists are no part of others.*)
StrayOK(c, li, D) ==
    /\ \A n \in D : /\ Alive(c, n) /\ Leads(c, D, c[n].next) /\ Leads(c, D, c[n].prev)
                    /\ Unclean(c, li, n)
                    /\ \A l \in List : Clean(li[l]) => \A i \in 1 .. Len(li[l].free) : li[l].free[i] # n
    /\ \A n \in Node : c[n].use = "in" /\ li[c[n].of].taint => n \in D
    /\ \A k \in List : li[k].taint =>
          /\ Leads(c, D, li[k].head)
          /\ \A i \in 1 .. Len(li[k].free) : Unclean(c, li, li[k].free[i])

ListsOK(c, li, S) == \A l \in List : Clean(li[l]) => ListOK(c, li[l], l, S[l])

AllOK(c, li, S, D) ==
    /\ Typed(c, li) /\ NodesOK(c, li) /\ FreeOK(c, li)
    /\ S \in [List -> Seq(Node)] /\ ListsOK(c, li, S)
    /\ D \in SUBSET Node /\ StrayOK(c, li, D)

ListInv == fault \in Faults /\ \E S, D : AllOK(cell, list, S, D)

-----------------------------------------------------------------------------
(* What a call makes of the nodes s of a list it does not break.           *)

SameData(c, c2, s) == \A i \in 1 .. Len(s) : c2[s[i]].data = c[s[i]].data

(* The k-th element of s taken out.                                        *)
Without(s, k) == [i \in 1 .. Len(s) - 1 |-> IF i < k THEN s[i] ELSE s[i + 1]]

Grows(c, r, s, c2, r2, s2) ==
    Clean(r2) => Clean(r) /\ SameData(c, c2, s) /\ \E n \in Node : s2 = Append(s, n)

Shrinks(c, r, s, c2, r2, s2) ==
    Clean(r2) => Clean(r) /\ SameData(c, c2, s) /\ \E k \in 1 .. Len(s) : s2 = Without(s, k)

-----------------------------------------------------------------------------
(* Walks.                                                                  *)

LEMMA LeastOf ==
    ASSUME NEW S \in SUBSET Nat, S # {}
    PROVE  \E m \in S : \A k \in S : m <= k
<1> DEFINE R == {ss \in Nat \X Nat : ss[1] < ss[2]}
<1>1. IsWellFoundedOn(R, Nat)
  BY NatLessThanWellFounded DEF OpToRel
<1> HIDE DEF R
<1>2. PICK m \in S : \A k \in S : ~(<<k, m>> \in R)
  BY <1>1, WFMin
<1>3. \A k \in S : ~(k < m)
  BY <1>2 DEF R
<1> QED
  BY <1>3

LEMMA StepsType == Cardinality(Node) \in Nat /\ Steps = 1 .. Cardinality(Node) + 1
BY FS_CardinalityType, ListAssumption DEF Steps

TrailStep(l, f) == [i \in Steps |-> IF i = 1 THEN list[l].head ELSE Follow(f[i - 1])]

LEMMA TrailIs ==
    ASSUME NEW l \in List
    PROVE  Trail(l) = TrailStep(l, Trail(l))
<1> DEFINE Upto(n, f) == [i \in 1 .. n |-> IF i = 1 THEN list[l].head ELSE Follow(f[i - 1])]
           Bad == {n \in Nat : ~\E f : f = Upto(n, f)}
<1>1. ASSUME Bad # {} PROVE FALSE
  <2>1. PICK m \in Bad : \A k \in Bad : m <= k
    BY <1>1, LeastOf
  <2>2. m \in Nat /\ ~\E f : f = Upto(m, f)
    BY <2>1
  <2>3. m # 0
    <3>1. ASSUME m = 0 PROVE [i \in 1 .. 0 |-> NIL] = Upto(m, [i \in 1 .. 0 |-> NIL])
      BY <3>1
    <3> QED
      BY <2>2, <3>1
  <2>4. m - 1 \in Nat /\ m - 1 \notin Bad
    <3> HIDE DEF Bad
    <3> QED
      BY <2>1, <2>2, <2>3
  <2>5. PICK f : f = Upto(m - 1, f)
    BY <2>4
  <2> DEFINE g == [i \in 1 .. m |-> IF i < m THEN f[i]
                                    ELSE IF i = 1 THEN list[l].head ELSE Follow(f[i - 1])]
  <2>6. ASSUME NEW i \in 1 .. m
        PROVE  g[i] = IF i = 1 THEN list[l].head ELSE Follow(g[i - 1])
    <3>1. i < m => f[i] = IF i = 1 THEN list[l].head ELSE Follow(f[i - 1])
      BY <2>2, <2>5
    <3>2. i # 1 => i - 1 \in 1 .. m /\ i - 1 < m
      BY <2>2
    <3>3. i # 1 => g[i - 1] = f[i - 1]
      BY <3>2
    <3> QED
      BY <3>1, <3>3
  <2>7. g = Upto(m, g)
    BY <2>6
  <2> QED
    BY <2>2, <2>7
<1>2. Cardinality(Node) + 1 \notin Bad
  BY <1>1
<1>3. PICK f : f = Upto(Cardinality(Node) + 1, f)
  BY <1>2, StepsType
<1>4. f = [i \in Steps |-> IF i = 1 THEN list[l].head ELSE Follow(f[i - 1])]
  BY <1>3, StepsType
<1> QED
  BY <1>4 DEF Trail, TrailStep

LEMMA TrailAt ==
    ASSUME NEW l \in List, NEW i \in Steps
    PROVE  Trail(l)[i] = IF i = 1 THEN list[l].head ELSE Follow(Trail(l)[i - 1])
<1> DEFINE t == Trail(l)
<1>1. t = TrailStep(l, t)
  BY TrailIs
<1> HIDE DEF t
<1>2. t[i] = IF i = 1 THEN list[l].head ELSE Follow(t[i - 1])
  BY <1>1 DEF TrailStep
<1> QED
  BY <1>2 DEF t

Met(l) ==
    {i \in Steps : /\ Trail(l)[i] # NIL /\ Live(Trail(l)[i])
                   /\ \A j \in 1 .. i - 1 : Trail(l)[j] # Trail(l)[i]}

LEMMA WalkMet ==
    ASSUME NEW l \in List
    PROVE  Walk(l) = [i \in 1 .. Cardinality(Met(l)) |-> Trail(l)[i]]
BY DEF Walk, Met

(* A walk comes to a node from one it has met.                             *)
LEMMA MetBefore ==
    ASSUME NEW l \in List, NEW i \in Met(l), i # 1
    PROVE  i - 1 \in Met(l) /\ Trail(l)[i] = cell[Trail(l)[i - 1]].next
<1> DEFINE t == Trail(l)
<1>1. i \in Steps /\ i - 1 \in Steps /\ i \in Nat /\ i > 1
  BY StepsType DEF Met
<1>2. \A j \in Steps : t[j] = IF j = 1 THEN list[l].head ELSE Follow(t[j - 1])
  BY TrailAt
<1>3. t[i] # NIL /\ Live(t[i]) /\ \A j \in 1 .. i - 1 : t[j] # t[i]
  BY DEF Met
<1> HIDE DEF t
<1>4. t[i] = Follow(t[i - 1])
  BY <1>1, <1>2
<1>5. t[i - 1] # NIL /\ Live(t[i - 1]) /\ t[i] = cell[t[i - 1]].next
  BY <1>3, <1>4 DEF Follow
<1>6. ASSUME NEW j \in 1 .. i - 2, t[j] = t[i - 1] PROVE FALSE
  <2>1. j + 1 \in Steps /\ j + 1 # 1 /\ (j + 1) - 1 = j /\ j + 1 \in 1 .. i - 1
    BY <1>1, StepsType
  <2>2. t[j + 1] = Follow(t[j])
    BY <1>2, <2>1
  <2> QED
    BY <1>3, <1>4, <1>6, <2>1, <2>2
<1>7. \A j \in 1 .. (i - 1) - 1 : t[j] # t[i - 1]
  <2>1. (i - 1) - 1 = i - 2
    BY <1>1
  <2> QED
    BY <1>6, <2>1
<1>8. /\ i - 1 \in Steps
      /\ Trail(l)[i - 1] # NIL /\ Live(Trail(l)[i - 1])
      /\ \A j \in 1 .. (i - 1) - 1 : Trail(l)[j] # Trail(l)[i - 1]
  BY <1>1, <1>5, <1>7 DEF t
<1> QED
  BY <1>5, <1>8 DEF t, Met

LEMMA MetInitial ==
    ASSUME NEW l \in List
    PROVE  \E m \in Nat : Met(l) = 1 .. m /\ Cardinality(Met(l)) = m
<1> DEFINE M == Met(l)
           Gaps == {k \in Nat : k >= 1 /\ k \notin M}
<1>1. M \subseteq 1 .. Cardinality(Node) + 1 /\ Cardinality(Node) \in Nat
  BY StepsType DEF Met
<1>2. \A i \in M : i # 1 => i - 1 \in M
  BY MetBefore
<1> HIDE DEF M
<1>3. Cardinality(Node) + 2 \in Gaps
  BY <1>1
<1>4. PICK g \in Gaps : \A k \in Gaps : g <= k
  BY <1>3, LeastOf
<1>5. g \in Nat /\ g >= 1 /\ g \notin M
  BY <1>4
<1>6. ASSUME NEW i \in M PROVE i < g
  <2> DEFINE Beyond == {k \in M : k >= g}
  <2>0. M \subseteq Nat
    BY <1>1
  <2>1. Beyond \in SUBSET Nat
    BY <2>0
  <2>2. ASSUME Beyond # {} PROVE FALSE
    <3>1. PICK b \in Beyond : \A k \in Beyond : b <= k
      BY <2>1, <2>2, LeastOf
    <3>2. b \in M /\ b > g /\ b \in Nat
      BY <1>1, <1>5, <3>1
    <3>3. b - 1 \in Beyond
      BY <1>2, <1>5, <3>2
    <3> QED
      BY <3>1, <3>2, <3>3
  <2> QED
    BY <1>1, <1>5, <2>2
<1>7. M = 1 .. g - 1
  <2>1. ASSUME NEW i \in 1 .. g - 1 PROVE i \in M
    <3>1. i \in Nat /\ i >= 1 /\ ~(g <= i)
      BY <1>5
    <3>2. i \notin Gaps
      BY <1>4, <3>1
    <3> QED
      BY <3>1, <3>2
  <2>2. M \subseteq 1 .. g - 1
    BY <1>1, <1>5, <1>6
  <2> QED
    BY <2>1, <2>2
<1>8. Cardinality(1 .. g - 1) = g - 1 /\ g - 1 \in Nat
  BY <1>5, FS_Interval
<1> QED
  BY <1>7, <1>8 DEF M

LEMMA SequenceFits ==
    ASSUME NEW s \in Seq(Node), \A i, j \in 1 .. Len(s) : s[i] = s[j] => i = j
    PROVE  Len(s) \in Nat /\ Len(s) <= Cardinality(Node)
<1>1. Len(s) \in Nat /\ s \in [1 .. Len(s) -> Node]
  OBVIOUS
<1>2. s \in Injection(1 .. Len(s), Node)
  BY <1>1 DEF Injection, IsInjective
<1>3. Cardinality(1 .. Len(s)) = Len(s)
  BY <1>1, FS_Interval
<1> QED
  BY <1>1, <1>2, <1>3, FS_Injection, ListAssumption

(* The walk of a list that is threaded meets its nodes and ends.           *)
WalkFollows ==
    \A l \in List, s \in Seq(Node) :
        /\ Threads(cell, s, list[l].head)
        /\ \A i \in 1 .. Len(s) : Alive(cell, s[i])
        => Walk(l) = s /\ After(l) = NIL

LEMMA WalkThreads == WalkFollows
<1> SUFFICES ASSUME NEW l \in List, NEW s \in Seq(Node),
                    Threads(cell, s, list[l].head),
                    \A i \in 1 .. Len(s) : Alive(cell, s[i])
             PROVE  Walk(l) = s /\ After(l) = NIL
  BY DEF WalkFollows
<1> DEFINE t == Trail(l)
           n == Len(s)
<1>1. n \in Nat /\ n <= Cardinality(Node) /\ s \in [1 .. n -> Node]
  BY SequenceFits DEF Threads
<1>2. \A j \in 1 .. n + 1 : j \in Steps
  BY <1>1, StepsType
<1>3. \A j \in Steps : t[j] = IF j = 1 THEN list[l].head ELSE Follow(t[j - 1])
  BY TrailAt
<1>4. /\ \A i, j \in 1 .. n : s[i] = s[j] => i = j
      /\ list[l].head = IF n = 0 THEN NIL ELSE s[1]
      /\ \A i \in 1 .. n : cell[s[i]].next = IF i = n THEN NIL ELSE s[i + 1]
      /\ \A i \in 1 .. n : s[i] # NIL /\ Live(s[i])
  <2>1. \A i \in 1 .. n : s[i] # NIL
    BY <1>1, NilAssumption
  <2>2. \A i \in 1 .. n : Live(s[i])
    BY DEF Alive, Live
  <2> QED
    BY <2>1, <2>2 DEF Threads
<1>5. PICK m \in Nat : Met(l) = 1 .. m /\ Cardinality(Met(l)) = m
  BY MetInitial
<1>6. ASSUME NEW i \in Nat
      PROVE  i \in Met(l) <=> /\ i \in Steps /\ t[i] # NIL /\ Live(t[i])
                              /\ \A j \in 1 .. i - 1 : t[j] # t[i]
  BY DEF Met
<1> HIDE DEF t, n
<1> DEFINE want(i) == IF i = n + 1 THEN NIL ELSE s[i]
           Bad == {i \in 1 .. n + 1 : t[i] # want(i)}
<1>7. ASSUME Bad # {} PROVE FALSE
  <2>1. Bad \in SUBSET Nat
    BY <1>1
  <2>2. PICK b \in Bad : \A k \in Bad : b <= k
    BY <1>7, <2>1, LeastOf
  <2>3. b \in 1 .. n + 1 /\ b \in Steps /\ t[b] # want(b)
    BY <1>2, <2>2
  <2>4. b # 1
    BY <1>1, <1>3, <1>4, <2>3
  <2>5. b - 1 \in 1 .. n /\ b - 1 \in 1 .. n + 1 /\ b - 1 # n + 1
    BY <1>1, <2>3, <2>4
  <2>6. t[b - 1] = s[b - 1]
    <3>1. b - 1 \notin Bad
      BY <1>1, <2>2, <2>3, <2>4
    <3> QED
      BY <2>5, <3>1
  <2>7. t[b] = cell[s[b - 1]].next
    BY <1>3, <1>4, <2>3, <2>4, <2>5, <2>6 DEF Follow
  <2>8. t[b] = IF b - 1 = n THEN NIL ELSE s[(b - 1) + 1]
    BY <1>4, <2>5, <2>7
  <2> QED
    BY <1>1, <2>3, <2>8
<1>8. \A i \in 1 .. n : t[i] = s[i]
  <2> TAKE i \in 1 .. n
  <2>1. i \in 1 .. n + 1 /\ i # n + 1 /\ i \notin Bad
    BY <1>1, <1>7
  <2> QED
    BY <2>1
<1>9. t[n + 1] = NIL
  <2>1. n + 1 \in 1 .. n + 1 /\ n + 1 \notin Bad
    BY <1>1, <1>7
  <2> QED
    BY <2>1
<1>10. m = n
  <2>1. n + 1 \notin Met(l)
    BY <1>1, <1>6, <1>9
  <2>2. ASSUME NEW i \in 1 .. n PROVE i \in Met(l)
    <3>1. i \in Nat /\ i \in Steps /\ t[i] = s[i]
      BY <1>1, <1>2, <1>8
    <3>2. \A j \in 1 .. i - 1 : j \in 1 .. n /\ t[j] = s[j] /\ j # i
      BY <1>1, <1>8
    <3>3. t[i] # NIL /\ Live(t[i])
      BY <1>4, <3>1
    <3>4. \A j \in 1 .. i - 1 : t[j] # t[i]
      BY <1>4, <3>1, <3>2
    <3> QED
      BY <1>6, <3>1, <3>3, <3>4
  <2>3. ~(n + 1 <= m)
    BY <1>1, <1>5, <2>1
  <2>4. n <= m
    <3>1. n > 0 => n \in 1 .. m
      BY <1>1, <1>5, <2>2
    <3> QED
      BY <1>1, <1>5, <3>1
  <2> QED
    BY <1>1, <1>5, <2>3, <2>4
<1>11. Walk(l) = [i \in 1 .. n |-> t[i]]
  BY <1>5, <1>10, WalkMet DEF t
<1>12. Walk(l) = s
  BY <1>1, <1>8, <1>11
<1>13. After(l) = NIL
  <2>1. CASE n = 0
    <3>1. s = << >>
      BY <2>1 DEF n
    <3> QED
      BY <1>4, <1>12, <2>1, <3>1 DEF After
  <2>2. CASE n # 0
    <3>1. s # << >> /\ Last(s) = s[n] /\ n \in 1 .. n
      BY <1>1, <2>2 DEF Last, n
    <3> QED
      BY <1>4, <1>12, <3>1 DEF After
  <2> QED
    BY <2>1, <2>2
<1> QED
  BY <1>12, <1>13

LEMMA WalkThreadsNext == WalkFollows'
BY WalkThreads, PTL

(* A walk does not leave a set of nodes that no link leads out of, and it  *)
(* meets no node twice.                                                    *)
LEMMA WalkStays ==
    ASSUME NEW l \in List, NEW D, Leads(cell, D, list[l].head),
           \A n \in D : Leads(cell, D, cell[n].next)
    PROVE  /\ Walk(l) \in Seq(D)
           /\ \A i, j \in 1 .. Len(Walk(l)) : Walk(l)[i] = Walk(l)[j] => i = j
<1> DEFINE t == Trail(l)
<1>1. PICK m \in Nat : Met(l) = 1 .. m /\ Cardinality(Met(l)) = m
  BY MetInitial
<1>2. ASSUME NEW i \in Met(l)
      PROVE  /\ i \in Steps /\ i \in 1 .. m /\ t[i] # NIL /\ Live(t[i])
             /\ \A j \in 1 .. i - 1 : t[j] # t[i]
             /\ t[i] = IF i = 1 THEN list[l].head ELSE cell[t[i - 1]].next
             /\ i # 1 => i - 1 \in Met(l)
  <2>1. /\ i \in Steps /\ i \in 1 .. m /\ t[i] # NIL /\ Live(t[i])
        /\ \A j \in 1 .. i - 1 : t[j] # t[i]
    BY <1>1 DEF Met
  <2>2. i = 1 => t[i] = list[l].head
    BY <2>1, TrailAt
  <2>3. i # 1 => i - 1 \in Met(l) /\ t[i] = cell[t[i - 1]].next
    BY MetBefore
  <2> QED
    BY <2>1, <2>2, <2>3
<1> HIDE DEF t
<1> DEFINE Bad == {i \in 1 .. m : t[i] \notin D}
<1>3. ASSUME Bad # {} PROVE FALSE
  <2>1. Bad \in SUBSET Nat
    BY <1>1
  <2>2. PICK b \in Bad : \A k \in Bad : b <= k
    BY <1>3, <2>1, LeastOf
  <2>3. b \in 1 .. m /\ b \in Met(l) /\ t[b] \notin D
    BY <1>1, <2>2
  <2>4. t[b] # NIL /\ Alive(cell, t[b])
    BY <1>2, <2>3 DEF Live, Alive
  <2>5. CASE b = 1
    BY <1>2, <2>3, <2>4, <2>5 DEF Leads
  <2>6. CASE b # 1
    <3>1. b - 1 \in 1 .. m /\ b - 1 < b /\ t[b] = cell[t[b - 1]].next
      BY <1>1, <1>2, <2>3, <2>6
    <3>2. t[b - 1] \in D
      BY <2>2, <2>3, <3>1
    <3> QED
      BY <2>3, <2>4, <3>1, <3>2 DEF Leads
  <2> QED
    BY <2>5, <2>6
<1>4. Walk(l) = [i \in 1 .. m |-> t[i]]
  BY <1>1, WalkMet DEF t
<1>5. \A i \in 1 .. m : t[i] \in D
  BY <1>3
<1>6. Walk(l) \in Seq(D) /\ Len(Walk(l)) = m
  <2>1. Walk(l) \in [1 .. m -> D]
    BY <1>4, <1>5
  <2> QED
    BY <1>1, <2>1
<1>7. \A i, j \in 1 .. m : t[i] = t[j] => i = j
  <2>1. ASSUME NEW i \in 1 .. m, NEW j \in 1 .. m, i < j PROVE t[i] # t[j]
    BY <1>1, <1>2, <2>1
  <2> QED
    BY <1>1, <2>1
<1> QED
  BY <1>4, <1>6, <1>7

-----------------------------------------------------------------------------
(* What the invariant says.                                                *)

LEMMA CleanWalk ==
    ASSUME NEW S, NEW D, AllOK(cell, list, S, D), NEW l \in List, Clean(list[l])
    PROVE  Walk(l) = S[l] /\ After(l) = NIL
<1>1. S[l] \in Seq(Node) /\ ListOK(cell, list[l], l, S[l])
  BY DEF AllOK, ListsOK
<1>2. ASSUME NEW i \in 1 .. Len(S[l]) PROVE Alive(cell, S[l][i])
  <2>1. S[l][i] \in Node /\ cell[S[l][i]].use = "in"
    BY <1>1 DEF ListOK, Holds
  <2> QED
    BY <2>1 DEF AllOK, NodesOK
<1> QED
  BY <1>1, <1>2, WalkThreads DEF ListOK, WalkFollows

LEMMA ListInvMeans ==
    ListInv => /\ ForwardSound /\ MembersMet /\ TailKnown /\ RecycledApart
<1> SUFFICES ASSUME fault \in Faults, NEW S, NEW D, AllOK(cell, list, S, D)
             PROVE  /\ ForwardSound /\ MembersMet /\ TailKnown /\ RecycledApart
  BY DEF ListInv
<1>1. ASSUME NEW l \in List, list[l].open, ~list[l].taint
      PROVE  /\ Walk(l) = S[l] /\ After(l) = NIL /\ S[l] \in Seq(Node)
             /\ ListOK(cell, list[l], l, S[l])
  BY <1>1, CleanWalk DEF AllOK, ListsOK, Clean
<1>2. TypeOK
  <2>1. cell \in [Node -> CellType]
    BY DEF AllOK, Typed
  <2>2. ASSUME NEW l \in List
        PROVE  /\ list[l].head \in Node \cup {NIL}
               /\ list[l].count \in Int
               /\ Range(list[l].free) \subseteq Node
               /\ Len(list[l].free) <= list[l].max
               /\ {list[l].open, list[l].mp, list[l].taint} \subseteq BOOLEAN
    <3>1. list[l] \in ListType /\ Len(list[l].free) <= list[l].max
      BY DEF AllOK, Typed
    <3>2. list[l].free \in Seq(Node)
      BY <3>1 DEF ListType
    <3>3. Range(list[l].free) \subseteq Node
      BY <3>2 DEF Range
    <3> QED
      BY <3>1, <3>3 DEF ListType
  <2> QED
    BY <2>1, <2>2 DEF TypeOK
<1>3. ForwardSound
  <2>1. ASSUME NEW l \in List, list[l].open, ~list[l].taint PROVE Forward(l)
    BY <1>1, <2>1 DEF Forward, ListOK, Threads
  <2> QED
    BY <1>2, <2>1 DEF ForwardSound
<1>4. MembersMet
  <2>1. ASSUME NEW l \in List, list[l].open, ~list[l].taint
        PROVE  Range(Walk(l)) = {n \in Node : cell[n].use = "in" /\ cell[n].of = l}
    <3>1. Walk(l) = S[l] /\ S[l] \in Seq(Node) /\ Holds(cell, l, S[l])
      BY <1>1, <2>1 DEF ListOK
    <3>2. ASSUME NEW n
          PROVE  n \in Range(S[l]) <=> n \in Node /\ \E i \in 1 .. Len(S[l]) : S[l][i] = n
      BY <3>1 DEF Range
    <3>3. \A n \in Node : n \in Range(S[l]) <=> cell[n].use = "in" /\ cell[n].of = l
      BY <3>1, <3>2 DEF Holds
    <3> QED
      BY <3>1, <3>2, <3>3
  <2> QED
    BY <2>1 DEF MembersMet
<1>5. TailKnown
  <2>1. ASSUME NEW l \in List, list[l].open, ~list[l].taint, Head1(l) # NIL
        PROVE  cell[Head1(l)].prev \in {Last(Walk(l)), NIL}
    <3>1. Walk(l) = S[l] /\ S[l] \in Seq(Node) /\ Threads(cell, S[l], list[l].head)
      BY <1>1, <2>1 DEF ListOK
    <3>2. Len(S[l]) \in Nat
      BY <3>1
    <3> QED
      BY <2>1, <3>1, <3>2 DEF Threads, Head1, Last
  <2> QED
    BY <2>1 DEF TailKnown
<1>6. RecycledApart
  <2>1. ASSUME NEW l \in Unbroken, NEW k \in Unbroken
        PROVE  /\ \A i \in DOMAIN list[l].free, j \in DOMAIN list[k].free :
                     list[l].free[i] = list[k].free[j] => l = k /\ i = j
               /\ Range(list[l].free) \cap Range(Walk(k)) = {}
    <3>1. /\ l \in List /\ k \in List /\ Clean(list[l]) /\ Clean(list[k])
          /\ list[l].free \in Seq(Node) /\ list[k].free \in Seq(Node)
      BY DEF Unbroken, Clean, AllOK, Typed, ListType
    <3>2. /\ \A i, j \in 1 .. Len(list[l].free) : list[l].free[i] = list[l].free[j] => i = j
          /\ \A i \in 1 .. Len(list[l].free) : cell[list[l].free[i]].use = "none"
          /\ l # k => \A i \in 1 .. Len(list[l].free), j \in 1 .. Len(list[k].free) :
                list[l].free[i] # list[k].free[j]
      BY <3>1 DEF AllOK, FreeOK
    <3>3. \A i \in DOMAIN list[l].free, j \in DOMAIN list[k].free :
             list[l].free[i] = list[k].free[j] => l = k /\ i = j
      <4>1. DOMAIN list[l].free = 1 .. Len(list[l].free) /\ DOMAIN list[k].free = 1 .. Len(list[k].free)
        BY <3>1
      <4> QED
        BY <3>2, <4>1
    <3>4. Walk(k) = S[k] /\ S[k] \in Seq(Node) /\ Holds(cell, k, S[k])
      BY <1>1, <3>1 DEF ListOK, Clean
    <3>5. \A i \in 1 .. Len(S[k]) : cell[S[k][i]].use = "in"
      BY <3>4 DEF Holds
    <3>6. \A i \in 1 .. Len(list[l].free), j \in 1 .. Len(S[k]) : list[l].free[i] # S[k][j]
      BY <3>2, <3>5
    <3>7. Range(list[l].free) \cap Range(S[k]) = {}
      <4>1. DOMAIN list[l].free = 1 .. Len(list[l].free) /\ DOMAIN S[k] = 1 .. Len(S[k])
        BY <3>1, <3>4
      <4> QED
        BY <3>6, <4>1 DEF Range
    <3> QED
      BY <3>3, <3>4, <3>7
  <2> QED
    BY <2>1 DEF RecycledApart
<1> QED
  BY <1>3, <1>4, <1>5, <1>6

-----------------------------------------------------------------------------
(* What a step does to the lists it is not about.                          *)

LEMMA ListKept ==
    ASSUME NEW c, NEW c2, NEW r, NEW r2, NEW l, NEW s \in Seq(Node), ListOK(c, r, l, s),
           r2.head = r.head, r2.count = r.count,
           \A n \in Node : c[n].use = "in" /\ c[n].of = l => c2[n] = c[n],
           \A n \in Node : c2[n].use = "in" /\ c2[n].of = l => c[n].use = "in" /\ c[n].of = l
    PROVE  ListOK(c2, r2, l, s)
<1>1. Len(s) \in Nat /\ \A i \in 1 .. Len(s) : s[i] \in Node
  OBVIOUS
<1>2. \A i \in 1 .. Len(s) : c2[s[i]] = c[s[i]]
  BY <1>1 DEF ListOK, Holds
<1>3. Threads(c2, s, r2.head)
  <2>1. \A i \in 2 .. Len(s) : i \in 1 .. Len(s)
    BY <1>1
  <2>2. Len(s) > 0 => 1 \in 1 .. Len(s)
    BY <1>1
  <2> QED
    BY <1>2, <2>1, <2>2 DEF ListOK, Threads
<1>4. Holds(c2, l, s)
  BY <1>2 DEF ListOK, Holds
<1> QED
  BY <1>3, <1>4 DEF ListOK

(* A list without nodes.                                                   *)
LEMMA ListEmpty ==
    ASSUME NEW c, NEW r, NEW l, r.head = NIL, r.count = 0,
           \A n \in Node : ~(c[n].use = "in" /\ c[n].of = l)
    PROVE  ListOK(c, r, l, << >>)
BY DEF ListOK, Threads, Holds

FreeUnused(c, li) ==
    \A l \in List : Clean(li[l]) => \A i \in 1 .. Len(li[l].free) : c[li[l].free[i]].use = "none"

FreeWithin(li, li2) ==
    \A l \in List :
        /\ Clean(li2[l]) => Clean(li[l]) \/ li2[l].free = << >>
        /\ \A i \in 1 .. Len(li2[l].free) :
              i \in 1 .. Len(li[l].free) /\ li2[l].free[i] = li[l].free[i]

(* Recycled nodes that stay where they are.                                *)
LEMMA FreeStays ==
    ASSUME NEW c, NEW li, NEW c2, NEW li2, FreeOK(c, li), FreeWithin(li, li2),
           FreeUnused(c2, li2)
    PROVE  FreeOK(c2, li2)
<1> USE DEF FreeWithin, FreeUnused
<1> SUFFICES ASSUME NEW l \in List, Clean(li2[l])
             PROVE  /\ \A i, j \in 1 .. Len(li2[l].free) :
                          li2[l].free[i] = li2[l].free[j] => i = j
                    /\ \A k \in List \ {l} :
                          \A i \in 1 .. Len(li2[l].free), j \in 1 .. Len(li2[k].free) :
                             li2[l].free[i] # li2[k].free[j]
  BY DEF FreeOK
<1>1. CASE li2[l].free = << >>
  BY <1>1
<1>2. CASE Clean(li[l])
  <2>1. /\ \A i, j \in 1 .. Len(li[l].free) : li[l].free[i] = li[l].free[j] => i = j
        /\ \A k \in List \ {l} : \A i \in 1 .. Len(li[l].free), j \in 1 .. Len(li[k].free) :
              li[l].free[i] # li[k].free[j]
    BY <1>2 DEF FreeOK
  <2>2. ASSUME NEW i \in 1 .. Len(li2[l].free), NEW j \in 1 .. Len(li2[l].free),
               li2[l].free[i] = li2[l].free[j]
        PROVE  i = j
    BY <2>1, <2>2
  <2>3. ASSUME NEW k \in List \ {l}, NEW i \in 1 .. Len(li2[l].free),
               NEW j \in 1 .. Len(li2[k].free)
        PROVE  li2[l].free[i] # li2[k].free[j]
    <3>1. /\ i \in 1 .. Len(li[l].free) /\ li2[l].free[i] = li[l].free[i]
          /\ j \in 1 .. Len(li[k].free) /\ li2[k].free[j] = li[k].free[j]
      OBVIOUS
    <3> QED
      BY <2>1, <3>1
  <2> QED
    BY <2>2, <2>3
<1> QED
  BY <1>1, <1>2

LEMMA AppendedAt ==
    ASSUME NEW s \in Seq(Node), NEW n, NEW i \in 1 .. Len(Append(s, n))
    PROVE  \/ i \in 1 .. Len(s) /\ Append(s, n)[i] = s[i]
           \/ i = Len(s) + 1 /\ Append(s, n)[i] = n
OBVIOUS

(* A node that is recycled.                                                *)
LEMMA FreeGrows ==
    ASSUME NEW c, NEW li, NEW c2, NEW li2, FreeOK(c, li), Typed(c, li), Typed(c2, li2),
           NEW l \in List, NEW n \in Node, Clean(li2[l]) => Clean(li[l]),
           li2[l].free = Append(li[l].free, n),
           \A k \in List \ {l} : li2[k].free = li[k].free /\ (Clean(li2[k]) => Clean(li[k])),
           FreeUnused(c2, li2),
           \A k \in List : Clean(li2[l]) \/ Clean(li2[k]) =>
              \A i \in 1 .. Len(li[k].free) : li[k].free[i] # n
    PROVE  FreeOK(c2, li2)
<1> USE DEF FreeUnused
<1> SUFFICES ASSUME NEW m \in List, Clean(li2[m])
             PROVE  /\ \A i, j \in 1 .. Len(li2[m].free) :
                          li2[m].free[i] = li2[m].free[j] => i = j
                    /\ \A k \in List \ {m} :
                          \A i \in 1 .. Len(li2[m].free), j \in 1 .. Len(li2[k].free) :
                             li2[m].free[i] # li2[k].free[j]
  BY DEF FreeOK
<1>1. \A k \in List : li[k].free \in Seq(Node) /\ li2[k].free \in Seq(Node)
  BY DEF Typed, ListType
<1>2. Clean(li[m])
  OBVIOUS
<1>3. /\ \A i, j \in 1 .. Len(li[m].free) : li[m].free[i] = li[m].free[j] => i = j
      /\ \A k \in List \ {m} : \A i \in 1 .. Len(li[m].free), j \in 1 .. Len(li[k].free) :
            li[m].free[i] # li[k].free[j]
  BY <1>2 DEF FreeOK
<1>4. ASSUME NEW k \in List, NEW i \in 1 .. Len(li2[k].free)
      PROVE  \/ i \in 1 .. Len(li[k].free) /\ li2[k].free[i] = li[k].free[i]
             \/ k = l /\ i = Len(li[l].free) + 1 /\ li2[k].free[i] = n
  <2>1. CASE k = l
    <3>1. li[l].free \in Seq(Node) /\ li2[k].free = Append(li[l].free, n)
      BY <1>1, <2>1
    <3>2. i \in 1 .. Len(Append(li[l].free, n))
      BY <3>1
    <3> QED
      BY <2>1, <3>1, <3>2, AppendedAt
  <2>2. CASE k # l
    BY <2>2
  <2> QED
    BY <2>1, <2>2
(* n is recycled by no list that m must not share it with.                 *)
<1>7. ASSUME NEW k \in List, k = m \/ m = l, NEW i \in 1 .. Len(li[k].free)
      PROVE  k = m \/ k # l => li[k].free[i] # n
  <2>1. Clean(li2[l]) \/ Clean(li2[k])
    BY <1>7
  <2> QED
    BY <2>1
<1>5. ASSUME NEW i \in 1 .. Len(li2[m].free), NEW j \in 1 .. Len(li2[m].free),
             li2[m].free[i] = li2[m].free[j]
      PROVE  i = j
  <2>1. \/ i \in 1 .. Len(li[m].free) /\ li2[m].free[i] = li[m].free[i]
        \/ i = Len(li[l].free) + 1 /\ li2[m].free[i] = n
    BY <1>4
  <2>2. \/ j \in 1 .. Len(li[m].free) /\ li2[m].free[j] = li[m].free[j]
        \/ j = Len(li[l].free) + 1 /\ li2[m].free[j] = n
    BY <1>4
  <2>3. \A k \in 1 .. Len(li[m].free) : li[m].free[k] # n
    BY <1>7
  <2> QED
    BY <1>3, <1>5, <2>1, <2>2, <2>3
<1>6. ASSUME NEW k \in List \ {m}, NEW i \in 1 .. Len(li2[m].free),
             NEW j \in 1 .. Len(li2[k].free)
      PROVE  li2[m].free[i] # li2[k].free[j]
  <2>1. \/ i \in 1 .. Len(li[m].free) /\ li2[m].free[i] = li[m].free[i]
        \/ m = l /\ li2[m].free[i] = n
    BY <1>4
  <2>2. \/ j \in 1 .. Len(li[k].free) /\ li2[k].free[j] = li[k].free[j]
        \/ k = l /\ li2[k].free[j] = n
    BY <1>4
  <2>3. /\ \A h \in 1 .. Len(li[m].free) : li[m].free[h] # n
        /\ m = l => \A h \in 1 .. Len(li[k].free) : li[k].free[h] # n
    BY <1>7
  <2>4. i \in 1 .. Len(li[m].free) /\ j \in 1 .. Len(li[k].free) => li[m].free[i] # li[k].free[j]
    BY <1>3
  <2> QED
    BY <2>1, <2>2, <2>3, <2>4
<1> QED
  BY <1>5, <1>6

Thins(c, c2, D, D2) ==
    /\ D2 \in SUBSET D /\ \A n \in D : n \in D2 <=> Alive(c2, n)
    /\ \A n \in D2 : c2[n].next = c[n].next /\ c2[n].prev = c[n].prev

(* Memory that is granted was not referred to.                             *)
Unreferred(c, li, c2, D) ==
    \A p \in Node : ~Alive(c, p) /\ Alive(c2, p) =>
        /\ \A n \in D : c[n].next # p /\ c[n].prev # p
        /\ \A k \in List : li[k].head # p

(* What can be reached from broken lists, when none of it is changed but   *)
(* that some of it is freed.                                               *)
LEMMA StrayStays ==
    ASSUME NEW c, NEW li, NEW c2, NEW li2, NEW D \in SUBSET Node, NEW D2,
           Typed(c, li), Typed(c2, li2), StrayOK(c, li, D),
           Thins(c, c2, D, D2), Unreferred(c, li, c2, D),
           \A n \in D2 : Unclean(c2, li2, n),
           \A n \in D2, l \in List : Clean(li2[l]) =>
              \A i \in 1 .. Len(li2[l].free) : li2[l].free[i] # n,
           \A n \in Node : c2[n].use = "in" /\ li2[c2[n].of].taint => n \in D,
           \A n \in Node : c2[n].use = "in" => Alive(c2, n),
           \A k \in List : li2[k].taint =>
              /\ li[k].taint /\ li2[k].head = li[k].head
              /\ \A i \in 1 .. Len(li2[k].free) : Unclean(c2, li2, li2[k].free[i])
    PROVE  StrayOK(c2, li2, D2)
<1> USE DEF Thins, Unreferred
<1>1. ASSUME NEW p \in Node \cup {NIL}, Leads(c, D, p),
             p = NIL \/ Alive(c, p) \/ ~Alive(c2, p)
      PROVE  Leads(c2, D2, p)
  BY <1>1 DEF Leads
<1>2. ASSUME NEW n \in D2 PROVE Leads(c2, D2, c2[n].next) /\ Leads(c2, D2, c2[n].prev)
  <2>1. /\ c[n].next \in Node \cup {NIL} /\ c[n].prev \in Node \cup {NIL}
        /\ Leads(c, D, c[n].next) /\ Leads(c, D, c[n].prev)
    BY DEF Typed, CellType, StrayOK
  <2>2. c[n].next = NIL \/ Alive(c, c[n].next) \/ ~Alive(c2, c[n].next)
    BY <2>1
  <2>3. c[n].prev = NIL \/ Alive(c, c[n].prev) \/ ~Alive(c2, c[n].prev)
    BY <2>1
  <2> QED
    BY <1>1, <2>1, <2>2, <2>3
<1>3. ASSUME NEW k \in List, li2[k].taint PROVE Leads(c2, D2, li2[k].head)
  <2>1. li[k].head \in Node \cup {NIL} /\ Leads(c, D, li[k].head) /\ li2[k].head = li[k].head
    BY <1>3 DEF Typed, ListType, StrayOK
  <2>2. li[k].head = NIL \/ Alive(c, li[k].head) \/ ~Alive(c2, li[k].head)
    BY <2>1
  <2> QED
    BY <1>1, <2>1, <2>2
<1> QED
  BY <1>2, <1>3 DEF StrayOK

(* The nodes of the other lists are left alone.                            *)
Spared(c, li, c2, X) ==
    \A k \in List \ X : Clean(li[k]) =>
        \A n \in Node : c[n].use = "in" /\ c[n].of = k => c2[n] = c[n]

LEMMA OthersKept ==
    ASSUME NEW c, NEW li, NEW c2, NEW li2, NEW S \in [List -> Seq(Node)], NEW X,
           ListsOK(c, li, S), Spared(c, li, c2, X),
           \A k \in List \ X : li2[k] = li[k],
           \A k \in List \ X, n \in Node : Clean(li2[k]) /\ c2[n].use = "in" /\ c2[n].of = k
              => c[n].use = "in" /\ c[n].of = k
    PROVE  \A k \in List \ X : Clean(li2[k]) => ListOK(c2, li2[k], k, S[k])
<1> TAKE k \in List \ X
<1> HAVE Clean(li2[k])
<1>1. ListOK(c, li[k], k, S[k]) /\ S[k] \in Seq(Node)
  BY DEF ListsOK
<1>2. /\ \A n \in Node : c[n].use = "in" /\ c[n].of = k => c2[n] = c[n]
      /\ \A n \in Node : c2[n].use = "in" /\ c2[n].of = k => c[n].use = "in" /\ c[n].of = k
  BY DEF Spared
<1> QED
  BY <1>1, <1>2, ListKept

-----------------------------------------------------------------------------
(* The calls, one by one.                                                  *)

LEMMA NewKeeps ==
    ASSUME NEW S, NEW D, AllOK(cell, list, S, D), NEW l \in List, New(l)
    PROVE  /\ AllOK(cell', list', [S EXCEPT ![l] = << >>], D)
           /\ Spared(cell, list, cell', {l})
<1> DEFINE S2 == [S EXCEPT ![l] = << >>]
<1>1. /\ Typed(cell, list) /\ NodesOK(cell, list) /\ FreeOK(cell, list)
      /\ S \in [List -> Seq(Node)] /\ ListsOK(cell, list, S)
      /\ D \in SUBSET Node /\ StrayOK(cell, list, D)
  BY DEF AllOK
<1>2. cell' = cell /\ ~list[l].open /\ ~list[l].taint
  BY <1>1 DEF New, Typed
<1>3. /\ list'[l].open /\ list'[l].head = NIL /\ list'[l].count = 0 /\ ~list'[l].taint
      /\ list'[l].free = << >> /\ list'[l] \in ListType /\ list'[l].max \in Nat
      /\ list' \in [List -> ListType]
      /\ \A k \in List \ {l} : list'[k] = list[k]
  <2>1. MaxRecyclable[1] \in Nat
    BY ListAssumption
  <2>2. list \in [List -> ListType]
    BY <1>1 DEF Typed
  <2>3. list'[l] = [BlankList EXCEPT !.open = TRUE, !.max = MaxRecyclable[1],
              !.mp = l \notin NoMalloc,
              !.array = IF l \in NoMalloc THEN 0 ELSE MaxRecyclable[1]]
    BY <2>2 DEF New
  <2>4. << >> \in Seq(Node)
    OBVIOUS
  <2>5. list'[l] \in ListType
    <3>1. list'[l] =
             [open |-> TRUE, head |-> NIL, count |-> 0, mp |-> l \notin NoMalloc,
              array |-> IF l \in NoMalloc THEN 0 ELSE MaxRecyclable[1],
              max |-> MaxRecyclable[1], free |-> << >>, taint |-> FALSE]
      BY <2>3 DEF BlankList
    <3> QED
      BY <2>1, <2>4, <3>1 DEF ListType
  <2>6. /\ list' \in [List -> ListType]
        /\ \A k \in List \ {l} : list'[k] = list[k]
    BY <2>2, <2>5 DEF New
  <2> QED
    BY <2>1, <2>3, <2>5, <2>6 DEF BlankList
<1>4. Typed(cell', list')
  <2>1. ASSUME NEW k \in List
        PROVE  /\ Len(list'[k].free) <= list'[k].max /\ (list'[k].taint => list'[k].open)
               /\ list'[k].open \/ list'[k].free = << >>
    <3>1. k = l => Len(list'[k].free) = 0 /\ list'[k].max \in Nat
      BY <1>3
    <3> QED
      BY <1>1, <1>3, <3>1 DEF Typed
  <2> QED
    BY <1>1, <1>2, <1>3, <2>1 DEF Typed
<1>5. NodesOK(cell', list')
  BY <1>1, <1>2, <1>3 DEF NodesOK
<1>6. FreeOK(cell', list')
  <2>1. FreeWithin(list, list')
    BY <1>3 DEF FreeWithin
  <2>2. FreeUnused(cell', list')
    <3>1. ASSUME NEW k \in List, Clean(list'[k]), NEW i \in 1 .. Len(list'[k].free)
          PROVE  cell'[list'[k].free[i]].use = "none"
      <4>1. k # l
        BY <1>3, <3>1
      <4>2. list'[k] = list[k]
        BY <1>3, <4>1
      <4> QED
        BY <1>1, <1>2, <3>1, <4>2 DEF FreeOK
    <3> QED
      BY <3>1 DEF FreeUnused
  <2> QED
    BY <1>1, <2>1, <2>2, FreeStays
<1>7. S2 \in [List -> Seq(Node)] /\ S2[l] = << >> /\ \A k \in List \ {l} : S2[k] = S[k]
  BY <1>1
<1>10. Spared(cell, list, cell', {l})
  BY <1>2 DEF Spared
<1>8. ListsOK(cell', list', S2)
  <2>1. \A n \in Node : ~(cell'[n].use = "in" /\ cell'[n].of = l)
    BY <1>1, <1>2 DEF NodesOK
  <2>2. ListOK(cell', list'[l], l, << >>)
    BY <1>3, <2>1, ListEmpty
  <2>3. \A k \in List \ {l} : Clean(list'[k]) => ListOK(cell', list'[k], k, S[k])
    BY <1>1, <1>2, <1>3, <1>10, OthersKept
  <2> QED
    BY <1>7, <2>2, <2>3 DEF ListsOK
<1>9. StrayOK(cell', list', D)
  <2>1. \A n \in D : Unclean(cell', list', n)
    BY <1>1, <1>2, <1>3 DEF StrayOK, Unclean, NodesOK
  <2>2. \A n \in D, k \in List : Clean(list'[k]) =>
           \A i \in 1 .. Len(list'[k].free) : list'[k].free[i] # n
    <3>1. ASSUME NEW n \in D, NEW k \in List, Clean(list'[k]), NEW i \in 1 .. Len(list'[k].free)
          PROVE  list'[k].free[i] # n
      <4>1. k # l
        BY <1>3, <3>1
      <4>2. list'[k] = list[k]
        BY <1>3, <4>1
      <4> QED
        BY <1>1, <3>1, <4>2 DEF StrayOK
    <3> QED
      BY <3>1
  <2>3. \A n \in Node : cell'[n].use = "in" /\ list'[cell'[n].of].taint => n \in D
    BY <1>1, <1>2, <1>3 DEF StrayOK, NodesOK
  <2>4. \A k \in List : list'[k].taint =>
           /\ list[k].taint /\ list'[k].head = list[k].head
           /\ \A i \in 1 .. Len(list'[k].free) : Unclean(cell', list', list'[k].free[i])
    <3>1. ASSUME NEW k \in List, list'[k].taint, NEW i \in 1 .. Len(list'[k].free)
          PROVE  Unclean(cell', list', list'[k].free[i])
      <4>1. k # l /\ list'[k] = list[k]
        BY <1>3, <3>1
      <4>2. list[k].free[i] \in Node /\ Unclean(cell, list, list[k].free[i])
        BY <1>1, <3>1, <4>1 DEF StrayOK, Typed, ListType
      <4> QED
        BY <1>1, <1>2, <1>3, <4>1, <4>2 DEF Unclean, NodesOK
    <3> QED
      BY <1>3, <3>1
  <2>5. /\ Thins(cell, cell', D, D) /\ Unreferred(cell, list, cell', D)
        /\ \A n \in Node : cell'[n].use = "in" => Alive(cell', n)
    BY <1>1, <1>2 DEF StrayOK, NodesOK, Thins, Unreferred
  <2> QED
    BY <1>1, <1>4, <2>1, <2>2, <2>3, <2>4, <2>5, StrayStays
<1> QED
  BY <1>1, <1>4, <1>5, <1>6, <1>7, <1>8, <1>9, <1>10 DEF AllOK

(* What the nodes are when those of a pool have been freed.                *)
LEMMA FreedAt ==
    ASSUME cell \in [Node -> CellType], NEW l \in List
    PROVE  /\ Freed(l) \in [Node -> CellType]
           /\ \A n \in Node :
                 IF cell[n].home = l \/ (cell[n].home = CLIENT /\ cell[n].of = l)
                 THEN ~Alive(Freed(l), n) /\ Freed(l)[n].use = "none" /\ Freed(l)[n].of = NIL
                 ELSE /\ Freed(l)[n].home = cell[n].home /\ Freed(l)[n].data = cell[n].data
                      /\ Freed(l)[n].next = cell[n].next /\ Freed(l)[n].prev = cell[n].prev
                      /\ IF cell[n].of = l
                         THEN Freed(l)[n].use = "none" /\ Freed(l)[n].of = NIL
                         ELSE Freed(l)[n] = cell[n]
<1> DEFINE F == Freed(l)
<1>1. ASSUME NEW n \in Node
      PROVE  /\ F[n] \in CellType
             /\ IF cell[n].home = l \/ (cell[n].home = CLIENT /\ cell[n].of = l)
                THEN ~Alive(F, n) /\ F[n].use = "none" /\ F[n].of = NIL
                ELSE /\ F[n].home = cell[n].home /\ F[n].data = cell[n].data
                     /\ F[n].next = cell[n].next /\ F[n].prev = cell[n].prev
                     /\ IF cell[n].of = l THEN F[n].use = "none" /\ F[n].of = NIL
                        ELSE F[n] = cell[n]
  <2>1. cell[n] \in CellType
    OBVIOUS
  <2>2. F[n] = IF cell[n].home = l \/ (cell[n].home = CLIENT /\ cell[n].of = l) THEN BlankCell
               ELSE IF cell[n].of = l THEN [cell[n] EXCEPT !.use = "none", !.of = NIL]
               ELSE cell[n]
    BY DEF Freed
  <2> HIDE DEF F
  <2>3. CASE cell[n].home = l \/ (cell[n].home = CLIENT /\ cell[n].of = l)
    <3>1. F[n] = BlankCell
      BY <2>2, <2>3
    <3> QED
      BY <2>3, <3>1 DEF BlankCell, CellType, Alive
  <2>4. CASE ~(cell[n].home = l \/ (cell[n].home = CLIENT /\ cell[n].of = l)) /\ cell[n].of = l
    <3>1. F[n] = [cell[n] EXCEPT !.use = "none", !.of = NIL]
      BY <2>2, <2>4
    <3>2. /\ F[n].home = cell[n].home /\ F[n].data = cell[n].data
          /\ F[n].next = cell[n].next /\ F[n].prev = cell[n].prev
          /\ F[n].use = "none" /\ F[n].of = NIL /\ F[n] \in CellType
      BY <2>1, <3>1 DEF CellType
    <3> QED
      BY <2>4, <3>2
  <2>5. CASE ~(cell[n].home = l \/ (cell[n].home = CLIENT /\ cell[n].of = l)) /\ cell[n].of # l
    <3>1. F[n] = cell[n]
      BY <2>2, <2>5
    <3> QED
      BY <2>1, <2>5, <3>1
  <2> QED
    BY <2>3, <2>4, <2>5
<1>2. F = [n \in Node |-> F[n]]
  BY DEF Freed
<1> QED
  BY <1>1, <1>2

LEMMA FreedKeeps ==
    ASSUME NEW S, NEW D, AllOK(cell, list, S, D), NEW l \in List,
           NEW li2 \in [List -> ListType],
           \A k \in List \ {l} : li2[k] = list[k],
           li2[l].head = NIL, li2[l].free = << >>, Clean(li2[l]) => li2[l].count = 0,
           li2[l].taint => list[l].taint /\ list[l].head = NIL /\ li2[l].open
    PROVE  /\ AllOK(Freed(l), li2, [S EXCEPT ![l] = << >>], {n \in D : Alive(Freed(l), n)})
           /\ Spared(cell, list, Freed(l), {l})
<1> DEFINE S2 == [S EXCEPT ![l] = << >>]
           F == Freed(l)
           D2 == {n \in D : Alive(F, n)}
<1>1. /\ Typed(cell, list) /\ NodesOK(cell, list) /\ FreeOK(cell, list)
      /\ S \in [List -> Seq(Node)] /\ ListsOK(cell, list, S)
      /\ D \in SUBSET Node /\ StrayOK(cell, list, D)
      /\ cell \in [Node -> CellType]
  BY DEF AllOK, Typed
<1>2. /\ F \in [Node -> CellType]
      /\ \A n \in Node :
            IF cell[n].home = l \/ (cell[n].home = CLIENT /\ cell[n].of = l)
            THEN ~Alive(F, n) /\ F[n].use = "none" /\ F[n].of = NIL
            ELSE /\ F[n].home = cell[n].home /\ F[n].data = cell[n].data
                 /\ F[n].next = cell[n].next /\ F[n].prev = cell[n].prev
                 /\ IF cell[n].of = l THEN F[n].use = "none" /\ F[n].of = NIL
                    ELSE F[n] = cell[n]
  BY <1>1, FreedAt
<1> HIDE DEF F
<1>3. /\ \A n \in Node : F[n].use # "none" => F[n] = cell[n] /\ cell[n].of # l
      /\ \A n \in Node : Alive(F, n) =>
            /\ Alive(cell, n) /\ F[n].data = cell[n].data
            /\ F[n].next = cell[n].next /\ F[n].prev = cell[n].prev
      /\ \A n \in Node : cell[n].use = "none" => F[n].use = "none"
      /\ \A n \in Node : F[n].use = "none" => F[n].of = NIL
  <2>1. \A n \in Node : cell[n].use = "none" => cell[n].of = NIL
    BY <1>1 DEF NodesOK
  <2> QED
    BY <1>2, <2>1 DEF Alive
<1>4. Typed(F, li2)
  <2>1. ASSUME NEW k \in List
        PROVE  /\ Len(li2[k].free) <= li2[k].max /\ (li2[k].taint => li2[k].open)
               /\ li2[k].open \/ li2[k].free = << >>
    <3>1. k = l => Len(li2[k].free) = 0 /\ li2[k].max \in Nat
      BY DEF ListType
    <3> QED
      BY <1>1, <3>1 DEF Typed
  <2> QED
    BY <1>2, <2>1 DEF Typed
<1>5. NodesOK(F, li2)
  <2>1. ASSUME NEW n \in Node, F[n].use # "none"
        PROVE  Alive(F, n) /\ F[n].of \in List /\ li2[F[n].of].open
    <3>1. F[n] = cell[n] /\ cell[n].of # l
      BY <1>3, <2>1
    <3>2. Alive(cell, n) /\ cell[n].of \in List /\ list[cell[n].of].open
      BY <1>1, <2>1, <3>1 DEF NodesOK
    <3> QED
      BY <3>1, <3>2 DEF Alive
  <2>2. \A n \in Node : Alive(F, n) => F[n].data \in Data
    BY <1>1, <1>3 DEF NodesOK
  <2> QED
    BY <1>3, <2>1, <2>2 DEF NodesOK
<1>6. FreeOK(F, li2)
  <2>1. FreeWithin(list, li2)
    BY DEF FreeWithin
  <2>2. FreeUnused(F, li2)
    <3>1. ASSUME NEW k \in List, Clean(li2[k]), NEW i \in 1 .. Len(li2[k].free)
          PROVE  F[li2[k].free[i]].use = "none"
      <4>1. k # l /\ li2[k] = list[k]
        BY <3>1
      <4>2. list[k].free[i] \in Node /\ cell[list[k].free[i]].use = "none"
        BY <1>1, <3>1, <4>1 DEF FreeOK, Typed, ListType
      <4> QED
        BY <1>3, <4>1, <4>2
    <3> QED
      BY <3>1 DEF FreeUnused
  <2> QED
    BY <1>1, <2>1, <2>2, FreeStays
<1>7. S2 \in [List -> Seq(Node)] /\ S2[l] = << >> /\ \A k \in List \ {l} : S2[k] = S[k]
  BY <1>1
<1>8. Spared(cell, list, F, {l})
  <2>1. ASSUME NEW k \in List \ {l}, Clean(list[k]), NEW n \in Node,
               cell[n].use = "in", cell[n].of = k
        PROVE  F[n] = cell[n]
    <3>1. Holds(cell, k, S[k]) /\ S[k] \in Seq(Node)
      BY <1>1, <2>1 DEF ListsOK, ListOK
    <3>2. cell[n].home \in {k, CLIENT}
      BY <2>1, <3>1 DEF Holds
    <3> QED
      BY <1>2, <2>1, <3>2, NilAssumption
  <2> QED
    BY <2>1 DEF Spared
<1>9. ListsOK(F, li2, S2)
  <2>1. \A n \in Node : ~(F[n].use = "in" /\ F[n].of = l)
    BY <1>3
  <2>2. Clean(li2[l]) => ListOK(F, li2[l], l, << >>)
    BY <2>1, ListEmpty
  <2>3. \A k \in List \ {l}, n \in Node : Clean(li2[k]) /\ F[n].use = "in" /\ F[n].of = k
           => cell[n].use = "in" /\ cell[n].of = k
    BY <1>3
  <2>4. \A k \in List \ {l} : Clean(li2[k]) => ListOK(F, li2[k], k, S[k])
    BY <1>1, <1>8, <2>3, OthersKept
  <2> QED
    BY <1>7, <2>2, <2>4 DEF ListsOK
<1>10. StrayOK(F, li2, D2)
  <2>1. \A n \in D2 : Unclean(F, li2, n)
    <3>1. ASSUME NEW n \in D2, F[n].use # "none" PROVE ~Clean(li2[F[n].of])
      <4>1. n \in Node /\ n \in D /\ F[n] = cell[n] /\ cell[n].of # l
        BY <1>1, <1>3, <3>1
      <4>2. Unclean(cell, list, n) /\ cell[n].of \in List
        BY <1>1, <3>1, <4>1 DEF StrayOK, NodesOK
      <4> QED
        BY <3>1, <4>1, <4>2 DEF Unclean
    <3> QED
      BY <3>1 DEF Unclean
  <2>2. \A n \in D2, k \in List : Clean(li2[k]) =>
           \A i \in 1 .. Len(li2[k].free) : li2[k].free[i] # n
    BY <1>1 DEF StrayOK
  <2>3. \A n \in Node : F[n].use = "in" /\ li2[F[n].of].taint => n \in D
    BY <1>1, <1>3 DEF StrayOK, NodesOK
  <2>4. \A k \in List : li2[k].taint =>
           /\ list[k].taint /\ li2[k].head = list[k].head
           /\ \A i \in 1 .. Len(li2[k].free) : Unclean(F, li2, li2[k].free[i])
    <3>1. ASSUME NEW k \in List, li2[k].taint, NEW i \in 1 .. Len(li2[k].free)
          PROVE  Unclean(F, li2, li2[k].free[i])
      <4>1. k # l /\ li2[k] = list[k]
        BY <3>1
      <4>2. list[k].free[i] \in Node /\ Unclean(cell, list, list[k].free[i])
        BY <1>1, <3>1, <4>1 DEF StrayOK, Typed, ListType
      <4> QED
        BY <1>1, <1>3, <4>1, <4>2 DEF Unclean, NodesOK
    <3> QED
      BY <3>1
  <2>5. /\ Thins(cell, F, D, D2) /\ Unreferred(cell, list, F, D)
        /\ \A n \in Node : F[n].use = "in" => Alive(F, n)
    BY <1>1, <1>3, <1>5 DEF NodesOK, Thins, Unreferred
  <2> QED
    BY <1>1, <1>4, <2>1, <2>2, <2>3, <2>4, <2>5, StrayStays
<1>11. D2 \in SUBSET Node
  BY <1>1
<1> QED
  BY <1>4, <1>5, <1>6, <1>7, <1>8, <1>9, <1>10, <1>11 DEF AllOK, F

LEMMA FreeKeeps ==
    ASSUME NEW S, NEW D, AllOK(cell, list, S, D), NEW l \in List, Free(l)
    PROVE  /\ \E S2, D2 : AllOK(cell', list', S2, D2)
           /\ Spared(cell, list, cell', {l}) /\ \A k \in List \ {l} : list'[k] = list[k]
<1>1. list \in [List -> ListType]
  BY DEF AllOK, Typed
<1>2. /\ list' \in [List -> ListType] /\ list'[l].head = NIL /\ list'[l].free = << >>
      /\ list'[l].count = 0 /\ ~list'[l].taint
      /\ \A k \in List \ {l} : list'[k] = list[k]
  <2>1. BlankList \in ListType
    BY DEF BlankList, ListType
  <2> QED
    BY <1>1, <2>1 DEF Free, BlankList
<1>3. cell' = Freed(l)
  BY DEF Free
<1> QED
  BY <1>2, <1>3, FreedKeeps

(* The list after its recycling array has been replaced.                   *)
LEMMA ArrayAt ==
    ASSUME NEW r \in ListType, NEW i \in DOMAIN MaxRecyclable
    PROVE  LET a == Array(r, MaxRecyclable[i])
           IN  /\ a \in ListType /\ a.free = << >> /\ a.head = r.head
               /\ a.count = r.count /\ a.taint = r.taint /\ a.open = r.open
<1>1. MaxRecyclable[i] \in Nat
  BY ListAssumption
<1> DEFINE k == MaxRecyclable[i]
           m == IF k > 0 THEN k ELSE r.max
           a == Array(r, k)
<1>2. a = [r EXCEPT !.mp = TRUE, !.free = << >>, !.array = k, !.max = m]
  BY DEF Array
<1>3. k \in Nat /\ m \in Nat /\ << >> \in Seq(Node)
  BY <1>1 DEF ListType
<1> HIDE DEF k, m, a
<1>4. /\ a.free = << >> /\ a.head = r.head /\ a.count = r.count /\ a.taint = r.taint
      /\ a.open = r.open
  BY <1>2 DEF ListType
<1>5. a \in ListType
  BY <1>2, <1>3 DEF ListType
<1> QED
  BY <1>4, <1>5 DEF a, k

LEMMA ResizeEmptyKeeps ==
    ASSUME NEW S, NEW D, AllOK(cell, list, S, D), NEW l \in List, ResizeEmpty(l)
    PROVE  /\ \E S2, D2 : AllOK(cell', list', S2, D2)
           /\ Spared(cell, list, cell', {l}) /\ \A k \in List \ {l} : list'[k] = list[k]
<1>1. Typed(cell, list) /\ list \in [List -> ListType]
  BY DEF AllOK, Typed
<1>2. PICK i \in DOMAIN MaxRecyclable :
         list' = [list EXCEPT ![l] = Array(list[l], MaxRecyclable[i])]
  BY <1>1 DEF ResizeEmpty
<1>3. /\ list' \in [List -> ListType] /\ list'[l].free = << >>
      /\ list'[l].head = list[l].head /\ list'[l].count = list[l].count
      /\ list'[l].taint = list[l].taint /\ list'[l].open = list[l].open
      /\ \A k \in List \ {l} : list'[k] = list[k]
  BY <1>1, <1>2, ArrayAt
<1>4. list[l].head = NIL /\ list[l].open
  BY DEF ResizeEmpty, Head1, On
<1>5. Clean(list[l]) => list[l].count = 0
  <2>1. Clean(list[l]) => ListOK(cell, list[l], l, S[l]) /\ S[l] \in Seq(Node)
    BY DEF AllOK, ListsOK
  <2> QED
    BY <1>4, <2>1, NilAssumption DEF ListOK, Threads
<1>6. cell' = Freed(l)
  BY DEF ResizeEmpty
<1> QED
  BY <1>3, <1>4, <1>5, <1>6, FreedKeeps DEF Clean

LEMMA ResizeKeepKeeps ==
    ASSUME NEW S, NEW D, AllOK(cell, list, S, D), NEW l \in List, ResizeKeep(l)
    PROVE  /\ AllOK(cell', list', S, D)
           /\ Spared(cell, list, cell', {l}) /\ \A k \in List \ {l} : list'[k] = list[k]
<1>1. /\ Typed(cell, list) /\ NodesOK(cell, list) /\ FreeOK(cell, list)
      /\ S \in [List -> Seq(Node)] /\ ListsOK(cell, list, S)
      /\ D \in SUBSET Node /\ StrayOK(cell, list, D) /\ list \in [List -> ListType]
  BY DEF AllOK, Typed
<1>2. PICK i \in DOMAIN MaxRecyclable :
         list' = [list EXCEPT ![l] = Array(list[l], MaxRecyclable[i])]
  BY <1>1 DEF ResizeKeep
<1>3. /\ list' \in [List -> ListType] /\ list'[l].free = << >>
      /\ list'[l].head = list[l].head /\ list'[l].count = list[l].count
      /\ list'[l].taint = list[l].taint /\ list'[l].open = list[l].open
      /\ \A k \in List \ {l} : list'[k] = list[k]
      /\ cell' = cell
  BY <1>1, <1>2, ArrayAt DEF ResizeKeep
<1>4. Typed(cell', list')
  <2>1. ASSUME NEW k \in List
        PROVE  /\ Len(list'[k].free) <= list'[k].max /\ (list'[k].taint => list'[k].open)
               /\ list'[k].open \/ list'[k].free = << >>
    <3>1. k = l => Len(list'[k].free) = 0 /\ list'[k].max \in Nat
      BY <1>3 DEF ListType
    <3> QED
      BY <1>1, <1>3, <3>1 DEF Typed
  <2> QED
    BY <1>1, <1>3, <2>1 DEF Typed
<1>5. /\ \A k \in List : Clean(list'[k]) <=> Clean(list[k])
      /\ \A k \in List : list'[k].open = list[k].open /\ list'[k].taint = list[k].taint
            /\ list'[k].head = list[k].head /\ list'[k].count = list[k].count
            /\ list'[k].free \in {list[k].free, << >>}
  <2>1. ASSUME NEW k \in List
        PROVE  list'[k].open = list[k].open /\ list'[k].taint = list[k].taint
            /\ list'[k].head = list[k].head /\ list'[k].count = list[k].count
            /\ list'[k].free \in {list[k].free, << >>}
    BY <1>3
  <2> QED
    BY <2>1 DEF Clean
<1>6. NodesOK(cell', list')
  BY <1>1, <1>3, <1>5 DEF NodesOK
<1>7. FreeOK(cell', list')
  <2>1. FreeWithin(list, list')
    BY <1>3, <1>5 DEF FreeWithin
  <2>2. FreeUnused(cell', list')
    BY <1>1, <1>3, <1>5 DEF FreeUnused, FreeOK
  <2> QED
    BY <1>1, <2>1, <2>2, FreeStays
<1>8. ListsOK(cell', list', S)
  BY <1>1, <1>3, <1>5 DEF ListsOK, ListOK
<1>9. StrayOK(cell', list', D)
  <2>1. \A n \in Node : Unclean(cell, list, n) => Unclean(cell', list', n)
    BY <1>1, <1>3, <1>5 DEF Unclean, NodesOK
  <2>2. \A k \in List : list'[k].taint =>
           \A j \in 1 .. Len(list'[k].free) : Unclean(cell', list', list'[k].free[j])
    <3>1. ASSUME NEW k \in List, list'[k].taint, NEW j \in 1 .. Len(list'[k].free)
          PROVE  Unclean(cell', list', list'[k].free[j])
      <4>1. list'[k].free = list[k].free
        BY <1>5, <3>1
      <4>2. list[k].free[j] \in Node /\ Unclean(cell, list, list[k].free[j])
        BY <1>1, <1>5, <3>1, <4>1 DEF StrayOK, Typed, ListType
      <4> QED
        BY <2>1, <4>1, <4>2
    <3> QED
      BY <3>1
  <2>3. \A n \in D : \A k \in List : Clean(list'[k]) =>
           \A j \in 1 .. Len(list'[k].free) : list'[k].free[j] # n
    <3>1. ASSUME NEW n \in D, NEW k \in List, Clean(list'[k]),
                 NEW j \in 1 .. Len(list'[k].free)
          PROVE  list'[k].free[j] # n
      <4>1. list'[k].free = list[k].free /\ Clean(list[k])
        BY <1>5, <3>1
      <4> QED
        BY <1>1, <3>1, <4>1 DEF StrayOK
    <3> QED
      BY <3>1
  <2>4. \A n \in Node : cell'[n].use = "in" /\ list'[cell'[n].of].taint => n \in D
    BY <1>1, <1>3, <1>5 DEF StrayOK, NodesOK
  <2>5. \A k \in List : list'[k].taint => Leads(cell', D, list'[k].head)
    BY <1>1, <1>3, <1>5 DEF StrayOK
  <2> QED
    BY <1>1, <1>3, <2>1, <2>2, <2>3, <2>4, <2>5 DEF StrayOK
<1>10. Spared(cell, list, cell', {l})
  BY <1>3 DEF Spared
<1> QED
  BY <1>1, <1>3, <1>4, <1>6, <1>7, <1>8, <1>9, <1>10 DEF AllOK

(* A node given to the client, recycled or fresh from a pool or brought.   *)
Comes(li, f, l, n, d, h) ==
    /\ h \in {l, CLIENT, cell[n].home} /\ d \in Data
    /\ \/ h = cell[n].home /\ Live(n) /\ li[l].free # << >> /\ n = Last(li[l].free)
          /\ f = Front(li[l].free)
       \/ h # NIL /\ Fresh(n) /\ f = li[l].free

Given(l, n, d, h) ==
    [cell EXCEPT ![n] = [cell[n] EXCEPT !.home = h, !.data = d, !.use = "idle", !.of = l]]

WithFree(li, l, f) == [li EXCEPT ![l].free = f]

LEMMA WithFreeAt ==
    ASSUME NEW li, NEW l \in List, NEW f, NEW li2,
           li \in [List -> ListType], f \in Seq(Node), li2 = WithFree(li, l, f)
    PROVE  /\ li2 \in [List -> ListType] /\ li2[l].free = f
           /\ li2[l].open = li[l].open /\ li2[l].head = li[l].head
           /\ li2[l].count = li[l].count /\ li2[l].taint = li[l].taint
           /\ li2[l].max = li[l].max
           /\ \A k \in List \ {l} : li2[k] = li[k]
<1>1. /\ li2[l] = [li[l] EXCEPT !.free = f]
      /\ \A k \in List \ {l} : li2[k] = li[k]
      /\ li2 = [k \in List |-> li2[k]]
  BY DEF WithFree
<1>2. li[l] \in ListType
  OBVIOUS
<1>3. /\ li2[l].free = f
      /\ li2[l].open = li[l].open /\ li2[l].head = li[l].head
      /\ li2[l].count = li[l].count /\ li2[l].taint = li[l].taint
      /\ li2[l].max = li[l].max
  BY <1>1, <1>2 DEF ListType
<1>4. li2[l] \in ListType
  BY <1>1, <1>2 DEF ListType
<1> QED
  BY <1>1, <1>3, <1>4

LEMMA ComingKeeps ==
    ASSUME NEW S, NEW D, AllOK(cell, list, S, D), NEW l \in List, list[l].open,
           NEW n \in Node, NEW d, NEW h, NEW f, Comes(list, f, l, n, d, h),
           NEW c2, c2 = Given(l, n, d, h), NEW li2, li2 = WithFree(list, l, f)
    PROVE  AllOK(c2, li2, S, D) /\ Spared(cell, list, c2, {})
<1>1. /\ Typed(cell, list) /\ NodesOK(cell, list) /\ FreeOK(cell, list)
      /\ S \in [List -> Seq(Node)] /\ ListsOK(cell, list, S)
      /\ D \in SUBSET Node /\ StrayOK(cell, list, D)
      /\ list \in [List -> ListType] /\ cell \in [Node -> CellType]
  BY DEF AllOK, Typed
<1>2. h # NIL /\ h \in List \cup {CLIENT}
  BY <1>1, NilAssumption DEF Comes, Live, CellType
<1>3. /\ c2 \in [Node -> CellType] /\ Alive(c2, n)
      /\ c2[n].home = h /\ c2[n].data = d /\ c2[n].use = "idle" /\ c2[n].of = l
      /\ c2[n].next = cell[n].next /\ c2[n].prev = cell[n].prev
      /\ \A m \in Node \ {n} : c2[m] = cell[m]
  <2>1. /\ c2[n] = [cell[n] EXCEPT !.home = h, !.data = d, !.use = "idle", !.of = l]
        /\ \A m \in Node \ {n} : c2[m] = cell[m]
        /\ c2 = [m \in Node |-> c2[m]]
    BY <1>1 DEF Given
  <2>2. cell[n] \in CellType /\ d \in Data
    BY <1>1 DEF Comes
  <2>3. /\ c2[n].home = h /\ c2[n].data = d /\ c2[n].use = "idle" /\ c2[n].of = l
        /\ c2[n].next = cell[n].next /\ c2[n].prev = cell[n].prev
    BY <2>1, <2>2 DEF CellType
  <2>4. c2[n] \in CellType
    BY <1>2, <2>1, <2>2 DEF CellType
  <2> QED
    BY <1>1, <1>2, <2>1, <2>3, <2>4 DEF Alive
<1>4. /\ list[l].free \in Seq(Node) /\ f \in Seq(Node) /\ Len(f) <= Len(list[l].free)
      /\ \A i \in 1 .. Len(f) : i \in 1 .. Len(list[l].free) /\ f[i] = list[l].free[i]
  <2>1. list[l].free \in Seq(Node)
    BY <1>1 DEF ListType
  <2> QED
    BY <2>1 DEF Comes, Front
<1>5. /\ li2 \in [List -> ListType] /\ li2[l].free = f
      /\ \A k \in List : li2[k].open = list[k].open /\ li2[k].head = list[k].head
            /\ li2[k].count = list[k].count /\ li2[k].taint = list[k].taint
            /\ li2[k].max = list[k].max
      /\ \A k \in List \ {l} : li2[k] = list[k]
      /\ \A k \in List : Clean(li2[k]) <=> Clean(list[k])
  <2>1. /\ li2 \in [List -> ListType] /\ li2[l].free = f
        /\ li2[l].open = list[l].open /\ li2[l].head = list[l].head
        /\ li2[l].count = list[l].count /\ li2[l].taint = list[l].taint
        /\ li2[l].max = list[l].max
        /\ \A k \in List \ {l} : li2[k] = list[k]
    <3>1. list \in [List -> ListType] /\ f \in Seq(Node)
      BY <1>1, <1>4
    <3>2. /\ li2 \in [List -> ListType] /\ li2[l].free = f
          /\ li2[l].open = list[l].open /\ li2[l].head = list[l].head
          /\ li2[l].count = list[l].count /\ li2[l].taint = list[l].taint
          /\ li2[l].max = list[l].max
          /\ \A k \in List \ {l} : li2[k] = list[k]
      BY ONLY <3>1, l \in List, li2 = WithFree(list, l, f), WithFreeAt
    <3> QED
      BY <3>2
  <2> QED
    BY <2>1 DEF Clean
<1>6. Typed(c2, li2)
  <2>1. ASSUME NEW k \in List
        PROVE  /\ Len(li2[k].free) <= li2[k].max /\ (li2[k].taint => li2[k].open)
               /\ li2[k].open \/ li2[k].free = << >>
    <3>1. Len(list[k].free) <= list[k].max /\ list[k].max \in Nat
      BY <1>1 DEF Typed, ListType
    <3>2. Len(f) \in Nat /\ Len(list[l].free) \in Nat
      BY <1>4
    <3>3. CASE k = l
      BY <1>4, <1>5, <3>1, <3>2, <3>3
    <3>4. CASE k # l
      BY <1>1, <1>5, <3>4 DEF Typed
    <3> QED
      BY <3>3, <3>4
  <2> QED
    BY <1>3, <1>5, <2>1 DEF Typed
<1>7. NodesOK(c2, li2)
  BY <1>1, <1>3, <1>5 DEF NodesOK, Alive, Comes
(* n is in no clean list, and recycled by no other one.                    *)
<1>8. /\ \A k \in List : Clean(list[k]) => ~(cell[n].use = "in" /\ cell[n].of = k)
      /\ \A k \in List : Clean(li2[k]) => \A i \in 1 .. Len(li2[k].free) : li2[k].free[i] # n
      /\ Fresh(n) \/ cell[n].use = "none" \/ list[l].taint
      /\ n \in D => ~Clean(list[l])
      /\ n \in D \/ cell[n].use # "none" => ~Fresh(n)
      /\ \A k \in List \ {l} : Clean(list[l]) =>
            \A i \in 1 .. Len(li2[k].free) : li2[k].free[i] # n
  <2>1. CASE Fresh(n)
    <3>1. ~Alive(cell, n) /\ \A k \in List : n \notin Range(list[k].free)
      BY <2>1 DEF Fresh, Live, Alive
    <3>2. \A k \in List : \A i \in 1 .. Len(li2[k].free) : li2[k].free[i] # n
      <4>1. ASSUME NEW k \in List, NEW i \in 1 .. Len(li2[k].free)
            PROVE  li2[k].free[i] # n
        <5>1. i \in 1 .. Len(list[k].free) /\ li2[k].free[i] = list[k].free[i]
          BY <1>4, <1>5
        <5>2. list[k].free \in Seq(Node)
          BY <1>1 DEF ListType
        <5> QED
          BY <3>1, <5>1, <5>2 DEF Range
      <4> QED
        BY <4>1
    <3>3. cell[n].use = "none" /\ n \notin D
      BY <1>1, <3>1 DEF NodesOK, StrayOK
    <3> QED
      BY <2>1, <3>2, <3>3
  <2>2. CASE /\ ~Fresh(n) /\ list[l].free # << >> /\ n = Last(list[l].free)
             /\ f = Front(list[l].free)
    <3> DEFINE q == Len(list[l].free)
    <3>1. q \in 1 .. Len(list[l].free) /\ list[l].free[q] = n /\ q \in Nat /\ Len(f) = q - 1
      BY <1>4, <2>2 DEF Last, Front
    <3>2. \A k \in List \ {l} : Clean(list[l]) \/ Clean(list[k]) =>
             \A i \in 1 .. Len(list[k].free) : list[k].free[i] # n
      BY <1>1, <3>1 DEF FreeOK
    <3>3. Clean(list[l]) => \A i \in 1 .. Len(f) : f[i] # n
      <4>1. ASSUME Clean(list[l]), NEW i \in 1 .. Len(f) PROVE f[i] # n
        <5>1. i \in 1 .. Len(list[l].free) /\ f[i] = list[l].free[i] /\ i # q
          BY <1>4, <3>1
        <5> QED
          BY <1>1, <3>1, <4>1, <5>1 DEF FreeOK
      <4> QED
        BY <4>1
    <3>4. Clean(list[l]) => cell[n].use = "none" /\ n \notin D
      BY <1>1, <3>1 DEF FreeOK, StrayOK
    <3>5. ~Clean(list[l]) => list[l].taint /\ (cell[n].use # "none" => ~Clean(list[cell[n].of]))
      BY <1>1, <3>1 DEF StrayOK, Unclean, Clean
    <3>6. cell[n].use = "in" => cell[n].of \in List
      BY <1>1 DEF NodesOK
    <3> QED
      BY <1>5, <2>2, <3>2, <3>3, <3>4, <3>5, <3>6
  <2> QED
    BY <2>1, <2>2 DEF Comes
<1>9. FreeOK(c2, li2)
  <2>1. FreeWithin(list, li2)
    BY <1>4, <1>5 DEF FreeWithin
  <2>2. FreeUnused(c2, li2)
    <3>1. ASSUME NEW k \in List, Clean(li2[k]), NEW i \in 1 .. Len(li2[k].free)
          PROVE  c2[li2[k].free[i]].use = "none"
      <4>1. i \in 1 .. Len(list[k].free) /\ li2[k].free[i] = list[k].free[i]
        BY <1>4, <1>5
      <4>2. list[k].free[i] \in Node /\ cell[list[k].free[i]].use = "none"
        BY <1>1, <1>5, <3>1, <4>1 DEF FreeOK, ListType
      <4>3. li2[k].free[i] # n
        BY <1>8, <3>1
      <4> QED
        BY <1>3, <4>1, <4>2, <4>3
    <3> QED
      BY <3>1 DEF FreeUnused
  <2> QED
    BY <1>1, <2>1, <2>2, FreeStays
<1>10. Spared(cell, list, c2, {})
  BY <1>3, <1>8 DEF Spared
<1>11. ListsOK(c2, li2, S)
  <2>1. ASSUME NEW k \in List, Clean(li2[k]) PROVE ListOK(c2, li2[k], k, S[k])
    <3>1. ListOK(cell, list[k], k, S[k]) /\ S[k] \in Seq(Node)
      BY <1>1, <1>5, <2>1 DEF ListsOK
    <3>2. \A m \in Node : cell[m].use = "in" /\ cell[m].of = k => c2[m] = cell[m]
      BY <1>5, <1>10, <2>1 DEF Spared
    <3>3. \A m \in Node : c2[m].use = "in" /\ c2[m].of = k => cell[m].use = "in" /\ cell[m].of = k
      BY <1>3
    <3> QED
      BY <1>5, <3>1, <3>2, <3>3, ListKept
  <2> QED
    BY <2>1 DEF ListsOK
<1>12. StrayOK(c2, li2, D)
  <2>1. \A m \in D : Unclean(c2, li2, m)
    <3>1. ASSUME NEW m \in D PROVE Unclean(c2, li2, m)
      <4>1. CASE m = n
        BY <1>3, <1>5, <1>8, <4>1 DEF Unclean
      <4>2. CASE m # n
        <5>1. m \in Node /\ c2[m] = cell[m] /\ Unclean(cell, list, m)
          BY <1>1, <1>3, <4>2 DEF StrayOK
        <5> QED
          BY <1>1, <1>5, <5>1 DEF Unclean, NodesOK
      <4> QED
        BY <4>1, <4>2
    <3> QED
      BY <3>1
  <2>2. \A m \in D, k \in List : Clean(li2[k]) =>
           \A i \in 1 .. Len(li2[k].free) : li2[k].free[i] # m
    <3>1. ASSUME NEW m \in D, NEW k \in List, Clean(li2[k]), NEW i \in 1 .. Len(li2[k].free)
          PROVE  li2[k].free[i] # m
      <4>1. i \in 1 .. Len(list[k].free) /\ li2[k].free[i] = list[k].free[i]
        BY <1>4, <1>5
      <4> QED
        BY <1>1, <1>5, <3>1, <4>1 DEF StrayOK
    <3> QED
      BY <3>1
  <2>3. \A m \in Node : c2[m].use = "in" /\ li2[c2[m].of].taint => m \in D
    BY <1>1, <1>3, <1>5 DEF StrayOK, NodesOK
  <2>4. \A k \in List : li2[k].taint =>
           /\ list[k].taint /\ li2[k].head = list[k].head
           /\ \A i \in 1 .. Len(li2[k].free) : Unclean(c2, li2, li2[k].free[i])
    <3>1. ASSUME NEW k \in List, li2[k].taint, NEW i \in 1 .. Len(li2[k].free)
          PROVE  Unclean(c2, li2, li2[k].free[i])
      <4>1. i \in 1 .. Len(list[k].free) /\ li2[k].free[i] = list[k].free[i]
        BY <1>4, <1>5
      <4>2. list[k].free[i] \in Node /\ Unclean(cell, list, list[k].free[i])
        BY <1>1, <1>5, <3>1, <4>1 DEF StrayOK, ListType
      <4>3. CASE list[k].free[i] # n
        BY <1>1, <1>3, <1>5, <4>1, <4>2, <4>3 DEF Unclean, NodesOK
      <4>4. CASE list[k].free[i] = n
        <5>1. ~Clean(list[l])
          <6>1. k = l => list[l].taint
            BY <1>5, <3>1
          <6> QED
            BY <1>8, <4>1, <4>4, <6>1 DEF Clean
        <5> QED
          BY <1>3, <1>5, <4>1, <4>4, <5>1 DEF Unclean
      <4> QED
        BY <4>3, <4>4
    <3> QED
      BY <1>5, <3>1
  <2>5. /\ Thins(cell, c2, D, D)
        /\ \A m \in Node : c2[m].use = "in" => Alive(c2, m)
    <3>1. \A m \in D : Alive(cell, m) /\ m \in Node
      BY <1>1 DEF StrayOK
    <3> QED
      BY <1>3, <1>7, <3>1 DEF NodesOK, Alive, Thins
  <2>6. Unreferred(cell, list, c2, D)
    <3>1. ASSUME NEW p \in Node, ~Alive(cell, p), Alive(c2, p) PROVE p = n /\ Fresh(n)
      BY <1>3, <3>1 DEF Alive, Comes, Live
    <3>2. \A m \in D : m \in Node /\ Live(m)
      BY <1>1 DEF StrayOK, Alive, Live
    <3> QED
      BY <3>1, <3>2 DEF Fresh, Unreferred
  <2>7. Typed(cell, list) /\ Typed(c2, li2) /\ StrayOK(cell, list, D) /\ D \in SUBSET Node
    BY <1>1, <1>6
  <2> QED
    BY ONLY <2>1, <2>2, <2>3, <2>4, <2>5, <2>6, <2>7, StrayStays
<1> QED
  BY <1>1, <1>6, <1>7, <1>9, <1>10, <1>11, <1>12 DEF AllOK

(* What ina_list_node_new does is that a node comes.                       *)
LEMMA GrantedIs ==
    ASSUME cell \in [Node -> CellType], list \in [List -> ListType],
           NEW l \in List, NEW n \in Node, NEW d \in Data,
           Grants(l, n), GrantFault(l) = "none"
    PROVE  \E h : /\ Comes(list, FreeAfterGrant(l), l, n, d, h)
                  /\ [Granted(l, n, d) EXCEPT ![n].use = "idle", ![n].of = l] = Given(l, n, d, h)
                  /\ Granted(l, n, d) = [cell EXCEPT ![n].home = h, ![n].data = d]
<1>1. CASE list[l].free # << >>
  <2>1. n = Last(list[l].free) /\ Live(n)
    BY <1>1 DEF Grants, GrantFault, Deref
  <2>2. Comes(list, FreeAfterGrant(l), l, n, d, cell[n].home)
    BY <1>1, <2>1 DEF Comes, FreeAfterGrant
  <2>3. Granted(l, n, d) = [cell EXCEPT ![n].home = cell[n].home, ![n].data = d]
    BY <1>1 DEF Granted
  <2>4. [Granted(l, n, d) EXCEPT ![n].use = "idle", ![n].of = l] = Given(l, n, d, cell[n].home)
    BY <2>3 DEF Given
  <2> QED
    BY <2>2, <2>3, <2>4
<1>2. CASE list[l].free = << >>
  <2>1. Comes(list, FreeAfterGrant(l), l, n, d, l)
    BY <1>2, NilAssumption DEF Comes, FreeAfterGrant, Grants
  <2>2. Granted(l, n, d) = [cell EXCEPT ![n].home = l, ![n].data = d]
    BY <1>2 DEF Granted
  <2>3. [Granted(l, n, d) EXCEPT ![n].use = "idle", ![n].of = l] = Given(l, n, d, l)
    BY <2>2 DEF Given
  <2> QED
    BY <2>1, <2>2, <2>3
<1> QED
  BY <1>1, <1>2

LEMMA NodeNewKeeps ==
    ASSUME NEW S, NEW D, AllOK(cell, list, S, D), NEW l \in List, NodeNew(l)
    PROVE  /\ AllOK(cell', list', S, D)
           /\ Spared(cell, list, cell', {}) /\ list'[l].taint = list[l].taint
           /\ list'[l].open = list[l].open /\ Spared(cell, list, cell', {l}) /\ \A k \in List \ {l} : list'[k] = list[k]
<1>1. list \in [List -> ListType] /\ cell \in [Node -> CellType]
  BY DEF AllOK, Typed
<1>2. PICK n \in Node, d \in Data :
         /\ Grants(l, n)
         /\ cell' = [Granted(l, n, d) EXCEPT ![n].use = "idle", ![n].of = l]
  BY DEF NodeNew
<1>3. list[l].open /\ GrantFault(l) = "none"
  BY DEF NodeNew, On
<1>4. PICK h : /\ Comes(list, FreeAfterGrant(l), l, n, d, h)
               /\ cell' = Given(l, n, d, h)
  <2>1. \E h : /\ Comes(list, FreeAfterGrant(l), l, n, d, h)
               /\ [Granted(l, n, d) EXCEPT ![n].use = "idle", ![n].of = l] = Given(l, n, d, h)
               /\ Granted(l, n, d) = [cell EXCEPT ![n].home = h, ![n].data = d]
    BY <1>1, <1>2, <1>3, GrantedIs
  <2> QED
    BY <1>2, <2>1
<1>5. /\ list' = WithFree(list, l, FreeAfterGrant(l))
      /\ \A k \in List \ {l} : list'[k] = list[k]
  BY <1>1 DEF NodeNew, WithFree
<1>6. AllOK(cell', list', S, D) /\ Spared(cell, list, cell', {})
  BY <1>3, <1>4, <1>5, ComingKeeps
<1>7. list'[l].taint = list[l].taint /\ list'[l].open = list[l].open
  <2>1. list[l].free \in Seq(Node)
    BY <1>1 DEF ListType
  <2>2. list[l].free # << >> => Front(list[l].free) \in Seq(Node)
    BY <2>1 DEF Front
  <2>3. FreeAfterGrant(l) \in Seq(Node)
    BY <2>2 DEF FreeAfterGrant
  <2> QED
    BY <1>1, <1>5, <2>3, WithFreeAt
<1> QED
  BY <1>5, <1>6, <1>7 DEF Spared

LEMMA BringKeeps ==
    ASSUME NEW S, NEW D, AllOK(cell, list, S, D), NEW l \in List, Bring(l)
    PROVE  AllOK(cell', list', S, D) /\ Spared(cell, list, cell', {})
<1>1. list \in [List -> ListType] /\ cell \in [Node -> CellType]
  BY DEF AllOK, Typed
<1>2. PICK n \in Own, d \in Data :
         /\ Fresh(n)
         /\ cell' = [cell EXCEPT ![n].home = CLIENT, ![n].data = d,
                                 ![n].use = "idle", ![n].of = l]
  BY DEF Bring
<1>3. list[l].open /\ n \in Node
  BY ListAssumption DEF Bring, On
<1>4. cell' = Given(l, n, d, CLIENT) /\ Comes(list, list[l].free, l, n, d, CLIENT)
  BY <1>2, NilAssumption DEF Given, Comes
<1>5. list' = WithFree(list, l, list[l].free)
  <2>1. list[l] = [list[l] EXCEPT !.free = list[l].free]
    BY <1>1 DEF ListType
  <2> QED
    BY <1>1, <2>1 DEF Bring, WithFree
<1> QED
  BY <1>3, <1>4, <1>5, ComingKeeps

(* A node taken from the client, which is recycled, lost or freed.         *)
Leaves(li, n, l, c2, li2) ==
    /\ \A k \in List \ {l} : li2[k] = li[k]
    /\ li2[l].open = li[l].open /\ li2[l].head = li[l].head
    /\ li2[l].count = li[l].count /\ li2[l].taint = li[l].taint
    /\ \/ li2[l].free = li[l].free
       \/ li2[l].free = Append(li[l].free, n) /\ Alive(c2, n)
    /\ c2[n].use = "none" /\ c2[n].of = NIL

LEMMA LeavingKeeps ==
    ASSUME NEW c, NEW li, NEW S, NEW D, AllOK(c, li, S, D), NEW l \in List,
           NEW n \in Node, c[n].use = "idle", c[n].of = l,
           NEW c2, NEW li2, Typed(c2, li2), Leaves(li, n, l, c2, li2),
           \A m \in Node \ {n} : c2[m] = c[m],
           Alive(c2, n) => /\ c2[n].data = c[n].data
                           /\ c2[n].next = c[n].next /\ c2[n].prev = c[n].prev
    PROVE  AllOK(c2, li2, S, {m \in D : Alive(c2, m)}) /\ Spared(c, li, c2, {})
<1> DEFINE D2 == {m \in D : Alive(c2, m)}
<1>1. /\ Typed(c, li) /\ NodesOK(c, li) /\ FreeOK(c, li)
      /\ S \in [List -> Seq(Node)] /\ ListsOK(c, li, S)
      /\ D \in SUBSET Node /\ StrayOK(c, li, D)
      /\ li \in [List -> ListType]
  BY DEF AllOK, Typed
<1>2. /\ \A k \in List : li2[k].open = li[k].open /\ li2[k].head = li[k].head
            /\ li2[k].count = li[k].count /\ li2[k].taint = li[k].taint
      /\ \A k \in List : Clean(li2[k]) <=> Clean(li[k])
      /\ \A k \in List \ {l} : li2[k] = li[k]
      /\ c2[n].use = "none" /\ c2[n].of = NIL
  BY DEF Leaves, Clean
<1>3. NodesOK(c2, li2)
  <2>1. ASSUME NEW m \in Node, m # n
        PROVE  /\ Alive(c2, m) => c2[m].data \in Data
               /\ c2[m].use # "none" => Alive(c2, m) /\ c2[m].of \in List /\ li2[c2[m].of].open
               /\ c2[m].use = "none" => c2[m].of = NIL
    BY <1>1, <1>2, <2>1 DEF NodesOK, Alive
  <2>2. Alive(c2, n) => c2[n].data \in Data
    BY <1>1 DEF NodesOK
  <2> QED
    BY <1>2, <2>1, <2>2 DEF NodesOK
<1>4. /\ \A k \in List : Clean(li[l]) \/ Clean(li[k]) =>
            \A i \in 1 .. Len(li[k].free) : li[k].free[i] # n
      /\ Clean(li[l]) => n \notin D
  <2>1. ASSUME NEW k \in List, Clean(li[l]) \/ Clean(li[k]), NEW i \in 1 .. Len(li[k].free),
               li[k].free[i] = n
        PROVE  FALSE
    <3>1. ~Clean(li[k])
      BY <1>1, <2>1 DEF FreeOK
    <3>2. li[k].open
      BY <1>1, <2>1 DEF Typed
    <3>3. Unclean(c, li, n)
      BY <1>1, <2>1, <3>1, <3>2 DEF StrayOK, Clean
    <3> QED
      BY <2>1, <3>1, <3>3 DEF Unclean
  <2>2. Clean(li[l]) => n \notin D
    BY <1>1 DEF StrayOK, Unclean
  <2> QED
    BY <2>1, <2>2
<1>11. ASSUME NEW k \in List, NEW i \in 1 .. Len(li2[k].free)
       PROVE  \/ i \in 1 .. Len(li[k].free) /\ li2[k].free[i] = li[k].free[i]
              \/ k = l /\ li2[k].free[i] = n
  <2>1. li[k].free \in Seq(Node)
    BY <1>1 DEF ListType
  <2>2. CASE li2[k].free = li[k].free
    BY <2>2
  <2>3. CASE k = l /\ li2[l].free = Append(li[l].free, n)
    BY <2>1, <2>3, AppendedAt
  <2>4. k # l => li2[k] = li[k]
    BY <1>2
  <2>5. li2[l].free \in {li[l].free, Append(li[l].free, n)}
    BY DEF Leaves
  <2> QED
    BY <2>2, <2>3, <2>4, <2>5
<1>5. FreeUnused(c2, li2)
  <2>1. ASSUME NEW k \in List, Clean(li2[k]), NEW i \in 1 .. Len(li2[k].free)
        PROVE  c2[li2[k].free[i]].use = "none"
    <3>1. li[k].free \in Seq(Node)
      BY <1>1 DEF ListType
    <3>2. \/ i \in 1 .. Len(li[k].free) /\ li2[k].free[i] = li[k].free[i]
          \/ li2[k].free[i] = n
      BY <1>11, <3>1
    <3>3. \A j \in 1 .. Len(li[k].free) :
             li[k].free[j] \in Node \ {n} /\ c[li[k].free[j]].use = "none"
      BY <1>1, <1>2, <1>4, <2>1, <3>1 DEF FreeOK
    <3> QED
      BY <1>2, <3>2, <3>3
  <2> QED
    BY <2>1 DEF FreeUnused
<1>6. FreeOK(c2, li2)
  <2>1. CASE li2[l].free = li[l].free
    <3>1. FreeWithin(li, li2)
      <4>1. \A k \in List : li2[k].free = li[k].free
        BY <1>2, <2>1
      <4> QED
        BY <1>2, <4>1 DEF FreeWithin
    <3> QED
      BY <1>1, <1>5, <3>1, FreeStays
  <2>2. CASE li2[l].free = Append(li[l].free, n)
    <3>1. \A k \in List \ {l} : li2[k].free = li[k].free /\ (Clean(li2[k]) => Clean(li[k]))
      BY <1>2
    <3>2. \A k \in List : Clean(li2[l]) \/ Clean(li2[k]) =>
             \A i \in 1 .. Len(li[k].free) : li[k].free[i] # n
      BY <1>2, <1>4
    <3> QED
      BY <1>1, <1>2, <1>5, <2>2, <3>1, <3>2, FreeGrows
  <2> QED
    BY <2>1, <2>2 DEF Leaves
<1>7. Spared(c, li, c2, {})
  BY DEF Spared
<1>8. ListsOK(c2, li2, S)
  <2>1. ASSUME NEW k \in List, Clean(li2[k]) PROVE ListOK(c2, li2[k], k, S[k])
    <3>1. ListOK(c, li[k], k, S[k]) /\ S[k] \in Seq(Node)
      BY <1>1, <1>2, <2>1 DEF ListsOK
    <3>2. \A m \in Node : c[m].use = "in" /\ c[m].of = k => c2[m] = c[m]
      OBVIOUS
    <3>3. \A m \in Node : c2[m].use = "in" /\ c2[m].of = k => c[m].use = "in" /\ c[m].of = k
      BY <1>2
    <3> QED
      BY <1>2, <3>1, <3>2, <3>3, ListKept
  <2> QED
    BY <2>1 DEF ListsOK
<1>9. \A m \in Node : Unclean(c, li, m) => Unclean(c2, li2, m)
  <2>1. ASSUME NEW m \in Node, Unclean(c, li, m), c2[m].use # "none"
        PROVE  ~Clean(li2[c2[m].of])
    <3>1. m # n /\ c2[m] = c[m]
      BY <1>2, <2>1
    <3>2. c[m].of \in List /\ ~Clean(li[c[m].of])
      BY <1>1, <2>1, <3>1 DEF NodesOK, Unclean
    <3> QED
      BY <1>2, <3>1, <3>2
  <2> QED
    BY <2>1 DEF Unclean
<1>10. StrayOK(c2, li2, D2)
  <2>1. \A m \in D2 : Unclean(c2, li2, m)
    BY <1>1, <1>9 DEF StrayOK
  <2>2. \A m \in D2, k \in List : Clean(li2[k]) =>
           \A i \in 1 .. Len(li2[k].free) : li2[k].free[i] # m
    <3>1. ASSUME NEW m \in D2, NEW k \in List, Clean(li2[k]), NEW i \in 1 .. Len(li2[k].free)
          PROVE  li2[k].free[i] # m
      <4>1. li[k].free \in Seq(Node)
        BY <1>1 DEF ListType
      <4>2. \/ i \in 1 .. Len(li[k].free) /\ li2[k].free[i] = li[k].free[i]
            \/ k = l /\ li2[k].free[i] = n
        BY <1>11
      <4>3. Clean(li[k])
        BY <1>2, <3>1
      <4> QED
        BY <1>1, <1>4, <4>2, <4>3 DEF StrayOK
    <3> QED
      BY <3>1
  <2>3. \A m \in Node : c2[m].use = "in" /\ li2[c2[m].of].taint => m \in D
    BY <1>1, <1>2 DEF StrayOK, NodesOK
  <2>4. \A k \in List : li2[k].taint =>
           /\ li[k].taint /\ li2[k].head = li[k].head
           /\ \A i \in 1 .. Len(li2[k].free) : Unclean(c2, li2, li2[k].free[i])
    <3>1. ASSUME NEW k \in List, li2[k].taint, NEW i \in 1 .. Len(li2[k].free)
          PROVE  Unclean(c2, li2, li2[k].free[i])
      <4>1. li[k].free \in Seq(Node)
        BY <1>1 DEF ListType
      <4>2. \/ i \in 1 .. Len(li[k].free) /\ li2[k].free[i] = li[k].free[i]
            \/ li2[k].free[i] = n
        BY <1>11
      <4>3. \A j \in 1 .. Len(li[k].free) :
               li[k].free[j] \in Node /\ Unclean(c, li, li[k].free[j])
        BY <1>1, <1>2, <3>1, <4>1 DEF StrayOK
      <4>4. Unclean(c2, li2, n)
        BY <1>2 DEF Unclean
      <4> QED
        BY <1>9, <4>2, <4>3, <4>4
    <3> QED
      BY <1>2, <3>1
  <2>5. Thins(c, c2, D, D2)
    <3>1. \A m \in D2 : m \in Node /\ c2[m].next = c[m].next /\ c2[m].prev = c[m].prev
      BY <1>1
    <3> QED
      BY <3>1 DEF Thins
  <2>6. Unreferred(c, li, c2, D)
    <3>1. \A p \in Node : ~(~Alive(c, p) /\ Alive(c2, p))
      BY <1>1 DEF NodesOK, Alive
    <3> QED
      BY <3>1 DEF Unreferred
  <2>7. \A m \in Node : c2[m].use = "in" => Alive(c2, m)
    BY <1>3 DEF NodesOK
  <2> QED
    BY <1>1, <2>1, <2>2, <2>3, <2>4, <2>5, <2>6, <2>7, StrayStays
<1>12. D2 \in SUBSET Node
  BY <1>1
<1> QED
  BY <1>1, <1>3, <1>6, <1>7, <1>8, <1>10, <1>12 DEF AllOK

LEMMA DropKeeps ==
    ASSUME NEW S, NEW D, AllOK(cell, list, S, D), NEW l \in List, Drop(l)
    PROVE  (\E D2 : AllOK(cell', list', S, D2)) /\ Spared(cell, list, cell', {})
<1>1. Typed(cell, list) /\ cell \in [Node -> CellType]
  BY DEF AllOK, Typed
<1>2. PICK n \in Own : /\ cell[n].use = "idle" /\ cell[n].of = l
                       /\ cell' = [cell EXCEPT ![n] = BlankCell]
  BY DEF Drop
<1>3. n \in Node /\ list' = list
  BY ListAssumption DEF Drop
<1>4. /\ cell'[n] = BlankCell /\ \A m \in Node \ {n} : cell'[m] = cell[m]
      /\ BlankCell \in CellType /\ cell' \in [Node -> CellType]
  <2>1. BlankCell \in CellType
    BY DEF BlankCell, CellType
  <2> QED
    BY <1>1, <1>2, <1>3, <2>1
<1>5. ~Alive(cell', n) /\ cell'[n].use = "none" /\ cell'[n].of = NIL
  BY <1>4 DEF BlankCell, Alive
<1>6. Typed(cell', list') /\ Leaves(list, n, l, cell', list')
  BY <1>1, <1>3, <1>4, <1>5 DEF Typed, Leaves
<1>8. /\ n \in Node /\ cell[n].use = "idle" /\ cell[n].of = l
      /\ \A m \in Node \ {n} : cell'[m] = cell[m]
  BY <1>2, <1>3, <1>4
<1>7. AllOK(cell', list', S, {m \in D : Alive(cell', m)}) /\ Spared(cell, list, cell', {})
  BY ONLY AllOK(cell, list, S, D), l \in List, <1>5, <1>6, <1>8, LeavingKeeps
<1> QED
  BY <1>7

(* The recycling array after ina_list_node_free.                           *)
LEMMA RecycledAt ==
    ASSUME Typed(cell, list), NEW l \in List, NEW n \in Node
    PROVE  LET f == FreeAfterRecycle(l, n)
           IN  /\ f \in Seq(Node) /\ Len(f) <= list[l].max
               /\ f = list[l].free \/ f = Append(list[l].free, n)
<1>1. list[l].free \in Seq(Node) /\ list[l].max \in Nat /\ Len(list[l].free) <= list[l].max
  BY DEF Typed, ListType
<1>2. CASE Len(list[l].free) < list[l].max
  <2>1. FreeAfterRecycle(l, n) = Append(list[l].free, n)
    BY <1>2 DEF FreeAfterRecycle, Recycled
  <2> QED
    BY <1>1, <1>2, <2>1
<1>3. CASE ~(Len(list[l].free) < list[l].max)
  <2>1. FreeAfterRecycle(l, n) = list[l].free
    BY <1>3 DEF FreeAfterRecycle
  <2> QED
    BY <1>1, <2>1
<1> QED
  BY <1>2, <1>3

LEMMA NodeFreeKeeps ==
    ASSUME NEW S, NEW D, AllOK(cell, list, S, D), NEW l \in List, NodeFree(l),
           fault' = "none"
    PROVE  /\ \E D2 : AllOK(cell', list', S, D2)
           /\ Spared(cell, list, cell', {}) /\ list'[l].taint = list[l].taint
           /\ list'[l].open = list[l].open /\ Spared(cell, list, cell', {l}) /\ \A k \in List \ {l} : list'[k] = list[k]
<1>1. /\ Typed(cell, list) /\ NodesOK(cell, list)
      /\ cell \in [Node -> CellType] /\ list \in [List -> ListType]
  BY DEF AllOK, Typed
<1>2. PICK n \in Node :
         /\ cell[n].use = "idle" /\ cell[n].of = l
         /\ list' = [list EXCEPT ![l].free = FreeAfterRecycle(l, n)]
         /\ cell' = [cell EXCEPT ![n].use = "none", ![n].of = NIL]
  BY DEF NodeFree, Crashes
<1> DEFINE f == FreeAfterRecycle(l, n)
<1>3. f \in Seq(Node) /\ Len(f) <= list[l].max
      /\ (f = list[l].free \/ f = Append(list[l].free, n))
  BY <1>1, RecycledAt
<1>4. /\ cell' \in [Node -> CellType] /\ \A m \in Node \ {n} : cell'[m] = cell[m]
      /\ cell'[n].use = "none" /\ cell'[n].of = NIL /\ cell'[n].home = cell[n].home
      /\ cell'[n].data = cell[n].data
      /\ cell'[n].next = cell[n].next /\ cell'[n].prev = cell[n].prev
  <2>1. /\ cell'[n] = [cell[n] EXCEPT !.use = "none", !.of = NIL]
        /\ \A m \in Node \ {n} : cell'[m] = cell[m]
        /\ cell' = [m \in Node |-> cell'[m]]
    BY <1>1, <1>2
  <2>2. cell[n] \in CellType
    BY <1>1
  <2>3. /\ cell'[n].use = "none" /\ cell'[n].of = NIL /\ cell'[n].home = cell[n].home
        /\ cell'[n].data = cell[n].data
        /\ cell'[n].next = cell[n].next /\ cell'[n].prev = cell[n].prev
    BY <2>1, <2>2 DEF CellType
  <2>4. cell'[n] \in CellType
    BY <2>1, <2>2 DEF CellType
  <2> QED
    BY <1>1, <2>1, <2>3, <2>4
<1> HIDE DEF f
<1>5. list' = WithFree(list, l, f)
  BY <1>2 DEF WithFree, f
<1>6. /\ list' \in [List -> ListType] /\ list'[l].free = f
      /\ list'[l].open = list[l].open /\ list'[l].head = list[l].head
      /\ list'[l].count = list[l].count /\ list'[l].taint = list[l].taint
      /\ list'[l].max = list[l].max
      /\ \A k \in List \ {l} : list'[k] = list[k]
  BY <1>1, <1>3, <1>5, WithFreeAt
<1>7. Typed(cell', list')
  <2>1. list[l].open
    BY DEF NodeFree, On
  <2>2. ASSUME NEW k \in List
        PROVE  /\ Len(list'[k].free) <= list'[k].max /\ (list'[k].taint => list'[k].open)
               /\ list'[k].open \/ list'[k].free = << >>
    BY <1>1, <1>3, <1>6, <2>1 DEF Typed
  <2> QED
    BY <1>4, <1>6, <2>2 DEF Typed
<1>8. Leaves(list, n, l, cell', list')
  <2>1. Alive(cell', n)
    BY <1>1, <1>2, <1>4 DEF NodesOK, Alive
  <2> QED
    BY <1>3, <1>4, <1>6, <2>1 DEF Leaves
<1>9. AllOK(cell', list', S, {m \in D : Alive(cell', m)}) /\ Spared(cell, list, cell', {})
  <2>1. cell[n].use = "idle" /\ cell[n].of = l
    BY <1>2
  <2>2. /\ \A m \in Node \ {n} : cell'[m] = cell[m]
        /\ Alive(cell', n) => /\ cell'[n].data = cell[n].data
                              /\ cell'[n].next = cell[n].next /\ cell'[n].prev = cell[n].prev
    BY <1>4
  <2> QED
    BY <1>7, <1>8, <2>1, <2>2, LeavingKeeps
<1> QED
  BY <1>6, <1>9 DEF Spared

-----------------------------------------------------------------------------
(* Calls that break a list, or are made on a broken one.                   *)

(* W are the nodes that l and the broken lists may lead to.                *)
Frays(c, D, l, W) ==
    /\ W \in SUBSET Node /\ D \subseteq W
    /\ \A w \in W : Alive(c, w) /\ (w \in D \/ (c[w].use # "none" /\ c[w].of = l))
    /\ \A n \in Node : c[n].use = "in" /\ c[n].of = l => n \in W

(* Only these nodes change, and they lead to no other ones.                *)
Within(c, c2, li2, W) ==
    /\ \A n \in Node \ W : c2[n] = c[n]
    /\ \A w \in W :
          /\ c2[w].home = c[w].home /\ c2[w].data = c[w].data
          /\ Leads(c2, W, c2[w].next) /\ Leads(c2, W, c2[w].prev)
          /\ c2[w].use = "none" => c2[w].of = NIL
          /\ c2[w].use # "none" => c2[w].of \in List /\ li2[c2[w].of].open /\ ~Clean(li2[c2[w].of])

Breaks(li, c2, li2, l, D, W) ==
    /\ \A k \in List \ {l} : li2[k] = li[k]
    /\ li[l].open /\ li2[l].taint
    /\ Leads(c2, W, li2[l].head)
    /\ \/ li2[l].free = li[l].free
       \/ \E n \in D : li2[l].free = Append(li[l].free, n) /\ c2[n].use = "none"

LEMMA BreakingKeeps ==
    ASSUME NEW c, NEW li, NEW S, NEW D, AllOK(c, li, S, D), NEW l \in List,
           NEW c2, NEW li2, NEW W, Typed(c2, li2), Frays(c, D, l, W),
           Within(c, c2, li2, W), Breaks(li, c2, li2, l, D, W)
    PROVE  AllOK(c2, li2, S, W) /\ Spared(c, li, c2, {l})
<1>1. /\ Typed(c, li) /\ NodesOK(c, li) /\ FreeOK(c, li)
      /\ S \in [List -> Seq(Node)] /\ ListsOK(c, li, S)
      /\ D \in SUBSET Node /\ StrayOK(c, li, D)
      /\ li \in [List -> ListType] /\ li2 \in [List -> ListType]
  BY DEF AllOK, Typed
<1>2. W \in SUBSET Node /\ D \in SUBSET W
  BY DEF Frays
<1>3. /\ li2[l].open /\ ~Clean(li2[l])
      /\ \A k \in List : li2[k].open = li[k].open
      /\ \A k \in List : Clean(li2[k]) => k # l /\ Clean(li[k])
      /\ \A k \in List : ~Clean(li[k]) => ~Clean(li2[k])
      /\ \A k \in List \ {l} : li2[k] = li[k]
  <2>1. li2[l].open /\ ~Clean(li2[l])
    BY DEF Typed, Breaks, Clean
  <2>2. \A k \in List \ {l} : li2[k] = li[k]
    BY DEF Breaks
  <2>3. li[l].open = li2[l].open
    BY <2>1 DEF Breaks
  <2> QED
    BY <2>1, <2>2, <2>3 DEF Clean
<1>4. NodesOK(c2, li2)
  <2>1. ASSUME NEW n \in Node
        PROVE  /\ Alive(c2, n) => c2[n].data \in Data
               /\ c2[n].use # "none" => Alive(c2, n) /\ c2[n].of \in List /\ li2[c2[n].of].open
               /\ c2[n].use = "none" => c2[n].of = NIL
    <3>1. CASE n \in W
      <4>1. Alive(c, n) /\ c2[n].home = c[n].home /\ c2[n].data = c[n].data
        BY <3>1 DEF Frays, Within
      <4>2. /\ c2[n].use = "none" => c2[n].of = NIL
            /\ c2[n].use # "none" => c2[n].of \in List /\ li2[c2[n].of].open
        BY <3>1 DEF Within
      <4> QED
        BY <1>1, <4>1, <4>2 DEF NodesOK, Alive
    <3>2. CASE n \notin W
      <4>1. c2[n] = c[n]
        BY <3>2 DEF Within
      <4> QED
        BY <1>1, <1>3, <4>1 DEF NodesOK, Alive
    <3> QED
      BY <3>1, <3>2
  <2> QED
    BY <2>1 DEF NodesOK
(* A node recycled by a clean list is not among the nodes W.               *)
<1>5. ASSUME NEW k \in List, Clean(li[k]), NEW i \in 1 .. Len(li[k].free)
      PROVE  li[k].free[i] \in Node \ W
  <2>1. li[k].free[i] \in Node /\ li[k].free[i] \notin D /\ c[li[k].free[i]].use = "none"
    <3>1. li[k].free \in Seq(Node)
      BY <1>1 DEF ListType
    <3>2. li[k].free[i] \in Node
      BY <3>1
    <3>3. c[li[k].free[i]].use = "none"
      BY <1>1, <1>5 DEF FreeOK
    <3>4. \A n \in D : li[k].free[i] # n
      BY <1>1, <1>5 DEF StrayOK
    <3> QED
      BY <3>2, <3>3, <3>4
  <2> QED
    BY <2>1 DEF Frays
<1>6. FreeUnused(c2, li2)
  <2>1. ASSUME NEW k \in List, Clean(li2[k]), NEW i \in 1 .. Len(li2[k].free)
        PROVE  c2[li2[k].free[i]].use = "none"
    <3>1. Clean(li[k]) /\ li2[k] = li[k]
      BY <1>3, <2>1
    <3>2. c2[li[k].free[i]] = c[li[k].free[i]] /\ c[li[k].free[i]].use = "none"
      BY <1>1, <1>5, <2>1, <3>1 DEF FreeOK, Within
    <3> QED
      BY <3>1, <3>2
  <2> QED
    BY <2>1 DEF FreeUnused
<1>7. FreeOK(c2, li2)
  <2>1. CASE li2[l].free = li[l].free
    <3>1. FreeWithin(li, li2)
      <4>1. \A k \in List : li2[k].free = li[k].free
        BY <1>3, <2>1
      <4> QED
        BY <1>3, <4>1 DEF FreeWithin
    <3> QED
      BY <1>1, <1>6, <3>1, FreeStays
  <2>2. CASE \E n \in D : li2[l].free = Append(li[l].free, n)
    <3>1. PICK n \in D : li2[l].free = Append(li[l].free, n)
      BY <2>2
    <3>2. \A k \in List \ {l} : li2[k].free = li[k].free /\ (Clean(li2[k]) => Clean(li[k]))
      BY <1>3
    <3>3. \A k \in List : Clean(li2[l]) \/ Clean(li2[k]) =>
             \A i \in 1 .. Len(li[k].free) : li[k].free[i] # n
      BY <1>2, <1>3, <1>5
    <3>4. n \in Node /\ (Clean(li2[l]) => Clean(li[l]))
      BY <1>2, <1>3
    <3> QED
      BY <1>1, <1>6, <3>1, <3>2, <3>3, <3>4, FreeGrows
  <2> QED
    BY <2>1, <2>2 DEF Breaks
<1>8. Spared(c, li, c2, {l})
  <2>1. ASSUME NEW k \in List \ {l}, Clean(li[k]), NEW n \in Node,
               c[n].use = "in", c[n].of = k
        PROVE  c2[n] = c[n]
    <3>1. n \notin D
      BY <1>1, <2>1 DEF StrayOK, Unclean
    <3>2. n \notin W
      BY <2>1, <3>1 DEF Frays
    <3> QED
      BY <3>2 DEF Within
  <2> QED
    BY <2>1 DEF Spared
<1>9. ListsOK(c2, li2, S)
  <2>1. \A k \in List \ {l}, n \in Node : Clean(li2[k]) /\ c2[n].use = "in" /\ c2[n].of = k
           => c[n].use = "in" /\ c[n].of = k
    <3>1. ASSUME NEW k \in List \ {l}, NEW n \in Node, Clean(li2[k]), c2[n].use = "in",
                 c2[n].of = k
          PROVE  c2[n] = c[n]
      BY <3>1 DEF Within
    <3> QED
      BY <3>1
  <2>2. \A k \in List \ {l} : Clean(li2[k]) => ListOK(c2, li2[k], k, S[k])
    BY <1>1, <1>3, <1>8, <2>1, OthersKept
  <2> QED
    BY <1>3, <2>2 DEF ListsOK
<1>10. \A n \in Node : n \in W \/ Unclean(c, li, n) => Unclean(c2, li2, n)
  <2>1. ASSUME NEW n \in Node, n \in W PROVE Unclean(c2, li2, n)
    BY <2>1 DEF Unclean, Within
  <2>2. ASSUME NEW n \in Node, n \notin W, Unclean(c, li, n) PROVE Unclean(c2, li2, n)
    <3>1. c2[n] = c[n]
      BY <2>2 DEF Within
    <3> QED
      BY <1>1, <1>3, <2>2, <3>1 DEF Unclean, NodesOK
  <2> QED
    BY <2>1, <2>2
<1>11. \A p \in Node \cup {NIL} : Leads(c, D, p) => Leads(c2, W, p)
  <2>1. ASSUME NEW p \in Node, ~Alive(c, p) PROVE ~Alive(c2, p)
    <3>1. p \notin W
      BY <2>1 DEF Frays
    <3> QED
      BY <2>1, <3>1 DEF Within, Alive
  <2> QED
    BY <1>2, <2>1 DEF Leads
<1>12. StrayOK(c2, li2, W)
  <2>1. \A w \in W : /\ Alive(c2, w) /\ Leads(c2, W, c2[w].next) /\ Leads(c2, W, c2[w].prev)
                     /\ Unclean(c2, li2, w)
    <3>1. ASSUME NEW w \in W
          PROVE  /\ Alive(c2, w) /\ Leads(c2, W, c2[w].next) /\ Leads(c2, W, c2[w].prev)
      BY DEF Within, Frays, Alive
    <3> QED
      BY <1>2, <1>10, <3>1
  <2>2. \A w \in W, k \in List : Clean(li2[k]) =>
           \A i \in 1 .. Len(li2[k].free) : li2[k].free[i] # w
    BY <1>3, <1>5
  <2>3. \A n \in Node : c2[n].use = "in" /\ li2[c2[n].of].taint => n \in W
    <3>1. ASSUME NEW n \in Node, c2[n].use = "in", li2[c2[n].of].taint, n \notin W PROVE FALSE
      <4>1. c2[n] = c[n] /\ c[n].of \in List
        BY <1>1, <3>1 DEF Within, NodesOK
      <4>2. c[n].of # l
        BY <3>1, <4>1 DEF Frays
      <4> QED
        BY <1>1, <1>2, <1>3, <3>1, <4>1, <4>2 DEF StrayOK
    <3> QED
      BY <3>1
  <2>4. ASSUME NEW k \in List, li2[k].taint
        PROVE  /\ Leads(c2, W, li2[k].head)
               /\ \A i \in 1 .. Len(li2[k].free) : Unclean(c2, li2, li2[k].free[i])
    <3>1. CASE k # l
      <4>1. /\ li[k].taint /\ li2[k] = li[k] /\ li[k].head \in Node \cup {NIL}
            /\ li[k].free \in Seq(Node)
        BY <1>1, <1>3, <2>4, <3>1 DEF ListType
      <4>2. /\ Leads(c, D, li[k].head)
            /\ \A i \in 1 .. Len(li[k].free) : li[k].free[i] \in Node /\ Unclean(c, li, li[k].free[i])
        BY <1>1, <4>1 DEF StrayOK
      <4> QED
        BY <1>10, <1>11, <4>1, <4>2
    <3>2. CASE k = l
      <4>1. ASSUME NEW i \in 1 .. Len(li[l].free) PROVE Unclean(c2, li2, li[l].free[i])
        <5>1. li[l].free[i] \in Node
          <6>1. li[l].free \in Seq(Node)
            BY <1>1 DEF ListType
          <6> QED
            BY <6>1
        <5>2. CASE li[l].taint
          BY <1>1, <1>10, <5>1, <5>2 DEF StrayOK
        <5>3. CASE ~li[l].taint
          <6>1. Clean(li[l])
            BY <5>3 DEF Clean, Breaks
          <6>2. c[li[l].free[i]].use = "none"
            BY <1>1, <6>1 DEF FreeOK
          <6> QED
            BY <1>10, <5>1, <6>2 DEF Unclean
        <5> QED
          BY <5>2, <5>3
      <4>2. ASSUME NEW i \in 1 .. Len(li2[l].free) PROVE Unclean(c2, li2, li2[l].free[i])
        <5>1. li[l].free \in Seq(Node)
          BY <1>1 DEF ListType
        <5>2. \/ i \in 1 .. Len(li[l].free) /\ li2[l].free[i] = li[l].free[i]
              \/ c2[li2[l].free[i]].use = "none"
          <6>1. CASE li2[l].free = li[l].free
            BY <6>1
          <6>2. CASE \E n \in D : li2[l].free = Append(li[l].free, n) /\ c2[n].use = "none"
            <7>1. PICK n \in D : li2[l].free = Append(li[l].free, n) /\ c2[n].use = "none"
              BY <6>2
            <7> QED
              BY <5>1, <7>1
          <6> QED
            BY <6>1, <6>2 DEF Breaks
        <5> QED
          BY <4>1, <5>2 DEF Unclean
      <4>3. Leads(c2, W, li2[l].head)
        BY DEF Breaks
      <4> QED
        BY <3>2, <4>2, <4>3
    <3> QED
      BY <3>1, <3>2
  <2> QED
    BY <2>1, <2>2, <2>3, <2>4 DEF StrayOK
<1> QED
  BY <1>1, <1>2, <1>4, <1>7, <1>8, <1>9, <1>12 DEF AllOK

-----------------------------------------------------------------------------
(* Calls on a clean list, which change its nodes and those the client has  *)
(* got from it.                                                            *)
Rewires(c, c2, l) ==
    \A n \in Node :
        IF c[n].use = "none" \/ c[n].of # l THEN c2[n] = c[n]
        ELSE /\ c2[n].home = c[n].home /\ c2[n].data = c[n].data
             /\ c2[n].use # "none" /\ c2[n].of = l

StaysClean(li, li2, l) ==
    /\ \A k \in List \ {l} : li2[k] = li[k]
    /\ Clean(li[l]) /\ Clean(li2[l]) /\ li2[l].free = li[l].free

LEMMA CleanKeeps ==
    ASSUME NEW c, NEW li, NEW S, NEW D, AllOK(c, li, S, D), NEW l \in List,
           NEW c2, NEW li2, NEW s \in Seq(Node), Typed(c2, li2), Rewires(c, c2, l),
           StaysClean(li, li2, l), ListOK(c2, li2[l], l, s)
    PROVE  AllOK(c2, li2, [S EXCEPT ![l] = s], D) /\ Spared(c, li, c2, {l})
<1> DEFINE S2 == [S EXCEPT ![l] = s]
<1>1. /\ Typed(c, li) /\ NodesOK(c, li) /\ FreeOK(c, li)
      /\ S \in [List -> Seq(Node)] /\ ListsOK(c, li, S)
      /\ D \in SUBSET Node /\ StrayOK(c, li, D)
      /\ li \in [List -> ListType]
  BY DEF AllOK, Typed
<1>2. /\ \A k \in List : li2[k].open = li[k].open /\ li2[k].taint = li[k].taint
            /\ li2[k].free = li[k].free
      /\ \A k \in List \ {l} : li2[k] = li[k]
      /\ \A k \in List : Clean(li2[k]) <=> Clean(li[k])
  <2>1. /\ li2[l].open /\ li[l].open /\ ~li2[l].taint /\ ~li[l].taint
        /\ li2[l].free = li[l].free /\ \A k \in List \ {l} : li2[k] = li[k]
    BY DEF StaysClean, Clean
  <2>2. li \in [List -> ListType] /\ li2 \in [List -> ListType]
    BY DEF AllOK, Typed
  <2>3. li2[l].open = li[l].open /\ li2[l].taint = li[l].taint
    <3>1. {li2[l].open, li[l].open, li2[l].taint, li[l].taint} \subseteq BOOLEAN
      BY <2>2 DEF ListType
    <3> QED
      BY <2>1, <3>1
  <2> QED
    BY <2>1, <2>3 DEF Clean
<1>3. /\ \A n \in Node : c2[n].use = "none" <=> c[n].use = "none"
      /\ \A n \in Node : c2[n].home = c[n].home /\ c2[n].data = c[n].data /\ c2[n].of = c[n].of
      /\ \A n \in Node : c[n].use = "none" \/ c[n].of # l => c2[n] = c[n]
  <2>1. ASSUME NEW n \in Node, c[n].use = "none" \/ c[n].of # l PROVE c2[n] = c[n]
    BY <2>1 DEF Rewires
  <2>2. ASSUME NEW n \in Node, ~(c[n].use = "none" \/ c[n].of # l)
        PROVE  /\ c2[n].home = c[n].home /\ c2[n].data = c[n].data /\ c2[n].of = c[n].of
               /\ c2[n].use # "none"
    BY <2>2 DEF Rewires
  <2> QED
    BY <2>1, <2>2
<1>4. NodesOK(c2, li2)
  <2>1. ASSUME NEW n \in Node
        PROVE  /\ Alive(c2, n) => c2[n].data \in Data
               /\ c2[n].use # "none" => Alive(c2, n) /\ c2[n].of \in List /\ li2[c2[n].of].open
               /\ c2[n].use = "none" => c2[n].of = NIL
    <3>1. /\ Alive(c, n) => c[n].data \in Data
          /\ c[n].use # "none" => Alive(c, n) /\ c[n].of \in List /\ li[c[n].of].open
          /\ c[n].use = "none" => c[n].of = NIL
      BY <1>1 DEF NodesOK
    <3> QED
      BY <1>2, <1>3, <3>1 DEF Alive
  <2> QED
    BY <2>1 DEF NodesOK
<1>5. FreeOK(c2, li2)
  <2>1. FreeWithin(li, li2)
    BY <1>2 DEF FreeWithin
  <2>2. FreeUnused(c2, li2)
    <3>1. ASSUME NEW k \in List, Clean(li2[k]), NEW i \in 1 .. Len(li2[k].free)
          PROVE  c2[li2[k].free[i]].use = "none"
      <4>1. Clean(li[k]) /\ li2[k].free = li[k].free
        BY <1>2, <3>1
      <4>2. li[k].free[i] \in Node /\ c[li[k].free[i]].use = "none"
        BY <1>1, <3>1, <4>1 DEF FreeOK, ListType
      <4> QED
        BY <1>3, <4>1, <4>2
    <3> QED
      BY <3>1 DEF FreeUnused
  <2> QED
    BY <1>1, <2>1, <2>2, FreeStays
<1>6. Spared(c, li, c2, {l})
  BY <1>3 DEF Spared
<1>7. S2 \in [List -> Seq(Node)] /\ S2[l] = s /\ \A k \in List \ {l} : S2[k] = S[k]
  BY <1>1
<1>8. ListsOK(c2, li2, S2)
  <2>1. \A k \in List \ {l}, n \in Node : Clean(li2[k]) /\ c2[n].use = "in" /\ c2[n].of = k
           => c[n].use = "in" /\ c[n].of = k
    BY <1>3
  <2>2. \A k \in List \ {l} : Clean(li2[k]) => ListOK(c2, li2[k], k, S[k])
    BY <1>1, <1>2, <1>6, <2>1, OthersKept
  <2> QED
    BY <1>7, <2>2 DEF ListsOK
<1>9. \A n \in Node : Unclean(c, li, n) => Unclean(c2, li2, n)
  BY <1>1, <1>2, <1>3 DEF Unclean, NodesOK
<1>10. \A n \in D : n \in Node /\ c2[n] = c[n]
  <2>1. ASSUME NEW n \in D PROVE c[n].use = "none" \/ c[n].of # l
    BY <1>1 DEF StrayOK, Unclean, StaysClean
  <2> QED
    BY <1>1, <1>3, <2>1
<1>11. StrayOK(c2, li2, D)
  <2>1. \A n \in D : Unclean(c2, li2, n)
    BY <1>1, <1>9 DEF StrayOK
  <2>2. \A n \in D, k \in List : Clean(li2[k]) =>
           \A i \in 1 .. Len(li2[k].free) : li2[k].free[i] # n
    BY <1>1, <1>2 DEF StrayOK
  <2>3. \A n \in Node : c2[n].use = "in" /\ li2[c2[n].of].taint => n \in D
    <3>1. ASSUME NEW n \in Node, c2[n].use = "in", li2[c2[n].of].taint PROVE n \in D
      <4>1. c[n].of \in List /\ c2[n].of = c[n].of
        BY <1>1, <1>3, <3>1 DEF NodesOK
      <4>2. c[n].of # l
        BY <1>2, <3>1, <4>1 DEF StaysClean, Clean
      <4> QED
        BY <1>1, <1>2, <1>3, <3>1, <4>1, <4>2 DEF StrayOK
    <3> QED
      BY <3>1
  <2>4. \A k \in List : li2[k].taint =>
           /\ li[k].taint /\ li2[k].head = li[k].head
           /\ \A i \in 1 .. Len(li2[k].free) : Unclean(c2, li2, li2[k].free[i])
    <3>1. ASSUME NEW k \in List, li2[k].taint
          PROVE  /\ li[k].taint /\ li2[k].head = li[k].head
                 /\ \A i \in 1 .. Len(li2[k].free) : Unclean(c2, li2, li2[k].free[i])
      <4>1. k # l
        BY <3>1 DEF StaysClean, Clean
      <4>2. li2[k] = li[k] /\ li[k].taint /\ li[k].free \in Seq(Node)
        BY <1>1, <1>2, <3>1, <4>1 DEF ListType
      <4>3. \A i \in 1 .. Len(li[k].free) :
               li[k].free[i] \in Node /\ Unclean(c, li, li[k].free[i])
        BY <1>1, <4>2 DEF StrayOK
      <4> QED
        BY <1>9, <4>2, <4>3
    <3> QED
      BY <3>1
  <2>5. Thins(c, c2, D, D) /\ Unreferred(c, li, c2, D)
    <3>1. \A n \in D : Alive(c2, n) /\ c2[n].next = c[n].next /\ c2[n].prev = c[n].prev
      BY <1>1, <1>10 DEF StrayOK, Alive
    <3>2. \A p \in Node : ~(~Alive(c, p) /\ Alive(c2, p))
      BY <1>3 DEF Alive
    <3> QED
      BY <3>1, <3>2 DEF Thins, Unreferred
  <2>6. \A n \in Node : c2[n].use = "in" => Alive(c2, n)
    BY <1>4 DEF NodesOK
  <2> QED
    BY <1>1, <2>1, <2>2, <2>3, <2>4, <2>5, <2>6, StrayStays
<1> QED
  BY <1>1, <1>4, <1>5, <1>6, <1>7, <1>8, <1>11 DEF AllOK

(* What a list and the broken ones lead to.                                *)
Reach(c, D, l) == D \cup {n \in Node : c[n].use = "in" /\ c[n].of = l}

LEMMA ReachLeads ==
    ASSUME NEW c, NEW li, NEW S, NEW D, AllOK(c, li, S, D), NEW l \in List, li[l].open
    PROVE  /\ Frays(c, D, l, Reach(c, D, l))
           /\ \A w \in Reach(c, D, l) : /\ Leads(c, Reach(c, D, l), c[w].next)
                                        /\ Leads(c, Reach(c, D, l), c[w].prev)
           /\ Leads(c, Reach(c, D, l), li[l].head)
           /\ li[l].taint => Reach(c, D, l) = D
<1> DEFINE W == Reach(c, D, l)
<1>1. /\ Typed(c, li) /\ NodesOK(c, li) /\ S \in [List -> Seq(Node)] /\ ListsOK(c, li, S)
      /\ D \in SUBSET Node /\ StrayOK(c, li, D)
  BY DEF AllOK
<1>2. D \subseteq W /\ W \in SUBSET Node
      /\ \A n \in W : n \in D \/ (c[n].use = "in" /\ c[n].of = l)
  BY <1>1 DEF Reach
<1>3. Frays(c, D, l, W)
  <2>1. \A w \in W : Alive(c, w)
    BY <1>1, <1>2 DEF StrayOK, NodesOK
  <2> QED
    BY <1>2, <2>1 DEF Frays, Reach
<1>4. CASE li[l].taint
  <2>1. W = D
    BY <1>1, <1>2, <1>4 DEF StrayOK
  <2> QED
    BY <1>1, <1>3, <1>4, <2>1 DEF StrayOK
<1>5. CASE ~li[l].taint
  <2> DEFINE s == S[l]
  <2>1. s \in Seq(Node) /\ Threads(c, s, li[l].head) /\ Holds(c, l, s) /\ Len(s) \in Nat
    BY <1>1, <1>5 DEF ListsOK, ListOK, Clean
  <2>2. \A i \in 1 .. Len(s) : s[i] \in W
    BY <2>1 DEF Holds, Reach
  <2>3. Leads(c, W, li[l].head)
    BY <2>1, <2>2 DEF Threads, Leads
  <2>4. ASSUME NEW w \in W, w \notin D PROVE Leads(c, W, c[w].next) /\ Leads(c, W, c[w].prev)
    <3>1. PICK i \in 1 .. Len(s) : s[i] = w
      BY <1>2, <2>1, <2>4 DEF Holds
    <3>2. c[w].next = NIL \/ c[w].next \in W
      BY <2>1, <2>2, <3>1 DEF Threads
    <3>3. c[w].prev = NIL \/ c[w].prev \in W
      <4>1. CASE i = 1
        BY <2>1, <2>2, <3>1, <4>1 DEF Threads
      <4>2. CASE i # 1
        <5>1. i \in 2 .. Len(s) /\ i - 1 \in 1 .. Len(s)
          BY <2>1, <4>2
        <5> QED
          BY <2>1, <2>2, <3>1, <5>1 DEF Threads
      <4> QED
        BY <4>1, <4>2
    <3> QED
      BY <3>2, <3>3 DEF Leads
  <2>5. \A w \in D : Leads(c, W, c[w].next) /\ Leads(c, W, c[w].prev)
    BY <1>1, <1>2 DEF StrayOK, Leads
  <2> QED
    BY <1>2, <1>3, <1>5, <2>3, <2>4, <2>5
<1> QED
  BY <1>1, <1>4, <1>5 DEF Typed, ListType

-----------------------------------------------------------------------------
(* Inserting the node n, at the tail or before the head.                   *)
InsertLinks(c, h, t, n, l, c2, at) ==
    /\ c2 \in [Node -> CellType]
    /\ \A m \in Node : c2[m].home = c[m].home /\ c2[m].data = c[m].data
    /\ c2[n].use = "in" /\ c2[n].of = l
    /\ \A m \in Node \ {n} : c2[m].use = c[m].use /\ c2[m].of = c[m].of
    /\ \A m \in Node : m # n /\ (h = NIL \/ (m # h /\ (at = "head" \/ m # t))) => c2[m] = c[m]
    /\ IF h = NIL THEN c2[n].prev = n /\ c2[n].next = NIL
       ELSE \A m \in Node :
               /\ c2[m].prev = IF m = h THEN n ELSE IF m = n THEN t ELSE c[m].prev
               /\ c2[m].next = IF m = t /\ at = "tail" THEN n
                               ELSE IF m = n THEN (IF at = "head" THEN h ELSE NIL) ELSE c[m].next

InsertCounts(c, li, l, n, at, li2) ==
    /\ \A k \in List \ {l} : li2[k] = li[k]
    /\ li2[l].open = li[l].open /\ li2[l].count = li[l].count + 1
    /\ li2[l].head = IF li[l].head = NIL THEN n ELSE li[l].head
    /\ li2[l].free = li[l].free
    /\ li2[l].taint <=> li[l].taint \/ (at = "head" /\ li[l].head # NIL) \/ c[n].home \notin {l, CLIENT}

Inserts(c, li, l, n, at, h, t, c2, li2) ==
    /\ at \in {"tail", "head"} /\ li[l].open /\ c[n].use = "idle" /\ c[n].of = l
    /\ h = li[l].head /\ (h # NIL => t = c[h].prev)
    /\ h # NIL => Alive(c, h) /\ (at = "head" \/ (t # NIL /\ Alive(c, t)))
    /\ InsertLinks(c, h, t, n, l, c2, at) /\ InsertCounts(c, li, l, n, at, li2)

LEMMA InsertBreaks ==
    ASSUME NEW c, NEW li, NEW S, NEW D, AllOK(c, li, S, D), NEW l \in List,
           NEW n \in Node, NEW c2, NEW li2, NEW h, NEW t, NEW at,
           Typed(c2, li2), Inserts(c, li, l, n, at, h, t, c2, li2), li2[l].taint
    PROVE  (\E S2, D2 : AllOK(c2, li2, S2, D2)) /\ Spared(c, li, c2, {l})
<1> USE DEF Inserts
<1> DEFINE R == Reach(c, D, l)
           W == R \cup {n}
<1>1. /\ Frays(c, D, l, R)
      /\ \A w \in R : Leads(c, R, c[w].next) /\ Leads(c, R, c[w].prev)
      /\ Leads(c, R, h)
  BY ReachLeads
<1>2. Alive(c, n) /\ Typed(c, li)
  BY DEF AllOK, NodesOK
<1> HIDE DEF R
<1>3. Frays(c, D, l, W)
  BY <1>1, <1>2 DEF Frays
<1>4. /\ \A p : Leads(c, R, p) => Leads(c, W, p)
      /\ \A w \in W : Alive(c, w) /\ w \in Node /\ c2[w].home = c[w].home
      /\ h # NIL => h \in R /\ (t = NIL \/ t \in R \/ ~Alive(c, t)) /\ (at = "tail" => t \in R)
  BY <1>1, <1>3 DEF Leads, Frays, InsertLinks
<1>5. \A p \in Node \cup {NIL} : Leads(c, W, p) => Leads(c2, W, p)
  BY DEF Leads, Alive, InsertLinks
<1>6. li2[l].open /\ ~Clean(li2[l])
  BY DEF InsertCounts, Clean
<1>7. ASSUME NEW m \in Node \ W PROVE c2[m] = c[m]
  <2>1. m # n /\ (h = NIL \/ (m # h /\ (at = "head" \/ m # t)))
    BY <1>4
  <2> QED
    BY <2>1 DEF InsertLinks
<1>8. ASSUME NEW w \in W PROVE Leads(c2, W, c2[w].next) /\ Leads(c2, W, c2[w].prev)
  <2>1. /\ w \in Node /\ c2[w].next \in Node \cup {NIL} /\ c2[w].prev \in Node \cup {NIL}
    BY <1>3 DEF Frays, InsertLinks, CellType
  <2>2. w # n => Leads(c, W, c[w].next) /\ Leads(c, W, c[w].prev)
    BY <1>1, <1>4
  <2>3. CASE h = NIL
    <3>1. w = n => c2[w].next = NIL /\ c2[w].prev = n
      BY <2>3 DEF InsertLinks
    <3>2. w # n => c2[w] = c[w]
      BY <2>1, <2>3 DEF InsertLinks
    <3>3. Leads(c, W, c2[w].next) /\ Leads(c, W, c2[w].prev)
      BY <2>2, <3>1, <3>2 DEF Leads
    <3> QED
      BY <1>5, <2>1, <3>3
  <2>4. CASE h # NIL
    <3>1. /\ c2[w].prev = IF w = h THEN n ELSE IF w = n THEN t ELSE c[w].prev
          /\ c2[w].next = IF w = t /\ at = "tail" THEN n
                          ELSE IF w = n THEN (IF at = "head" THEN h ELSE NIL) ELSE c[w].next
      BY <2>1, <2>4 DEF InsertLinks
    <3>2. Leads(c, W, n) /\ Leads(c, W, NIL) /\ Leads(c, W, h) /\ Leads(c, W, t)
      BY <1>4, <2>4 DEF Leads
    <3>3. Leads(c, W, c2[w].next) /\ Leads(c, W, c2[w].prev)
      BY <2>2, <3>1, <3>2
    <3> QED
      BY <1>5, <2>1, <3>3
  <2> QED
    BY <2>3, <2>4
<1>9. ASSUME NEW w \in W
      PROVE  /\ c2[w].home = c[w].home /\ c2[w].data = c[w].data
             /\ c2[w].use = "none" => c2[w].of = NIL
             /\ c2[w].use # "none" =>
                   c2[w].of \in List /\ li2[c2[w].of].open /\ ~Clean(li2[c2[w].of])
  <2>1. w \in Node /\ c2[w].home = c[w].home /\ c2[w].data = c[w].data
    BY <1>3 DEF Frays, InsertLinks
  <2>2. CASE w = n
    BY <1>6, <2>1, <2>2 DEF InsertLinks
  <2>3. CASE w # n
    <3>1. c2[w].use = c[w].use /\ c2[w].of = c[w].of
      BY <2>1, <2>3 DEF InsertLinks
    <3>2. /\ c[w].use = "none" => c[w].of = NIL
          /\ c[w].use # "none" => c[w].of \in List /\ li[c[w].of].open
      BY <2>1 DEF AllOK, NodesOK
    <3>3. c[w].use # "none" => c[w].of = l \/ ~Clean(li[c[w].of])
      <4>1. w \in D \/ c[w].of = l
        BY <1>3 DEF Frays
      <4> QED
        BY <4>1 DEF AllOK, StrayOK, Unclean
    <3>4. \A k \in List : k # l => li2[k] = li[k]
      BY DEF InsertCounts
    <3> QED
      BY <1>6, <2>1, <3>1, <3>2, <3>3, <3>4
  <2> QED
    BY <2>2, <2>3
<1>10. Within(c, c2, li2, W)
  BY <1>7, <1>8, <1>9 DEF Within
<1>11. Breaks(li, c2, li2, l, D, W)
  <2>1. Leads(c2, W, li2[l].head)
    <3>1. li2[l].head \in Node \cup {NIL}
      BY DEF Typed, ListType
    <3>2. Leads(c, W, li2[l].head)
      BY <1>1, <1>4 DEF InsertCounts, Leads
    <3> QED
      BY <1>5, <3>1, <3>2
  <2> QED
    BY <2>1 DEF Breaks, InsertCounts
<1> QED
  BY <1>3, <1>10, <1>11, BreakingKeeps

(* The list with n behind its tail.                                        *)
LEMMA AppendOK ==
    ASSUME NEW c, NEW li, NEW S, NEW D, AllOK(c, li, S, D), NEW l \in List,
           NEW n \in Node, NEW c2, NEW li2, NEW h, NEW t, NEW at,
           Inserts(c, li, l, n, at, h, t, c2, li2),
           Clean(li[l]), c[n].home \in {l, CLIENT}, h # NIL => at = "tail"
    PROVE  ListOK(c2, li2[l], l, Append(S[l], n)) /\ Append(S[l], n) \in Seq(Node)
<1> USE DEF Inserts
<1> DEFINE s == S[l]
           q == Len(s)
           s2 == Append(s, n)
<1>1. s \in Seq(Node) /\ Threads(c, s, h) /\ Holds(c, l, s) /\ q \in Nat /\ li[l].count = q
  BY DEF AllOK, ListsOK, ListOK
<1> HIDE DEF s
<1>2. /\ s2 \in Seq(Node) /\ Len(s2) = q + 1 /\ s2[q + 1] = n
      /\ \A i \in 1 .. q : s2[i] = s[i] /\ i \in 1 .. q + 1
      /\ \A i \in 1 .. q + 1 : i # q + 1 => i \in 1 .. q
  BY <1>1
<1>3. \A i \in 1 .. q : s[i] \in Node \ {n}
  BY <1>1 DEF Holds
<1>4. h = IF q = 0 THEN NIL ELSE s[1]
  BY <1>1 DEF Threads
<1>5. /\ q = 0 <=> h = NIL
      /\ q # 0 => 1 \in 1 .. q /\ q \in 1 .. q /\ t = s[q]
  <2>1. q # 0 => 1 \in 1 .. q /\ q \in 1 .. q
    BY <1>1
  <2>2. q # 0 => h # NIL
    BY <1>3, <1>4, <2>1, NilAssumption
  <2> QED
    BY <1>1, <1>4, <2>1, <2>2 DEF Threads
<1> HIDE DEF q, s2
<1>6. /\ \A i, j \in 1 .. q : s[i] = s[j] => i = j
      /\ \A i \in 1 .. q : c[s[i]].next = IF i = q THEN NIL ELSE s[i + 1]
      /\ \A i \in 2 .. q : c[s[i]].prev = s[i - 1]
  BY <1>1 DEF Threads, q
(* prev of the other nodes but the head, and next of those but the tail,   *)
(* are as they were.                                                       *)
<1>7. ASSUME NEW i \in 1 .. q
      PROVE  /\ c2[s[i]].next = IF i = q THEN n ELSE s[i + 1]
             /\ c2[s[i]].prev = IF i = 1 THEN n ELSE s[i - 1]
  <2>1. h # NIL /\ at = "tail" /\ t = s[q] /\ h = s[1] /\ 1 \in 1 .. q /\ q \in 1 .. q
    BY <1>1, <1>4, <1>5
  <2>2. s[i] \in Node /\ s[i] # n
    BY <1>3
  <2>3. /\ c2[s[i]].prev = IF s[i] = h THEN n ELSE c[s[i]].prev
        /\ c2[s[i]].next = IF s[i] = t THEN n ELSE c[s[i]].next
    BY <2>1, <2>2 DEF InsertLinks
  <2>4. (s[i] = h <=> i = 1) /\ (s[i] = t <=> i = q)
    BY <1>6, <2>1
  <2>5. i # 1 => c[s[i]].prev = s[i - 1]
    BY <1>1, <1>6
  <2>6. i # q => c[s[i]].next = s[i + 1]
    BY <1>6
  <2> QED
    BY <2>3, <2>4, <2>5, <2>6
<1>8. c2[n].next = NIL /\ c2[n].prev = IF q = 0 THEN n ELSE s[q]
  <2>1. CASE h = NIL
    BY <1>5, <2>1 DEF InsertLinks
  <2>2. CASE h # NIL
    <3>1. h \in Node /\ h # n /\ t # n
      BY <1>3, <1>4, <1>5, <2>2
    <3> QED
      BY <1>5, <2>2, <3>1 DEF InsertLinks
  <2> QED
    BY <2>1, <2>2
<1>9. Threads(c2, s2, li2[l].head)
  <2>1. \A i, j \in 1 .. Len(s2) : s2[i] = s2[j] => i = j
    BY <1>2, <1>3, <1>6
  <2>2. li2[l].head = IF Len(s2) = 0 THEN NIL ELSE s2[1]
    <3>1. 1 \in 1 .. q + 1 /\ Len(s2) # 0
      BY <1>1, <1>2
    <3> QED
      BY <1>2, <1>4, <1>5, <3>1 DEF InsertCounts
  <2>3. ASSUME NEW i \in 1 .. Len(s2)
        PROVE  c2[s2[i]].next = IF i = Len(s2) THEN NIL ELSE s2[i + 1]
    <3>1. CASE i = q + 1
      BY <1>2, <1>8, <3>1
    <3>2. CASE i # q + 1
      <4>1. i \in 1 .. q /\ s2[i] = s[i] /\ i # Len(s2)
        BY <1>2, <3>2
      <4>2. i # q => i + 1 \in 1 .. q
        BY <1>1, <4>1
      <4> QED
        BY <1>2, <1>7, <4>1, <4>2
    <3> QED
      BY <3>1, <3>2
  <2>4. ASSUME NEW i \in 2 .. Len(s2) PROVE c2[s2[i]].prev = s2[i - 1]
    <3>1. i - 1 \in 1 .. q /\ i \in 1 .. q + 1 /\ i # 1
      BY <1>1, <1>2
    <3>2. CASE i = q + 1
      <4>1. i - 1 = q /\ q # 0
        BY <1>1, <3>1, <3>2
      <4> QED
        BY <1>2, <1>8, <3>1, <3>2, <4>1
    <3>3. CASE i # q + 1
      <4>1. i \in 1 .. q /\ s2[i] = s[i]
        BY <1>2, <3>1, <3>3
      <4> QED
        BY <1>2, <1>7, <3>1, <4>1
    <3> QED
      BY <3>2, <3>3
  <2>5. c2[s2[1]].prev \in {s2[Len(s2)], NIL}
    <3>1. CASE q = 0
      BY <1>2, <1>8, <3>1
    <3>2. CASE q # 0
      <4>1. 1 \in 1 .. q /\ s2[1] = s[1]
        BY <1>2, <1>5, <3>2
      <4> QED
        BY <1>2, <1>7, <4>1
    <3> QED
      BY <3>1, <3>2
  <2> QED
    BY <2>1, <2>2, <2>3, <2>4, <2>5 DEF Threads
<1>10. Holds(c2, l, s2)
  <2>1. ASSUME NEW m \in Node
        PROVE  (\E i \in 1 .. Len(s2) : s2[i] = m) <=> c2[m].use = "in" /\ c2[m].of = l
    <3>1. CASE m = n
      <4>1. q + 1 \in 1 .. Len(s2) /\ s2[q + 1] = n
        BY <1>1, <1>2
      <4> QED
        BY <3>1, <4>1 DEF InsertLinks
    <3>2. CASE m # n
      <4>1. (\E i \in 1 .. Len(s2) : s2[i] = m) <=> \E i \in 1 .. q : s[i] = m
        BY <1>2, <3>2
      <4>2. (\E i \in 1 .. q : s[i] = m) <=> c[m].use = "in" /\ c[m].of = l
        BY <1>1 DEF Holds, q
      <4> QED
        BY <3>2, <4>1, <4>2 DEF InsertLinks
    <3> QED
      BY <3>1, <3>2
  <2>2. ASSUME NEW i \in 1 .. Len(s2) PROVE c2[s2[i]].home \in {l, CLIENT}
    <3>1. CASE i = q + 1
      BY <1>2, <3>1 DEF InsertLinks
    <3>2. CASE i # q + 1
      <4>1. i \in 1 .. q /\ s2[i] = s[i] /\ s[i] \in Node
        BY <1>2, <1>3, <3>2
      <4>2. c[s[i]].home \in {l, CLIENT}
        BY <1>1, <4>1 DEF Holds, q
      <4> QED
        BY <4>1, <4>2 DEF InsertLinks
    <3> QED
      BY <3>1, <3>2
  <2> QED
    BY <2>1, <2>2 DEF Holds
<1>11. li2[l].count = Len(s2)
  BY <1>1, <1>2 DEF InsertCounts
<1> QED
  BY <1>2, <1>9, <1>10, <1>11 DEF ListOK, s2, s

LEMMA InsertKeeps ==
    ASSUME NEW c, NEW li, NEW S, NEW D, AllOK(c, li, S, D), NEW l \in List,
           NEW n \in Node, NEW c2, NEW li2, NEW h, NEW t, NEW at,
           Typed(c2, li2), Inserts(c, li, l, n, at, h, t, c2, li2)
    PROVE  /\ \E S2, D2 : AllOK(c2, li2, S2, D2) /\ Grows(c, li[l], S[l], c2, li2[l], S2[l])
           /\ Spared(c, li, c2, {l})
<1>1. \A k \in List \ {l} : li2[k] = li[k]
  BY DEF Inserts, InsertCounts
<1>2. CASE li2[l].taint
  <2>1. (\E S2, D2 : AllOK(c2, li2, S2, D2)) /\ Spared(c, li, c2, {l})
    BY <1>2, InsertBreaks
  <2>2. \A s2 : Grows(c, li[l], S[l], c2, li2[l], s2)
    BY <1>2 DEF Grows, Clean
  <2> QED
    BY <2>1, <2>2
<1>3. CASE ~li2[l].taint
  <2>1. /\ ~li[l].taint /\ Clean(li[l]) /\ Clean(li2[l]) /\ c[n].home \in {l, CLIENT}
        /\ h # NIL => at = "tail"
    BY <1>3 DEF Inserts, InsertCounts, Clean
  <2>2. ListOK(c2, li2[l], l, Append(S[l], n)) /\ Append(S[l], n) \in Seq(Node)
    BY <2>1, AppendOK
  <2>3. /\ S[l] \in Seq(Node) /\ Threads(c, S[l], h) /\ Holds(c, l, S[l])
    BY <2>1 DEF AllOK, ListsOK, ListOK, Inserts
  <2>4. h # NIL => /\ h \in Node /\ c[h].use = "in" /\ c[h].of = l
                   /\ t \in Node /\ c[t].use = "in" /\ c[t].of = l
    <3>1. ASSUME h # NIL
          PROVE  /\ 1 \in 1 .. Len(S[l]) /\ Len(S[l]) \in 1 .. Len(S[l])
                 /\ h = S[l][1] /\ t = S[l][Len(S[l])]
      <4>1. Len(S[l]) \in Nat /\ Len(S[l]) # 0 /\ h = S[l][1]
        BY <2>3, <3>1 DEF Threads
      <4>2. t \in {S[l][Len(S[l])], NIL} /\ t # NIL
        BY <2>1, <2>3, <3>1, <4>1 DEF Threads, Inserts
      <4> QED
        BY <4>1, <4>2
    <3> QED
      BY <2>3, <3>1 DEF Holds
  <2>5. Rewires(c, c2, l)
    <3>1. ASSUME NEW m \in Node, c[m].use = "none" \/ c[m].of # l PROVE c2[m] = c[m]
      BY <2>4, <3>1 DEF Inserts, InsertLinks
    <3>2. ASSUME NEW m \in Node, c[m].use # "none", c[m].of = l
          PROVE  /\ c2[m].home = c[m].home /\ c2[m].data = c[m].data
                 /\ c2[m].use # "none" /\ c2[m].of = l
      BY <3>2 DEF Inserts, InsertLinks
    <3> QED
      BY <3>1, <3>2 DEF Rewires
  <2>6. StaysClean(li, li2, l)
    BY <1>1, <2>1 DEF StaysClean, Inserts, InsertCounts
  <2>7. /\ AllOK(c2, li2, [S EXCEPT ![l] = Append(S[l], n)], D)
        /\ Spared(c, li, c2, {l})
    BY <2>2, <2>5, <2>6, CleanKeeps
  <2>8. SameData(c, c2, S[l])
    <3>1. \A m \in Node : c2[m].data = c[m].data
      BY DEF Inserts, InsertLinks
    <3>2. \A i \in 1 .. Len(S[l]) : S[l][i] \in Node
      BY <2>3
    <3> QED
      BY <3>1, <3>2 DEF SameData
  <2>9. [S EXCEPT ![l] = Append(S[l], n)][l] = Append(S[l], n)
    BY DEF AllOK
  <2> QED
    BY <2>1, <2>7, <2>8, <2>9 DEF Grows
<1> QED
  BY <1>2, <1>3

SetPrev(c, m, v) == [c EXCEPT ![m].prev = v]
SetNext(c, m, v) == [c EXCEPT ![m].next = v]
SetUse(c, m, u) == [c EXCEPT ![m].use = u]
SetOf(c, m, v) == [c EXCEPT ![m].of = v]

LEMMA PrevSet ==
    ASSUME NEW c, NEW m \in Node, NEW v, c \in [Node -> CellType], v \in Node \cup {NIL}
    PROVE  /\ SetPrev(c, m, v) \in [Node -> CellType]
           /\ \A n \in Node \ {m} : SetPrev(c, m, v)[n] = c[n]
           /\ SetPrev(c, m, v)[m].prev = v /\ SetPrev(c, m, v)[m].next = c[m].next
           /\ SetPrev(c, m, v)[m].home = c[m].home /\ SetPrev(c, m, v)[m].data = c[m].data
           /\ SetPrev(c, m, v)[m].use = c[m].use /\ SetPrev(c, m, v)[m].of = c[m].of
<1> DEFINE e == SetPrev(c, m, v)
<1>1. /\ e[m] = [c[m] EXCEPT !.prev = v] /\ e = [n \in Node |-> e[n]]
      /\ \A n \in Node \ {m} : e[n] = c[n]
  BY DEF SetPrev
<1>2. c[m] \in CellType
  OBVIOUS
<1> HIDE DEF e
<1>3. /\ e[m].prev = v /\ e[m].next = c[m].next /\ e[m].home = c[m].home
      /\ e[m].data = c[m].data /\ e[m].use = c[m].use /\ e[m].of = c[m].of
  BY <1>1, <1>2 DEF CellType
<1>4. e[m] \in CellType
  BY <1>1, <1>2 DEF CellType
<1>5. e \in [Node -> CellType]
  BY <1>1, <1>4
<1> QED
  BY <1>1, <1>3, <1>5 DEF e

LEMMA NextSet ==
    ASSUME NEW c, NEW m \in Node, NEW v, c \in [Node -> CellType], v \in Node \cup {NIL}
    PROVE  /\ SetNext(c, m, v) \in [Node -> CellType]
           /\ \A n \in Node \ {m} : SetNext(c, m, v)[n] = c[n]
           /\ SetNext(c, m, v)[m].next = v /\ SetNext(c, m, v)[m].prev = c[m].prev
           /\ SetNext(c, m, v)[m].home = c[m].home /\ SetNext(c, m, v)[m].data = c[m].data
           /\ SetNext(c, m, v)[m].use = c[m].use /\ SetNext(c, m, v)[m].of = c[m].of
<1> DEFINE e == SetNext(c, m, v)
<1>1. /\ e[m] = [c[m] EXCEPT !.next = v] /\ e = [n \in Node |-> e[n]]
      /\ \A n \in Node \ {m} : e[n] = c[n]
  BY DEF SetNext
<1>2. c[m] \in CellType
  OBVIOUS
<1> HIDE DEF e
<1>3. /\ e[m].next = v /\ e[m].prev = c[m].prev /\ e[m].home = c[m].home
      /\ e[m].data = c[m].data /\ e[m].use = c[m].use /\ e[m].of = c[m].of
  BY <1>1, <1>2 DEF CellType
<1>4. e[m] \in CellType
  BY <1>1, <1>2 DEF CellType
<1>5. e \in [Node -> CellType]
  BY <1>1, <1>4
<1> QED
  BY <1>1, <1>3, <1>5 DEF e

(* What the client thinks of a node.                                       *)
LEMMA UseSet ==
    ASSUME NEW c, NEW m \in Node, NEW u, NEW v, c \in [Node -> CellType],
           u \in {"none", "idle", "in"}, v \in List \cup {NIL}
    PROVE  LET e == SetOf(SetUse(c, m, u), m, v)
           IN  /\ e \in [Node -> CellType]
               /\ \A n \in Node \ {m} : e[n] = c[n]
               /\ e[m].next = c[m].next /\ e[m].prev = c[m].prev
               /\ e[m].home = c[m].home /\ e[m].data = c[m].data
               /\ e[m].use = u /\ e[m].of = v
<1> DEFINE a == SetUse(c, m, u)
           e == SetOf(a, m, v)
<1>1. /\ a[m] = [c[m] EXCEPT !.use = u] /\ a = [n \in Node |-> a[n]]
      /\ \A n \in Node \ {m} : a[n] = c[n]
  BY DEF SetUse
<1>2. c[m] \in CellType
  OBVIOUS
<1> HIDE DEF a
<1>3. /\ a[m].prev = c[m].prev /\ a[m].next = c[m].next /\ a[m].home = c[m].home
      /\ a[m].data = c[m].data /\ a[m].use = u /\ a[m].of = c[m].of
  BY <1>1, <1>2 DEF CellType
<1>4. a[m] \in CellType
  BY <1>1, <1>2 DEF CellType
<1>5. a \in [Node -> CellType]
  BY <1>1, <1>4
<1>6. /\ e[m] = [a[m] EXCEPT !.of = v] /\ e = [n \in Node |-> e[n]]
      /\ \A n \in Node \ {m} : e[n] = a[n]
  BY <1>1 DEF SetOf
<1> HIDE DEF e
<1>7. /\ e[m].prev = a[m].prev /\ e[m].next = a[m].next /\ e[m].home = a[m].home
      /\ e[m].data = a[m].data /\ e[m].use = a[m].use /\ e[m].of = v
  BY <1>4, <1>6 DEF CellType
<1>8. e[m] \in CellType
  BY <1>4, <1>6 DEF CellType
<1>9. e \in [Node -> CellType]
  BY <1>5, <1>6, <1>8
<1> QED
  BY <1>1, <1>3, <1>6, <1>7, <1>9 DEF e, a

Like(c, c2, n) ==
    /\ \A m \in Node \ {n} : c2[m] = c[m]
    /\ c2[n].home = c[n].home /\ c2[n].data = c[n].data
    /\ c2[n].next = c[n].next /\ c2[n].prev = c[n].prev

LEMMA TailLinks ==
    ASSUME NEW c, NEW cells, NEW l \in List, NEW n \in Node, NEW h, NEW t,
           c \in [Node -> CellType], cells \in [Node -> CellType], Like(cells, c, n),
           h = Head1(l), h # NIL => h \in Node /\ t \in Node /\ t = cells[h].prev
    PROVE  InsertLinks(c, h, t, n, l, Joins(LinkedTail(l, n, cells), l, n), "tail")
<1> DEFINE J(x) == SetOf(SetUse(x, n, "in"), n, l)
           e == Joins(LinkedTail(l, n, cells), l, n)
<1>1. CASE h = NIL
  <2> DEFINE a == SetPrev(cells, n, n)
             b == SetNext(a, n, NIL)
  <2>1. e = J(b)
    BY <1>1 DEF LinkedTail, Joins, SetPrev, SetNext, SetUse, SetOf
  <2>2. /\ a \in [Node -> CellType] /\ \A m \in Node \ {n} : a[m] = cells[m]
        /\ a[n].prev = n /\ a[n].home = cells[n].home /\ a[n].data = cells[n].data
    BY PrevSet
  <2>3. /\ b \in [Node -> CellType] /\ \A m \in Node \ {n} : b[m] = a[m]
        /\ b[n].prev = a[n].prev /\ b[n].next = NIL
        /\ b[n].home = a[n].home /\ b[n].data = a[n].data
    <3> HIDE DEF a
    <3> QED
      BY <2>2, NextSet
  <2>4. /\ J(b) \in [Node -> CellType] /\ \A m \in Node \ {n} : J(b)[m] = b[m]
        /\ J(b)[n].prev = b[n].prev /\ J(b)[n].next = b[n].next
        /\ J(b)[n].home = b[n].home /\ J(b)[n].data = b[n].data
        /\ J(b)[n].use = "in" /\ J(b)[n].of = l
    <3> HIDE DEF b
    <3> QED
      BY <2>3, UseSet
  <2> HIDE DEF a, b, e, J
  <2> QED
    BY <1>1, <2>1, <2>2, <2>3, <2>4 DEF InsertLinks, Like, e
<1>2. CASE h # NIL
  <2> DEFINE a == SetPrev(cells, n, t)
             b == SetNext(a, n, NIL)
             d == SetPrev(b, h, n)
             f == SetNext(d, t, n)
  <2>0. h \in Node /\ t \in Node
    BY <1>2
  <2>1. e = J(f)
    BY <1>2 DEF LinkedTail, Joins, SetPrev, SetNext, SetUse, SetOf
  <2>2. /\ a \in [Node -> CellType] /\ \A m \in Node \ {n} : a[m] = cells[m]
        /\ a[n].prev = t /\ a[n].next = cells[n].next
        /\ a[n].home = cells[n].home /\ a[n].data = cells[n].data
        /\ a[n].use = cells[n].use /\ a[n].of = cells[n].of
    BY <2>0, PrevSet
  <2>3. /\ b \in [Node -> CellType] /\ \A m \in Node \ {n} : b[m] = a[m]
        /\ b[n].prev = a[n].prev /\ b[n].next = NIL
        /\ b[n].home = a[n].home /\ b[n].data = a[n].data
        /\ b[n].use = a[n].use /\ b[n].of = a[n].of
    <3> HIDE DEF a
    <3> QED
      BY <2>2, NextSet
  <2>4. /\ d \in [Node -> CellType] /\ \A m \in Node \ {h} : d[m] = b[m]
        /\ d[h].prev = n /\ d[h].next = b[h].next
        /\ d[h].home = b[h].home /\ d[h].data = b[h].data
        /\ d[h].use = b[h].use /\ d[h].of = b[h].of
    <3> HIDE DEF b
    <3> QED
      BY <2>0, <2>3, PrevSet
  <2>5. /\ f \in [Node -> CellType] /\ \A m \in Node \ {t} : f[m] = d[m]
        /\ f[t].prev = d[t].prev /\ f[t].next = n
        /\ f[t].home = d[t].home /\ f[t].data = d[t].data
        /\ f[t].use = d[t].use /\ f[t].of = d[t].of
    <3> HIDE DEF d
    <3> QED
      BY <2>0, <2>4, NextSet
  <2>6. /\ J(f) \in [Node -> CellType] /\ \A m \in Node \ {n} : J(f)[m] = f[m]
        /\ J(f)[n].prev = f[n].prev /\ J(f)[n].next = f[n].next
        /\ J(f)[n].home = f[n].home /\ J(f)[n].data = f[n].data
        /\ J(f)[n].use = "in" /\ J(f)[n].of = l
    <3> HIDE DEF f
    <3> QED
      BY <2>5, UseSet
  <2> HIDE DEF a, b, d, f, e, J
  <2>7. ASSUME NEW m \in Node
        PROVE  /\ e[m].home = c[m].home /\ e[m].data = c[m].data
               /\ m # n => e[m].use = c[m].use /\ e[m].of = c[m].of
               /\ m # n /\ m # h /\ m # t => e[m] = c[m]
               /\ e[m].prev = IF m = h THEN n ELSE IF m = n THEN t ELSE c[m].prev
               /\ e[m].next = IF m = t THEN n ELSE IF m = n THEN NIL ELSE c[m].next
    BY <2>0, <2>1, <2>2, <2>3, <2>4, <2>5, <2>6 DEF Like
  <2> QED
    BY <1>2, <2>1, <2>6, <2>7 DEF InsertLinks, e
<1> QED
  BY <1>1, <1>2

LEMMA HeadLinks ==
    ASSUME NEW c, NEW cells, NEW l \in List, NEW n \in Node, NEW h, NEW t,
           c \in [Node -> CellType], cells \in [Node -> CellType], Like(cells, c, n),
           h = Head1(l), h # NIL => h \in Node /\ t = cells[h].prev
    PROVE  InsertLinks(c, h, t, n, l, Joins(LinkedHead(l, n, cells), l, n), "head")
<1> DEFINE J(x) == SetOf(SetUse(x, n, "in"), n, l)
           e == Joins(LinkedHead(l, n, cells), l, n)
<1>1. CASE h = NIL
  <2> DEFINE a == SetPrev(cells, n, n)
             b == SetNext(a, n, NIL)
  <2>1. e = J(b)
    BY <1>1 DEF LinkedHead, Joins, SetPrev, SetNext, SetUse, SetOf
  <2>2. /\ a \in [Node -> CellType] /\ \A m \in Node \ {n} : a[m] = cells[m]
        /\ a[n].prev = n /\ a[n].home = cells[n].home /\ a[n].data = cells[n].data
    BY PrevSet
  <2>3. /\ b \in [Node -> CellType] /\ \A m \in Node \ {n} : b[m] = a[m]
        /\ b[n].prev = a[n].prev /\ b[n].next = NIL
        /\ b[n].home = a[n].home /\ b[n].data = a[n].data
    <3> HIDE DEF a
    <3> QED
      BY <2>2, NextSet
  <2>4. /\ J(b) \in [Node -> CellType] /\ \A m \in Node \ {n} : J(b)[m] = b[m]
        /\ J(b)[n].prev = b[n].prev /\ J(b)[n].next = b[n].next
        /\ J(b)[n].home = b[n].home /\ J(b)[n].data = b[n].data
        /\ J(b)[n].use = "in" /\ J(b)[n].of = l
    <3> HIDE DEF b
    <3> QED
      BY <2>3, UseSet
  <2> HIDE DEF a, b, e, J
  <2> QED
    BY <1>1, <2>1, <2>2, <2>3, <2>4 DEF InsertLinks, Like, e
<1>2. CASE h # NIL
  <2> DEFINE a == SetPrev(cells, n, t)
             b == SetNext(a, n, h)
             d == SetPrev(b, h, n)
  <2>0. h \in Node /\ t \in Node \cup {NIL}
    BY <1>2 DEF CellType
  <2>1. e = J(d)
    BY <1>2 DEF LinkedHead, Joins, SetPrev, SetNext, SetUse, SetOf
  <2>2. /\ a \in [Node -> CellType] /\ \A m \in Node \ {n} : a[m] = cells[m]
        /\ a[n].prev = t /\ a[n].next = cells[n].next
        /\ a[n].home = cells[n].home /\ a[n].data = cells[n].data
        /\ a[n].use = cells[n].use /\ a[n].of = cells[n].of
    BY <2>0, PrevSet
  <2>3. /\ b \in [Node -> CellType] /\ \A m \in Node \ {n} : b[m] = a[m]
        /\ b[n].prev = a[n].prev /\ b[n].next = h
        /\ b[n].home = a[n].home /\ b[n].data = a[n].data
        /\ b[n].use = a[n].use /\ b[n].of = a[n].of
    <3> HIDE DEF a
    <3> QED
      BY <2>0, <2>2, NextSet
  <2>4. /\ d \in [Node -> CellType] /\ \A m \in Node \ {h} : d[m] = b[m]
        /\ d[h].prev = n /\ d[h].next = b[h].next
        /\ d[h].home = b[h].home /\ d[h].data = b[h].data
        /\ d[h].use = b[h].use /\ d[h].of = b[h].of
    <3> HIDE DEF b
    <3> QED
      BY <2>0, <2>3, PrevSet
  <2>6. /\ J(d) \in [Node -> CellType] /\ \A m \in Node \ {n} : J(d)[m] = d[m]
        /\ J(d)[n].prev = d[n].prev /\ J(d)[n].next = d[n].next
        /\ J(d)[n].home = d[n].home /\ J(d)[n].data = d[n].data
        /\ J(d)[n].use = "in" /\ J(d)[n].of = l
    <3> HIDE DEF d
    <3> QED
      BY <2>4, UseSet
  <2> HIDE DEF a, b, d, e, J
  <2>7. ASSUME NEW m \in Node
        PROVE  /\ e[m].home = c[m].home /\ e[m].data = c[m].data
               /\ m # n => e[m].use = c[m].use /\ e[m].of = c[m].of
               /\ m # n /\ m # h => e[m] = c[m]
               /\ e[m].prev = IF m = h THEN n ELSE IF m = n THEN t ELSE c[m].prev
               /\ e[m].next = IF m = n THEN h ELSE c[m].next
    BY <2>0, <2>1, <2>2, <2>3, <2>4, <2>6 DEF Like
  <2> QED
    BY <1>2, <2>1, <2>6, <2>7 DEF InsertLinks, e
<1> QED
  BY <1>1, <1>2

-----------------------------------------------------------------------------
(* Faults.                                                                 *)
LEMMA FirstOf ==
    ASSUME NEW fs \in Seq(Faults)
    PROVE  /\ FirstFault(fs) \in Faults
           /\ FirstFault(fs) = "none" => \A i \in 1 .. Len(fs) : fs[i] = "none"
<1> DEFINE bad == {i \in DOMAIN fs : fs[i] # "none"}
<1>1. CASE bad = {}
  <2>1. FirstFault(fs) = "none"
    BY <1>1 DEF FirstFault
  <2> QED
    BY <1>1, <2>1 DEF Faults
<1>2. CASE bad # {}
  <2>1. bad \in SUBSET Nat
    OBVIOUS
  <2>2. \E i \in bad : \A j \in bad : i <= j
    BY <1>2, <2>1, LeastOf
  <2> DEFINE m == CHOOSE i \in bad : \A j \in bad : i <= j
  <2>3. m \in bad
    BY <2>2
  <2>4. FirstFault(fs) = fs[m]
    BY <1>2 DEF FirstFault
  <2> QED
    BY <2>3, <2>4
<1> QED
  BY <1>1, <1>2

LEMMA DerefType ==
    \A p : Deref(p) \in Faults /\ (Deref(p) = "none" <=> p # NIL /\ Live(p))
BY DEF Deref, Faults

LEMMA TailFaultMeans ==
    ASSUME NEW l \in List
    PROVE  /\ TailFault(l) \in Faults
           /\ TailFault(l) = "none" /\ Head1(l) # NIL =>
                 Live(Head1(l)) /\ cell[Head1(l)].prev # NIL /\ Live(cell[Head1(l)].prev)
<1> DEFINE h == Head1(l)
           fs == <<Deref(h), IF Live(h) THEN Deref(cell[h].prev) ELSE "none">>
<1>1. fs \in Seq(Faults) /\ Len(fs) = 2 /\ fs[1] = Deref(h)
      /\ fs[2] = IF Live(h) THEN Deref(cell[h].prev) ELSE "none"
  BY DerefType DEF Faults
<1>2. TailFault(l) = IF h = NIL THEN "none" ELSE FirstFault(fs)
  BY DEF TailFault
<1> HIDE DEF fs
<1>3. /\ FirstFault(fs) \in Faults
      /\ FirstFault(fs) = "none" => fs[1] = "none" /\ fs[2] = "none"
  BY <1>1, FirstOf
<1> QED
  BY <1>1, <1>2, <1>3, DerefType DEF Faults

LEMMA RemoveFaultMeans ==
    ASSUME NEW l \in List, NEW n \in Node
    PROVE  /\ RemoveFault(l, n) \in Faults
           /\ RemoveFault(l, n) = "none" =>
                 /\ Live(n)
                 /\ LET back == IF cell[n].next # NIL THEN cell[n].next ELSE Head1(l)
                    IN  back # NIL /\ Live(back)
                 /\ Head1(l) # n => cell[n].prev # NIL /\ Live(cell[n].prev)
<1> DEFINE h == Head1(l)
           back == IF cell[n].next # NIL THEN cell[n].next ELSE h
           third == IF h = n THEN "none" ELSE Deref(cell[n].prev)
           fs == <<Deref(n), Deref(back), third>>
<1>1. third \in Faults
  BY DerefType DEF Faults
<1>2. RemoveFault(l, n) = FirstFault(fs)
  BY DEF RemoveFault
<1> HIDE DEF back, third
<1>3. fs \in Seq(Faults) /\ Len(fs) = 3 /\ fs[1] = Deref(n) /\ fs[2] = Deref(back)
      /\ fs[3] = third
  BY <1>1, DerefType
<1> HIDE DEF fs
<1>4. /\ FirstFault(fs) \in Faults
      /\ FirstFault(fs) = "none" => fs[1] = "none" /\ fs[2] = "none" /\ fs[3] = "none"
  BY <1>3, FirstOf
<1> QED
  BY <1>2, <1>3, <1>4, DerefType DEF back, third

LEMMA OtherFaults ==
    ASSUME NEW l \in List
    PROVE  /\ HeadFault(l) \in Faults /\ GrantFault(l) \in Faults
           /\ RecycleFault(l) \in Faults /\ WalkFault(l) \in Faults
           /\ HeadFault(l) = "none" /\ Head1(l) # NIL => Live(Head1(l))
<1>1. HeadFault(l) \in Faults /\ (HeadFault(l) = "none" /\ Head1(l) # NIL => Live(Head1(l)))
  BY DerefType DEF HeadFault, Faults
<1>2. GrantFault(l) \in Faults
  BY DerefType DEF GrantFault, Faults
<1>3. RecycleFault(l) \in Faults
  BY DEF RecycleFault, Faults
<1>4. WalkFault(l) \in Faults
  BY DEF WalkFault, Faults
<1> QED
  BY <1>1, <1>2, <1>3, <1>4

LEMMA ConcatFaultMeans ==
    ASSUME NEW d \in List, NEW s \in List
    PROVE  /\ ConcatFault(d, s) \in Faults
           /\ ConcatFault(d, s) = "none" /\ Head1(d) # NIL =>
                 /\ Live(Head1(d)) /\ Head1(s) # NIL /\ Live(Head1(s))
                 /\ cell[Head1(d)].prev # NIL /\ Live(cell[Head1(d)].prev)
<1> DEFINE fs == <<Deref(Head1(d)), Deref(Head1(s)), TailFault(d)>>
<1>1. fs \in Seq(Faults) /\ Len(fs) = 3 /\ fs[1] = Deref(Head1(d))
      /\ fs[2] = Deref(Head1(s)) /\ fs[3] = TailFault(d)
  BY DerefType, TailFaultMeans
<1>2. ConcatFault(d, s) = IF Head1(d) = NIL THEN "none" ELSE FirstFault(fs)
  BY DEF ConcatFault
<1> HIDE DEF fs
<1>3. /\ FirstFault(fs) \in Faults
      /\ FirstFault(fs) = "none" => fs[1] = "none" /\ fs[2] = "none" /\ fs[3] = "none"
  BY <1>1, FirstOf
<1> QED
  BY <1>1, <1>2, <1>3, DerefType, TailFaultMeans DEF Faults

(* The call in which the client breaks off changes nothing.                *)
LEMMA CrashKeeps ==
    ASSUME Next, fault' # "none"
    PROVE  fault = "none" /\ fault' \in Faults /\ UNCHANGED <<cell, list>>
<1>1. ASSUME NEW l \in List,
             \/ New(l) \/ Free(l) \/ Bring(l) \/ Drop(l) \/ NodeNew(l)
             \/ ResizeEmpty(l) \/ ResizeKeep(l)
      PROVE  FALSE
  BY <1>1 DEF New, Free, Bring, Drop, NodeNew, ResizeEmpty, ResizeKeep, On, Call
<1>2. ASSUME NEW l \in List, NodeFree(l)
      PROVE  fault = "none" /\ fault' \in Faults /\ UNCHANGED <<cell, list>>
  BY <1>2, OtherFaults DEF NodeFree, On, Call, Crashes
<1>3. ASSUME NEW l \in List, GrantCrash(l)
      PROVE  fault = "none" /\ fault' \in Faults /\ UNCHANGED <<cell, list>>
  BY <1>3, OtherFaults DEF GrantCrash, On, Call, Crashes, Faults
<1>4. ASSUME NEW n
      PROVE  \A g \in Faults : FirstFault(<<Deref(n), g>>) \in Faults
  <2> TAKE g \in Faults
  <2>1. <<Deref(n), g>> \in Seq(Faults)
    BY DerefType
  <2> QED
    BY <2>1, FirstOf
<1>5. ASSUME NEW l \in List, InsertTail(l)
      PROVE  fault = "none" /\ fault' \in Faults /\ UNCHANGED <<cell, list>>
  <2>1. PICK n \in Node : Crashes(FirstFault(<<Deref(n), TailFault(l)>>)) \/ UNCHANGED fault
    BY <1>5 DEF InsertTail
  <2>2. fault = "none"
    BY <1>5 DEF InsertTail, On, Call
  <2> QED
    BY <1>4, <2>1, <2>2, TailFaultMeans DEF Crashes
<1>6. ASSUME NEW l \in List, InsertHead(l)
      PROVE  fault = "none" /\ fault' \in Faults /\ UNCHANGED <<cell, list>>
  <2>1. PICK n \in Node : Crashes(FirstFault(<<Deref(n), HeadFault(l)>>)) \/ UNCHANGED fault
    BY <1>6 DEF InsertHead
  <2>2. fault = "none"
    BY <1>6 DEF InsertHead, On, Call
  <2> QED
    BY <1>4, <2>1, <2>2, OtherFaults DEF Crashes
<1>7. ASSUME NEW l \in List, InsertTailData(l) \/ InsertHeadData(l)
      PROVE  fault = "none" /\ fault' \in Faults /\ UNCHANGED <<cell, list>>
  BY <1>7, OtherFaults, TailFaultMeans DEF InsertTailData, InsertHeadData, On, Call, Crashes
<1>8. ASSUME NEW l \in List, RemoveNode(l)
      PROVE  fault = "none" /\ fault' \in Faults /\ UNCHANGED <<cell, list>>
  <2>1. PICK n \in Node : Crashes("uaf") \/ Crashes(RemoveFault(l, n)) \/ UNCHANGED fault
    BY <1>8 DEF RemoveNode
  <2>2. fault = "none"
    BY <1>8 DEF RemoveNode, On, Call
  <2> QED
    BY <2>1, <2>2, RemoveFaultMeans DEF Crashes, Faults
<1>9. ASSUME NEW l \in List, RemoveData(l)
      PROVE  fault = "none" /\ fault' \in Faults /\ UNCHANGED <<cell, list>>
  <2>1. PICK n \in Node :
           \/ Crashes(FirstFault(<<RemoveFault(l, n), RecycleFault(l)>>))
           \/ UNCHANGED fault
    BY <1>9 DEF RemoveData
  <2>2. fault = "none"
    BY <1>9 DEF RemoveData, On, Call
  <2>3. <<RemoveFault(l, n), RecycleFault(l)>> \in Seq(Faults)
    BY RemoveFaultMeans, OtherFaults
  <2> QED
    BY <2>1, <2>2, <2>3, FirstOf DEF Crashes
<1>10. ASSUME NEW l \in List, WalkCrash(l) \/ Sort(l) \/ ResizeCopy(l)
       PROVE  fault = "none" /\ fault' \in Faults /\ UNCHANGED <<cell, list>>
  BY <1>10, OtherFaults DEF WalkCrash, Sort, ResizeCopy, On, Call, Crashes, Faults
<1>11. ASSUME NEW d \in List, NEW s \in List, Concat(d, s)
       PROVE  fault = "none" /\ fault' \in Faults /\ UNCHANGED <<cell, list>>
  BY <1>11, ConcatFaultMeans DEF Concat, On, Call, Crashes
<1> QED
  BY <1>1, <1>2, <1>3, <1>5, <1>6, <1>7, <1>8, <1>9, <1>10, <1>11 DEF Next

-----------------------------------------------------------------------------
(* The inserting calls.                                                    *)
CountedFor(at, l, n, cells) ==
    IF at = "head" THEN Counted(l, n, cells, Head1(l) # NIL) ELSE Counted(l, n, cells, FALSE)

LEMMA CountedAt ==
    ASSUME list \in [List -> ListType], NEW l \in List, NEW n \in Node, NEW cells,
           NEW at \in {"tail", "head"}
    PROVE  LET r == CountedFor(at, l, n, cells)
           IN  /\ r \in ListType
               /\ r.open = list[l].open /\ r.count = list[l].count + 1
               /\ r.head = IF list[l].head = NIL THEN n ELSE list[l].head
               /\ r.free = list[l].free /\ r.max = list[l].max
               /\ r.taint <=> list[l].taint \/ (at = "head" /\ list[l].head # NIL) \/ cells[n].home \notin {l, CLIENT}
<1> DEFINE r == CountedFor(at, l, n, cells)
           a == list[l].count + 1
           b == IF list[l].head = NIL THEN n ELSE list[l].head
           d == list[l].taint \/ (at = "head" /\ list[l].head # NIL) \/ Foreign(l, n, cells)
<1>1. r = [list[l] EXCEPT !.count = a, !.head = b, !.taint = d]
  <2>1. at = "tail" => CountedFor(at, l, n, cells) =
           [list[l] EXCEPT !.count = a, !.head = b, !.taint = list[l].taint \/ Foreign(l, n, cells)]
    BY DEF CountedFor, Counted
  <2>2. at = "head" => CountedFor(at, l, n, cells) =
           [list[l] EXCEPT !.count = a, !.head = b,
                           !.taint = list[l].taint \/ list[l].head # NIL \/ Foreign(l, n, cells)]
    BY DEF CountedFor, Counted, Head1
  <2> QED
    BY <2>1, <2>2
<1>2. list[l] \in ListType
  OBVIOUS
<1>3. a \in Int /\ b \in Node \cup {NIL}
  BY <1>2 DEF ListType
<1>4. d \in BOOLEAN
  OBVIOUS
<1>5. d <=> list[l].taint \/ (at = "head" /\ list[l].head # NIL) \/ cells[n].home \notin {l, CLIENT}
  BY DEF Foreign
<1> HIDE DEF a, b, d, r
<1>6. /\ r.open = list[l].open /\ r.count = a /\ r.head = b /\ r.free = list[l].free
      /\ r.max = list[l].max /\ r.taint = d
  BY <1>1, <1>2 DEF ListType
<1>7. r \in ListType
  BY <1>1, <1>2, <1>3, <1>4 DEF ListType
<1> QED
  BY <1>5, <1>6, <1>7 DEF a, b, r

CountedList(at, l, n, cells, f) ==
    [list EXCEPT ![l] = [CountedFor(at, l, n, cells) EXCEPT !.free = f]]

(* n, of cells, is counted in l, which then has f recycled; li is list     *)
(* with f, and c has the homes of cells.                                   *)
Counting(at, l, n, cells, f, c, li, c2, li2) ==
    /\ Typed(c, li) /\ Typed(cell, list) /\ list[l].open
    /\ at \in {"tail", "head"} /\ f \in Seq(Node) /\ c2 \in [Node -> CellType]
    /\ li = WithFree(list, l, f) /\ cells[n].home = c[n].home
    /\ li2 = CountedList(at, l, n, cells, f)

LEMMA CountedStep ==
    ASSUME NEW l \in List, NEW n \in Node, NEW at, NEW cells, NEW f, NEW c, NEW li,
           NEW c2, NEW li2, Counting(at, l, n, cells, f, c, li, c2, li2)
    PROVE  Typed(c2, li2) /\ InsertCounts(c, li, l, n, at, li2)
<1>0. /\ Typed(c, li) /\ Typed(cell, list) /\ list[l].open
      /\ at \in {"tail", "head"} /\ f \in Seq(Node) /\ c2 \in [Node -> CellType]
      /\ li = WithFree(list, l, f) /\ cells[n].home = c[n].home
      /\ li2 = CountedList(at, l, n, cells, f)
  BY DEF Counting
<1>1. list \in [List -> ListType]
  BY <1>0 DEF Typed
<1>a. at \in {"tail", "head"}
  BY <1>0
<1>b. f \in Seq(Node)
  BY <1>0
<1>c. li = WithFree(list, l, f)
  BY <1>0
<1> DEFINE r == CountedFor(at, l, n, cells)
           a == [r EXCEPT !.free = f]
<1>2. /\ r \in ListType
      /\ r.open = list[l].open /\ r.count = list[l].count + 1
      /\ r.head = IF list[l].head = NIL THEN n ELSE list[l].head
      /\ r.free = list[l].free /\ r.max = list[l].max
      /\ r.taint <=> list[l].taint \/ (at = "head" /\ list[l].head # NIL) \/ cells[n].home \notin {l, CLIENT}
  BY ONLY <1>1, <1>a, l \in List, n \in Node, CountedAt
<1> HIDE DEF r
<1>3. a = [r EXCEPT !.free = f]
  OBVIOUS
<1>4. li2[l] = a /\ (\A k \in List \ {l} : li2[k] = list[k]) /\ li2 = [k \in List |-> li2[k]]
  BY <1>0, <1>1 DEF r, CountedList
<1> HIDE DEF a
<1>5. /\ a.open = r.open /\ a.count = r.count /\ a.head = r.head /\ a.free = f
      /\ a.max = r.max /\ a.taint = r.taint
  BY <1>0, <1>2, <1>3 DEF ListType
<1>6. a \in ListType
  BY <1>0, <1>2, <1>3 DEF ListType
<1>7. /\ li[l].free = f /\ li[l].open = list[l].open /\ li[l].head = list[l].head
      /\ li[l].count = list[l].count /\ li[l].taint = list[l].taint /\ li[l].max = list[l].max
      /\ \A k \in List \ {l} : li[k] = list[k]
  BY ONLY <1>1, <1>b, <1>c, l \in List, WithFreeAt
<1>8. InsertCounts(c, li, l, n, at, li2)
  <2>1. li2[l].taint <=> li[l].taint \/ (at = "head" /\ li[l].head # NIL) \/ c[n].home \notin {l, CLIENT}
    <3>1. /\ r.taint \in BOOLEAN /\ li2[l].taint \in BOOLEAN
          /\ li2[l].taint = r.taint /\ li[l].taint = list[l].taint
      BY <1>2, <1>4, <1>5, <1>6, <1>7 DEF ListType
    <3> QED
      BY <1>0, <1>2, <1>7, <3>1
  <2> QED
    BY <1>0, <1>2, <1>4, <1>5, <1>7, <2>1 DEF InsertCounts
<1>9. Typed(c2, li2)
  <2>1. li2 \in [List -> ListType]
    BY <1>1, <1>4, <1>6
  <2>2. ASSUME NEW k \in List
        PROVE  /\ Len(li2[k].free) <= li2[k].max /\ (li2[k].taint => li2[k].open)
               /\ li2[k].open \/ li2[k].free = << >>
    <3>1. CASE k = l
      <4>1. Len(li[l].free) <= li[l].max
        BY <1>0 DEF Typed
      <4> QED
        BY <1>0, <1>2, <1>4, <1>5, <1>7, <3>1, <4>1
    <3>2. CASE k # l
      BY <1>0, <1>4, <3>2 DEF Typed
    <3> QED
      BY <3>1, <3>2
  <2> QED
    BY <1>0, <2>1, <2>2 DEF Typed
<1> QED
  BY <1>8, <1>9

LEMMA InsertTailKeeps ==
    ASSUME NEW S, NEW D, AllOK(cell, list, S, D), NEW l \in List, InsertTail(l),
           fault' = "none"
    PROVE  /\ \E S2, D2 : /\ AllOK(cell', list', S2, D2)
                          /\ Grows(cell, list[l], S[l], cell', list'[l], S2[l])
           /\ Spared(cell, list, cell', {l}) /\ \A k \in List \ {l} : list'[k] = list[k]
<1>1. /\ Typed(cell, list) /\ list \in [List -> ListType] /\ cell \in [Node -> CellType]
      /\ list[l].open /\ list[l].head \in Node \cup {NIL} /\ list[l].free \in Seq(Node)
  BY DEF AllOK, Typed, ListType, InsertTail, On
<1>2. PICK n \in Node :
         /\ cell[n].use = "idle" /\ cell[n].of = l /\ TailFault(l) = "none"
         /\ cell' = Joins(LinkedTail(l, n, cell), l, n)
         /\ list' = [list EXCEPT ![l] = Counted(l, n, cell, FALSE)]
  BY DEF InsertTail, Crashes
<1> DEFINE h == list[l].head
           t == cell[h].prev
<1>3. h # NIL => h \in Node /\ Alive(cell, h) /\ t # NIL /\ Alive(cell, t) /\ t \in Node
  BY <1>1, <1>2, TailFaultMeans DEF Head1, Live, Alive, CellType
<1>4. Like(cell, cell, n)
  BY DEF Like
<1> HIDE DEF h, t
<1>5. InsertLinks(cell, h, t, n, l, cell', "tail")
  BY <1>1, <1>2, <1>3, <1>4, TailLinks DEF h, t, Head1
<1>6. Typed(cell', list') /\ InsertCounts(cell, list, l, n, "tail", list')
  <2>1. list = WithFree(list, l, list[l].free)
    BY <1>1 DEF WithFree, ListType
  <2>2. CountedFor("tail", l, n, cell) = [CountedFor("tail", l, n, cell) EXCEPT !.free = list[l].free]
    <3>1. CountedFor("tail", l, n, cell) \in ListType /\ CountedFor("tail", l, n, cell).free = list[l].free
      BY <1>1, CountedAt
    <3> QED
      BY <3>1 DEF ListType
  <2>3. cell' \in [Node -> CellType]
    BY <1>5 DEF InsertLinks
  <2>4. list' = CountedList("tail", l, n, cell, list[l].free)
    BY <1>2, <2>2 DEF CountedFor, CountedList
  <2>5. Counting("tail", l, n, cell, list[l].free, cell, list, cell', list')
    BY <1>1, <2>1, <2>3, <2>4 DEF Counting
  <2> QED
    BY <2>5, CountedStep
<1>7. Inserts(cell, list, l, n, "tail", h, t, cell', list')
  BY <1>1, <1>2, <1>3, <1>5, <1>6 DEF Inserts, h, t
<1>8. \A k \in List \ {l} : list'[k] = list[k]
  BY <1>7 DEF Inserts, InsertCounts
<1> QED
  BY <1>6, <1>7, <1>8, InsertKeeps

LEMMA InsertHeadKeeps ==
    ASSUME NEW S, NEW D, AllOK(cell, list, S, D), NEW l \in List, InsertHead(l),
           fault' = "none"
    PROVE  /\ \E S2, D2 : /\ AllOK(cell', list', S2, D2)
                          /\ Grows(cell, list[l], S[l], cell', list'[l], S2[l])
           /\ Spared(cell, list, cell', {l}) /\ \A k \in List \ {l} : list'[k] = list[k]
<1>1. /\ Typed(cell, list) /\ list \in [List -> ListType] /\ cell \in [Node -> CellType]
      /\ list[l].open /\ list[l].head \in Node \cup {NIL} /\ list[l].free \in Seq(Node)
  BY DEF AllOK, Typed, ListType, InsertHead, On
<1>2. PICK n \in Node :
         /\ cell[n].use = "idle" /\ cell[n].of = l /\ HeadFault(l) = "none"
         /\ cell' = Joins(LinkedHead(l, n, cell), l, n)
         /\ list' = [list EXCEPT ![l] = Counted(l, n, cell, Head1(l) # NIL)]
  BY DEF InsertHead, Crashes
<1> DEFINE h == list[l].head
           t == cell[h].prev
<1>3. h # NIL => h \in Node /\ Alive(cell, h)
  BY <1>1, <1>2, OtherFaults DEF Head1, Live, Alive, CellType
<1>4. Like(cell, cell, n)
  BY DEF Like
<1> HIDE DEF h, t
<1>5. InsertLinks(cell, h, t, n, l, cell', "head")
  BY <1>1, <1>2, <1>3, <1>4, HeadLinks DEF h, t, Head1
<1>6. Typed(cell', list') /\ InsertCounts(cell, list, l, n, "head", list')
  <2>1. list = WithFree(list, l, list[l].free)
    BY <1>1 DEF WithFree, ListType
  <2>2. CountedFor("head", l, n, cell) = [CountedFor("head", l, n, cell) EXCEPT !.free = list[l].free]
    <3>1. CountedFor("head", l, n, cell) \in ListType /\ CountedFor("head", l, n, cell).free = list[l].free
      BY <1>1, CountedAt
    <3> QED
      BY <3>1 DEF ListType
  <2>3. cell' \in [Node -> CellType]
    BY <1>5 DEF InsertLinks
  <2>4. list' = CountedList("head", l, n, cell, list[l].free)
    BY <1>2, <2>2 DEF CountedFor, CountedList
  <2>5. Counting("head", l, n, cell, list[l].free, cell, list, cell', list')
    BY <1>1, <2>1, <2>3, <2>4 DEF Counting
  <2> QED
    BY <2>5, CountedStep
<1>7. Inserts(cell, list, l, n, "head", h, t, cell', list')
  BY <1>1, <1>2, <1>3, <1>5, <1>6 DEF Inserts, h, t
<1>8. \A k \in List \ {l} : list'[k] = list[k]
  BY <1>7 DEF Inserts, InsertCounts
<1> QED
  BY <1>6, <1>7, <1>8, InsertKeeps

(* A node that comes and is inserted at once.                              *)
GrantInsert(at, l, n, d, c2, li2) ==
    /\ list[l].open /\ at \in {"tail", "head"} /\ Grants(l, n) /\ GrantFault(l) = "none"
    /\ (at = "tail" => TailFault(l) = "none") /\ (at = "head" => HeadFault(l) = "none")
    /\ c2 = Joins(IF at = "tail" THEN LinkedTail(l, n, Granted(l, n, d))
                                 ELSE LinkedHead(l, n, Granted(l, n, d)), l, n)
    /\ li2 = CountedList(at, l, n, Granted(l, n, d), FreeAfterGrant(l))

LEMMA DataKeeps ==
    ASSUME NEW S, NEW D, AllOK(cell, list, S, D), NEW l \in List, NEW n \in Node, NEW d \in Data,
           NEW at, NEW c2, NEW li2, GrantInsert(at, l, n, d, c2, li2)
    PROVE  /\ \E S2, D2 : AllOK(c2, li2, S2, D2) /\ Grows(cell, list[l], S[l], c2, li2[l], S2[l])
           /\ Spared(cell, list, c2, {l})
<1>0. /\ list[l].open /\ at \in {"tail", "head"} /\ Grants(l, n) /\ GrantFault(l) = "none"
      /\ (at = "tail" => TailFault(l) = "none") /\ (at = "head" => HeadFault(l) = "none")
      /\ c2 = Joins(IF at = "tail" THEN LinkedTail(l, n, Granted(l, n, d))
                                   ELSE LinkedHead(l, n, Granted(l, n, d)), l, n)
      /\ li2 = CountedList(at, l, n, Granted(l, n, d), FreeAfterGrant(l))
  BY DEF GrantInsert
<1>1. /\ Typed(cell, list) /\ list \in [List -> ListType] /\ cell \in [Node -> CellType]
      /\ list[l].open /\ list[l].head \in Node \cup {NIL} /\ list[l].free \in Seq(Node)
  BY <1>0 DEF AllOK, Typed, ListType
<1> DEFINE cells == Granted(l, n, d)
           f == FreeAfterGrant(l)
<1>2. PICK g : /\ Comes(list, f, l, n, d, g)
               /\ cells = [cell EXCEPT ![n].home = g, ![n].data = d]
  <2>1. \E g : /\ Comes(list, FreeAfterGrant(l), l, n, d, g)
               /\ [Granted(l, n, d) EXCEPT ![n].use = "idle", ![n].of = l] = Given(l, n, d, g)
               /\ Granted(l, n, d) = [cell EXCEPT ![n].home = g, ![n].data = d]
    BY <1>0, <1>1, GrantedIs
  <2> QED
    BY <2>1
<1> HIDE DEF f
<1> DEFINE c1 == Given(l, n, d, g)
           li1 == WithFree(list, l, f)
           h == list[l].head
           t == cells[h].prev
<1>3. AllOK(c1, li1, S, D) /\ Spared(cell, list, c1, {})
  BY <1>0, <1>2, ComingKeeps
<1>4. f \in Seq(Node)
  <2>1. list[l].free # << >> => Front(list[l].free) \in Seq(Node)
    BY <1>1 DEF Front
  <2> QED
    BY <2>1 DEF f, FreeAfterGrant
<1>5. /\ c1[n].use = "idle" /\ c1[n].of = l /\ c1 \in [Node -> CellType]
      /\ \A m \in Node \ {n} : c1[m] = cell[m]
      /\ c1[n].next = cell[n].next /\ c1[n].prev = cell[n].prev
      /\ c1[n].home = g /\ c1[n].data = d
  <2>1. c1[n] = [cell[n] EXCEPT !.home = g, !.data = d, !.use = "idle", !.of = l]
        /\ \A m \in Node \ {n} : c1[m] = cell[m]
    BY <1>1 DEF Given
  <2>2. cell[n] \in CellType
    BY <1>1
  <2>3. c1 \in [Node -> CellType]
    BY <1>3 DEF AllOK, Typed
  <2> QED
    BY <2>1, <2>2, <2>3 DEF CellType
<1>6. /\ \A m \in Node \ {n} : cells[m] = cell[m]
      /\ cells[n].next = cell[n].next /\ cells[n].prev = cell[n].prev
      /\ cells[n].home = g /\ cells[n].data = d /\ cells \in [Node -> CellType]
  <2> DEFINE e == [cell[n] EXCEPT !.home = g, !.data = d]
  <2>1. cells[n] = e /\ (\A m \in Node \ {n} : cells[m] = cell[m]) /\ cells = [m \in Node |-> cells[m]]
    BY <1>1, <1>2
  <2>2. cell[n] \in CellType /\ g = c1[n].home /\ c1[n] \in CellType
    BY <1>1, <1>5
  <2>3. g \in List \cup {CLIENT, NIL}
    BY <2>2 DEF CellType
  <2> HIDE DEF c1
  <2>4. e.next = cell[n].next /\ e.prev = cell[n].prev /\ e.home = g /\ e.data = d
    BY <2>2 DEF CellType
  <2>5. e \in CellType
    BY <2>2, <2>3 DEF CellType
  <2> HIDE DEF cells, e
  <2> QED
    BY <2>1, <2>4, <2>5, <1>1
<1> HIDE DEF cells, c1
<1>7. Like(cells, c1, n) /\ Like(c1, cells, n)
  BY <1>5, <1>6 DEF Like
<1>8. li1[l].open /\ li1[l].head = h /\ Typed(c1, li1) /\ \A k \in List \ {l} : li1[k] = list[k]
  BY <1>1, <1>3, <1>4, WithFreeAt DEF AllOK
<1>9. h # NIL => /\ h \in Node /\ Alive(cell, h) /\ t = cell[h].prev /\ t \in Node \cup {NIL}
                 /\ (at = "tail" => t # NIL /\ Alive(cell, t))
  <2>1. h # NIL => h \in Node /\ t = cell[h].prev
    BY <1>1, <1>6
  <2>2. h # NIL /\ at = "tail" => Alive(cell, h) /\ cell[h].prev # NIL /\ Alive(cell, cell[h].prev)
    BY <1>0, TailFaultMeans DEF Head1, Live, Alive
  <2>3. h # NIL /\ at = "head" => Alive(cell, h)
    BY <1>0, OtherFaults DEF Head1, Live, Alive
  <2> QED
    BY <1>0, <1>1, <2>1, <2>2, <2>3 DEF CellType
<1>10. h # NIL => t = c1[h].prev
  BY <1>5, <1>9
<1>11. /\ \A m \in Node : Alive(cell, m) => Alive(c1, m)
       /\ Alive(c1, n)
  <2>1. Alive(c1, n)
    BY <1>3, <1>5 DEF AllOK, NodesOK
  <2> QED
    BY <1>5, <2>1 DEF Alive
<1>12. InsertLinks(c1, h, t, n, l, c2, at)
  <2>1. CASE at = "tail"
    <3>1. c2 = Joins(LinkedTail(l, n, cells), l, n)
      BY <1>0, <2>1 DEF cells
    <3>2. h = Head1(l) /\ (h # NIL => h \in Node /\ t \in Node /\ t = cells[h].prev)
      BY <1>9, <2>1 DEF Head1
    <3> HIDE DEF h, t
    <3>3. InsertLinks(c1, h, t, n, l, Joins(LinkedTail(l, n, cells), l, n), "tail")
      BY <1>5, <1>6, <1>7, <3>2, TailLinks
    <3> QED
      BY <2>1, <3>1, <3>3
  <2>2. CASE at = "head"
    <3>1. c2 = Joins(LinkedHead(l, n, cells), l, n)
      BY <1>0, <2>2 DEF cells
    <3>2. h = Head1(l) /\ (h # NIL => h \in Node /\ t = cells[h].prev)
      BY <1>9, <2>2 DEF Head1
    <3> HIDE DEF h, t
    <3>3. InsertLinks(c1, h, t, n, l, Joins(LinkedHead(l, n, cells), l, n), "head")
      BY <1>5, <1>6, <1>7, <3>2, HeadLinks
    <3> QED
      BY <2>2, <3>1, <3>3
  <2> QED
    BY <1>0, <2>1, <2>2
<1> HIDE DEF h, t, li1
<1>13. Typed(c2, li2) /\ InsertCounts(c1, li1, l, n, at, li2)
  <2>1. c2 \in [Node -> CellType]
    BY <1>12 DEF InsertLinks
  <2>2. li2 = CountedList(at, l, n, cells, f)
    BY <1>0 DEF cells, f
  <2>3. li1 = WithFree(list, l, f)
    BY DEF li1
  <2>4. Counting(at, l, n, cells, f, c1, li1, c2, li2)
    BY <1>0, <1>1, <1>4, <1>5, <1>6, <1>8, <2>1, <2>2, <2>3 DEF Counting
  <2> QED
    BY <2>4, CountedStep
<1>14. Inserts(c1, li1, l, n, at, h, t, c2, li2)
  BY <1>0, <1>5, <1>8, <1>9, <1>10, <1>11, <1>12, <1>13 DEF Inserts
<1>15. /\ \E S2, D2 : AllOK(c2, li2, S2, D2) /\ Grows(c1, li1[l], S[l], c2, li2[l], S2[l])
       /\ Spared(c1, li1, c2, {l})
  BY <1>3, <1>13, <1>14, InsertKeeps
<1>17. li1[l].taint = list[l].taint
  BY <1>1, <1>4, WithFreeAt DEF li1
<1>18. ASSUME NEW s2, Grows(c1, li1[l], S[l], c2, li2[l], s2)
       PROVE  Grows(cell, list[l], S[l], c2, li2[l], s2)
  <2>1. SUFFICES ASSUME Clean(li2[l]) PROVE Grows(cell, list[l], S[l], c2, li2[l], s2)
    BY DEF Grows
  <2>2. Clean(li1[l]) /\ SameData(c1, c2, S[l]) /\ \E m \in Node : s2 = Append(S[l], m)
    BY <1>18, <2>1 DEF Grows
  <2>3. Clean(list[l])
    BY <1>1, <1>8, <1>17, <2>2 DEF Clean
  <2>4. SameData(cell, c1, S[l])
    <3>1. S[l] \in Seq(Node) /\ Holds(cell, l, S[l])
      BY <2>3 DEF AllOK, ListsOK, ListOK
    <3>2. ASSUME NEW i \in 1 .. Len(S[l]) PROVE c1[S[l][i]] = cell[S[l][i]]
      <4>1. S[l][i] \in Node /\ cell[S[l][i]].use = "in" /\ cell[S[l][i]].of = l
        BY <3>1 DEF Holds
      <4> QED
        BY <1>3, <2>3, <4>1 DEF Spared
    <3> QED
      BY <3>2 DEF SameData
  <2> QED
    BY <2>2, <2>3, <2>4 DEF Grows, SameData
<1>16. Spared(cell, list, c2, {l})
  <2>1. ASSUME NEW k \in List \ {l}, Clean(list[k]), NEW m \in Node, cell[m].use = "in", cell[m].of = k
        PROVE  c2[m] = cell[m]
    <3>1. c1[m] = cell[m]
      BY <1>3, <2>1 DEF Spared
    <3>2. li1[k] = list[k]
      BY <1>8
    <3> QED
      BY <1>15, <2>1, <3>1, <3>2 DEF Spared
  <2> QED
    BY <2>1 DEF Spared
<1> QED
  BY <1>15, <1>16, <1>18

LEMMA InsertDataKeeps ==
    ASSUME NEW S, NEW D, AllOK(cell, list, S, D), NEW l \in List,
           InsertTailData(l) \/ InsertHeadData(l), fault' = "none"
    PROVE  /\ \E S2, D2 : /\ AllOK(cell', list', S2, D2)
                          /\ Grows(cell, list[l], S[l], cell', list'[l], S2[l])
           /\ Spared(cell, list, cell', {l}) /\ \A k \in List \ {l} : list'[k] = list[k]
<1>1. list[l].open /\ GrantFault(l) = "none"
  BY DEF InsertTailData, InsertHeadData, On
<1>2. CASE InsertTailData(l)
  <2>1. PICK n \in Node, d \in Data :
           /\ Grants(l, n) /\ TailFault(l) = "none"
           /\ cell' = Joins(LinkedTail(l, n, Granted(l, n, d)), l, n)
           /\ list' = [list EXCEPT ![l] =
                 [Counted(l, n, Granted(l, n, d), FALSE) EXCEPT !.free = FreeAfterGrant(l)]]
    BY <1>2 DEF InsertTailData, Crashes
  <2>2. cell' = Joins(IF "tail" = "tail" THEN LinkedTail(l, n, Granted(l, n, d))
                                         ELSE LinkedHead(l, n, Granted(l, n, d)), l, n)
    BY <2>1
  <2>3. list' = CountedList("tail", l, n, Granted(l, n, d), FreeAfterGrant(l))
    BY <2>1 DEF CountedList, CountedFor
  <2>4. \A k \in List \ {l} : list'[k] = list[k]
    BY <2>1
  <2>5. GrantInsert("tail", l, n, d, cell', list')
    BY <1>1, <2>1, <2>2, <2>3 DEF GrantInsert
  <2> QED
    BY <2>4, <2>5, DataKeeps
<1>3. CASE InsertHeadData(l)
  <2>1. PICK n \in Node, d \in Data :
           /\ Grants(l, n) /\ HeadFault(l) = "none"
           /\ cell' = Joins(LinkedHead(l, n, Granted(l, n, d)), l, n)
           /\ list' = [list EXCEPT ![l] =
                 [Counted(l, n, Granted(l, n, d), Head1(l) # NIL) EXCEPT !.free = FreeAfterGrant(l)]]
    BY <1>3 DEF InsertHeadData, Crashes
  <2>2. cell' = Joins(IF "head" = "tail" THEN LinkedTail(l, n, Granted(l, n, d))
                                         ELSE LinkedHead(l, n, Granted(l, n, d)), l, n)
    BY <2>1
  <2>3. list' = CountedList("head", l, n, Granted(l, n, d), FreeAfterGrant(l))
    BY <2>1 DEF CountedList, CountedFor
  <2>4. \A k \in List \ {l} : list'[k] = list[k]
    BY <2>1
  <2>5. GrantInsert("head", l, n, d, cell', list')
    BY <1>1, <2>1, <2>2, <2>3 DEF GrantInsert
  <2> QED
    BY <2>4, <2>5, DataKeeps
<1> QED
  BY <1>2, <1>3

-----------------------------------------------------------------------------
(* Removing the node n.                                                    *)
Back(c, h, n) == IF c[n].next # NIL THEN c[n].next ELSE h

RemoveLinks(c, h, n, c2) ==
    /\ c2 \in [Node -> CellType]
    /\ Back(c, h, n) \in Node /\ Alive(c, Back(c, h, n))
    /\ h # n => c[n].prev \in Node /\ Alive(c, c[n].prev)
    /\ \A m \in Node : c2[m].home = c[m].home /\ c2[m].data = c[m].data
    /\ \A m \in Node \ {n} : c2[m].use = c[m].use /\ c2[m].of = c[m].of
    /\ \A m \in Node : m # n /\ m # Back(c, h, n) /\ (h = n \/ m # c[n].prev) => c2[m] = c[m]
    /\ \A m \in Node :
          /\ c2[m].prev = IF m = Back(c, h, n) THEN c[n].prev ELSE c[m].prev
          /\ c2[m].next = IF h # n /\ m = c[n].prev THEN c[n].next ELSE c[m].next

LEMMA RemoveLinked ==
    ASSUME cell \in [Node -> CellType], list \in [List -> ListType],
           NEW l \in List, NEW n \in Node, RemoveFault(l, n) = "none",
           NEW u, u \in {"none", "idle", "in"}, NEW v, v \in List \cup {NIL},
           NEW c2, c2 = SetOf(SetUse(Unlinked(l, n), n, u), n, v)
    PROVE  RemoveLinks(cell, list[l].head, n, c2) /\ c2[n].use = u /\ c2[n].of = v
<1> DEFINE h == list[l].head
           back == Back(cell, h, n)
           p == cell[n].prev
           q == cell[n].next
<1>1. h \in Node \cup {NIL} /\ p \in Node \cup {NIL} /\ q \in Node \cup {NIL}
  BY DEF ListType, CellType
<1>2. /\ back # NIL /\ Alive(cell, back)
      /\ h # n => p # NIL /\ Alive(cell, p)
  <2>1. back = IF cell[n].next # NIL THEN cell[n].next ELSE Head1(l)
    BY DEF Back, Head1
  <2> QED
    BY <2>1, RemoveFaultMeans DEF Head1, Live, Alive
<1>3. back \in Node
  BY <1>1, <1>2 DEF Back
<1> DEFINE a == SetPrev(cell, back, p)
           b == IF h = n THEN a ELSE SetNext(a, p, q)
<1> HIDE DEF h, p, q
<1>4. /\ a \in [Node -> CellType] /\ \A m \in Node \ {back} : a[m] = cell[m]
      /\ a[back].prev = p /\ a[back].next = cell[back].next
      /\ a[back].home = cell[back].home /\ a[back].data = cell[back].data
      /\ a[back].use = cell[back].use /\ a[back].of = cell[back].of
  <2> HIDE DEF back
  <2> QED
    BY <1>1, <1>3, PrevSet
<1> HIDE DEF a
<1>5. a[n].prev = p
  BY <1>4 DEF p
<1>6. Unlinked(l, n) = b
  <2>1. a = [cell EXCEPT ![back].prev = p] /\ SetNext(a, p, q) = [a EXCEPT ![p].next = q]
    BY DEF a, SetPrev, SetNext
  <2>2. Unlinked(l, n) = IF h = n THEN a ELSE [a EXCEPT ![a[n].prev].next = q]
    BY <2>1 DEF Unlinked, Back, h, p, q, Head1
  <2> QED
    BY <1>5, <2>1, <2>2
<1>7. /\ b \in [Node -> CellType]
      /\ \A m \in Node : m # back /\ (h = n \/ m # p) => b[m] = cell[m]
      /\ \A m \in Node : /\ b[m].home = cell[m].home /\ b[m].data = cell[m].data
                         /\ b[m].use = cell[m].use /\ b[m].of = cell[m].of
                         /\ b[m].prev = IF m = back THEN p ELSE cell[m].prev
                         /\ b[m].next = IF h # n /\ m = p THEN q ELSE cell[m].next
  <2> HIDE DEF back
  <2>1. CASE h = n
    BY <1>4, <2>1
  <2>2. CASE h # n
    <3> DEFINE e == SetNext(a, p, q)
    <3>1. p \in Node
      BY <1>1, <1>2, <2>2
    <3>2. /\ e \in [Node -> CellType] /\ \A m \in Node \ {p} : e[m] = a[m]
          /\ e[p].next = q /\ e[p].prev = a[p].prev
          /\ e[p].home = a[p].home /\ e[p].data = a[p].data
          /\ e[p].use = a[p].use /\ e[p].of = a[p].of
      BY <1>1, <1>4, <3>1, NextSet
    <3>3. b = e
      BY <2>2
    <3> HIDE DEF e, b
    <3>4. \A m \in Node : m # back /\ m # p => b[m] = cell[m]
      BY <1>4, <3>2, <3>3
    <3>5. ASSUME NEW m \in Node
          PROVE  /\ b[m].home = cell[m].home /\ b[m].data = cell[m].data
                 /\ b[m].use = cell[m].use /\ b[m].of = cell[m].of
                 /\ b[m].prev = IF m = back THEN p ELSE cell[m].prev
                 /\ b[m].next = IF m = p THEN q ELSE cell[m].next
      <4>1. /\ a[m].home = cell[m].home /\ a[m].data = cell[m].data
            /\ a[m].use = cell[m].use /\ a[m].of = cell[m].of /\ a[m].next = cell[m].next
            /\ a[m].prev = IF m = back THEN p ELSE cell[m].prev
        BY <1>4
      <4> QED
        BY <3>2, <3>3, <4>1
    <3> QED
      BY <2>2, <3>2, <3>3, <3>4, <3>5
  <2> QED
    BY <2>1, <2>2
<1> HIDE DEF b
<1>8. /\ c2 \in [Node -> CellType] /\ \A m \in Node \ {n} : c2[m] = b[m]
      /\ c2[n].next = b[n].next /\ c2[n].prev = b[n].prev
      /\ c2[n].home = b[n].home /\ c2[n].data = b[n].data
      /\ c2[n].use = u /\ c2[n].of = v
  BY <1>6, <1>7, UseSet
<1> HIDE DEF back
<1>9. /\ \A m \in Node : c2[m].home = cell[m].home /\ c2[m].data = cell[m].data
      /\ \A m \in Node \ {n} : c2[m].use = cell[m].use /\ c2[m].of = cell[m].of
      /\ \A m \in Node : m # n /\ m # back /\ (h = n \/ m # p) => c2[m] = cell[m]
      /\ \A m \in Node :
            /\ c2[m].prev = IF m = back THEN p ELSE cell[m].prev
            /\ c2[m].next = IF h # n /\ m = p THEN q ELSE cell[m].next
  BY <1>7, <1>8
<1> QED
  BY <1>1, <1>2, <1>3, <1>8, <1>9 DEF RemoveLinks, h, back, p, q

(* n is taken out of l, which is broken.                                   *)
RemoveCounts(c, li, l, n, c2, li2) ==
    /\ \A k \in List \ {l} : li2[k] = li[k]
    /\ li[l].open /\ li2[l].open
    /\ li2[l].taint = li[l].taint /\ li2[l].count = li[l].count - 1
    /\ li2[l].head = IF li[l].head = n THEN c[n].next ELSE li[l].head
    /\ \/ li2[l].free = li[l].free
       \/ li2[l].free = Append(li[l].free, n) /\ c2[n].use = "none"

LEMMA RemoveBreaks ==
    ASSUME NEW c, NEW li, NEW S, NEW D, AllOK(c, li, S, D), NEW l \in List, NEW n \in D,
           NEW c2, NEW li2, Typed(c2, li2), li[l].taint,
           RemoveLinks(c, li[l].head, n, c2), RemoveCounts(c, li, l, n, c2, li2),
           c2[n].use = "none" => c2[n].of = NIL, c2[n].use # "none" => c2[n].of = l
    PROVE  AllOK(c2, li2, S, D) /\ Spared(c, li, c2, {l})
<1> DEFINE h == li[l].head
           p == c[n].prev
           q == c[n].next
           back == Back(c, h, n)
<1>1. /\ Typed(c, li) /\ D \in SUBSET Node /\ StrayOK(c, li, D) /\ NodesOK(c, li)
      /\ li2[l].taint /\ li[l].open /\ n \in Node /\ li2[l].open
  BY DEF AllOK, RemoveCounts
<1>2. /\ Frays(c, D, l, D)
      /\ \A w \in D : Leads(c, D, c[w].next) /\ Leads(c, D, c[w].prev)
      /\ Leads(c, D, h)
  <2>1. Reach(c, D, l) = D
    BY <1>1, ReachLeads
  <2> QED
    BY <1>1, <2>1, ReachLeads
<1>3. \A x : (Alive(c2, x) <=> Alive(c, x)) \/ x \notin Node
  BY DEF RemoveLinks, Alive
<1>4. /\ \A m \in Node : c2[m].home = c[m].home /\ c2[m].data = c[m].data
      /\ \A m \in Node \ {n} : c2[m].use = c[m].use /\ c2[m].of = c[m].of
      /\ \A m \in Node : m # n /\ m # back /\ (h = n \/ m # p) => c2[m] = c[m]
      /\ \A m \in Node :
            /\ c2[m].prev = IF m = back THEN p ELSE c[m].prev
            /\ c2[m].next = IF h # n /\ m = p THEN q ELSE c[m].next
  BY DEF RemoveLinks
<1>5. back \in D /\ (h # n => p \in D)
  <2>1. back \in Node /\ Alive(c, back) /\ (h # n => p \in Node /\ Alive(c, p))
    BY DEF RemoveLinks
  <2>2. back = q \/ back = h
    BY DEF Back
  <2>3. back # NIL /\ (h # n => p # NIL)
    BY <2>1, NilAssumption
  <2> QED
    BY <1>2, <2>1, <2>2, <2>3 DEF Leads
<1> HIDE DEF back
<1>6. /\ q \in Node \cup {NIL} /\ p \in Node \cup {NIL} /\ h \in Node \cup {NIL}
      /\ \A w \in D : c[w].next \in Node \cup {NIL} /\ c[w].prev \in Node \cup {NIL}
  BY <1>1 DEF Typed, CellType, ListType
<1>7. \A x \in Node \cup {NIL} : Leads(c, D, x) => Leads(c2, D, x)
  BY <1>3 DEF Leads
<1>8. Within(c, c2, li2, D)
  <2>1. \A m \in Node \ D : c2[m] = c[m]
    BY <1>4, <1>5
  <2>2. ASSUME NEW w \in D
        PROVE  /\ c2[w].home = c[w].home /\ c2[w].data = c[w].data
               /\ Leads(c2, D, c2[w].next) /\ Leads(c2, D, c2[w].prev)
    <3>1. Leads(c, D, c[w].next) /\ Leads(c, D, c[w].prev) /\ Leads(c, D, p) /\ Leads(c, D, q)
      BY <1>2
    <3>2. c2[w].prev \in {p, c[w].prev} /\ c2[w].next \in {q, c[w].next}
      BY <1>1, <1>4
    <3> QED
      BY <1>1, <1>4, <1>6, <1>7, <3>1, <3>2
  <2>3. ASSUME NEW w \in D
        PROVE  /\ c2[w].use = "none" => c2[w].of = NIL
               /\ c2[w].use # "none" => c2[w].of \in List /\ li2[c2[w].of].open /\ ~Clean(li2[c2[w].of])
    <3>1. CASE w = n
      BY <1>1, <3>1 DEF Clean
    <3>2. CASE w # n
      <4>1. c2[w].use = c[w].use /\ c2[w].of = c[w].of /\ w \in Node
        BY <1>1, <1>4, <3>2
      <4>2. /\ c[w].use = "none" => c[w].of = NIL
            /\ c[w].use # "none" => c[w].of \in List /\ li[c[w].of].open /\ ~Clean(li[c[w].of])
        BY <1>1, <4>1 DEF NodesOK, StrayOK, Unclean
      <4>3. \A k \in List \ {l} : li2[k] = li[k]
        BY DEF RemoveCounts
      <4> QED
        BY <1>1, <4>1, <4>2, <4>3 DEF Clean
    <3> QED
      BY <3>1, <3>2
  <2> QED
    BY <2>1, <2>2, <2>3 DEF Within
<1>9. Breaks(li, c2, li2, l, D, D)
  <2>1. Leads(c2, D, li2[l].head)
    <3>1. li2[l].head \in {q, h}
      BY DEF RemoveCounts
    <3>2. Leads(c, D, q)
      BY <1>2
    <3> QED
      BY <1>2, <1>6, <1>7, <3>1, <3>2
  <2>2. \/ li2[l].free = li[l].free
        \/ li2[l].free = Append(li[l].free, n) /\ c2[n].use = "none"
    BY DEF RemoveCounts
  <2>3. \A k \in List \ {l} : li2[k] = li[k]
    BY DEF RemoveCounts
  <2> QED
    BY <1>1, <2>1, <2>2, <2>3 DEF Breaks
<1> QED
  BY <1>2, <1>8, <1>9, BreakingKeeps

LEMMA WithoutAt ==
    ASSUME NEW s, s \in Seq(Node), NEW k, k \in 1 .. Len(s)
    PROVE  /\ Without(s, k) \in Seq(Node) /\ Len(Without(s, k)) = Len(s) - 1
           /\ \A i \in 1 .. Len(s) - 1 :
                 Without(s, k)[i] = IF i < k THEN s[i] ELSE s[i + 1]
<1>1. Len(s) \in Nat /\ Len(s) - 1 \in Nat
  OBVIOUS
<1>2. \A i \in 1 .. Len(s) - 1 : s[i] \in Node /\ s[i + 1] \in Node
  BY <1>1
<1>3. Without(s, k) \in [1 .. Len(s) - 1 -> Node]
  BY <1>1, <1>2 DEF Without
<1> QED
  BY <1>1, <1>3 DEF Without

LEMMA WithoutThreads ==
    ASSUME NEW c, NEW h, NEW s, s \in Seq(Node), Threads(c, s, h), NEW k, k \in 1 .. Len(s),
           NEW c2, RemoveLinks(c, h, s[k], c2)
    PROVE  Threads(c2, Without(s, k), IF h = s[k] THEN c[s[k]].next ELSE h)
<1> DEFINE z == Len(s)
           s2 == Without(s, k)
           n == s[k]
           p == c[n].prev
           q == c[n].next
           back == Back(c, h, n)
<1>1. z \in Nat /\ k \in Nat /\ 1 <= k /\ k <= z /\ \A i \in 1 .. z : s[i] \in Node
  OBVIOUS
<1>2. Len(s2) = z - 1 /\ \A i \in 1 .. z - 1 : s2[i] = IF i < k THEN s[i] ELSE s[i + 1]
  BY WithoutAt
<1>3. /\ \A i, j \in 1 .. z : s[i] = s[j] => i = j
      /\ h = s[1]
      /\ \A i \in 1 .. z : c[s[i]].next = IF i = z THEN NIL ELSE s[i + 1]
      /\ \A i \in 2 .. z : c[s[i]].prev = s[i - 1]
      /\ c[s[1]].prev \in {s[z], NIL}
  BY <1>1 DEF Threads
<1>4. /\ q = IF k = z THEN NIL ELSE s[k + 1]
      /\ k # 1 => p = s[k - 1]
      /\ h = n <=> k = 1
  BY <1>1, <1>3
<1>5. back = IF k = z THEN s[1] ELSE s[k + 1]
  <2>1. k # z => k + 1 \in 1 .. z
    BY <1>1
  <2>2. k # z => s[k + 1] \in Node /\ s[k + 1] # NIL
    BY <1>1, <2>1, NilAssumption
  <2> QED
    BY <1>3, <1>4, <2>2 DEF Back
<1>6. \A m \in Node :
         /\ c2[m].prev = IF m = back THEN p ELSE c[m].prev
         /\ c2[m].next = IF h # n /\ m = p THEN q ELSE c[m].next
  BY DEF RemoveLinks
<1> HIDE DEF s2, z, n, p, q, back
<1>7. \A i, j \in 1 .. z - 1 : s2[i] = s2[j] => i = j
  <2> SUFFICES ASSUME NEW i \in 1 .. z - 1, NEW j \in 1 .. z - 1, s2[i] = s2[j] PROVE i = j
    OBVIOUS
  <2>1. i \in 1 .. z /\ i + 1 \in 1 .. z /\ j \in 1 .. z /\ j + 1 \in 1 .. z
    BY <1>1
  <2>2. s2[i] = (IF i < k THEN s[i] ELSE s[i + 1]) /\ s2[j] = (IF j < k THEN s[j] ELSE s[j + 1])
    BY <1>2
  <2>3. CASE i < k /\ j < k
    BY <1>3, <2>1, <2>2, <2>3
  <2>4. CASE i < k /\ ~(j < k)
    <3>1. s[i] = s[j + 1]
      BY <2>2, <2>4
    <3>2. i = j + 1
      BY ONLY <1>3, <2>1, <3>1
    <3> QED
      BY <1>1, <2>1, <2>4, <3>2
  <2>5. CASE ~(i < k) /\ j < k
    <3>1. s[i + 1] = s[j]
      BY <2>2, <2>5
    <3>2. i + 1 = j
      BY ONLY <1>3, <2>1, <3>1
    <3> QED
      BY <1>1, <2>1, <2>5, <3>2
  <2>6. CASE ~(i < k) /\ ~(j < k)
    <3>1. s[i + 1] = s[j + 1]
      BY <2>2, <2>6
    <3>2. i + 1 = j + 1
      BY ONLY <1>3, <2>1, <3>1
    <3> QED
      BY <1>1, <2>1, <3>2
  <2> QED
    BY <2>3, <2>4, <2>5, <2>6
<1>8. (IF h = n THEN q ELSE h) = IF z - 1 = 0 THEN NIL ELSE s2[1]
  <2>1. z - 1 # 0 => 1 \in 1 .. z - 1
    BY <1>1
  <2> QED
    BY <1>1, <1>2, <1>3, <1>4, <2>1
<1>9. ASSUME NEW i \in 1 .. z - 1
      PROVE  c2[s2[i]].next = IF i = z - 1 THEN NIL ELSE s2[i + 1]
  <2>1. i \in 1 .. z /\ i + 1 \in 1 .. z /\ (i # z - 1 => i + 1 \in 1 .. z - 1)
    BY <1>1
  <2>2. s2[i] = (IF i < k THEN s[i] ELSE s[i + 1])
        /\ (i # z - 1 => s2[i + 1] = IF i + 1 < k THEN s[i + 1] ELSE s[i + 2])
    BY <1>2, <2>1
  <2>3. CASE i = k - 1
    <3>1. s2[i] = s[k - 1] /\ h # n /\ s[k - 1] = p /\ s[k - 1] \in Node
      BY <1>1, <1>4, <2>1, <2>2, <2>3
    <3>2. c2[s2[i]].next = q
      BY <1>6, <3>1
    <3> QED
      BY <1>1, <1>4, <2>2, <2>3, <3>2
  <2>4. CASE i < k - 1
    <3>1. k # 1 /\ k - 1 \in 1 .. z /\ i # k - 1 /\ i # z /\ i < k /\ i + 1 < k /\ i # z - 1
      BY <1>1, <2>1, <2>4
    <3>2. s2[i] = s[i] /\ s2[i + 1] = s[i + 1] /\ s[i] # s[k - 1] /\ s[i] \in Node
      BY <1>1, <1>3, <2>1, <2>2, <3>1
    <3>3. c2[s[i]].next = c[s[i]].next
      BY <1>4, <1>6, <3>1, <3>2
    <3>4. c[s[i]].next = s[i + 1]
      BY <1>3, <2>1, <3>1
    <3> QED
      BY <3>1, <3>2, <3>3, <3>4
  <2>5. CASE i >= k
    <3>1. s2[i] = s[i + 1] /\ s[i + 1] \in Node /\ (i # z - 1 => s2[i + 1] = s[i + 2])
      BY <1>1, <2>1, <2>2, <2>5
    <3>2. k # 1 => s[i + 1] # s[k - 1]
      <4>1. k # 1 => k - 1 \in 1 .. z /\ i + 1 # k - 1
        BY <1>1, <2>1, <2>5
      <4> QED
        BY <1>3, <2>1, <4>1
    <3>3. c2[s[i + 1]].next = c[s[i + 1]].next
      BY <1>4, <1>6, <3>1, <3>2
    <3>4. c[s[i + 1]].next = IF i + 1 = z THEN NIL ELSE s[(i + 1) + 1]
      BY <1>3, <2>1
    <3>5. (i + 1 = z <=> i = z - 1) /\ (i + 1) + 1 = i + 2
      BY <1>1, <2>1
    <3> QED
      BY <3>1, <3>3, <3>4, <3>5
  <2> QED
    BY <1>1, <2>1, <2>3, <2>4, <2>5
<1>10. ASSUME NEW i \in 2 .. z - 1
       PROVE  c2[s2[i]].prev = s2[i - 1]
  <2>1. /\ i \in 1 .. z /\ i + 1 \in 1 .. z /\ i - 1 \in 1 .. z - 1 /\ i \in 1 .. z - 1
        /\ i \in 2 .. z /\ i + 1 \in 2 .. z
    BY <1>1
  <2>2. s2[i] = (IF i < k THEN s[i] ELSE s[i + 1])
        /\ s2[i - 1] = IF i - 1 < k THEN s[i - 1] ELSE s[(i - 1) + 1]
    BY <1>2, <2>1
  <2>3. CASE i < k
    <3>1. s2[i] = s[i] /\ s2[i - 1] = s[i - 1] /\ s[i] \in Node
      BY <1>1, <2>1, <2>2, <2>3
    <3>2. s[i] # back
      <4>1. 1 \in 1 .. z /\ i # 1 /\ (k # z => k + 1 \in 1 .. z /\ k + 1 # i)
        BY <1>1, <2>1, <2>3
      <4> QED
        BY <1>3, <1>5, <2>1, <4>1
    <3>3. c[s[i]].prev = s[i - 1]
      BY <1>3, <2>1
    <3> QED
      BY <1>6, <3>1, <3>2, <3>3
  <2>4. CASE i = k
    <3>1. s2[i] = s[k + 1] /\ s2[i - 1] = s[k - 1] /\ s[k + 1] \in Node /\ k # z /\ k # 1
      BY <1>1, <2>1, <2>2, <2>4
    <3> QED
      BY <1>4, <1>5, <1>6, <3>1
  <2>5. CASE i > k
    <3>1. ~(i - 1 < k) /\ (i - 1) + 1 = i
      BY <1>1, <2>1, <2>5
    <3>2. s2[i] = s[i + 1] /\ s2[i - 1] = s[i] /\ s[i + 1] \in Node
      BY <1>1, <2>1, <2>2, <2>5, <3>1
    <3>3. s[i + 1] # back
      <4>1. 1 \in 1 .. z /\ i + 1 # 1 /\ (k # z => k + 1 \in 1 .. z /\ k + 1 # i + 1)
        BY <1>1, <2>1, <2>5
      <4> QED
        BY <1>3, <1>5, <2>1, <4>1
    <3>4. c[s[i + 1]].prev = s[(i + 1) - 1] /\ (i + 1) - 1 = i
      BY <1>3, <2>1
    <3> QED
      BY <1>6, <3>2, <3>3, <3>4
  <2> QED
    BY <1>1, <2>1, <2>3, <2>4, <2>5
<1>11. z - 1 > 0 => c2[s2[1]].prev \in {s2[z - 1], NIL}
  <2> SUFFICES ASSUME z - 1 > 0 PROVE c2[s2[1]].prev \in {s2[z - 1], NIL}
    OBVIOUS
  <2>1. 1 \in 1 .. z - 1 /\ z - 1 \in 1 .. z - 1 /\ 2 \in 1 .. z /\ 1 \in 1 .. z /\ (z - 1) + 1 = z
    BY <1>1
  <2>2. /\ s2[1] = (IF 1 < k THEN s[1] ELSE s[1 + 1])
        /\ s2[z - 1] = IF z - 1 < k THEN s[z - 1] ELSE s[z]
    BY <1>2, <2>1
  <2>3. CASE k = 1
    <3>1. s2[1] = s[2] /\ s[2] \in Node /\ s2[z - 1] = s[z] /\ back = s[2]
      BY <1>1, <1>5, <2>1, <2>2, <2>3
    <3>2. c2[s[2]].prev = p /\ p = c[s[1]].prev
      BY <1>6, <2>3, <3>1 DEF p, n
    <3> QED
      BY <1>3, <3>1, <3>2
  <2>4. CASE k # 1 /\ k = z
    <3>1. s2[1] = s[1] /\ s[1] \in Node /\ s2[z - 1] = s[z - 1] /\ back = s[1] /\ p = s[k - 1]
      BY <1>1, <1>4, <1>5, <2>1, <2>2, <2>4
    <3> QED
      BY <1>6, <2>4, <3>1
  <2>5. CASE k # 1 /\ k # z
    <3>1. s2[1] = s[1] /\ s[1] \in Node /\ s2[z - 1] = s[z] /\ back = s[k + 1]
      BY <1>1, <1>5, <2>1, <2>2, <2>5
    <3>2. k + 1 \in 1 .. z /\ k + 1 # 1
      BY <1>1, <2>5
    <3>3. s[1] # back
      BY <1>3, <2>1, <3>1, <3>2
    <3> QED
      BY <1>3, <1>6, <3>1, <3>3
  <2> QED
    BY <2>3, <2>4, <2>5
<1> QED
  BY <1>2, <1>7, <1>8, <1>9, <1>10, <1>11 DEF Threads, s2, z, n, q

LEMMA RemoveKeeps ==
    ASSUME NEW c, NEW li, NEW S, NEW D, AllOK(c, li, S, D), NEW l \in List, NEW n \in Node,
           NEW c2, NEW li2, Typed(c2, li2), Clean(li[l]), c[n].use = "in", c[n].of = l,
           RemoveLinks(c, li[l].head, n, c2), RemoveCounts(c, li, l, n, c2, li2),
           c2[n].use = "idle", c2[n].of = l
    PROVE  /\ \E S2 : AllOK(c2, li2, S2, D) /\ Shrinks(c, li[l], S[l], c2, li2[l], S2[l])
           /\ Spared(c, li, c2, {l})
<1> DEFINE s == S[l]
           h == li[l].head
<1>1. /\ s \in Seq(Node) /\ Threads(c, s, h) /\ li[l].count = Len(s) /\ Holds(c, l, s)
      /\ Len(s) \in Nat
  BY DEF AllOK, ListsOK, ListOK
<1> HIDE DEF s
<1>2. PICK k \in 1 .. Len(s) : s[k] = n
  BY <1>1 DEF Holds
<1> DEFINE s2 == Without(s, k)
<1>3. /\ s2 \in Seq(Node) /\ Len(s2) = Len(s) - 1
      /\ \A i \in 1 .. Len(s) - 1 : s2[i] = IF i < k THEN s[i] ELSE s[i + 1]
  BY <1>1, WithoutAt
<1>4. Threads(c2, s2, IF h = n THEN c[n].next ELSE h)
  BY <1>1, <1>2, WithoutThreads
<1> HIDE DEF s2
<1>5. /\ \A m \in Node : c2[m].home = c[m].home /\ c2[m].data = c[m].data
      /\ \A m \in Node \ {n} : c2[m].use = c[m].use /\ c2[m].of = c[m].of
  BY DEF RemoveLinks
<1>6. \A i, j \in 1 .. Len(s) : s[i] = s[j] => i = j
  BY <1>1 DEF Threads
<1>7. Holds(c2, l, s2)
  <2>1. ASSUME NEW i \in 1 .. Len(s2) PROVE \E j \in 1 .. Len(s) : j # k /\ s2[i] = s[j]
    <3>1. i \in 1 .. Len(s) /\ i + 1 \in 1 .. Len(s) /\ (i >= k => i + 1 # k)
      BY <1>1, <1>3
    <3> QED
      BY <1>1, <1>3, <3>1
  <2>2. ASSUME NEW j \in 1 .. Len(s), j # k PROVE \E i \in 1 .. Len(s2) : s2[i] = s[j]
    <3>1. CASE j < k
      <4>1. j \in 1 .. Len(s) - 1
        BY <1>1, <3>1
      <4> QED
        BY <1>3, <3>1, <4>1
    <3>2. CASE j > k
      <4>1. j - 1 \in 1 .. Len(s) - 1 /\ ~(j - 1 < k) /\ (j - 1) + 1 = j
        BY <1>1, <3>2
      <4> QED
        BY <1>3, <4>1
    <3> QED
      BY <1>1, <2>2, <3>1, <3>2
  <2>3. ASSUME NEW m \in Node
        PROVE  (\E i \in 1 .. Len(s2) : s2[i] = m) <=> c2[m].use = "in" /\ c2[m].of = l
    <3>1. (\E i \in 1 .. Len(s2) : s2[i] = m) => m # n /\ \E j \in 1 .. Len(s) : s[j] = m
      BY <1>2, <1>6, <2>1
    <3>2. m # n /\ (\E j \in 1 .. Len(s) : s[j] = m) => \E i \in 1 .. Len(s2) : s2[i] = m
      BY <1>2, <2>2
    <3>3. (\E j \in 1 .. Len(s) : s[j] = m) <=> c[m].use = "in" /\ c[m].of = l
      BY <1>1 DEF Holds
    <3>4. CASE m = n
      BY <3>1, <3>4
    <3>5. CASE m # n
      BY <1>5, <3>1, <3>2, <3>3, <3>5
    <3> QED
      BY <3>4, <3>5
  <2>4. ASSUME NEW i \in 1 .. Len(s2) PROVE c2[s2[i]].home \in {l, CLIENT}
    <3>1. PICK j \in 1 .. Len(s) : s2[i] = s[j]
      BY <2>1
    <3>2. s[j] \in Node /\ c[s[j]].home \in {l, CLIENT}
      BY <1>1 DEF Holds
    <3> QED
      BY <1>5, <3>1, <3>2
  <2> QED
    BY <2>3, <2>4 DEF Holds
<1>8. ListOK(c2, li2[l], l, s2)
  <2>1. li2[l].head = (IF h = n THEN c[n].next ELSE h) /\ li2[l].count = Len(s2)
    BY <1>1, <1>3 DEF RemoveCounts
  <2> QED
    BY <1>4, <1>7, <2>1 DEF ListOK
<1>9. Rewires(c, c2, l)
  <2>1. /\ Back(c, h, n) \in Node /\ c[Back(c, h, n)].use = "in" /\ c[Back(c, h, n)].of = l
        /\ h # n => c[n].prev \in Node /\ c[c[n].prev].use = "in" /\ c[c[n].prev].of = l
    <3>1. /\ \A i \in 1 .. Len(s) : s[i] \in Node /\ c[s[i]].use = "in" /\ c[s[i]].of = l
          /\ k \in Nat /\ 1 <= k /\ k <= Len(s)
      BY <1>1 DEF Holds
    <3>2. h = s[1] /\ 1 \in 1 .. Len(s) /\ c[n].next = IF k = Len(s) THEN NIL ELSE s[k + 1]
      BY <1>1, <1>2, <3>1 DEF Threads
    <3>3. Back(c, h, n) \in {h, s[k + 1]} /\ (k = Len(s) => Back(c, h, n) = h)
      BY <3>2 DEF Back
    <3>4. k # Len(s) => k + 1 \in 1 .. Len(s)
      BY <1>1, <3>1
    <3>5. h # n => k - 1 \in 1 .. Len(s) /\ k \in 2 .. Len(s) /\ c[n].prev = s[k - 1]
      <4>1. h # n => k # 1
        BY <1>2, <3>2
      <4>2. k # 1 => k - 1 \in 1 .. Len(s) /\ k \in 2 .. Len(s)
        BY <1>1, <3>1
      <4> QED
        BY <1>1, <1>2, <4>1, <4>2 DEF Threads
    <3> QED
      BY <3>1, <3>2, <3>3, <3>4, <3>5
  <2>2. ASSUME NEW m \in Node, c[m].use = "none" \/ c[m].of # l PROVE c2[m] = c[m]
    <3>1. m # n /\ m # Back(c, h, n) /\ (h = n \/ m # c[n].prev)
      BY <2>1, <2>2
    <3> QED
      BY <3>1 DEF RemoveLinks
  <2>3. ASSUME NEW m \in Node, c[m].use # "none", c[m].of = l
        PROVE  /\ c2[m].home = c[m].home /\ c2[m].data = c[m].data
               /\ c2[m].use # "none" /\ c2[m].of = l
    BY <1>5, <2>3
  <2> QED
    BY <2>2, <2>3 DEF Rewires
<1>10. StaysClean(li, li2, l)
  <2>1. li2[l].free = li[l].free
    BY DEF RemoveCounts
  <2> QED
    BY <2>1 DEF StaysClean, RemoveCounts, Clean
<1>11. AllOK(c2, li2, [S EXCEPT ![l] = s2], D) /\ Spared(c, li, c2, {l})
  BY <1>3, <1>8, <1>9, <1>10, CleanKeeps
<1>12. Shrinks(c, li[l], S[l], c2, li2[l], s2)
  BY <1>1, <1>2, <1>5 DEF Shrinks, SameData, s2, s
<1>13. [S EXCEPT ![l] = s2][l] = s2
  BY DEF AllOK
<1> QED
  BY <1>11, <1>12, <1>13

ShortenedList(l, n, f) == [list EXCEPT ![l] = [Shortened(l, n) EXCEPT !.free = f]]

LEMMA ShortenedAt ==
    ASSUME Typed(cell, list), NEW l \in List, NEW n \in Node, list[l].open,
           NEW f, f \in Seq(Node), Len(f) <= list[l].max,
           NEW c2, c2 \in [Node -> CellType], NEW li2, li2 = ShortenedList(l, n, f)
    PROVE  /\ Typed(c2, li2) /\ \A k \in List \ {l} : li2[k] = list[k]
           /\ li2[l].open /\ li2[l].taint = list[l].taint /\ li2[l].count = list[l].count - 1
           /\ li2[l].head = IF list[l].head = n THEN cell[n].next ELSE list[l].head
           /\ li2[l].free = f /\ li2[l].max = list[l].max
<1>1. list \in [List -> ListType] /\ list[l] \in ListType /\ cell[n] \in CellType
  BY DEF Typed
<1> DEFINE a == list[l].count - 1
           b == HeadAfter(l, n)
           r == [Shortened(l, n) EXCEPT !.free = f]
<1>2. b = IF list[l].head = n THEN cell[n].next ELSE list[l].head
  BY DEF HeadAfter, Head1
<1>3. a \in Int /\ b \in Node \cup {NIL}
  BY <1>1, <1>2 DEF ListType, CellType
<1>4. r = [list[l] EXCEPT !.count = a, !.head = b, !.free = f]
  BY <1>1 DEF Shortened, ListType
<1>5. li2[l] = r /\ (\A k \in List \ {l} : li2[k] = list[k]) /\ li2 = [k \in List |-> li2[k]]
  BY <1>1 DEF ShortenedList
<1> HIDE DEF a, b, r
<1>6. /\ r.open = list[l].open /\ r.taint = list[l].taint /\ r.count = a /\ r.head = b
      /\ r.free = f /\ r.max = list[l].max
  BY <1>1, <1>4 DEF ListType
<1>7. r \in ListType
  BY <1>1, <1>3, <1>4 DEF ListType
<1>8. Typed(c2, li2)
  <2>1. li2 \in [List -> ListType]
    BY <1>1, <1>5, <1>7
  <2>2. ASSUME NEW k \in List
        PROVE  /\ Len(li2[k].free) <= li2[k].max /\ (li2[k].taint => li2[k].open)
               /\ li2[k].open \/ li2[k].free = << >>
    <3>1. CASE k = l
      BY <1>5, <1>6, <3>1
    <3>2. CASE k # l
      BY <1>5, <3>2 DEF Typed
    <3> QED
      BY <3>1, <3>2
  <2> QED
    BY <2>1, <2>2 DEF Typed
<1> QED
  BY <1>2, <1>5, <1>6, <1>8 DEF a

LEMMA RemoveNodeKeeps ==
    ASSUME NEW S, NEW D, AllOK(cell, list, S, D), NEW l \in List, RemoveNode(l),
           fault' = "none"
    PROVE  /\ \E S2, D2 : /\ AllOK(cell', list', S2, D2)
                          /\ Shrinks(cell, list[l], S[l], cell', list'[l], S2[l])
           /\ Spared(cell, list, cell', {l}) /\ \A k \in List \ {l} : list'[k] = list[k]
<1>1. /\ Typed(cell, list) /\ list \in [List -> ListType] /\ cell \in [Node -> CellType]
      /\ list[l].open /\ list[l].free \in Seq(Node) /\ Len(list[l].free) <= list[l].max
      /\ list[l].taint \in BOOLEAN
  BY DEF AllOK, Typed, ListType, RemoveNode, On
<1>2. PICK n \in Node :
         /\ cell[n].use = "in" /\ cell[n].of = l /\ RemoveFault(l, n) = "none"
         /\ cell' = [Unlinked(l, n) EXCEPT ![n].use = "idle"]
         /\ list' = [list EXCEPT ![l] = Shortened(l, n)]
  BY DEF RemoveNode, Crashes
<1> DEFINE c2 == SetOf(SetUse(Unlinked(l, n), n, "idle"), n, l)
           a == SetUse(Unlinked(l, n), n, "idle")
           h == list[l].head
<1>3. RemoveLinks(cell, h, n, c2) /\ c2[n].use = "idle" /\ c2[n].of = l
  BY <1>1, <1>2, RemoveLinked
<1>4. cell' = c2
  <2>1. cell' = a /\ c2 = [a EXCEPT ![n].of = l]
    BY <1>2 DEF SetUse, SetOf
  <2>2. Unlinked(l, n)[n].of = cell[n].of /\ Unlinked(l, n) \in [Node -> CellType]
    <3> DEFINE U == Unlinked(l, n)
    <3>1. U = (IF h = n THEN [cell EXCEPT ![Back(cell, h, n)].prev = cell[n].prev]
               ELSE [[cell EXCEPT ![Back(cell, h, n)].prev = cell[n].prev]
                        EXCEPT ![[cell EXCEPT ![Back(cell, h, n)].prev = cell[n].prev][n].prev].next = cell[n].next])
      BY DEF Unlinked, Head1, Back
    <3> DEFINE b == SetPrev(cell, Back(cell, h, n), cell[n].prev)
    <3>2. U = IF h = n THEN b ELSE SetNext(b, b[n].prev, cell[n].next)
      BY <3>1 DEF SetPrev, SetNext
    <3>3. /\ Back(cell, h, n) \in Node /\ cell[n].prev \in Node \cup {NIL}
          /\ cell[n].next \in Node \cup {NIL} /\ (h # n => cell[n].prev \in Node)
      BY <1>1, <1>3 DEF RemoveLinks, CellType
    <3>4. /\ b \in [Node -> CellType] /\ b[n].of = cell[n].of /\ b[n].prev = cell[n].prev
      <4> DEFINE k == Back(cell, h, n)
      <4> HIDE DEF k
      <4>1. k \in Node /\ b = SetPrev(cell, k, cell[n].prev)
        BY <3>3 DEF k
      <4>2. /\ b \in [Node -> CellType] /\ \A m \in Node \ {k} : b[m] = cell[m]
            /\ b[k].of = cell[k].of /\ b[k].prev = cell[n].prev
        <5> HIDE DEF b
        <5> QED
          BY <1>1, <3>3, <4>1, PrevSet
      <4> QED
        BY <4>2
    <3> HIDE DEF b, U
    <3>5. h # n => /\ SetNext(b, cell[n].prev, cell[n].next) \in [Node -> CellType]
                   /\ SetNext(b, cell[n].prev, cell[n].next)[n].of = b[n].of
      <4> DEFINE p == cell[n].prev
                 e == SetNext(b, p, cell[n].next)
      <4> HIDE DEF p
      <4>1. ASSUME p \in Node
            PROVE  /\ e \in [Node -> CellType] /\ \A m \in Node \ {p} : e[m] = b[m]
                   /\ e[p].of = b[p].of
        BY <3>3, <3>4, <4>1, NextSet
      <4>2. p \in Node => e \in [Node -> CellType] /\ e[n].of = b[n].of
        BY <4>1
      <4> QED
        BY <3>3, <4>2 DEF p
    <3>6. U \in [Node -> CellType] /\ U[n].of = cell[n].of
      BY <3>2, <3>4, <3>5
    <3> QED
      BY <3>6 DEF U
  <2> DEFINE U == Unlinked(l, n)
  <2> HIDE DEF U
  <2>3. a = [U EXCEPT ![n].use = "idle"] /\ U \in [Node -> CellType] /\ U[n].of = l
    BY <1>2, <2>2 DEF SetUse, U
  <2> HIDE DEF a
  <2>4. a[n] = [U[n] EXCEPT !.use = "idle"] /\ U[n] \in CellType
    BY <2>3
  <2>5. a[n] = [a[n] EXCEPT !.of = l]
    BY <2>3, <2>4 DEF CellType
  <2>6. [a EXCEPT ![n].of = l] = a
    <3>1. a = [m \in Node |-> a[m]]
      BY <2>3
    <3> QED
      BY <2>5, <3>1
  <2> QED
    BY <2>1, <2>6
<1> HIDE DEF c2, h
<1>5. list' = ShortenedList(l, n, list[l].free)
  <2>1. Shortened(l, n) = [Shortened(l, n) EXCEPT !.free = list[l].free]
    <3>1. list[l] \in ListType
      BY <1>1
    <3>2. Shortened(l, n) = [list[l] EXCEPT !.count = list[l].count - 1, !.head = HeadAfter(l, n)]
      BY DEF Shortened
    <3> QED
      BY <3>1, <3>2 DEF ListType
  <2> QED
    BY <1>2, <2>1 DEF ShortenedList
<1>6. c2 \in [Node -> CellType]
  BY <1>3 DEF RemoveLinks
<1> DEFINE li2 == ShortenedList(l, n, list[l].free)
<1>7. /\ Typed(c2, li2) /\ \A k \in List \ {l} : li2[k] = list[k]
      /\ li2[l].open /\ li2[l].taint = list[l].taint /\ li2[l].count = list[l].count - 1
      /\ li2[l].head = IF list[l].head = n THEN cell[n].next ELSE list[l].head
      /\ li2[l].free = list[l].free /\ li2[l].max = list[l].max
  BY <1>1, <1>6, ShortenedAt
<1> HIDE DEF li2
<1>8. RemoveCounts(cell, list, l, n, c2, li2)
  BY <1>1, <1>7 DEF RemoveCounts
<1>9. /\ \E S2, D2 : AllOK(c2, li2, S2, D2) /\ Shrinks(cell, list[l], S[l], c2, li2[l], S2[l])
      /\ Spared(cell, list, c2, {l})
  <2>1. CASE list[l].taint
    <3>1. n \in D
      BY <1>2, <2>1 DEF AllOK, StrayOK
    <3>2. Shrinks(cell, list[l], S[l], c2, li2[l], S[l])
      BY <1>7, <2>1 DEF Shrinks, Clean
    <3> QED
      BY <1>3, <1>7, <1>8, <2>1, <3>1, <3>2, RemoveBreaks DEF h
  <2>2. CASE ~list[l].taint
    <3>1. Clean(list[l])
      BY <1>1, <2>2 DEF Clean
    <3>2. /\ \E S2 : AllOK(c2, li2, S2, D) /\ Shrinks(cell, list[l], S[l], c2, li2[l], S2[l])
          /\ Spared(cell, list, c2, {l})
      BY <1>2, <1>3, <1>7, <1>8, <3>1, RemoveKeeps DEF h
    <3> QED
      BY <3>2
  <2> QED
    BY <2>1, <2>2
<1>10. cell' = c2 /\ list' = li2
  BY <1>4, <1>5 DEF li2
<1> QED
  BY <1>7, <1>9, <1>10

LEMMA RemoveDataKeeps ==
    ASSUME NEW S, NEW D, AllOK(cell, list, S, D), NEW l \in List, RemoveData(l),
           fault' = "none"
    PROVE  /\ \E S2, D2 : /\ AllOK(cell', list', S2, D2)
                          /\ Shrinks(cell, list[l], S[l], cell', list'[l], S2[l])
           /\ Spared(cell, list, cell', {l}) /\ \A k \in List \ {l} : list'[k] = list[k]
<1>1. /\ Typed(cell, list) /\ list \in [List -> ListType] /\ cell \in [Node -> CellType]
      /\ list[l].open /\ list[l].free \in Seq(Node) /\ Len(list[l].free) <= list[l].max
      /\ list[l].taint \in BOOLEAN /\ StrayOK(cell, list, D) /\ D \in SUBSET Node
  BY DEF AllOK, Typed, ListType, RemoveData, On
<1>2. PICK n \in Node, d \in Data :
         /\ FirstWith(l, n, d)
         /\ FirstFault(<<RemoveFault(l, n), RecycleFault(l)>>) = "none"
         /\ cell' = [Unlinked(l, n) EXCEPT ![n].use = "none", ![n].of = NIL]
         /\ list' = [list EXCEPT ![l] = [Shortened(l, n) EXCEPT !.free = FreeAfterRecycle(l, n)]]
  BY DEF RemoveData, Crashes
<1>3. RemoveFault(l, n) = "none"
  <2> DEFINE fs == <<RemoveFault(l, n), RecycleFault(l)>>
  <2>1. fs \in Seq(Faults) /\ Len(fs) = 2 /\ fs[1] = RemoveFault(l, n)
    BY RemoveFaultMeans, OtherFaults
  <2> HIDE DEF fs
  <2>2. FirstFault(fs) = "none" => fs[1] = "none"
    BY <2>1, FirstOf
  <2> QED
    BY <1>2, <2>1, <2>2 DEF fs
<1> DEFINE U == Unlinked(l, n)
           c1 == SetOf(SetUse(U, n, "idle"), n, l)
           c2 == SetOf(SetUse(U, n, "none"), n, NIL)
           f == FreeAfterRecycle(l, n)
           li1 == ShortenedList(l, n, list[l].free)
           li2 == ShortenedList(l, n, f)
           h == list[l].head
<1>4. RemoveLinks(cell, h, n, c1) /\ c1[n].use = "idle" /\ c1[n].of = l
  BY <1>1, <1>3, RemoveLinked
<1>5. RemoveLinks(cell, h, n, c2) /\ c2[n].use = "none" /\ c2[n].of = NIL
  BY <1>1, <1>3, RemoveLinked
<1>6. cell' = c2 /\ list' = li2
  BY <1>2 DEF SetUse, SetOf, ShortenedList
<1> HIDE DEF c1, c2, f
<1>7. f \in Seq(Node) /\ Len(f) <= list[l].max
      /\ (f = list[l].free \/ f = Append(list[l].free, n))
  BY <1>1, RecycledAt DEF f
<1>8. c1 \in [Node -> CellType] /\ c2 \in [Node -> CellType]
  BY <1>4, <1>5 DEF RemoveLinks
<1>9. /\ Typed(c1, li1) /\ \A k \in List \ {l} : li1[k] = list[k]
      /\ li1[l].open /\ li1[l].taint = list[l].taint /\ li1[l].count = list[l].count - 1
      /\ li1[l].head = IF list[l].head = n THEN cell[n].next ELSE list[l].head
      /\ li1[l].free = list[l].free /\ li1[l].max = list[l].max
  BY <1>1, <1>8, ShortenedAt
<1>10. /\ Typed(c2, li2) /\ \A k \in List \ {l} : li2[k] = list[k]
       /\ li2[l].open /\ li2[l].taint = list[l].taint /\ li2[l].count = list[l].count - 1
       /\ li2[l].head = IF list[l].head = n THEN cell[n].next ELSE list[l].head
       /\ li2[l].free = f /\ li2[l].max = list[l].max
  BY <1>1, <1>7, <1>8, ShortenedAt
<1> HIDE DEF li1, li2
<1>11. RemoveCounts(cell, list, l, n, c1, li1)
  BY <1>1, <1>9 DEF RemoveCounts
<1>12. RemoveCounts(cell, list, l, n, c2, li2)
  BY <1>1, <1>5, <1>7, <1>10 DEF RemoveCounts
<1>13. /\ \E S2, D2 : AllOK(c2, li2, S2, D2) /\ Shrinks(cell, list[l], S[l], c2, li2[l], S2[l])
       /\ Spared(cell, list, c2, {l})
  <2>1. CASE list[l].taint
    <3>1. n \in D
      <4>1. Leads(cell, D, list[l].head) /\ \A m \in D : Leads(cell, D, cell[m].next)
        BY <1>1, <2>1 DEF StrayOK
      <4>2. Walk(l) \in Seq(D)
        BY <4>1, WalkStays
      <4> QED
        BY <1>2, <4>2 DEF FirstWith
    <3>2. AllOK(c2, li2, S, D) /\ Spared(cell, list, c2, {l})
      BY <1>5, <1>10, <1>12, <2>1, <3>1, RemoveBreaks DEF h
    <3>3. Shrinks(cell, list[l], S[l], c2, li2[l], S[l])
      BY <1>10, <2>1 DEF Shrinks, Clean
    <3> QED
      BY <3>2, <3>3
  <2>2. CASE ~list[l].taint
    <3>1. Clean(list[l])
      BY <1>1, <2>2 DEF Clean
    <3>2. cell[n].use = "in" /\ cell[n].of = l
      <4>1. Walk(l) = S[l]
        BY <3>1, CleanWalk
      <4>2. S[l] \in Seq(Node) /\ Holds(cell, l, S[l])
        BY <3>1 DEF AllOK, ListsOK, ListOK
      <4>3. \E i \in 1 .. Len(S[l]) : S[l][i] = n
        BY <1>2, <4>1, <4>2 DEF FirstWith
      <4> QED
        BY <4>2, <4>3 DEF Holds
    <3>3. /\ \E S2 : AllOK(c1, li1, S2, D) /\ Shrinks(cell, list[l], S[l], c1, li1[l], S2[l])
          /\ Spared(cell, list, c1, {l})
      BY <1>4, <1>9, <1>11, <3>1, <3>2, RemoveKeeps DEF h
    <3>4. PICK S2 : AllOK(c1, li1, S2, D) /\ Shrinks(cell, list[l], S[l], c1, li1[l], S2[l])
      BY <3>3
    <3>5. /\ \A m \in Node \ {n} : c2[m] = c1[m]
          /\ c2[n].home = c1[n].home /\ c2[n].data = c1[n].data
          /\ c2[n].next = c1[n].next /\ c2[n].prev = c1[n].prev
      <4>1. \A m \in Node : /\ c2[m].home = c1[m].home /\ c2[m].data = c1[m].data
                            /\ c2[m].next = c1[m].next /\ c2[m].prev = c1[m].prev
        BY <1>4, <1>5 DEF RemoveLinks
      <4>2. \A m \in Node \ {n} : c2[m].use = c1[m].use /\ c2[m].of = c1[m].of
        BY <1>4, <1>5 DEF RemoveLinks
      <4>3. ASSUME NEW m \in Node \ {n} PROVE c2[m] = c1[m]
        <5>1. c1[m] \in CellType /\ c2[m] \in CellType
          BY <1>8
        <5> QED
          BY <4>1, <4>2, <5>1 DEF CellType
      <4> QED
        BY <4>1, <4>3
    <3>6. Leaves(li1, n, l, c2, li2)
      <4>1. Alive(c2, n)
        <5>1. Alive(cell, n)
          BY <3>2 DEF AllOK, NodesOK
        <5> QED
          BY <1>5, <5>1 DEF RemoveLinks, Alive
      <4> QED
        BY <1>1, <1>5, <1>7, <1>9, <1>10, <4>1 DEF Leaves
    <3>7. (\E D2 : AllOK(c2, li2, S2, D2)) /\ Spared(c1, li1, c2, {})
      <4>1. AllOK(c2, li2, S2, {m \in D : Alive(c2, m)}) /\ Spared(c1, li1, c2, {})
        <5>1. AllOK(c1, li1, S2, D) /\ c1[n].use = "idle" /\ c1[n].of = l /\ Typed(c2, li2)
          BY <1>4, <1>10, <3>4
        <5> QED
          BY <3>5, <3>6, <5>1, LeavingKeeps
      <4> QED
        BY <4>1
    <3>8. Spared(cell, list, c2, {l})
      <4>1. ASSUME NEW k \in List \ {l}, Clean(list[k]), NEW m \in Node,
                   cell[m].use = "in", cell[m].of = k
            PROVE  c2[m] = cell[m]
        <5>1. c1[m] = cell[m] /\ li1[k] = list[k]
          BY <1>9, <3>3, <4>1 DEF Spared
        <5> QED
          BY <3>7, <4>1, <5>1 DEF Spared
      <4> QED
        BY <4>1 DEF Spared
    <3>9. Shrinks(cell, list[l], S[l], c2, li2[l], S2[l])
      <4>1. Clean(li1[l]) <=> Clean(li2[l])
        BY <1>9, <1>10 DEF Clean
      <4>2. \A m \in Node : c2[m].data = c1[m].data
        BY <3>5
      <4>3. S[l] \in Seq(Node)
        BY DEF AllOK
      <4>4. \A i \in 1 .. Len(S[l]) : S[l][i] \in Node
        BY <4>3
      <4> QED
        BY <3>4, <4>1, <4>2, <4>4 DEF Shrinks, SameData
    <3> QED
      BY <3>7, <3>8, <3>9
  <2> QED
    BY <2>1, <2>2
<1> QED
  BY <1>6, <1>10, <1>13

-----------------------------------------------------------------------------
(* Concatenating d and s.                                                  *)
ConcatCells(c, d, s, hd, hs, c2) ==
    /\ c2 \in [Node -> CellType]
    /\ \A m \in Node :
          /\ c2[m].data = c[m].data /\ c2[m].use = c[m].use
          /\ c2[m].home = IF c[m].home = s THEN d ELSE c[m].home
          /\ c2[m].of = IF c[m].of = s /\ c[m].use = "in" THEN d ELSE c[m].of
    /\ \A m \in Node : /\ c[m].home # s /\ ~(c[m].of = s /\ c[m].use = "in")
                       /\ (hd = NIL \/ m \notin {hd, hs, c[hd].prev})
                       => c2[m] = c[m]
    /\ IF hd = NIL THEN \A m \in Node : c2[m].prev = c[m].prev /\ c2[m].next = c[m].next
       ELSE \A m \in Node :
               /\ c2[m].prev = IF m = hs THEN c[hd].prev
                               ELSE IF m = hd THEN c[hs].prev ELSE c[m].prev
               /\ c2[m].next = IF m = c[hd].prev THEN hs ELSE c[m].next

ConcatLists(li, d, s, li2) ==
    /\ d # s /\ li[d].open /\ li[s].open /\ li2[d].open /\ li2[s].open
    /\ \A k \in List \ {d, s} : li2[k] = li[k]
    /\ li2[d].free = li[d].free /\ li2[s].free = li[s].free
    /\ li2[d].head = IF li[d].head = NIL THEN li[s].head ELSE li[d].head
    /\ li2[d].count = IF li[d].head = NIL THEN li[s].count ELSE li[d].count + li[s].count
    /\ li2[d].taint <=> li[d].taint \/ li[s].taint
    /\ li2[s].head = NIL /\ li2[s].count = 0 /\ (li2[s].taint <=> li[s].taint)

ConcatLink(c, hd, hs) ==
    /\ hs # NIL /\ hs \in Node
    /\ hd # NIL => /\ hd \in Node /\ Alive(c, hd) /\ Alive(c, hs)
                   /\ c[hd].prev \in Node /\ Alive(c, c[hd].prev)

Concats(c, li, d, s, c2, li2) ==
    /\ ConcatLink(c, li[d].head, li[s].head)
    /\ ConcatCells(c, d, s, li[d].head, li[s].head, c2) /\ ConcatLists(li, d, s, li2)

LEMMA JoinedAt ==
    ASSUME NEW a, a \in Seq(Node), NEW b, b \in Seq(Node)
    PROVE  /\ a \o b \in Seq(Node) /\ Len(a \o b) = Len(a) + Len(b)
           /\ \A i \in 1 .. Len(a) + Len(b) :
                 (a \o b)[i] = IF i <= Len(a) THEN a[i] ELSE b[i - Len(a)]
OBVIOUS

LEMMA ConcatThreads ==
    ASSUME NEW c, NEW d, NEW s, NEW hd, NEW hs, NEW c2, NEW a, a \in Seq(Node),
           NEW b, b \in Seq(Node), Threads(c, a, hd), Threads(c, b, hs),
           \A i \in 1 .. Len(a), j \in 1 .. Len(b) : a[i] # b[j],
           ConcatLink(c, hd, hs), ConcatCells(c, d, s, hd, hs, c2)
    PROVE  Threads(c2, a \o b, IF hd = NIL THEN hs ELSE hd)
<1> DEFINE e == a \o b
           y == Len(a)
           z == Len(b)
<1>1. /\ y \in Nat /\ z \in Nat /\ e \in Seq(Node) /\ Len(e) = y + z
      /\ \A i \in 1 .. y + z : e[i] = IF i <= y THEN a[i] ELSE b[i - y]
  BY JoinedAt
<1>2. /\ \A i \in 1 .. y : a[i] \in Node
      /\ \A i \in 1 .. z : b[i] \in Node
  OBVIOUS
<1>3. /\ \A i, j \in 1 .. y : a[i] = a[j] => i = j
      /\ hd = IF y = 0 THEN NIL ELSE a[1]
      /\ \A i \in 1 .. y : c[a[i]].next = IF i = y THEN NIL ELSE a[i + 1]
      /\ \A i \in 2 .. y : c[a[i]].prev = a[i - 1]
      /\ y > 0 => c[a[1]].prev \in {a[y], NIL}
  BY DEF Threads
<1>4. /\ \A i, j \in 1 .. z : b[i] = b[j] => i = j
      /\ hs = IF z = 0 THEN NIL ELSE b[1]
      /\ \A i \in 1 .. z : c[b[i]].next = IF i = z THEN NIL ELSE b[i + 1]
      /\ \A i \in 2 .. z : c[b[i]].prev = b[i - 1]
      /\ z > 0 => c[b[1]].prev \in {b[z], NIL}
  BY DEF Threads
<1>5. \A i \in 1 .. y, j \in 1 .. z : a[i] # b[j]
  OBVIOUS
<1>6. z > 0 /\ hs = b[1] /\ hs # NIL
  BY <1>1, <1>4 DEF ConcatLink
<1>7. hd = NIL <=> y = 0
  <2>1. y # 0 => 1 \in 1 .. y
    BY <1>1
  <2> QED
    BY <1>2, <1>3, <2>1, NilAssumption
<1>8. y # 0 => hd = a[1] /\ c[hd].prev = a[y]
  <2>1. y # 0 => c[hd].prev # NIL
    BY <1>7, NilAssumption DEF ConcatLink
  <2> QED
    BY <1>1, <1>3, <2>1
<1>9. /\ y = 0 => \A m \in Node : c2[m].prev = c[m].prev /\ c2[m].next = c[m].next
      /\ y # 0 => \A m \in Node :
               /\ c2[m].prev = IF m = b[1] THEN a[y]
                               ELSE IF m = a[1] THEN c[b[1]].prev ELSE c[m].prev
               /\ c2[m].next = IF m = a[y] THEN b[1] ELSE c[m].next
  BY <1>6, <1>7, <1>8 DEF ConcatCells
<1> HIDE DEF e, y, z
<1>10. \A i, j \in 1 .. y + z : e[i] = e[j] => i = j
  <2> SUFFICES ASSUME NEW i \in 1 .. y + z, NEW j \in 1 .. y + z, e[i] = e[j] PROVE i = j
    OBVIOUS
  <2>1. /\ e[i] = IF i <= y THEN a[i] ELSE b[i - y]
        /\ e[j] = IF j <= y THEN a[j] ELSE b[j - y]
    BY <1>1
  <2>2. /\ IF i <= y THEN i \in 1 .. y ELSE i - y \in 1 .. z
        /\ IF j <= y THEN j \in 1 .. y ELSE j - y \in 1 .. z
    BY <1>1
  <2>3. CASE i <= y /\ j <= y
    BY <1>3, <2>1, <2>2, <2>3
  <2>4. CASE i <= y /\ ~(j <= y)
    BY <1>5, <2>1, <2>2, <2>4
  <2>5. CASE ~(i <= y) /\ j <= y
    BY <1>5, <2>1, <2>2, <2>5
  <2>6. CASE ~(i <= y) /\ ~(j <= y)
    <3>1. i - y = j - y
      BY <1>4, <2>1, <2>2, <2>6
    <3> QED
      BY <1>1, <3>1
  <2> QED
    BY <2>3, <2>4, <2>5, <2>6
<1>11. (IF hd = NIL THEN hs ELSE hd) = IF y + z = 0 THEN NIL ELSE e[1]
  <2>1. 1 \in 1 .. y + z /\ (y = 0 => 1 - y = 1 /\ ~(1 <= y)) /\ (y # 0 => 1 <= y)
    BY <1>1, <1>6
  <2>2. e[1] = IF 1 <= y THEN a[1] ELSE b[1 - y]
    BY <1>1, <2>1
  <2> QED
    BY <1>1, <1>6, <1>7, <1>8, <2>1, <2>2
<1>12. ASSUME NEW i \in 1 .. y + z
       PROVE  c2[e[i]].next = IF i = y + z THEN NIL ELSE e[i + 1]
  <2>0. i # y + z => i + 1 \in 1 .. y + z
    BY <1>1
  <2>1. /\ e[i] = IF i <= y THEN a[i] ELSE b[i - y]
        /\ i # y + z => e[i + 1] = IF i + 1 <= y THEN a[i + 1] ELSE b[(i + 1) - y]
    BY <1>1, <2>0
  <2>2. CASE i < y
    <3>1. i \in 1 .. y /\ y \in 1 .. y /\ i # y /\ y # 0 /\ i # y + z /\ i + 1 <= y /\ i <= y
      BY <1>1, <2>2
    <3>2. a[i] # a[y] /\ a[i] \in Node /\ c[a[i]].next = a[i + 1]
      BY <1>2, <1>3, <3>1
    <3> QED
      BY <1>9, <2>1, <3>1, <3>2
  <2>3. CASE i = y
    <3>1. i \in 1 .. y /\ y # 0 /\ i # y + z /\ ~(i + 1 <= y) /\ (i + 1) - y = 1 /\ i <= y
      BY <1>1, <1>6, <2>3
    <3> QED
      BY <1>2, <1>9, <2>1, <2>3, <3>1
  <2>4. CASE i > y
    <3>1. /\ i - y \in 1 .. z /\ (i + 1) - y = (i - y) + 1 /\ (i = y + z <=> i - y = z)
          /\ ~(i <= y) /\ ~(i + 1 <= y) /\ (y # 0 => y \in 1 .. y)
      BY <1>1, <2>4
    <3>2. b[i - y] \in Node /\ (y # 0 => b[i - y] # a[y])
      BY <1>2, <1>5, <3>1
    <3>3. c2[b[i - y]].next = c[b[i - y]].next
      BY <1>9, <3>2
    <3>4. c[b[i - y]].next = IF i - y = z THEN NIL ELSE b[(i - y) + 1]
      BY <1>4, <3>1
    <3> QED
      BY <2>1, <3>1, <3>3, <3>4
  <2> QED
    BY <1>1, <2>2, <2>3, <2>4
<1>13. ASSUME NEW i \in 2 .. y + z
       PROVE  c2[e[i]].prev = e[i - 1]
  <2>0. i \in 1 .. y + z /\ i - 1 \in 1 .. y + z /\ 1 \in 1 .. z
    BY <1>1, <1>6
  <2>1. /\ e[i] = IF i <= y THEN a[i] ELSE b[i - y]
        /\ e[i - 1] = IF i - 1 <= y THEN a[i - 1] ELSE b[(i - 1) - y]
    BY <1>1, <2>0
  <2>2. CASE i <= y
    <3>1. i \in 2 .. y /\ i \in 1 .. y /\ 1 \in 1 .. y /\ i # 1 /\ y # 0 /\ i - 1 <= y
      BY <1>1, <2>2
    <3>2. a[i] # a[1] /\ a[i] # b[1] /\ a[i] \in Node /\ c[a[i]].prev = a[i - 1]
      BY <1>2, <1>3, <1>5, <2>0, <3>1
    <3> QED
      BY <1>9, <2>1, <2>2, <3>1, <3>2
  <2>3. CASE i = y + 1
    <3>1. i - y = 1 /\ i - 1 = y /\ ~(i <= y) /\ i - 1 <= y /\ y # 0
      BY <1>1, <2>3
    <3> QED
      BY <1>2, <1>9, <2>0, <2>1, <3>1
  <2>4. CASE i > y + 1
    <3>1. /\ i - y \in 2 .. z /\ i - y \in 1 .. z /\ i - y # 1 /\ (i - 1) - y = (i - y) - 1
          /\ ~(i <= y) /\ ~(i - 1 <= y) /\ (y # 0 => 1 \in 1 .. y)
      BY <1>1, <2>4
    <3>2. /\ b[i - y] \in Node /\ (y # 0 => b[i - y] # a[1]) /\ b[i - y] # b[1]
          /\ c[b[i - y]].prev = b[(i - y) - 1]
      BY <1>2, <1>4, <1>5, <2>0, <3>1
    <3>3. c2[b[i - y]].prev = c[b[i - y]].prev
      BY <1>9, <3>2
    <3> QED
      BY <2>1, <3>1, <3>2, <3>3
  <2> QED
    BY <1>1, <2>2, <2>3, <2>4
<1>14. y + z > 0 => c2[e[1]].prev \in {e[y + z], NIL}
  <2>1. /\ 1 \in 1 .. y + z /\ y + z \in 1 .. y + z /\ (y + z) - y = z /\ ~(y + z <= y)
        /\ 1 \in 1 .. z /\ (y # 0 => 1 \in 1 .. y /\ 1 <= y) /\ (y = 0 => 1 - y = 1 /\ ~(1 <= y))
    BY <1>1, <1>6
  <2>2. e[1] = (IF 1 <= y THEN a[1] ELSE b[1 - y]) /\ e[y + z] = b[z]
    BY <1>1, <2>1
  <2>3. CASE y = 0
    BY <1>2, <1>4, <1>6, <1>9, <2>1, <2>2, <2>3
  <2>4. CASE y # 0
    <3>1. a[1] # b[1] /\ a[1] \in Node
      BY <1>2, <1>5, <2>1, <2>4
    <3>2. c2[a[1]].prev = c[b[1]].prev
      BY <1>9, <2>4, <3>1
    <3> QED
      BY <1>4, <1>6, <2>1, <2>2, <2>4, <3>2
  <2> QED
    BY <2>3, <2>4
<1>15. Len(e) = y + z
  BY <1>1
<1> HIDE DEF e, y, z
<1> QED
  <2> DEFINE p == IF hd = NIL THEN hs ELSE hd
  <2>1. /\ \A i, j \in 1 .. Len(e) : e[i] = e[j] => i = j
        /\ p = IF Len(e) = 0 THEN NIL ELSE e[1]
    BY <1>10, <1>11, <1>15
  <2>2. \A i \in 1 .. Len(e) : c2[e[i]].next = IF i = Len(e) THEN NIL ELSE e[i + 1]
    BY <1>12, <1>15
  <2>3. \A i \in 2 .. Len(e) : c2[e[i]].prev = e[i - 1]
    BY <1>13, <1>15
  <2>4. Len(e) > 0 => c2[e[1]].prev \in {e[Len(e)], NIL}
    BY <1>14, <1>15
  <2> HIDE DEF p
  <2>5. Threads(c2, e, p)
    BY ONLY <2>1, <2>2, <2>3, <2>4 DEF Threads
  <2> QED
    BY <2>5 DEF p, e

(* The nodes that d and s lead to, of which none is part of another list.  *)
LEMMA ConcatApart ==
    ASSUME NEW c, NEW li, NEW S, NEW D, AllOK(c, li, S, D), NEW d \in List, NEW s \in List,
           NEW c2, NEW li2, Concats(c, li, d, s, c2, li2)
    PROVE  LET R == Reach(c, D, d) \cup Reach(c, D, s)
           IN  /\ li[d].head # NIL => /\ li[d].head \in R /\ li[s].head \in R
                                      /\ c[li[d].head].prev \in R
               /\ \A k \in List \ {d, s} : Clean(li[k]) =>
                     \A m \in Node : c[m].use = "in" /\ c[m].of = k => m \notin R /\ c2[m] = c[m]
<1> USE DEF Concats
<1> DEFINE hd == li[d].head
           hs == li[s].head
           R == Reach(c, D, d) \cup Reach(c, D, s)
<1>1. /\ ListsOK(c, li, S) /\ StrayOK(c, li, D) /\ D \in SUBSET Node
      /\ li[d].open /\ li[s].open
  BY DEF AllOK, ConcatLists
<1>2. hd # NIL => hd \in R /\ hs \in R /\ c[hd].prev \in R
  <2>1. /\ Leads(c, Reach(c, D, d), hd) /\ Leads(c, Reach(c, D, s), hs)
        /\ \A w \in Reach(c, D, d) : Leads(c, Reach(c, D, d), c[w].prev)
    BY <1>1, ReachLeads
  <2>2. hd # NIL => /\ Alive(c, hd) /\ Alive(c, hs) /\ hs # NIL
                    /\ c[hd].prev # NIL /\ Alive(c, c[hd].prev)
    BY NilAssumption DEF ConcatLink
  <2> QED
    BY <2>1, <2>2 DEF Leads
<1>3. ASSUME NEW k \in List \ {d, s}, Clean(li[k]), NEW m \in Node, c[m].use = "in", c[m].of = k
      PROVE  m \notin R /\ c2[m] = c[m]
  <2>1. m \notin R
    BY <1>1, <1>3 DEF Reach, StrayOK, Unclean
  <2>2. c[m].home # s
    <3>1. Holds(c, k, S[k])
      BY <1>1, <1>3 DEF ListsOK, ListOK
    <3>2. c[m].home \in {k, CLIENT}
      BY <1>3, <3>1 DEF Holds
    <3> QED
      BY <3>2, NilAssumption
  <2>3. hd = NIL \/ m \notin {hd, hs, c[hd].prev}
    BY <1>2, <2>1
  <2> QED
    BY <1>3, <2>1, <2>2, <2>3 DEF ConcatCells
<1> QED
  BY <1>2, <1>3

JoinedWalks(S, d, s) ==
    [k \in List |-> IF k = s THEN << >> ELSE IF k = d THEN S[d] \o S[s] ELSE S[k]]

LEMMA ConcatListsKept ==
    ASSUME NEW c, NEW li, NEW S, NEW D, AllOK(c, li, S, D), NEW d \in List, NEW s \in List,
           NEW c2, NEW li2, Typed(c2, li2), Concats(c, li, d, s, c2, li2)
    PROVE  /\ JoinedWalks(S, d, s) \in [List -> Seq(Node)] /\ ListsOK(c2, li2, JoinedWalks(S, d, s))
           /\ Spared(c, li, c2, {d, s})
<1> USE DEF Concats
<1> DEFINE hd == li[d].head
           hs == li[s].head
           S2 == JoinedWalks(S, d, s)
<1>1. /\ S \in [List -> Seq(Node)] /\ \A k \in List : Clean(li[k]) => ListOK(c, li[k], k, S[k])
      /\ li \in [List -> ListType] /\ li2 \in [List -> ListType] /\ ListsOK(c, li, S)
  BY DEF AllOK, ListsOK, Typed
<1>2. /\ d # s /\ li[d].open /\ li[s].open /\ li2[d].open /\ li2[s].open
      /\ \A k \in List \ {d, s} : li2[k] = li[k]
      /\ li2[d].head = IF hd = NIL THEN hs ELSE hd
      /\ li2[d].count = IF hd = NIL THEN li[s].count ELSE li[d].count + li[s].count
      /\ li2[d].taint <=> li[d].taint \/ li[s].taint
      /\ li2[s].head = NIL /\ li2[s].count = 0 /\ (li2[s].taint <=> li[s].taint)
  BY DEF ConcatLists
<1>3. \A m \in Node :
          /\ c2[m].use = c[m].use
          /\ c2[m].home = IF c[m].home = s THEN d ELSE c[m].home
          /\ c2[m].of = IF c[m].of = s /\ c[m].use = "in" THEN d ELSE c[m].of
  BY DEF ConcatCells
<1>4. Spared(c, li, c2, {d, s})
  BY ConcatApart DEF Spared
<1>5. S2 \in [List -> Seq(Node)] /\ S2[s] = << >> /\ S2[d] = S[d] \o S[s]
      /\ \A k \in List \ {d, s} : S2[k] = S[k]
  <2>1. S[d] \o S[s] \in Seq(Node) /\ << >> \in Seq(Node)
    BY <1>1, JoinedAt
  <2> QED
    BY <1>1, <1>2, <2>1 DEF JoinedWalks
<1> HIDE DEF S2
<1>6. ASSUME NEW k \in List \ {d, s}, Clean(li2[k]) PROVE ListOK(c2, li2[k], k, S2[k])
  <2>1. \A j \in List \ {d, s} : li2[j] = li[j]
    BY <1>2
  <2>2. \A j \in List \ {d, s}, n \in Node : Clean(li2[j]) /\ c2[n].use = "in" /\ c2[n].of = j
              => c[n].use = "in" /\ c[n].of = j
    BY <1>3
  <2>3. \A j \in List \ {d, s} : Clean(li2[j]) => ListOK(c2, li2[j], j, S[j])
    BY <1>1, <1>4, <2>1, <2>2, OthersKept
  <2> QED
    BY <1>5, <1>6, <2>3
<1>7. ListOK(c2, li2[s], s, S2[s])
  <2>1. \A n \in Node : ~(c2[n].use = "in" /\ c2[n].of = s)
    BY <1>2, <1>3
  <2>2. ListOK(c2, li2[s], s, << >>)
    BY <1>2, <2>1, ListEmpty
  <2> QED
    BY <1>5, <2>2
<1>8. ASSUME Clean(li2[d]) PROVE ListOK(c2, li2[d], d, S2[d])
  <2> DEFINE a == S[d]
             b == S[s]
             e == a \o b
  <2>1. Clean(li[d]) /\ Clean(li[s])
    BY <1>2, <1>8 DEF Clean
  <2>2. /\ a \in Seq(Node) /\ b \in Seq(Node) /\ ListOK(c, li[d], d, a) /\ ListOK(c, li[s], s, b)
    BY <1>1, <2>1
  <2>3. /\ e \in Seq(Node) /\ Len(e) = Len(a) + Len(b) /\ Len(a) \in Nat /\ Len(b) \in Nat
        /\ \A i \in 1 .. Len(a) + Len(b) : e[i] = IF i <= Len(a) THEN a[i] ELSE b[i - Len(a)]
    <3>1. a \in Seq(Node) /\ b \in Seq(Node)
      BY <2>2
    <3> HIDE DEF a, b
    <3>2. Len(a) \in Nat /\ Len(b) \in Nat
      BY <3>1
    <3> QED
      BY <3>1, <3>2, JoinedAt
  <2>4. /\ Threads(c, a, hd) /\ Threads(c, b, hs) /\ Holds(c, d, a) /\ Holds(c, s, b)
        /\ li[d].count = Len(a) /\ li[s].count = Len(b)
    BY <2>2 DEF ListOK
  <2>5. /\ \A i \in 1 .. Len(a) : a[i] \in Node /\ c[a[i]].use = "in" /\ c[a[i]].of = d
        /\ \A i \in 1 .. Len(b) : b[i] \in Node /\ c[b[i]].use = "in" /\ c[b[i]].of = s
        /\ \A i \in 1 .. Len(a) : c[a[i]].home \in {d, CLIENT}
        /\ \A i \in 1 .. Len(b) : c[b[i]].home \in {s, CLIENT}
    BY <2>2, <2>4 DEF Holds
  <2>6. \A i \in 1 .. Len(a), j \in 1 .. Len(b) : a[i] # b[j]
    BY <1>2, <2>5
  <2> HIDE DEF a, b
  <2>7. Threads(c2, e, IF hd = NIL THEN hs ELSE hd)
    BY <2>2, <2>4, <2>6, ConcatThreads
  <2> HIDE DEF e
  <2>8. /\ \A i \in 1 .. Len(e) : \/ i \in 1 .. Len(a) /\ e[i] = a[i]
                                  \/ i - Len(a) \in 1 .. Len(b) /\ e[i] = b[i - Len(a)]
        /\ \A i \in 1 .. Len(a) : i \in 1 .. Len(e) /\ e[i] = a[i]
        /\ \A i \in 1 .. Len(b) : i + Len(a) \in 1 .. Len(e) /\ e[i + Len(a)] = b[i]
    <3>1. ASSUME NEW i \in 1 .. Len(e)
          PROVE  \/ i \in 1 .. Len(a) /\ e[i] = a[i]
                 \/ i - Len(a) \in 1 .. Len(b) /\ e[i] = b[i - Len(a)]
      BY <2>3
    <3>2. ASSUME NEW i \in 1 .. Len(a) PROVE i \in 1 .. Len(e) /\ e[i] = a[i]
      BY <2>3
    <3>3. ASSUME NEW i \in 1 .. Len(b) PROVE i + Len(a) \in 1 .. Len(e) /\ e[i + Len(a)] = b[i]
      <4>1. i + Len(a) \in 1 .. Len(a) + Len(b) /\ ~(i + Len(a) <= Len(a)) /\ (i + Len(a)) - Len(a) = i
        BY <2>3
      <4> QED
        BY <2>3, <4>1
    <3> QED
      BY <3>1, <3>2, <3>3
  <2>9. Holds(c2, d, e)
    <3>1. ASSUME NEW m \in Node
          PROVE  (\E i \in 1 .. Len(e) : e[i] = m) <=> c2[m].use = "in" /\ c2[m].of = d
      <4>1. (\E i \in 1 .. Len(e) : e[i] = m) <=>
               (\E i \in 1 .. Len(a) : a[i] = m) \/ (\E i \in 1 .. Len(b) : b[i] = m)
        BY <2>8
      <4>2. /\ (\E i \in 1 .. Len(a) : a[i] = m) <=> c[m].use = "in" /\ c[m].of = d
            /\ (\E i \in 1 .. Len(b) : b[i] = m) <=> c[m].use = "in" /\ c[m].of = s
        BY <2>4 DEF Holds
      <4>3. c2[m].use = "in" /\ c2[m].of = d <=> c[m].use = "in" /\ (c[m].of = d \/ c[m].of = s)
        BY <1>2, <1>3
      <4> QED
        BY <4>1, <4>2, <4>3
    <3>2. ASSUME NEW i \in 1 .. Len(e) PROVE c2[e[i]].home \in {d, CLIENT}
      <4>1. e[i] \in Node /\ c[e[i]].home \in {d, s, CLIENT}
        <5>1. CASE i \in 1 .. Len(a) /\ e[i] = a[i]
          BY <2>5, <5>1
        <5>2. CASE i - Len(a) \in 1 .. Len(b) /\ e[i] = b[i - Len(a)]
          <6>1. c[b[i - Len(a)]].home \in {s, CLIENT} /\ b[i - Len(a)] \in Node
            BY <2>5, <5>2
          <6> QED
            BY <5>2, <6>1
        <5> QED
          BY <2>8, <5>1, <5>2
      <4> QED
        BY <1>3, <4>1
    <3> QED
      BY <3>1, <3>2 DEF Holds
  <2>10. li2[d].count = Len(e)
    <3>1. hd = NIL => Len(a) = 0
      <4>1. Len(a) # 0 => hd = a[1] /\ 1 \in 1 .. Len(a)
        BY <2>3, <2>4 DEF Threads
      <4> QED
        BY <2>5, <4>1, NilAssumption
    <3> QED
      BY <1>2, <2>3, <2>4, <3>1
  <2> QED
    BY <1>2, <1>5, <2>7, <2>9, <2>10 DEF ListOK, a, b, e
<1>9. ListsOK(c2, li2, S2)
  BY <1>6, <1>7, <1>8 DEF ListsOK
<1> QED
  BY <1>4, <1>5, <1>9 DEF S2

LEMMA ConcatStray ==
    ASSUME NEW c, NEW li, NEW S, NEW D, AllOK(c, li, S, D), NEW d \in List, NEW s \in List,
           NEW c2, NEW li2, Typed(c2, li2), Concats(c, li, d, s, c2, li2)
    PROVE  \E W : W \in SUBSET Node /\ StrayOK(c2, li2, W)
<1> USE DEF Concats
<1> DEFINE hd == li[d].head
           hs == li[s].head
           R == Reach(c, D, d) \cup Reach(c, D, s)
           t == c[hd].prev
           W == IF li2[d].taint THEN R ELSE D
<1>1. /\ NodesOK(c, li) /\ FreeOK(c, li) /\ StrayOK(c, li, D) /\ D \in SUBSET Node
      /\ Typed(c, li) /\ li \in [List -> ListType] /\ li2 \in [List -> ListType]
  BY DEF AllOK, Typed
<1>2. /\ d # s /\ li[d].open /\ li[s].open /\ li2[d].open /\ li2[s].open
      /\ \A k \in List \ {d, s} : li2[k] = li[k]
      /\ li2[d].free = li[d].free /\ li2[s].free = li[s].free
      /\ li2[d].head = IF hd = NIL THEN hs ELSE hd
      /\ li2[d].taint <=> li[d].taint \/ li[s].taint
      /\ li2[s].head = NIL /\ li2[s].count = 0 /\ (li2[s].taint <=> li[s].taint)
  BY DEF ConcatLists
<1>3. \A m \in Node :
          /\ c2[m].use = c[m].use /\ c2[m].data = c[m].data
          /\ c2[m].home = IF c[m].home = s THEN d ELSE c[m].home
          /\ c2[m].of = IF c[m].of = s /\ c[m].use = "in" THEN d ELSE c[m].of
  BY DEF ConcatCells
<1>4. /\ IF hd = NIL THEN \A m \in Node : c2[m].prev = c[m].prev /\ c2[m].next = c[m].next
         ELSE \A m \in Node :
               /\ c2[m].prev = IF m = hs THEN t ELSE IF m = hd THEN c[hs].prev ELSE c[m].prev
               /\ c2[m].next = IF m = t THEN hs ELSE c[m].next
  BY DEF ConcatCells
<1>5. hd # NIL => hd \in R /\ hs \in R /\ t \in R
  BY ConcatApart
<1>6. \A m \in Node : Alive(c2, m) <=> Alive(c, m)
  BY <1>3, NilAssumption DEF Alive
<1>7. /\ \A k \in List : Clean(li2[k]) => Clean(li[k])
      /\ \A k \in List : k # d => (Clean(li[k]) <=> Clean(li2[k]))
      /\ \A k \in List : li2[k].free = li[k].free /\ (li[k].taint => li2[k].taint)
      /\ \A k \in List : k # d => (li2[k].taint <=> li[k].taint)
  BY <1>2 DEF Clean
<1>8. ASSUME NEW m \in Node, Unclean(c, li, m) PROVE Unclean(c2, li2, m)
  <2> SUFFICES ASSUME c2[m].use # "none" PROVE ~Clean(li2[c2[m].of])
    BY DEF Unclean
  <2>1. c[m].use # "none" /\ c[m].of \in List /\ ~Clean(li[c[m].of])
    BY <1>1, <1>3, <1>8 DEF NodesOK, Unclean
  <2>2. ~Clean(li2[c[m].of])
    BY <1>7, <2>1
  <2>3. c[m].of = s => ~Clean(li2[d])
    BY <1>2, <2>1 DEF Clean
  <2> QED
    BY <1>3, <2>2, <2>3
<1>9. /\ D \subseteq R /\ R \in SUBSET Node /\ \A w \in R : Alive(c, w)
      /\ \A w \in R : Leads(c, R, c[w].next) /\ Leads(c, R, c[w].prev)
      /\ Leads(c, R, hd) /\ Leads(c, R, hs)
      /\ \A w \in R : w \in D \/ (c[w].use = "in" /\ c[w].of \in {d, s})
  <2>1. /\ Frays(c, D, d, Reach(c, D, d)) /\ Frays(c, D, s, Reach(c, D, s))
        /\ \A w \in Reach(c, D, d) : /\ Leads(c, Reach(c, D, d), c[w].next)
                                     /\ Leads(c, Reach(c, D, d), c[w].prev)
        /\ \A w \in Reach(c, D, s) : /\ Leads(c, Reach(c, D, s), c[w].next)
                                     /\ Leads(c, Reach(c, D, s), c[w].prev)
        /\ Leads(c, Reach(c, D, d), hd) /\ Leads(c, Reach(c, D, s), hs)
    BY <1>2, ReachLeads
  <2> DEFINE A == Reach(c, D, d)
             B == Reach(c, D, s)
  <2>2. /\ \A w \in A : w \in D \/ (c[w].use = "in" /\ c[w].of = d)
        /\ \A w \in B : w \in D \/ (c[w].use = "in" /\ c[w].of = s)
    BY DEF Reach
  <2> HIDE DEF A, B
  <2>3. A \in SUBSET Node /\ B \in SUBSET Node /\ D \subseteq A /\ D \subseteq B
        /\ (\A w \in A : Alive(c, w)) /\ (\A w \in B : Alive(c, w))
    BY <2>1 DEF Frays, A, B
  <2>4. \A p : Leads(c, A, p) \/ Leads(c, B, p) => Leads(c, A \cup B, p)
    BY DEF Leads
  <2>5. R = A \cup B
    BY DEF A, B
  <2> HIDE DEF R
  <2>6. /\ \A w \in A : Leads(c, A, c[w].next) /\ Leads(c, A, c[w].prev)
        /\ \A w \in B : Leads(c, B, c[w].next) /\ Leads(c, B, c[w].prev)
        /\ Leads(c, A, hd) /\ Leads(c, B, hs)
    BY <2>1 DEF A, B
  <2>7. ASSUME NEW w \in R PROVE Leads(c, R, c[w].next) /\ Leads(c, R, c[w].prev)
    BY <2>4, <2>5, <2>6
  <2>8. \A w \in R : w \in D \/ (c[w].use = "in" /\ c[w].of \in {d, s})
    BY <2>2, <2>5 DEF A, B
  <2> QED
    BY <2>3, <2>4, <2>5, <2>6, <2>7, <2>8
<1>10. \A n \in Node : c[n].use = "in" /\ c[n].of \in {d, s} => n \in R
  BY DEF Reach
<1>11. \A n \in Node : c[n].next \in Node \cup {NIL} /\ c[n].prev \in Node \cup {NIL}
  BY <1>1 DEF Typed, CellType
<1>12. hd \in Node \cup {NIL} /\ hs \in Node \cup {NIL}
  BY <1>1 DEF ListType
<1> HIDE DEF R, t, hd, hs
<1>13. CASE li2[d].taint
  <2>0. W = R
    BY <1>13
  <2>1. \A p \in Node \cup {NIL} : Leads(c, R, p) => Leads(c2, R, p)
    BY <1>6 DEF Leads
  <2>2. ASSUME NEW n \in R
        PROVE  Alive(c2, n) /\ Leads(c2, R, c2[n].next) /\ Leads(c2, R, c2[n].prev)
    <3>1. Alive(c2, n) /\ n \in Node
      BY <1>6, <1>9
    <3>2. CASE hd = NIL
      BY <1>4, <1>9, <1>11, <2>1, <3>1, <3>2
    <3>3. CASE hd # NIL
      <4>1. /\ c2[n].prev \in {t, c[hs].prev, c[n].prev} /\ c2[n].next \in {hs, c[n].next}
            /\ hs \in Node /\ t \in Node
        BY <1>4, <1>5, <1>9, <3>1, <3>3
      <4>2. Leads(c2, R, t) /\ Leads(c2, R, hs) /\ Leads(c2, R, c[hs].prev)
        BY <1>5, <1>9, <1>11, <2>1, <3>3, <4>1 DEF Leads
      <4>3. Leads(c2, R, c[n].prev) /\ Leads(c2, R, c[n].next)
        BY <1>9, <1>11, <2>1, <3>1
      <4> QED
        BY <3>1, <4>1, <4>2, <4>3
    <3> QED
      BY <3>2, <3>3
  <2>3. ASSUME NEW n \in R PROVE Unclean(c2, li2, n)
    <3>1. CASE n \in D
      BY <1>1, <1>8, <3>1 DEF StrayOK
    <3>2. CASE c[n].use = "in" /\ c[n].of \in {d, s}
      <4>1. c2[n].of = d
        BY <1>3, <1>9, <3>2
      <4> QED
        BY <1>13, <4>1 DEF Unclean, Clean
    <3> QED
      BY <1>9, <3>1, <3>2
  <2>4. ASSUME NEW n \in R, NEW k \in List, Clean(li2[k]), NEW i \in 1 .. Len(li2[k].free)
        PROVE  li2[k].free[i] # n
    <3>1. Clean(li[k]) /\ li2[k].free = li[k].free
      BY <1>7, <2>4
    <3>2. n \in D => li[k].free[i] # n
      BY <1>1, <3>1 DEF StrayOK
    <3>3. c[li[k].free[i]].use = "none"
      BY <1>1, <3>1 DEF FreeOK
    <3> QED
      BY <1>9, <3>1, <3>2, <3>3
  <2>5. ASSUME NEW n \in Node, c2[n].use = "in", li2[c2[n].of].taint PROVE n \in R
    <3>1. CASE c[n].of \in {d, s}
      BY <1>3, <1>10, <2>5, <3>1
    <3>2. CASE c[n].of \notin {d, s}
      <4>1. c2[n].of = c[n].of /\ c[n].use = "in" /\ c[n].of \in List
        BY <1>1, <1>3, <2>5, <3>2 DEF NodesOK
      <4>2. li[c[n].of].taint
        BY <1>7, <2>5, <3>2, <4>1
      <4> QED
        BY <1>1, <1>9, <4>1, <4>2 DEF StrayOK
    <3> QED
      BY <3>1, <3>2
  <2>6. ASSUME NEW k \in List, li2[k].taint
        PROVE  /\ Leads(c2, R, li2[k].head)
               /\ \A i \in 1 .. Len(li2[k].free) : Unclean(c2, li2, li2[k].free[i])
    <3>1. Leads(c2, R, li2[k].head)
      <4>1. CASE k = d
        BY <1>2, <1>9, <1>12, <2>1, <4>1 DEF hd, hs
      <4>2. CASE k = s
        BY <1>2, <4>2 DEF Leads
      <4>3. CASE k \notin {d, s}
        <5>1. Leads(c, D, li[k].head) /\ li2[k].head = li[k].head /\ li[k].head \in Node \cup {NIL}
          BY <1>1, <1>2, <1>7, <2>6, <4>3 DEF StrayOK, ListType
        <5> QED
          BY <1>9, <2>1, <5>1 DEF Leads
      <4> QED
        BY <4>1, <4>2, <4>3
    <3>2. ASSUME NEW i \in 1 .. Len(li2[k].free) PROVE Unclean(c2, li2, li2[k].free[i])
      <4>1. li2[k].free = li[k].free /\ li[k].free[i] \in Node
        <5>1. li[k].free \in Seq(Node)
          BY <1>1 DEF ListType
        <5>2. li2[k].free = li[k].free
          BY <1>7
        <5> QED
          BY <5>1, <5>2
      <4>2. CASE li[k].taint
        BY <1>1, <1>8, <4>1, <4>2 DEF StrayOK
      <4>3. CASE ~li[k].taint
        <5>1. Clean(li[k])
          BY <1>2, <1>7, <2>6, <4>3 DEF Clean
        <5>2. c[li[k].free[i]].use = "none"
          BY <1>1, <4>1, <5>1 DEF FreeOK
        <5> QED
          BY <1>3, <4>1, <5>2 DEF Unclean
      <4> QED
        BY <4>2, <4>3
    <3> QED
      BY <3>1, <3>2
  <2>7. StrayOK(c2, li2, R)
    BY <2>2, <2>3, <2>4, <2>5, <2>6 DEF StrayOK
  <2> QED
    BY <1>9, <2>7
<1>14. CASE ~li2[d].taint
  <2>1. Clean(li[d]) /\ Clean(li[s]) /\ ~li2[s].taint
    BY <1>2, <1>14 DEF Clean
  <2>2. \A p \in Node \cup {NIL} : Leads(c, D, p) => Leads(c2, D, p)
    BY <1>6 DEF Leads
  <2>3. ASSUME NEW n \in D
        PROVE  Alive(c2, n) /\ Leads(c2, D, c2[n].next) /\ Leads(c2, D, c2[n].prev)
    <3>1. Alive(c, n) /\ n \in Node /\ Leads(c, D, c[n].next) /\ Leads(c, D, c[n].prev)
          /\ Unclean(c, li, n)
      BY <1>1 DEF StrayOK
    <3>2. c2[n].next = c[n].next /\ c2[n].prev = c[n].prev
      <4>1. CASE hd = NIL
        BY <1>4, <3>1, <4>1
      <4>2. CASE hd # NIL
        <5>1. /\ ListOK(c, li[d], d, S[d]) /\ ListOK(c, li[s], s, S[s])
              /\ S[d] \in Seq(Node) /\ S[s] \in Seq(Node)
          BY <2>1 DEF AllOK, ListsOK
        <5>2. c[hd].use = "in" /\ c[hd].of = d
          <6>1. Len(S[d]) # 0 /\ hd = S[d][1] /\ Len(S[d]) \in Nat
            BY <4>2, <5>1 DEF ListOK, Threads, hd
          <6> QED
            BY <5>1, <6>1 DEF ListOK, Holds
        <5>3. c[t].use = "in" /\ c[t].of = d
          <6>1. Len(S[d]) # 0 /\ hd = S[d][1] /\ Len(S[d]) \in Nat
            BY <4>2, <5>1 DEF ListOK, Threads, hd
          <6>2. t \in {S[d][Len(S[d])], NIL}
            BY <5>1, <6>1 DEF ListOK, Threads, t
          <6>3. t = S[d][Len(S[d])] /\ Len(S[d]) \in 1 .. Len(S[d])
            BY <1>5, <1>9, <4>2, <6>1, <6>2, NilAssumption
          <6> QED
            BY <5>1, <6>3 DEF ListOK, Holds
        <5>4. c[hs].use = "in" /\ c[hs].of = s
          <6>1. Len(S[s]) # 0 /\ hs = S[s][1] /\ Len(S[s]) \in Nat
            <7>1. hs # NIL
              BY NilAssumption DEF ConcatLink, hs
            <7> QED
              BY <5>1, <7>1 DEF ListOK, Threads, hs
          <6> QED
            BY <5>1, <6>1 DEF ListOK, Holds
        <5>5. n \notin {hd, hs, t}
          BY <2>1, <3>1, <5>2, <5>3, <5>4 DEF Unclean
        <5> QED
          BY <1>4, <3>1, <4>2, <5>5
      <4> QED
        BY <4>1, <4>2
    <3> QED
      BY <1>6, <1>11, <2>2, <3>1, <3>2
  <2>4. ASSUME NEW n \in D PROVE Unclean(c2, li2, n)
    BY <1>1, <1>8 DEF StrayOK
  <2>5. ASSUME NEW n \in D, NEW k \in List, Clean(li2[k]), NEW i \in 1 .. Len(li2[k].free)
        PROVE  li2[k].free[i] # n
    BY <1>1, <1>7, <2>5 DEF StrayOK
  <2>6. ASSUME NEW n \in Node, c2[n].use = "in", li2[c2[n].of].taint PROVE n \in D
    <3>1. c[n].use = "in" /\ c[n].of \in List /\ c2[n].of \in List
      BY <1>1, <1>3, <2>6 DEF NodesOK
    <3>2. c2[n].of # d
      BY <1>14, <2>6
    <3>3. c2[n].of = c[n].of
      BY <1>3, <3>1, <3>2
    <3>4. li[c[n].of].taint
      BY <1>7, <2>6, <3>1, <3>2, <3>3
    <3> QED
      BY <1>1, <3>1, <3>4 DEF StrayOK
  <2>7. ASSUME NEW k \in List, li2[k].taint
        PROVE  /\ Leads(c2, D, li2[k].head)
               /\ \A i \in 1 .. Len(li2[k].free) : Unclean(c2, li2, li2[k].free[i])
    <3>1. k \notin {d, s} /\ li2[k] = li[k]
      BY <1>2, <1>14, <2>1, <2>7
    <3>2. /\ Leads(c, D, li[k].head) /\ li[k].head \in Node \cup {NIL}
          /\ \A i \in 1 .. Len(li[k].free) : Unclean(c, li, li[k].free[i]) /\ li[k].free[i] \in Node
      <4>1. li[k].head \in Node \cup {NIL} /\ li[k].free \in Seq(Node)
        BY <1>1 DEF ListType
      <4>2. \A i \in 1 .. Len(li[k].free) : li[k].free[i] \in Node
        BY <4>1
      <4>3. li[k].taint
        BY <2>7, <3>1
      <4>4. Leads(c, D, li[k].head) /\ \A i \in 1 .. Len(li[k].free) : Unclean(c, li, li[k].free[i])
        BY <1>1, <4>3 DEF StrayOK
      <4> QED
        BY <4>1, <4>2, <4>4
    <3> QED
      BY <1>8, <2>2, <3>1, <3>2
  <2>8. StrayOK(c2, li2, D)
    BY <2>3, <2>4, <2>5, <2>6, <2>7 DEF StrayOK
  <2> QED
    BY <1>1, <2>8
<1> QED
  BY <1>13, <1>14

LEMMA AttachedAt ==
    ASSUME cell \in [Node -> CellType], NEW d, NEW s, NEW hd, NEW hs, NEW t,
           hd = Head1(d), hs = Head1(s), t = cell[hd].prev,
           hd \in Node, hs \in Node, t \in Node
    PROVE  /\ Attached(d, s) \in [Node -> CellType]
           /\ \A m \in Node :
                 /\ Attached(d, s)[m].home = cell[m].home /\ Attached(d, s)[m].data = cell[m].data
                 /\ Attached(d, s)[m].use = cell[m].use /\ Attached(d, s)[m].of = cell[m].of
                 /\ Attached(d, s)[m].prev = IF m = hs THEN t
                                             ELSE IF m = hd THEN cell[hs].prev ELSE cell[m].prev
                 /\ Attached(d, s)[m].next = IF m = t THEN hs ELSE cell[m].next
                 /\ m \notin {hd, hs, t} => Attached(d, s)[m] = cell[m]
<1> DEFINE p == cell[hs].prev
           a == SetPrev(cell, hd, p)
           b == SetPrev(a, hs, t)
           e == SetNext(b, t, hs)
<1>1. Attached(d, s) = e
  BY DEF Attached, SetPrev, SetNext
<1>2. p \in Node \cup {NIL}
  BY DEF CellType
<1> HIDE DEF p, a, b, e
<1>3. /\ a \in [Node -> CellType] /\ \A m \in Node \ {hd} : a[m] = cell[m]
      /\ a[hd].prev = p /\ a[hd].next = cell[hd].next
      /\ a[hd].home = cell[hd].home /\ a[hd].data = cell[hd].data
      /\ a[hd].use = cell[hd].use /\ a[hd].of = cell[hd].of
  BY <1>2, PrevSet DEF a
<1>4. /\ b \in [Node -> CellType] /\ \A m \in Node \ {hs} : b[m] = a[m]
      /\ b[hs].prev = t /\ b[hs].next = a[hs].next
      /\ b[hs].home = a[hs].home /\ b[hs].data = a[hs].data
      /\ b[hs].use = a[hs].use /\ b[hs].of = a[hs].of
  BY <1>3, PrevSet DEF b
<1>5. /\ e \in [Node -> CellType] /\ \A m \in Node \ {t} : e[m] = b[m]
      /\ e[t].next = hs /\ e[t].prev = b[t].prev
      /\ e[t].home = b[t].home /\ e[t].data = b[t].data
      /\ e[t].use = b[t].use /\ e[t].of = b[t].of
  BY <1>4, NextSet DEF e
<1>6. ASSUME NEW m \in Node
      PROVE  /\ e[m].home = cell[m].home /\ e[m].data = cell[m].data
             /\ e[m].use = cell[m].use /\ e[m].of = cell[m].of
             /\ e[m].prev = IF m = hs THEN t ELSE IF m = hd THEN p ELSE cell[m].prev
             /\ e[m].next = IF m = t THEN hs ELSE cell[m].next
             /\ m \notin {hd, hs, t} => e[m] = cell[m]
  <2>1. /\ a[m].home = cell[m].home /\ a[m].data = cell[m].data
        /\ a[m].use = cell[m].use /\ a[m].of = cell[m].of /\ a[m].next = cell[m].next
        /\ a[m].prev = IF m = hd THEN p ELSE cell[m].prev
    BY <1>3
  <2>2. /\ b[m].home = a[m].home /\ b[m].data = a[m].data
        /\ b[m].use = a[m].use /\ b[m].of = a[m].of /\ b[m].next = a[m].next
        /\ b[m].prev = IF m = hs THEN t ELSE a[m].prev
    BY <1>4
  <2>3. /\ e[m].home = b[m].home /\ e[m].data = b[m].data
        /\ e[m].use = b[m].use /\ e[m].of = b[m].of /\ e[m].prev = b[m].prev
        /\ e[m].next = IF m = t THEN hs ELSE b[m].next
    BY <1>5
  <2>4. m \notin {hd, hs, t} => e[m] = cell[m]
    BY <1>3, <1>4, <1>5
  <2> QED
    BY <2>1, <2>2, <2>3, <2>4
<1> QED
  BY <1>1, <1>5, <1>6 DEF p

LEMMA RehomedAt ==
    ASSUME NEW cells, cells \in [Node -> CellType], NEW d \in List, NEW s \in List
    PROVE  /\ Rehomed(cells, d, s) \in [Node -> CellType]
           /\ \A m \in Node :
                 /\ Rehomed(cells, d, s)[m].data = cells[m].data
                 /\ Rehomed(cells, d, s)[m].use = cells[m].use
                 /\ Rehomed(cells, d, s)[m].prev = cells[m].prev
                 /\ Rehomed(cells, d, s)[m].next = cells[m].next
                 /\ Rehomed(cells, d, s)[m].home = IF cells[m].home = s THEN d ELSE cells[m].home
                 /\ Rehomed(cells, d, s)[m].of =
                       IF cells[m].of = s /\ cells[m].use = "in" THEN d ELSE cells[m].of
                 /\ cells[m].home # s /\ ~(cells[m].of = s /\ cells[m].use = "in")
                       => Rehomed(cells, d, s)[m] = cells[m]
<1> DEFINE e == Rehomed(cells, d, s)
<1>1. ASSUME NEW m \in Node
      PROVE  /\ e[m] \in CellType
             /\ e[m].data = cells[m].data /\ e[m].use = cells[m].use
             /\ e[m].prev = cells[m].prev /\ e[m].next = cells[m].next
             /\ e[m].home = IF cells[m].home = s THEN d ELSE cells[m].home
             /\ e[m].of = IF cells[m].of = s /\ cells[m].use = "in" THEN d ELSE cells[m].of
             /\ cells[m].home # s /\ ~(cells[m].of = s /\ cells[m].use = "in") => e[m] = cells[m]
  <2> DEFINE x == IF cells[m].home = s THEN d ELSE cells[m].home
             y == IF cells[m].of = s /\ cells[m].use = "in" THEN d ELSE cells[m].of
  <2>1. e[m] = [cells[m] EXCEPT !.home = x, !.of = y]
    BY DEF Rehomed
  <2>2. cells[m] \in CellType
    OBVIOUS
  <2>3. x \in List \cup {CLIENT, NIL} /\ y \in List \cup {NIL}
    BY <2>2 DEF CellType
  <2> HIDE DEF x, y, e
  <2>4. /\ e[m].data = cells[m].data /\ e[m].use = cells[m].use
        /\ e[m].prev = cells[m].prev /\ e[m].next = cells[m].next
        /\ e[m].home = x /\ e[m].of = y
    BY <2>1, <2>2 DEF CellType
  <2>5. e[m] \in CellType
    BY <2>1, <2>2, <2>3 DEF CellType
  <2>6. x = cells[m].home /\ y = cells[m].of => e[m] = cells[m]
    BY <2>1, <2>2 DEF CellType
  <2> QED
    BY <2>4, <2>5, <2>6 DEF x, y
<1>2. e = [m \in Node |-> e[m]]
  BY DEF Rehomed
<1> HIDE DEF e
<1>3. e \in [Node -> CellType]
  BY <1>1, <1>2
<1> QED
  BY <1>1, <1>3 DEF e

LEMMA ConcatCellsAre ==
    ASSUME Typed(cell, list), NEW d \in List, NEW s \in List, Concat(d, s), fault' = "none"
    PROVE  /\ ConcatLink(cell, list[d].head, list[s].head)
           /\ ConcatCells(cell, d, s, list[d].head, list[s].head, cell')
<1> DEFINE hd == list[d].head
           hs == list[s].head
           cells == IF hd = NIL THEN cell ELSE Attached(d, s)
<1>1. /\ cell \in [Node -> CellType] /\ hd \in Node \cup {NIL} /\ hs \in Node \cup {NIL}
  BY DEF Typed, ListType
<1>2. /\ hs # NIL /\ ConcatFault(d, s) = "none" /\ cell' = Rehomed(cells, d, s)
  BY DEF Concat, Crashes, Head1
<1>3. ConcatLink(cell, hd, hs)
  <2>1. hd # NIL => /\ Alive(cell, hd) /\ Alive(cell, hs)
                    /\ cell[hd].prev # NIL /\ Alive(cell, cell[hd].prev)
    BY <1>2, ConcatFaultMeans DEF Head1, Live, Alive
  <2>2. hd # NIL => cell[hd].prev \in Node \cup {NIL}
    BY <1>1 DEF CellType
  <2> QED
    BY <1>1, <1>2, <2>1, <2>2 DEF ConcatLink
<1>4. /\ cells \in [Node -> CellType]
      /\ \A m \in Node :
            /\ cells[m].home = cell[m].home /\ cells[m].data = cell[m].data
            /\ cells[m].use = cell[m].use /\ cells[m].of = cell[m].of
            /\ cells[m].prev = IF hd = NIL THEN cell[m].prev ELSE IF m = hs THEN cell[hd].prev
                               ELSE IF m = hd THEN cell[hs].prev ELSE cell[m].prev
            /\ cells[m].next = IF hd # NIL /\ m = cell[hd].prev THEN hs ELSE cell[m].next
            /\ hd = NIL \/ m \notin {hd, hs, cell[hd].prev} => cells[m] = cell[m]
  <2>1. CASE hd = NIL
    BY <1>1, <2>1
  <2>2. CASE hd # NIL
    <3> DEFINE t == cell[hd].prev
    <3>1. hd = Head1(d) /\ hs = Head1(s) /\ hd \in Node /\ hs \in Node /\ t \in Node
      BY <1>1, <1>3, <2>2 DEF ConcatLink, Head1
    <3>2. t = cell[hd].prev
      OBVIOUS
    <3> HIDE DEF t, hd, hs
    <3>3. /\ Attached(d, s) \in [Node -> CellType]
          /\ \A m \in Node :
                /\ Attached(d, s)[m].home = cell[m].home /\ Attached(d, s)[m].data = cell[m].data
                /\ Attached(d, s)[m].use = cell[m].use /\ Attached(d, s)[m].of = cell[m].of
                /\ Attached(d, s)[m].prev = IF m = hs THEN t
                                            ELSE IF m = hd THEN cell[hs].prev ELSE cell[m].prev
                /\ Attached(d, s)[m].next = IF m = t THEN hs ELSE cell[m].next
                /\ m \notin {hd, hs, t} => Attached(d, s)[m] = cell[m]
      BY <1>1, <3>1, <3>2, AttachedAt
    <3> QED
      BY <2>2, <3>3 DEF t
  <2> QED
    BY <2>1, <2>2
<1> HIDE DEF cells, hd, hs
<1>5. /\ Rehomed(cells, d, s) \in [Node -> CellType]
      /\ \A m \in Node :
            /\ Rehomed(cells, d, s)[m].data = cells[m].data
            /\ Rehomed(cells, d, s)[m].use = cells[m].use
            /\ Rehomed(cells, d, s)[m].prev = cells[m].prev
            /\ Rehomed(cells, d, s)[m].next = cells[m].next
            /\ Rehomed(cells, d, s)[m].home = IF cells[m].home = s THEN d ELSE cells[m].home
            /\ Rehomed(cells, d, s)[m].of =
                  IF cells[m].of = s /\ cells[m].use = "in" THEN d ELSE cells[m].of
            /\ cells[m].home # s /\ ~(cells[m].of = s /\ cells[m].use = "in")
                  => Rehomed(cells, d, s)[m] = cells[m]
  BY <1>4, RehomedAt
<1>6. ConcatCells(cell, d, s, hd, hs, cell')
  <2>1. cell' \in [Node -> CellType]
    BY <1>2, <1>5
  <2>2. ASSUME NEW m \in Node
        PROVE  /\ cell'[m].data = cell[m].data /\ cell'[m].use = cell[m].use
               /\ cell'[m].home = IF cell[m].home = s THEN d ELSE cell[m].home
               /\ cell'[m].of = IF cell[m].of = s /\ cell[m].use = "in" THEN d ELSE cell[m].of
               /\ cell'[m].prev = cells[m].prev /\ cell'[m].next = cells[m].next
               /\ /\ cell[m].home # s /\ ~(cell[m].of = s /\ cell[m].use = "in")
                  /\ hd = NIL \/ m \notin {hd, hs, cell[hd].prev}
                  => cell'[m] = cell[m]
    <3>1. /\ cells[m].home = cell[m].home /\ cells[m].data = cell[m].data
          /\ cells[m].use = cell[m].use /\ cells[m].of = cell[m].of
          /\ hd = NIL \/ m \notin {hd, hs, cell[hd].prev} => cells[m] = cell[m]
      BY <1>4
    <3> QED
      BY <1>2, <1>5, <3>1
  <2>3. /\ hd = NIL => \A m \in Node : cell'[m].prev = cell[m].prev /\ cell'[m].next = cell[m].next
        /\ hd # NIL => \A m \in Node :
               /\ cell'[m].prev = IF m = hs THEN cell[hd].prev
                               ELSE IF m = hd THEN cell[hs].prev ELSE cell[m].prev
               /\ cell'[m].next = IF m = cell[hd].prev THEN hs ELSE cell[m].next
    BY <1>4, <2>2
  <2> QED
    BY <2>1, <2>2, <2>3 DEF ConcatCells
<1> QED
  BY <1>3, <1>6 DEF hd, hs

LEMMA ConcatListsAre ==
    ASSUME Typed(cell, list), NEW d \in List, NEW s \in List, Concat(d, s), fault' = "none"
    PROVE  /\ ConcatLists(list, d, s, list')
           /\ list' \in [List -> ListType]
           /\ list'[d].max = list[d].max /\ list'[s].max = list[s].max
<1> DEFINE a == IF list[d].head = NIL THEN Head1(s) ELSE list[d].head
           b == IF Head1(d) = NIL THEN list[s].count ELSE list[d].count + list[s].count
           e == list[d].mp \/ list[s].mp
           f == list[d].taint \/ list[s].taint
           r == [list[d] EXCEPT !.head = a, !.count = b, !.mp = e, !.taint = f]
           q == Emptied(s)
<1>1. /\ list \in [List -> ListType] /\ list[d] \in ListType /\ list[s] \in ListType
      /\ d # s /\ list[d].open /\ list[s].open
  BY DEF Typed, Concat, On
<1>2. /\ list'[d] = r /\ list'[s] = q /\ \A k \in List \ {d, s} : list'[k] = list[k]
      /\ list' = [k \in List |-> list'[k]]
  <2>1. list' = [list EXCEPT ![d] = Lengthened(d, s), ![s] = Emptied(s)]
    BY DEF Concat, Crashes
  <2>2. r = Lengthened(d, s)
    BY DEF Lengthened
  <2> QED
    BY <1>1, <2>1, <2>2
<1>3. a \in Node \cup {NIL} /\ b \in Int /\ e \in BOOLEAN /\ f \in BOOLEAN
  BY <1>1 DEF ListType, Head1
<1> DEFINE no == FALSE
           zero == 0
<1>4. q = [list[s] EXCEPT !.head = NIL, !.count = zero, !.mp = no] /\ no \in BOOLEAN /\ zero \in Int
      /\ zero = 0
  BY DEF Emptied
<1>5. a = (IF list[d].head = NIL THEN list[s].head ELSE list[d].head)
      /\ b = (IF list[d].head = NIL THEN list[s].count ELSE list[d].count + list[s].count)
      /\ (f <=> list[d].taint \/ list[s].taint)
  BY DEF Head1
<1> HIDE DEF a, b, e, f, no, zero
<1>6. /\ r.open = list[d].open /\ r.head = a /\ r.count = b /\ r.taint = f
      /\ r.free = list[d].free /\ r.max = list[d].max /\ r \in ListType
  BY <1>1, <1>3 DEF ListType
<1>7. /\ q.open = list[s].open /\ q.head = NIL /\ q.count = 0 /\ q.taint = list[s].taint
      /\ q.free = list[s].free /\ q.max = list[s].max /\ q \in ListType
  <2>1. /\ q.open = list[s].open /\ q.head = NIL /\ q.count = 0 /\ q.taint = list[s].taint
        /\ q.free = list[s].free /\ q.max = list[s].max
    BY <1>1, <1>4 DEF ListType
  <2>2. q \in ListType
    <3> HIDE DEF q
    <3> QED
      BY <1>1, <1>4 DEF ListType
  <2> QED
    BY <2>1, <2>2
<1> HIDE DEF r, q
<1>8. /\ list'[d] = r /\ list'[s] = q /\ \A k \in List \ {d, s} : list'[k] = list[k]
      /\ list' \in [List -> ListType]
  BY <1>1, <1>2, <1>6, <1>7
<1>9. (r.taint <=> list[d].taint \/ list[s].taint) /\ (q.taint <=> list[s].taint)
  <2>1. r.taint = f
    BY <1>6
  <2> QED
    BY <1>5, <1>7, <2>1
<1> QED
  BY <1>1, <1>5, <1>6, <1>7, <1>8, <1>9 DEF ConcatLists

LEMMA ConcatKeeps ==
    ASSUME NEW S, NEW D, AllOK(cell, list, S, D), NEW d \in List, NEW s \in List,
           Concat(d, s), fault' = "none"
    PROVE  /\ \E S2, D2 : /\ AllOK(cell', list', S2, D2)
                          /\ S2[s] = << >> /\ S2[d] = S[d] \o S[s]
           /\ \A m \in Node : cell'[m].data = cell[m].data
           /\ d # s /\ list[d].open /\ list[s].open /\ list'[d].open /\ list'[s].open
           /\ list'[d].taint <=> list[d].taint \/ list[s].taint
           /\ list'[s].taint <=> list[s].taint
           /\ Spared(cell, list, cell', {d, s}) /\ \A k \in List \ {d, s} : list'[k] = list[k]
<1>1. /\ Typed(cell, list) /\ NodesOK(cell, list) /\ FreeOK(cell, list)
      /\ ListsOK(cell, list, S) /\ D \in SUBSET Node
  BY DEF AllOK
<1>2. /\ ConcatLink(cell, list[d].head, list[s].head)
      /\ ConcatCells(cell, d, s, list[d].head, list[s].head, cell')
  BY <1>1, ConcatCellsAre
<1>3. /\ ConcatLists(list, d, s, list') /\ list' \in [List -> ListType]
      /\ list'[d].max = list[d].max /\ list'[s].max = list[s].max
  BY <1>1, ConcatListsAre
<1>4. Concats(cell, list, d, s, cell', list')
  BY <1>2, <1>3 DEF Concats
<1>5. /\ d # s /\ list[d].open /\ list[s].open /\ list'[d].open /\ list'[s].open
      /\ \A k \in List \ {d, s} : list'[k] = list[k]
      /\ list'[d].free = list[d].free /\ list'[s].free = list[s].free
      /\ (list'[d].taint <=> list[d].taint \/ list[s].taint)
      /\ (list'[s].taint <=> list[s].taint)
  BY <1>3 DEF ConcatLists
<1>6. \A m \in Node :
          /\ cell'[m].data = cell[m].data /\ cell'[m].use = cell[m].use
          /\ cell'[m].home = IF cell[m].home = s THEN d ELSE cell[m].home
          /\ cell'[m].of = IF cell[m].of = s /\ cell[m].use = "in" THEN d ELSE cell[m].of
  BY <1>2 DEF ConcatCells
<1>7. Typed(cell', list')
  <2>1. cell' \in [Node -> CellType]
    BY <1>2 DEF ConcatCells
  <2>2. ASSUME NEW k \in List
        PROVE  /\ Len(list'[k].free) <= list'[k].max /\ (list'[k].taint => list'[k].open)
               /\ list'[k].open \/ list'[k].free = << >>
    <3>1. CASE k \in {d, s}
      BY <1>1, <1>3, <1>5, <3>1 DEF Typed
    <3>2. CASE k \notin {d, s}
      BY <1>1, <1>5, <3>2 DEF Typed
    <3> QED
      BY <3>1, <3>2
  <2> QED
    BY <1>3, <2>1, <2>2 DEF Typed
<1>8. NodesOK(cell', list')
  <2>1. ASSUME NEW n \in Node
        PROVE  /\ Alive(cell', n) => cell'[n].data \in Data
               /\ cell'[n].use # "none" =>
                     Alive(cell', n) /\ cell'[n].of \in List /\ list'[cell'[n].of].open
               /\ cell'[n].use = "none" => cell'[n].of = NIL
    <3>1. /\ Alive(cell, n) => cell[n].data \in Data
          /\ cell[n].use # "none" => Alive(cell, n) /\ cell[n].of \in List /\ list[cell[n].of].open
          /\ cell[n].use = "none" => cell[n].of = NIL
      BY <1>1 DEF NodesOK
    <3>2. Alive(cell', n) <=> Alive(cell, n)
      BY <1>6, NilAssumption DEF Alive
    <3>3. \A k \in List : list[k].open => list'[k].open
      BY <1>5
    <3>4. cell'[n].data = cell[n].data /\ cell'[n].use = cell[n].use
          /\ cell'[n].of = IF cell[n].of = s /\ cell[n].use = "in" THEN d ELSE cell[n].of
      BY <1>6
    <3> QED
      BY <1>5, <3>1, <3>2, <3>3, <3>4
  <2> QED
    BY <2>1 DEF NodesOK
<1>9. FreeOK(cell', list')
  <2>1. \A k \in List : list'[k].free = list[k].free /\ (Clean(list'[k]) => Clean(list[k]))
    BY <1>5 DEF Clean
  <2>2. FreeWithin(list, list')
    BY <2>1 DEF FreeWithin
  <2>3. FreeUnused(cell', list')
    <3>1. ASSUME NEW k \in List, Clean(list'[k]), NEW i \in 1 .. Len(list'[k].free)
          PROVE  cell'[list'[k].free[i]].use = "none"
      <4>1. Clean(list[k]) /\ i \in 1 .. Len(list[k].free) /\ list'[k].free = list[k].free
        BY <2>1, <3>1
      <4>2. cell[list[k].free[i]].use = "none"
        BY <1>1, <4>1 DEF FreeOK
      <4>3. list[k].free[i] \in Node
        BY <1>1, <4>1 DEF Typed, ListType
      <4> QED
        BY <1>6, <4>1, <4>2, <4>3
    <3> QED
      BY <3>1 DEF FreeUnused
  <2> QED
    BY <1>1, <2>2, <2>3, FreeStays
<1> DEFINE S2 == JoinedWalks(S, d, s)
<1>10. S2 \in [List -> Seq(Node)] /\ ListsOK(cell', list', S2)
       /\ Spared(cell, list, cell', {d, s})
  BY <1>4, <1>7, ConcatListsKept
<1>11. \E W : W \in SUBSET Node /\ StrayOK(cell', list', W)
  BY <1>4, <1>7, ConcatStray
<1>12. S2[s] = << >> /\ S2[d] = S[d] \o S[s]
  BY <1>5 DEF JoinedWalks
<1> HIDE DEF S2
<1>13. PICK W : W \in SUBSET Node /\ StrayOK(cell', list', W)
  BY <1>11
<1>14. AllOK(cell', list', S2, W)
  BY <1>7, <1>8, <1>9, <1>10, <1>13 DEF AllOK
<1> QED
  BY <1>5, <1>6, <1>10, <1>12, <1>14

-----------------------------------------------------------------------------
(* Sorting.                                                                *)
Earlier(s, j, i) ==
    \/ cell[s[j]].data < cell[s[i]].data
    \/ cell[s[j]].data = cell[s[i]].data /\ j > i

Ordered(s) == s \in Seq(Node) /\ \A i \in 1 .. Len(s) : cell[s[i]].data \in Nat

LEMMA RankBounds ==
    ASSUME NEW s, Ordered(s)
    PROVE  /\ \A i \in 1 .. Len(s) : Rank(s, i) \in 0 .. Len(s) - 1
           /\ \A i, j \in 1 .. Len(s) : Rank(s, i) = Rank(s, j) => i = j
           /\ \A i, j \in 1 .. Len(s) : Earlier(s, j, i) => Rank(s, j) < Rank(s, i)
<1> DEFINE z == Len(s)
           I == 1 .. z
           Pred(i) == {j \in I : Earlier(s, j, i)}
<1>1. z \in Nat /\ DOMAIN s = I /\ \A i \in I : cell[s[i]].data \in Nat /\ i \in Nat
  BY DEF Ordered
<1>2. \A i \in I : Rank(s, i) = Cardinality(Pred(i))
  BY <1>1 DEF Rank, Earlier
<1>3. IsFiniteSet(I) /\ Cardinality(I) = z
  <2> HIDE DEF z
  <2>1. 1 \in Int /\ z \in Int
    BY <1>1
  <2>2. IsFiniteSet(1 .. z) /\ Cardinality(1 .. z) = IF 1 > z THEN 0 ELSE z - 1 + 1
    BY <2>1, FS_Interval
  <2>3. (IF 1 > z THEN 0 ELSE z - 1 + 1) = z
    BY <1>1
  <2> QED
    BY <2>2, <2>3
<1>4. \A i \in I : ~Earlier(s, i, i)
  BY <1>1 DEF Earlier
<1>5. \A i, j \in I : Earlier(s, i, j) \/ Earlier(s, j, i) \/ i = j
  BY <1>1 DEF Earlier
<1>6. \A i, j, k \in I : Earlier(s, i, j) /\ Earlier(s, j, k) => Earlier(s, i, k)
  BY <1>1 DEF Earlier
<1> HIDE DEF I, z
<1>7. ASSUME NEW i \in I PROVE IsFiniteSet(Pred(i)) /\ Cardinality(Pred(i)) \in 0 .. z - 1
  <2>1. IsFiniteSet(I \ {i}) /\ Cardinality(I \ {i}) = z - 1
    BY <1>3, FS_RemoveElement
  <2>2. Pred(i) \in SUBSET (I \ {i})
    BY <1>4
  <2> HIDE DEF Pred
  <2>3. IsFiniteSet(Pred(i)) /\ Cardinality(Pred(i)) <= z - 1
    BY <2>1, <2>2, FS_Subset
  <2>4. Cardinality(Pred(i)) \in Nat
    BY <2>3, FS_CardinalityType
  <2> QED
    BY <1>1, <2>3, <2>4
<1>8. ASSUME NEW i \in I, NEW j \in I, Earlier(s, j, i)
      PROVE  Cardinality(Pred(j)) < Cardinality(Pred(i))
  <2>1. Pred(j) \in SUBSET Pred(i)
    BY <1>6, <1>8
  <2>2. j \in Pred(i) /\ j \notin Pred(j)
    BY <1>4, <1>8
  <2> HIDE DEF Pred
  <2>3. IsFiniteSet(Pred(i))
    BY <1>7
  <2>4. /\ Cardinality(Pred(j)) <= Cardinality(Pred(i))
        /\ Cardinality(Pred(i)) = Cardinality(Pred(j)) => Pred(i) = Pred(j)
    BY <2>1, <2>3, FS_Subset
  <2>5. Cardinality(Pred(i)) \in 0 .. z - 1 /\ Cardinality(Pred(j)) \in 0 .. z - 1
    BY <1>7
  <2> QED
    BY <1>1, <2>2, <2>4, <2>5
<1> HIDE DEF Pred
<1>9. \A i \in I : Rank(s, i) \in 0 .. z - 1
  BY <1>2, <1>7
<1>10. \A i, j \in I : Earlier(s, j, i) => Rank(s, j) < Rank(s, i)
  BY <1>2, <1>8
<1>11. \A i, j \in I : Rank(s, i) = Rank(s, j) => i = j
  <2>1. ASSUME NEW i \in I, NEW j \in I, Rank(s, i) = Rank(s, j) PROVE i = j
    <3>1. Rank(s, i) \in 0 .. z - 1 /\ Rank(s, j) \in 0 .. z - 1
      BY <1>9
    <3>2. ~(Rank(s, j) < Rank(s, i)) /\ ~(Rank(s, i) < Rank(s, j))
      BY <1>1, <2>1, <3>1
    <3> QED
      BY <1>5, <1>10, <3>2
  <2> QED
    BY <2>1
<1> QED
  BY <1>9, <1>10, <1>11 DEF I, z

LEMMA RankOnto ==
    ASSUME NEW s, Ordered(s), NEW k, k \in 1 .. Len(s)
    PROVE  \E i \in 1 .. Len(s) : Rank(s, i) = k - 1
<1> DEFINE z == Len(s)
           I == 1 .. z
           T == 0 .. z - 1
           f == [i \in I |-> Rank(s, i)]
<1>1. z \in Nat /\ k \in Nat /\ k - 1 \in T
  BY DEF Ordered
<1>2. f \in [I -> T] /\ \A i, j \in I : f[i] = f[j] => i = j
  BY RankBounds
<1>3. IsFiniteSet(I) /\ Cardinality(I) = z /\ IsFiniteSet(T) /\ Cardinality(T) = z
  <2> HIDE DEF z
  <2>1. 1 \in Int /\ z \in Int /\ 0 \in Int /\ z - 1 \in Int
    BY <1>1
  <2>2. IsFiniteSet(1 .. z) /\ Cardinality(1 .. z) = IF 1 > z THEN 0 ELSE z - 1 + 1
    BY <2>1, FS_Interval
  <2>3. IsFiniteSet(0 .. z - 1)
        /\ Cardinality(0 .. z - 1) = IF 0 > z - 1 THEN 0 ELSE (z - 1) - 0 + 1
    BY <2>1, FS_Interval
  <2>4. (IF 1 > z THEN 0 ELSE z - 1 + 1) = z /\ (IF 0 > z - 1 THEN 0 ELSE (z - 1) - 0 + 1) = z
    BY <1>1
  <2> QED
    BY <2>2, <2>3, <2>4
<1> HIDE DEF f, I, T, z
<1>4. f \in Injection(I, T)
  BY <1>2 DEF Injection, IsInjective
<1>5. f \in Surjection(I, T)
  BY <1>3, <1>4, FS_Injection
<1>6. \E i \in I : f[i] = k - 1
  BY <1>1, <1>5 DEF Surjection
<1> QED
  BY <1>6 DEF f, I, z

(* The sorted walk is the walk in another order.                           *)
LEMMA SortedIs ==
    ASSUME NEW l, Ordered(Walk(l)),
           \A i, j \in 1 .. Len(Walk(l)) : Walk(l)[i] = Walk(l)[j] => i = j
    PROVE  /\ SortedWalk(l) \in Seq(Node) /\ Len(SortedWalk(l)) = Len(Walk(l))
           /\ \A i, j \in 1 .. Len(Walk(l)) : SortedWalk(l)[i] = SortedWalk(l)[j] => i = j
           /\ \A i \in 1 .. Len(Walk(l)) : \E j \in 1 .. Len(Walk(l)) : SortedWalk(l)[i] = Walk(l)[j]
           /\ \A i \in 1 .. Len(Walk(l)) : \E j \in 1 .. Len(Walk(l)) : SortedWalk(l)[j] = Walk(l)[i]
<1> DEFINE s == Walk(l)
           z == Len(s)
           at(k) == CHOOSE i \in DOMAIN s : Rank(s, i) = k - 1
           e == SortedWalk(l)
<1>1. s \in Seq(Node) /\ z \in Nat /\ DOMAIN s = 1 .. z
      /\ \A i, j \in 1 .. z : s[i] = s[j] => i = j
  BY DEF Ordered
<1>2. e = [k \in 1 .. z |-> s[at(k)]]
  BY <1>1 DEF SortedWalk
<1> HIDE DEF s, z, e
<1>3. /\ \A i \in 1 .. z : Rank(s, i) \in 0 .. z - 1
      /\ \A i, j \in 1 .. z : Rank(s, i) = Rank(s, j) => i = j
  BY RankBounds DEF s, z
<1>4. \A k \in 1 .. z : \E i \in 1 .. z : Rank(s, i) = k - 1
  BY RankOnto DEF s, z
<1>5. \A k \in 1 .. z : at(k) \in 1 .. z /\ Rank(s, at(k)) = k - 1
  BY <1>1, <1>4
<1> HIDE DEF at
<1>6. e \in Seq(Node) /\ Len(e) = z
  <2>1. \A k \in 1 .. z : s[at(k)] \in Node
    BY <1>1, <1>5 DEF z
  <2>2. e \in [1 .. z -> Node]
    BY <1>2, <2>1
  <2> QED
    BY <1>1, <2>2
<1>7. ASSUME NEW i \in 1 .. z, NEW j \in 1 .. z, e[i] = e[j] PROVE i = j
  <2>1. at(i) = at(j)
    BY <1>1, <1>2, <1>5, <1>7
  <2>2. i - 1 = j - 1
    BY <1>5, <2>1
  <2> QED
    BY <1>1, <2>2
<1>8. \A i \in 1 .. z : \E j \in 1 .. z : e[i] = s[j]
  BY <1>2, <1>5
<1>9. ASSUME NEW i \in 1 .. z PROVE \E j \in 1 .. z : e[j] = s[i]
  <2> DEFINE k == Rank(s, i) + 1
  <2>1. k \in 1 .. z /\ k - 1 = Rank(s, i)
    BY <1>1, <1>3
  <2>2. at(k) = i
    BY <1>3, <1>5, <2>1
  <2> QED
    BY <1>2, <2>1, <2>2
<1> QED
  BY <1>6, <1>7, <1>8, <1>9 DEF s, z, e

LEMMA LinkedAt ==
    ASSUME cell \in [Node -> CellType], NEW e, e \in Seq(Node),
           \A i, j \in 1 .. Len(e) : e[i] = e[j] => i = j
    PROVE  /\ LinkedAs(e) \in [Node -> CellType]
           /\ \A n \in Node : (\A i \in 1 .. Len(e) : e[i] # n) => LinkedAs(e)[n] = cell[n]
           /\ \A n \in Node : /\ LinkedAs(e)[n].home = cell[n].home
                              /\ LinkedAs(e)[n].data = cell[n].data
                              /\ LinkedAs(e)[n].use = cell[n].use
                              /\ LinkedAs(e)[n].of = cell[n].of
           /\ \A i \in 1 .. Len(e) :
                 /\ LinkedAs(e)[e[i]].next = IF i = Len(e) THEN NIL ELSE e[i + 1]
                 /\ LinkedAs(e)[e[i]].prev = IF i = 1 THEN NIL ELSE e[i - 1]
<1> DEFINE c == LinkedAs(e)
           z == Len(e)
<1>1. z \in Nat /\ DOMAIN e = 1 .. z /\ \A i \in 1 .. z : e[i] \in Node
  OBVIOUS
<1>2. \A n : n \in Range(e) <=> \E i \in 1 .. z : e[i] = n
  BY <1>1 DEF Range
<1>3. ASSUME NEW n \in Node, \A i \in 1 .. z : e[i] # n PROVE c[n] = cell[n]
  BY <1>2, <1>3 DEF LinkedAs
<1>4. ASSUME NEW i \in 1 .. z
      PROVE  /\ c[e[i]] \in CellType
             /\ c[e[i]].home = cell[e[i]].home /\ c[e[i]].data = cell[e[i]].data
             /\ c[e[i]].use = cell[e[i]].use /\ c[e[i]].of = cell[e[i]].of
             /\ c[e[i]].next = IF i = z THEN NIL ELSE e[i + 1]
             /\ c[e[i]].prev = IF i = 1 THEN NIL ELSE e[i - 1]
  <2> DEFINE n == e[i]
             k == CHOOSE j \in DOMAIN e : e[j] = n
             x == IF k = z THEN NIL ELSE e[k + 1]
             y == IF k = 1 THEN NIL ELSE e[k - 1]
  <2>1. n \in Range(e) /\ n \in Node
    BY <1>1, <1>2
  <2>2. k = i
    <3>1. k \in 1 .. z /\ e[k] = e[i]
      BY <1>1
    <3> QED
      BY <3>1
  <2>3. c[n] = [cell[n] EXCEPT !.next = x, !.prev = y]
    BY <2>1 DEF LinkedAs
  <2> HIDE DEF c, z, k
  <2>4. x \in Node \cup {NIL} /\ y \in Node \cup {NIL}
    <3>1. i # z => i + 1 \in 1 .. z
      BY <1>1
    <3>2. i # 1 => i - 1 \in 1 .. z
      BY <1>1
    <3> QED
      BY <1>1, <2>2, <3>1, <3>2
  <2>5. x = (IF i = z THEN NIL ELSE e[i + 1]) /\ y = IF i = 1 THEN NIL ELSE e[i - 1]
    BY <2>2
  <2> HIDE DEF x, y, n
  <2>6. cell[n] \in CellType
    BY <2>1
  <2>7. /\ c[n].home = cell[n].home /\ c[n].data = cell[n].data
        /\ c[n].use = cell[n].use /\ c[n].of = cell[n].of
        /\ c[n].next = x /\ c[n].prev = y
    BY <2>3, <2>6 DEF CellType
  <2>8. c[n] \in CellType
    BY <2>3, <2>4, <2>6 DEF CellType
  <2> QED
    BY <2>5, <2>7, <2>8 DEF n
<1>5. c = [n \in Node |-> c[n]]
  BY DEF LinkedAs
<1> HIDE DEF c, z
<1>6. ASSUME NEW n \in Node
      PROVE  /\ c[n] \in CellType
             /\ c[n].home = cell[n].home /\ c[n].data = cell[n].data
             /\ c[n].use = cell[n].use /\ c[n].of = cell[n].of
  <2>1. CASE \A i \in 1 .. z : e[i] # n
    <3>1. c[n] = cell[n]
      BY <1>3, <2>1
    <3> QED
      BY <3>1
  <2>2. CASE \E i \in 1 .. z : e[i] = n
    BY <1>4, <2>2
  <2> QED
    BY <2>1, <2>2
<1>7. c \in [Node -> CellType]
  BY <1>5, <1>6
<1> QED
  BY <1>3, <1>4, <1>6, <1>7 DEF c, z

(* What a walk meets: all nodes of a list, or what a broken list leads to. *)
LEMMA WalkMeets ==
    ASSUME NEW S, NEW D, AllOK(cell, list, S, D), NEW l \in List, list[l].open
    PROVE  /\ Walk(l) \in Seq(Node)
           /\ \A i, j \in 1 .. Len(Walk(l)) : Walk(l)[i] = Walk(l)[j] => i = j
           /\ \A i \in 1 .. Len(Walk(l)) : Alive(cell, Walk(l)[i])
           /\ list[l].taint => \A i \in 1 .. Len(Walk(l)) : Walk(l)[i] \in D
           /\ ~list[l].taint => /\ Walk(l) = S[l] /\ Clean(list[l])
                                /\ ListOK(cell, list[l], l, Walk(l))
<1> DEFINE s == Walk(l)
<1>1. /\ NodesOK(cell, list) /\ ListsOK(cell, list, S)
      /\ StrayOK(cell, list, D) /\ D \in SUBSET Node /\ list[l].taint \in BOOLEAN
  BY DEF AllOK, Typed, ListType
<1>2. CASE list[l].taint
  <2>1. Leads(cell, D, list[l].head) /\ \A n \in D : Leads(cell, D, cell[n].next) /\ Alive(cell, n)
    BY <1>1, <1>2 DEF StrayOK
  <2>2. s \in Seq(D) /\ \A i, j \in 1 .. Len(s) : s[i] = s[j] => i = j
    BY <2>1, WalkStays
  <2> HIDE DEF s
  <2>3. s \in Seq(Node) /\ \A i \in 1 .. Len(s) : s[i] \in D
    <3>1. s \in [1 .. Len(s) -> D] /\ Len(s) \in Nat
      BY <2>2
    <3>2. s \in [1 .. Len(s) -> Node]
      BY <1>1, <3>1
    <3> QED
      BY <3>1, <3>2
  <2> QED
    BY <1>2, <2>1, <2>2, <2>3 DEF s
<1>3. CASE ~list[l].taint
  <2>1. Clean(list[l])
    BY <1>3 DEF Clean
  <2>2. s = S[l]
    BY <2>1, CleanWalk
  <2>3. S[l] \in Seq(Node) /\ ListOK(cell, list[l], l, S[l])
    BY <1>1, <2>1 DEF AllOK, ListsOK
  <2>4. Len(S[l]) \in Nat /\ \A i \in 1 .. Len(S[l]) : S[l][i] \in Node
    BY <2>3
  <2>5. \A i, j \in 1 .. Len(S[l]) : S[l][i] = S[l][j] => i = j
    BY <2>3 DEF ListOK, Threads
  <2>6. \A i \in 1 .. Len(S[l]) : cell[S[l][i]].use = "in"
    BY <2>3, <2>4 DEF ListOK, Holds
  <2>7. \A i \in 1 .. Len(S[l]) : Alive(cell, S[l][i])
    BY <1>1, <2>4, <2>6 DEF NodesOK
  <2> QED
    BY <1>3, <2>1, <2>2, <2>3, <2>5, <2>7
<1> QED
  BY <1>1, <1>2, <1>3

LEMMA SortKeeps ==
    ASSUME NEW S, NEW D, AllOK(cell, list, S, D), NEW l \in List, Sort(l), fault' = "none"
    PROVE  /\ \E S2, D2 : /\ AllOK(cell', list', S2, D2)
                          /\ Clean(list'[l]) => S2[l] = SortedWalk(l)
           /\ Clean(list'[l]) => Clean(list[l]) /\ Ordered(Walk(l))
           /\ \A n \in Node : cell'[n].data = cell[n].data
           /\ Spared(cell, list, cell', {l}) /\ \A k \in List \ {l} : list'[k] = list[k]
<1> DEFINE s == Walk(l)
           e == SortedWalk(l)
           c2 == LinkedAs(e)
           z == Len(s)
<1>1. /\ Typed(cell, list) /\ NodesOK(cell, list) /\ ListsOK(cell, list, S)
      /\ StrayOK(cell, list, D) /\ D \in SUBSET Node /\ S \in [List -> Seq(Node)]
      /\ cell \in [Node -> CellType] /\ list \in [List -> ListType]
      /\ list[l].open /\ list[l].taint \in BOOLEAN
  BY DEF AllOK, Typed, ListType, Sort, On
<1>2. z > 1 /\ cell' = c2 /\ list' = [list EXCEPT ![l].head = e[1]]
  BY DEF Sort, Crashes
<1> HIDE DEF s, z
<1>3. /\ s \in Seq(Node) /\ z \in Nat /\ z = Len(s)
      /\ \A i, j \in 1 .. z : s[i] = s[j] => i = j
      /\ \A i \in 1 .. z : Alive(cell, s[i])
      /\ list[l].taint => \A i \in 1 .. z : s[i] \in D
      /\ ~list[l].taint => s = S[l] /\ ListOK(cell, list[l], l, s) /\ Clean(list[l])
  <2>1. /\ Walk(l) \in Seq(Node)
        /\ \A i, j \in 1 .. Len(Walk(l)) : Walk(l)[i] = Walk(l)[j] => i = j
        /\ \A i \in 1 .. Len(Walk(l)) : Alive(cell, Walk(l)[i])
        /\ list[l].taint => \A i \in 1 .. Len(Walk(l)) : Walk(l)[i] \in D
        /\ ~list[l].taint => /\ Walk(l) = S[l] /\ Clean(list[l])
                             /\ ListOK(cell, list[l], l, Walk(l))
    BY <1>1, WalkMeets
  <2>2. Len(Walk(l)) \in Nat
    BY <2>1
  <2> QED
    BY <2>1, <2>2 DEF s, z
<1>4. Ordered(s)
  <2>1. \A i \in 1 .. z : s[i] \in Node
    BY <1>3
  <2>2. \A i \in 1 .. z : cell[s[i]].data \in Data
    BY <1>1, <1>3, <2>1 DEF NodesOK
  <2> QED
    BY <1>3, <2>2, ListAssumption DEF Ordered
<1> HIDE DEF e
<1>5. /\ e \in Seq(Node) /\ Len(e) = z
      /\ \A i, j \in 1 .. z : e[i] = e[j] => i = j
      /\ \A i \in 1 .. z : \E j \in 1 .. z : e[i] = s[j]
      /\ \A i \in 1 .. z : \E j \in 1 .. z : e[j] = s[i]
  <2>1. /\ Ordered(Walk(l))
        /\ \A i, j \in 1 .. Len(Walk(l)) : Walk(l)[i] = Walk(l)[j] => i = j
    BY <1>3, <1>4 DEF s
  <2> QED
    BY <2>1, SortedIs DEF s, e, z
<1>6. /\ c2 \in [Node -> CellType]
      /\ \A n \in Node : (\A i \in 1 .. z : e[i] # n) => c2[n] = cell[n]
      /\ \A n \in Node : /\ c2[n].home = cell[n].home /\ c2[n].data = cell[n].data
                         /\ c2[n].use = cell[n].use /\ c2[n].of = cell[n].of
      /\ \A i \in 1 .. z :
            /\ c2[e[i]].next = IF i = z THEN NIL ELSE e[i + 1]
            /\ c2[e[i]].prev = IF i = 1 THEN NIL ELSE e[i - 1]
  <2>1. e \in Seq(Node) /\ \A i, j \in 1 .. Len(e) : e[i] = e[j] => i = j
    BY <1>5
  <2>2. cell \in [Node -> CellType]
    BY <1>1
  <2>3. /\ LinkedAs(e) \in [Node -> CellType]
        /\ \A n \in Node : (\A i \in 1 .. Len(e) : e[i] # n) => LinkedAs(e)[n] = cell[n]
        /\ \A n \in Node : /\ LinkedAs(e)[n].home = cell[n].home
                           /\ LinkedAs(e)[n].data = cell[n].data
                           /\ LinkedAs(e)[n].use = cell[n].use
                           /\ LinkedAs(e)[n].of = cell[n].of
        /\ \A i \in 1 .. Len(e) :
              /\ LinkedAs(e)[e[i]].next = IF i = Len(e) THEN NIL ELSE e[i + 1]
              /\ LinkedAs(e)[e[i]].prev = IF i = 1 THEN NIL ELSE e[i - 1]
    BY ONLY <2>1, <2>2, LinkedAt
  <2>4. Len(e) = z
    BY <1>5
  <2> QED
    BY <2>3, <2>4
<1> HIDE DEF c2
<1>7. \A i \in 1 .. z : e[i] \in Node
  BY <1>5
<1> DEFINE li2 == [list EXCEPT ![l].head = e[1]]
<1>8. /\ li2 \in [List -> ListType] /\ \A k \in List \ {l} : li2[k] = list[k]
      /\ li2[l].head = e[1] /\ li2[l].open = list[l].open /\ li2[l].count = list[l].count
      /\ li2[l].free = list[l].free /\ li2[l].max = list[l].max /\ li2[l].taint = list[l].taint
  <2>1. li2[l] = [list[l] EXCEPT !.head = e[1]] /\ (\A k \in List \ {l} : li2[k] = list[k])
        /\ li2 = [k \in List |-> li2[k]]
    BY <1>1
  <2>2. e[1] \in Node
    BY <1>2, <1>3, <1>7
  <2>3. list[l] \in ListType
    BY <1>1
  <2> HIDE DEF li2
  <2>4. li2[l] \in ListType
    BY <2>1, <2>2, <2>3 DEF ListType
  <2>5. /\ li2[l].head = e[1] /\ li2[l].open = list[l].open /\ li2[l].count = list[l].count
        /\ li2[l].free = list[l].free /\ li2[l].max = list[l].max /\ li2[l].taint = list[l].taint
    BY <2>1, <2>3 DEF ListType
  <2> QED
    BY <1>1, <2>1, <2>4, <2>5
<1> HIDE DEF li2
<1>9. Typed(c2, li2)
  <2>1. ASSUME NEW k \in List
        PROVE  /\ Len(li2[k].free) <= li2[k].max /\ (li2[k].taint => li2[k].open)
               /\ li2[k].open \/ li2[k].free = << >>
    BY <1>1, <1>8 DEF Typed
  <2> QED
    BY <1>6, <1>8, <2>1 DEF Typed
<1>10. /\ \E S2, D2 : AllOK(c2, li2, S2, D2) /\ (Clean(li2[l]) => S2[l] = e)
       /\ Spared(cell, list, c2, {l})
  <2>1. CASE ~list[l].taint
    <3>1. ListOK(cell, list[l], l, s) /\ Clean(list[l])
      BY <1>3, <2>1
    <3>2. Threads(c2, e, e[1])
      <4>1. Len(e) = z /\ z \in Nat /\ z > 1 /\ 1 \in 1 .. z
        BY <1>2, <1>3, <1>5
      <4>2. \A i \in 2 .. z : i \in 1 .. z /\ i # 1
        BY <4>1
      <4>3. \A i, j \in 1 .. Len(e) : e[i] = e[j] => i = j
        BY <1>5, <4>1
      <4>4. e[1] = IF Len(e) = 0 THEN NIL ELSE e[1]
        BY <4>1
      <4>5. \A i \in 1 .. Len(e) : c2[e[i]].next = IF i = Len(e) THEN NIL ELSE e[i + 1]
        BY <1>6, <4>1
      <4>6. \A i \in 2 .. Len(e) : c2[e[i]].prev = e[i - 1]
        BY <1>6, <4>1, <4>2
      <4>7. c2[e[1]].prev = NIL
        BY <1>6, <4>1
      <4> QED
        BY <4>3, <4>4, <4>5, <4>6, <4>7 DEF Threads
    <3>3. Holds(c2, l, e)
      <4>1. ASSUME NEW m \in Node
            PROVE  (\E i \in 1 .. Len(e) : e[i] = m) <=> c2[m].use = "in" /\ c2[m].of = l
        <5>1. (\E i \in 1 .. Len(s) : s[i] = m) <=> cell[m].use = "in" /\ cell[m].of = l
          BY <3>1 DEF ListOK, Holds
        <5>0. Len(e) = z /\ Len(s) = z
          BY <1>3, <1>5
        <5>3. ASSUME NEW i \in 1 .. z, e[i] = m PROVE \E j \in 1 .. z : s[j] = m
          <6>1. PICK j \in 1 .. z : e[i] = s[j]
            BY <1>5
          <6> QED
            BY <5>3, <6>1
        <5>4. ASSUME NEW i \in 1 .. z, s[i] = m PROVE \E j \in 1 .. z : e[j] = m
          <6>1. PICK j \in 1 .. z : e[j] = s[i]
            BY <1>5
          <6> QED
            BY <5>4, <6>1
        <5>2. (\E i \in 1 .. Len(e) : e[i] = m) <=> (\E i \in 1 .. Len(s) : s[i] = m)
          BY <5>0, <5>3, <5>4
        <5> QED
          BY <1>6, <5>1, <5>2
      <4>2. ASSUME NEW i \in 1 .. Len(e) PROVE c2[e[i]].home \in {l, CLIENT}
        <5>0. i \in 1 .. z
          BY <1>5
        <5>1. PICK j \in 1 .. z : e[i] = s[j]
          BY <1>5, <5>0
        <5>3. j \in 1 .. Len(s)
          BY <1>3
        <5>2. cell[s[j]].home \in {l, CLIENT}
          BY <3>1, <5>3 DEF ListOK, Holds
        <5> QED
          BY <1>6, <1>7, <5>0, <5>1, <5>2
      <4> QED
        BY <4>1, <4>2 DEF Holds
    <3>4. ListOK(c2, li2[l], l, e)
      <4>1. list[l].count = Len(s)
        BY <3>1 DEF ListOK
      <4> QED
        BY <1>3, <1>5, <1>8, <3>2, <3>3, <4>1 DEF ListOK
    <3>5. Rewires(cell, c2, l)
      <4>1. ASSUME NEW n \in Node, cell[n].use = "none" \/ cell[n].of # l PROVE c2[n] = cell[n]
        <5>1. \A i \in 1 .. z : s[i] # n
          <6>1. ~\E i \in 1 .. Len(s) : s[i] = n
            BY <3>1, <4>1 DEF ListOK, Holds
          <6>2. Len(s) = z
            BY <1>3
          <6> QED
            BY <6>1, <6>2
        <5>2. ASSUME NEW i \in 1 .. z PROVE e[i] # n
          <6>1. PICK j \in 1 .. z : e[i] = s[j]
            BY <1>5
          <6> QED
            BY <5>1, <6>1
        <5> QED
          BY <1>6, <5>2
      <4> QED
        BY <1>6, <4>1 DEF Rewires
    <3>6. StaysClean(list, li2, l)
      BY <1>8, <3>1 DEF StaysClean, Clean
    <3>7. AllOK(c2, li2, [S EXCEPT ![l] = e], D) /\ Spared(cell, list, c2, {l})
      BY <1>5, <1>9, <3>4, <3>5, <3>6, CleanKeeps
    <3>8. [S EXCEPT ![l] = e][l] = e
      BY <1>1
    <3> QED
      BY <3>7, <3>8
  <2>2. CASE list[l].taint
    <3>1. /\ Frays(cell, D, l, D)
          /\ \A w \in D : Leads(cell, D, cell[w].next) /\ Leads(cell, D, cell[w].prev)
          /\ \A w \in D : Alive(cell, w)
      <4>1. Reach(cell, D, l) = D
        BY <1>1, <2>2, ReachLeads
      <4>2. /\ Frays(cell, Reach(cell, D, l), l, Reach(cell, D, l)) \/ Frays(cell, D, l, Reach(cell, D, l))
        BY <1>1, ReachLeads
      <4> QED
        BY <1>1, <4>1, <4>2 DEF StrayOK
    <3>2. \A i \in 1 .. z : e[i] \in D
      <4>1. \A i \in 1 .. z : s[i] \in D
        BY <1>3, <2>2
      <4> QED
        BY <1>5, <4>1
    <3>3. \A p : Leads(cell, D, p) /\ p \in Node \cup {NIL} => Leads(c2, D, p)
      BY <1>6 DEF Leads, Alive
    <3>4. Within(cell, c2, li2, D)
      <4>1. \A n \in Node \ D : c2[n] = cell[n]
        BY <1>6, <3>2
      <4>2. ASSUME NEW w \in D
            PROVE  Leads(c2, D, c2[w].next) /\ Leads(c2, D, c2[w].prev)
        <5>1. CASE \A i \in 1 .. z : e[i] # w
          <6>1. c2[w] = cell[w] /\ w \in Node
            BY <1>1, <1>6, <5>1
          <6>2. cell[w].next \in Node \cup {NIL} /\ cell[w].prev \in Node \cup {NIL}
            BY <1>1, <6>1 DEF CellType
          <6> QED
            BY <3>1, <3>3, <6>1, <6>2
        <5>2. CASE \E i \in 1 .. z : e[i] = w
          <6>1. PICK i \in 1 .. z : e[i] = w
            BY <5>2
          <6>2. (i # z => i + 1 \in 1 .. z) /\ (i # 1 => i - 1 \in 1 .. z)
            BY <1>3
          <6>3. c2[w].next \in D \cup {NIL} /\ c2[w].prev \in D \cup {NIL}
            BY <1>6, <3>2, <6>1, <6>2
          <6> QED
            BY <6>3 DEF Leads
        <5> QED
          BY <5>1, <5>2
      <4>3. ASSUME NEW w \in D
            PROVE  /\ c2[w].home = cell[w].home /\ c2[w].data = cell[w].data
                   /\ c2[w].use = "none" => c2[w].of = NIL
                   /\ c2[w].use # "none" => c2[w].of \in List /\ li2[c2[w].of].open /\ ~Clean(li2[c2[w].of])
        <5>1. w \in Node /\ c2[w].home = cell[w].home /\ c2[w].data = cell[w].data
              /\ c2[w].use = cell[w].use /\ c2[w].of = cell[w].of
          BY <1>1, <1>6
        <5>2. /\ cell[w].use = "none" => cell[w].of = NIL
              /\ cell[w].use # "none" => cell[w].of \in List /\ list[cell[w].of].open
                                         /\ ~Clean(list[cell[w].of])
          BY <1>1, <5>1 DEF NodesOK, StrayOK, Unclean
        <5>3. \A k \in List : li2[k].open = list[k].open /\ li2[k].taint = list[k].taint
          BY <1>8
        <5> QED
          BY <5>1, <5>2, <5>3 DEF Clean
      <4> QED
        BY <4>1, <4>2, <4>3 DEF Within
    <3>5. Breaks(list, c2, li2, l, D, D)
      <4>1. e[1] \in D
        BY <1>2, <1>3, <3>2
      <4> QED
        BY <1>1, <1>8, <2>2, <4>1 DEF Breaks, Leads
    <3>6. AllOK(c2, li2, S, D) /\ Spared(cell, list, c2, {l})
      BY <1>9, <3>1, <3>4, <3>5, BreakingKeeps
    <3>7. ~Clean(li2[l])
      BY <1>8, <2>2 DEF Clean
    <3> QED
      BY <3>6, <3>7
  <2> QED
    BY <1>1, <2>1, <2>2
<1>11. cell' = c2 /\ list' = li2
  BY <1>2 DEF li2
<1>12. Clean(li2[l]) => Clean(list[l])
  BY <1>8 DEF Clean
<1> QED
  BY <1>4, <1>6, <1>8, <1>10, <1>11, <1>12 DEF e, s

(* A list that is made anew, broken, out of nodes nothing refers to.       *)
Revives(c, li, D, l, X, c2, li2) ==
    /\ ~li[l].open /\ X \in SUBSET Node
    /\ c2 \in [Node -> CellType] /\ li2 \in [List -> ListType]
    /\ \A n \in Node \ X : c2[n] = c[n]
    /\ \A k \in List \ {l} : li2[k] = li[k]
    /\ \A n \in X :
          /\ ~Alive(c, n) /\ Alive(c2, n) /\ c2[n].data \in Data
          /\ c2[n].use = "in" /\ c2[n].of = l
          /\ c2[n].next \notin X /\ Leads(c, D, c2[n].next)
          /\ c2[n].prev \notin X /\ Leads(c, D, c2[n].prev)
          /\ \A m \in D : c[m].next # n /\ c[m].prev # n
          /\ \A k \in List \ {l} : /\ li[k].head # n
                                   /\ \A i \in 1 .. Len(li[k].free) : li[k].free[i] # n
    /\ li2[l].open /\ li2[l].taint /\ li2[l].free = << >> /\ li2[l].head \in X

LEMMA RevivingKeeps ==
    ASSUME NEW c, NEW li, NEW S, NEW D, AllOK(c, li, S, D), NEW l \in List,
           NEW X, NEW c2, NEW li2, Revives(c, li, D, l, X, c2, li2)
    PROVE  AllOK(c2, li2, S, D \cup X) /\ Spared(c, li, c2, {})
<1>1. /\ Typed(c, li) /\ NodesOK(c, li) /\ FreeOK(c, li)
      /\ S \in [List -> Seq(Node)] /\ ListsOK(c, li, S)
      /\ D \in SUBSET Node /\ StrayOK(c, li, D)
      /\ li \in [List -> ListType] /\ c \in [Node -> CellType]
  BY DEF AllOK, Typed
<1>2. /\ ~li[l].open /\ X \in SUBSET Node
      /\ c2 \in [Node -> CellType] /\ li2 \in [List -> ListType]
      /\ \A n \in Node \ X : c2[n] = c[n]
      /\ \A k \in List \ {l} : li2[k] = li[k]
      /\ li2[l].open /\ li2[l].taint /\ li2[l].free = << >> /\ li2[l].head \in X
  BY DEF Revives
<1>3. /\ \A n \in X :
            /\ ~Alive(c, n) /\ Alive(c2, n) /\ c2[n].data \in Data
            /\ c2[n].use = "in" /\ c2[n].of = l
      /\ \A n \in X :
            /\ c2[n].next \notin X /\ Leads(c, D, c2[n].next)
            /\ c2[n].prev \notin X /\ Leads(c, D, c2[n].prev)
      /\ \A n \in X : \A m \in D : c[m].next # n /\ c[m].prev # n
      /\ \A n \in X : \A k \in List \ {l} :
            /\ li[k].head # n
            /\ \A i \in 1 .. Len(li[k].free) : li[k].free[i] # n
  BY DEF Revives
<1>4. /\ \A n \in X : n \in Node /\ c[n].use = "none" /\ n \notin D
      /\ \A n \in Node : c[n].use # "none" => c[n].of \in List \ {l} /\ n \notin X
      /\ \A k \in List : Clean(li2[k]) => k \in List \ {l} /\ Clean(li[k])
  <2>1. \A n \in Node : c[n].use # "none" => Alive(c, n) /\ c[n].of \in List /\ li[c[n].of].open
    BY <1>1 DEF NodesOK
  <2>2. \A n \in D : Alive(c, n)
    BY <1>1 DEF StrayOK
  <2> QED
    BY <1>2, <1>3, <2>1, <2>2 DEF Clean
<1>5. Typed(c2, li2)
  <2>1. ASSUME NEW k \in List
        PROVE  /\ Len(li2[k].free) <= li2[k].max /\ (li2[k].taint => li2[k].open)
               /\ li2[k].open \/ li2[k].free = << >>
    <3>1. k = l => Len(li2[k].free) = 0 /\ li2[k].max \in Nat
      BY <1>2 DEF ListType
    <3> QED
      BY <1>1, <1>2, <3>1 DEF Typed
  <2> QED
    BY <1>2, <2>1 DEF Typed
<1>6. NodesOK(c2, li2)
  <2>1. ASSUME NEW n \in Node
        PROVE  /\ Alive(c2, n) => c2[n].data \in Data
               /\ c2[n].use # "none" => Alive(c2, n) /\ c2[n].of \in List /\ li2[c2[n].of].open
               /\ c2[n].use = "none" => c2[n].of = NIL
    <3>1. CASE n \in X
      BY <1>2, <1>3, <3>1
    <3>2. CASE n \notin X
      BY <1>1, <1>2, <1>4, <3>2 DEF NodesOK, Alive
    <3> QED
      BY <3>1, <3>2
  <2> QED
    BY <2>1 DEF NodesOK
<1>7. \A k \in List : Clean(li2[k]) =>
         \A i \in 1 .. Len(li2[k].free) : li2[k].free[i] \in Node \ X
  <2>1. ASSUME NEW k \in List, Clean(li2[k]), NEW i \in 1 .. Len(li2[k].free)
        PROVE  li2[k].free[i] \in Node \ X
    <3>1. k \in List \ {l} /\ li2[k].free = li[k].free /\ li[k].free \in Seq(Node)
      BY <1>1, <1>2, <1>4, <2>1 DEF ListType
    <3>2. li[k].free[i] \in Node /\ i \in 1 .. Len(li[k].free)
      BY <3>1
    <3> QED
      BY <1>3, <3>1, <3>2
  <2> QED
    BY <2>1
<1>8. FreeOK(c2, li2)
  <2>1. FreeWithin(li, li2)
    BY <1>2, <1>4 DEF FreeWithin
  <2>2. FreeUnused(c2, li2)
    <3>1. ASSUME NEW k \in List, Clean(li2[k]), NEW i \in 1 .. Len(li2[k].free)
          PROVE  c2[li2[k].free[i]].use = "none"
      <4>1. Clean(li[k]) /\ li2[k].free = li[k].free /\ li2[k].free[i] \in Node \ X
        BY <1>2, <1>4, <1>7, <3>1
      <4>2. c[li[k].free[i]].use = "none"
        BY <1>1, <3>1, <4>1 DEF FreeOK
      <4> QED
        BY <1>2, <4>1, <4>2
    <3> QED
      BY <3>1 DEF FreeUnused
  <2> QED
    BY <1>1, <2>1, <2>2, FreeStays
<1>9. Spared(c, li, c2, {})
  BY <1>2, <1>4 DEF Spared
<1>10. ListsOK(c2, li2, S)
  <2>1. ASSUME NEW k \in List, Clean(li2[k]) PROVE ListOK(c2, li2[k], k, S[k])
    <3>1. ListOK(c, li[k], k, S[k]) /\ S[k] \in Seq(Node) /\ k # l /\ li2[k] = li[k]
      BY <1>1, <1>2, <1>4, <2>1 DEF ListsOK
    <3>2. \A m \in Node : c[m].use = "in" /\ c[m].of = k => c2[m] = c[m]
      BY <1>2, <1>4
    <3>3. \A m \in Node : c2[m].use = "in" /\ c2[m].of = k => c[m].use = "in" /\ c[m].of = k
      BY <1>2, <1>3, <3>1
    <3> QED
      BY <3>1, <3>2, <3>3, ListKept
  <2> QED
    BY <2>1 DEF ListsOK
<1>11. \A p \in Node \cup {NIL} : Leads(c, D, p) /\ p \notin X => Leads(c2, D \cup X, p)
  BY <1>2 DEF Leads, Alive
<1>12. ASSUME NEW n \in Node, n \notin X, Unclean(c, li, n) PROVE Unclean(c2, li2, n)
  <2>1. c2[n] = c[n]
    BY <1>2, <1>12
  <2>2. c[n].use # "none" => li2[c[n].of] = li[c[n].of]
    BY <1>2, <1>4
  <2> QED
    BY <1>12, <2>1, <2>2 DEF Unclean
<1>13. StrayOK(c2, li2, D \cup X)
  <2>1. ASSUME NEW n \in D \cup X
        PROVE  /\ Alive(c2, n)
               /\ Leads(c2, D \cup X, c2[n].next) /\ Leads(c2, D \cup X, c2[n].prev)
               /\ Unclean(c2, li2, n)
    <3>1. n \in Node /\ c2[n].next \in Node \cup {NIL} /\ c2[n].prev \in Node \cup {NIL}
      BY <1>1, <1>2 DEF CellType
    <3>2. CASE n \in X
      <4>1. Alive(c2, n) /\ Unclean(c2, li2, n)
        BY <1>2, <1>3, <3>2 DEF Unclean, Clean
      <4> QED
        BY <1>3, <1>11, <3>1, <3>2, <4>1
    <3>3. CASE n \notin X
      <4>1. n \in D /\ c2[n] = c[n]
        BY <1>2, <3>1, <3>3
      <4>2. Alive(c, n) /\ Leads(c, D, c[n].next) /\ Leads(c, D, c[n].prev) /\ Unclean(c, li, n)
        BY <1>1, <4>1 DEF StrayOK
      <4>3. c[n].next \notin X /\ c[n].prev \notin X
        BY <1>3, <4>1
      <4>4. Leads(c2, D \cup X, c2[n].next) /\ Leads(c2, D \cup X, c2[n].prev)
        BY <1>11, <3>1, <4>1, <4>2, <4>3
      <4>5. Unclean(c2, li2, n)
        BY <1>12, <3>1, <3>3, <4>2
      <4> QED
        BY <4>1, <4>2, <4>4, <4>5 DEF Alive
    <3> QED
      BY <3>2, <3>3
  <2>2. ASSUME NEW n \in D \cup X, NEW k \in List, Clean(li2[k]),
               NEW i \in 1 .. Len(li2[k].free)
        PROVE  li2[k].free[i] # n
    <3>1. Clean(li[k]) /\ li2[k].free = li[k].free /\ li2[k].free[i] \notin X
      BY <1>2, <1>4, <1>7, <2>2
    <3>2. \A m \in D : li[k].free[i] # m
      BY <1>1, <2>2, <3>1 DEF StrayOK
    <3> QED
      BY <3>1, <3>2
  <2>3. ASSUME NEW n \in Node, c2[n].use = "in", li2[c2[n].of].taint PROVE n \in D \cup X
    <3>1. CASE n \notin X
      <4>1. c2[n] = c[n] /\ c[n].of \in List \ {l}
        BY <1>2, <1>4, <2>3, <3>1
      <4>2. c[n].use = "in" /\ li[c[n].of].taint
        BY <1>2, <2>3, <4>1
      <4> QED
        BY <1>1, <4>2 DEF StrayOK
    <3> QED
      BY <3>1
  <2>4. ASSUME NEW k \in List, li2[k].taint
        PROVE  /\ Leads(c2, D \cup X, li2[k].head)
               /\ \A i \in 1 .. Len(li2[k].free) : Unclean(c2, li2, li2[k].free[i])
    <3>1. CASE k = l
      <4>1. Len(li2[k].free) = 0 /\ li2[k].head \in D \cup X
        BY <1>2, <3>1
      <4> QED
        BY <4>1 DEF Leads
    <3>2. CASE k # l
      <4>1. /\ li2[k] = li[k] /\ li[k].head \in Node \cup {NIL} /\ li[k].head \notin X
            /\ Leads(c, D, li[k].head) /\ li[k].free \in Seq(Node)
            /\ \A i \in 1 .. Len(li[k].free) : Unclean(c, li, li[k].free[i])
        BY <1>1, <1>2, <1>3, <2>4, <3>2 DEF StrayOK, ListType
      <4>2. ASSUME NEW i \in 1 .. Len(li2[k].free) PROVE Unclean(c2, li2, li2[k].free[i])
        <5>1. li[k].free[i] \in Node /\ li[k].free[i] \notin X /\ Unclean(c, li, li[k].free[i])
          BY <1>3, <3>2, <4>1
        <5> QED
          BY <1>12, <4>1, <5>1
      <4> QED
        BY <1>11, <4>1, <4>2
    <3> QED
      BY <3>1, <3>2
  <2> QED
    BY <2>1, <2>2, <2>3, <2>4 DEF StrayOK
<1>14. D \cup X \in SUBSET Node
  BY <1>1, <1>2
<1> QED
  BY <1>1, <1>5, <1>6, <1>8, <1>9, <1>10, <1>13, <1>14 DEF AllOK

LEMMA CopiesAt ==
    ASSUME cell \in [Node -> CellType], NEW l \in List, NEW copy,
           Walk(l) \in Seq(Node), copy \in [1 .. Len(Walk(l)) -> Node],
           \A i, j \in 1 .. Len(Walk(l)) : copy[i] = copy[j] => i = j
    PROVE  /\ Copies(l, copy) \in [Node -> CellType]
           /\ \A n \in Node : (\A i \in 1 .. Len(Walk(l)) : copy[i] # n) =>
                 Copies(l, copy)[n] = Freed(l)[n]
           /\ \A i \in 1 .. Len(Walk(l)) :
                 /\ Copies(l, copy)[copy[i]].next = cell[Walk(l)[i]].next
                 /\ Copies(l, copy)[copy[i]].prev = cell[Walk(l)[i]].prev
                 /\ Copies(l, copy)[copy[i]].data = cell[Walk(l)[i]].data
                 /\ Copies(l, copy)[copy[i]].home = l
                 /\ Copies(l, copy)[copy[i]].use = "in"
                 /\ Copies(l, copy)[copy[i]].of = l
<1> DEFINE c == Copies(l, copy)
           s == Walk(l)
           z == Len(s)
           F == Freed(l)
<1>1. z \in Nat /\ DOMAIN copy = 1 .. z /\ \A i \in 1 .. z : copy[i] \in Node /\ s[i] \in Node
  OBVIOUS
<1>2. \A n : n \in Range(copy) <=> \E i \in 1 .. z : copy[i] = n
  BY <1>1 DEF Range
<1>3. F \in [Node -> CellType]
  BY FreedAt
<1>4. ASSUME NEW n \in Node, \A i \in 1 .. z : copy[i] # n PROVE c[n] = F[n]
  BY <1>2, <1>4 DEF Copies
<1>5. ASSUME NEW i \in 1 .. z
      PROVE  /\ c[copy[i]] \in CellType
             /\ c[copy[i]].next = cell[s[i]].next /\ c[copy[i]].prev = cell[s[i]].prev
             /\ c[copy[i]].data = cell[s[i]].data /\ c[copy[i]].home = l
             /\ c[copy[i]].use = "in" /\ c[copy[i]].of = l
  <2> DEFINE n == copy[i]
             k == CHOOSE j \in DOMAIN copy : copy[j] = n
             old == cell[s[k]]
  <2>1. n \in Range(copy) /\ n \in Node
    BY <1>1, <1>2
  <2>2. k = i
    <3>1. k \in 1 .. z /\ copy[k] = copy[i]
      BY <1>1
    <3> QED
      BY <3>1
  <2>3. c[n] = [old EXCEPT !.home = l, !.use = "in", !.of = l]
    BY <2>1 DEF Copies
  <2> HIDE DEF c, k
  <2>4. old = cell[s[i]] /\ old \in CellType
    BY <1>1, <2>2
  <2> HIDE DEF old, n, s, z
  <2>5. /\ c[n].next = old.next /\ c[n].prev = old.prev /\ c[n].data = old.data
        /\ c[n].home = l /\ c[n].use = "in" /\ c[n].of = l
    BY <2>3, <2>4 DEF CellType
  <2>6. c[n] \in CellType
    BY <2>3, <2>4 DEF CellType
  <2> QED
    BY <2>4, <2>5, <2>6 DEF n
<1>6. c = [n \in Node |-> c[n]]
  BY DEF Copies
<1> HIDE DEF c, F, s, z
<1>7. ASSUME NEW n \in Node PROVE c[n] \in CellType
  <2>1. CASE \A i \in 1 .. z : copy[i] # n
    <3>1. c[n] = F[n]
      BY <1>4, <2>1
    <3> QED
      BY <1>3, <3>1
  <2>2. CASE \E i \in 1 .. z : copy[i] = n
    BY <1>5, <2>2
  <2> QED
    BY <2>1, <2>2
<1>8. c \in [Node -> CellType]
  BY <1>6, <1>7
<1> QED
  BY <1>4, <1>5, <1>8 DEF c, F, s, z

(* The list after its nodes have been copied.                              *)
Copied(r, k, n) == [Array(r, k) EXCEPT !.head = n, !.taint = TRUE]

LEMMA CopiedAt ==
    ASSUME NEW r \in ListType, NEW i \in DOMAIN MaxRecyclable, NEW n \in Node
    PROVE  LET a == Copied(r, MaxRecyclable[i], n)
           IN  /\ a \in ListType /\ a.free = << >> /\ a.head = n
               /\ a.taint /\ a.open = r.open
<1> DEFINE b == Array(r, MaxRecyclable[i])
           yes == TRUE
           a == [b EXCEPT !.head = n, !.taint = yes]
<1>1. b \in ListType /\ b.free = << >> /\ b.open = r.open
  BY ArrayAt
<1>2. Copied(r, MaxRecyclable[i], n) = a
  BY DEF Copied
<1> HIDE DEF b
<1>3. yes \in BOOLEAN
  OBVIOUS
<1> HIDE DEF yes
<1>4. a.free = b.free /\ a.head = n /\ a.taint = yes /\ a.open = b.open
  BY <1>1 DEF ListType
<1>5. a \in ListType
  BY <1>1, <1>3 DEF ListType
<1> QED
  BY <1>1, <1>2, <1>4, <1>5 DEF b, yes

(* The nodes a list leads to do not outlive its pool, unless it is broken. *)
LEMMA LinksFreed ==
    ASSUME NEW S, NEW D, AllOK(cell, list, S, D), NEW l \in List, list[l].open,
           NEW i \in 1 .. Len(Walk(l)), NEW p,
           p \in {cell[Walk(l)[i]].next, cell[Walk(l)[i]].prev}
    PROVE  Leads(Freed(l), {n \in D : Alive(Freed(l), n)}, p)
<1> DEFINE s == Walk(l)
           F == Freed(l)
<1>1. cell \in [Node -> CellType] /\ D \in SUBSET Node /\ StrayOK(cell, list, D)
  BY DEF AllOK, Typed
<1>2. \A n \in Node : /\ ~Alive(cell, n) => ~Alive(F, n)
                      /\ cell[n].home \in {l, CLIENT} /\ cell[n].of = l => ~Alive(F, n)
  BY <1>1, FreedAt DEF Alive
<1>3. /\ s \in Seq(Node)
      /\ list[l].taint => \A j \in 1 .. Len(s) : s[j] \in D
      /\ ~list[l].taint => ListOK(cell, list[l], l, s)
  BY WalkMeets
<1> HIDE DEF s, F
<1>4. s[i] \in Node /\ Len(s) \in Nat /\ i \in 1 .. Len(s) /\ p \in {cell[s[i]].next, cell[s[i]].prev}
  BY <1>3 DEF s
<1>5. p \in Node \cup {NIL}
  BY <1>1, <1>4 DEF CellType
<1>6. CASE list[l].taint
  <2>1. Leads(cell, D, p)
    BY <1>1, <1>3, <1>4, <1>6 DEF StrayOK
  <2> QED
    BY <1>2, <1>5, <2>1 DEF Leads, F
<1>7. CASE ~list[l].taint
  <2>1. Threads(cell, s, list[l].head) /\ Holds(cell, l, s)
    BY <1>3, <1>7 DEF ListOK
  <2>2. p = NIL \/ \E j \in 1 .. Len(s) : p = s[j]
    <3>1. cell[s[i]].next = NIL \/ \E j \in 1 .. Len(s) : cell[s[i]].next = s[j]
      <4>1. i # Len(s) => i + 1 \in 1 .. Len(s)
        BY <1>4
      <4> QED
        BY <1>4, <2>1, <4>1 DEF Threads
    <3>2. cell[s[i]].prev = NIL \/ \E j \in 1 .. Len(s) : cell[s[i]].prev = s[j]
      <4>1. i # 1 => i - 1 \in 1 .. Len(s) /\ i \in 2 .. Len(s)
        BY <1>4
      <4>2. Len(s) > 0 /\ Len(s) \in 1 .. Len(s)
        BY <1>4
      <4> QED
        BY <1>4, <2>1, <4>1, <4>2 DEF Threads
    <3> QED
      BY <1>4, <3>1, <3>2
  <2>3. \A j \in 1 .. Len(s) : ~Alive(F, s[j])
    <3>1. ASSUME NEW j \in 1 .. Len(s) PROVE ~Alive(F, s[j])
      <4>1. s[j] \in Node
        BY <1>3
      <4>2. cell[s[j]].home \in {l, CLIENT} /\ cell[s[j]].of = l
        BY <2>1, <4>1 DEF Holds
      <4> QED
        BY <1>2, <4>1, <4>2
    <3> QED
      BY <3>1
  <2> QED
    BY <2>2, <2>3 DEF Leads, F
<1>8. list[l].taint \in BOOLEAN
  BY DEF AllOK, Typed, ListType
<1> QED
  BY <1>6, <1>7, <1>8

LEMMA ResizeCopyKeeps ==
    ASSUME NEW S, NEW D, AllOK(cell, list, S, D), NEW l \in List, ResizeCopy(l), fault' = "none"
    PROVE  /\ \E S2, D2 : AllOK(cell', list', S2, D2)
           /\ Spared(cell, list, cell', {l}) /\ \A k \in List \ {l} : list'[k] = list[k]
<1> DEFINE s == Walk(l)
           F == Freed(l)
           z == Len(s)
<1>1. /\ NodesOK(cell, list) /\ StrayOK(cell, list, D) /\ D \in SUBSET Node
      /\ cell \in [Node -> CellType] /\ list \in [List -> ListType]
      /\ list[l].open /\ list[l].head # NIL
  BY DEF AllOK, Typed, ResizeCopy, On, Head1
<1>2. PICK at \in DOMAIN MaxRecyclable,
           copy \in [DOMAIN s -> {n \in Node \ Own : Fresh(n)}] :
         /\ WalkFault(l) = "none" /\ IsInjective(copy) /\ cell' = Copies(l, copy)
         /\ list' = [list EXCEPT ![l] =
               [Array(list[l], MaxRecyclable[at]) EXCEPT !.head = copy[1], !.taint = TRUE]]
  BY <1>1 DEF ResizeCopy, Crashes
<1>3. /\ s \in Seq(Node) /\ \A i \in 1 .. z : Alive(cell, s[i])
  BY <1>1, WalkMeets
<1>4. z \in Nat /\ z > 0
  <2>1. After(l) = NIL
    BY <1>2 DEF WalkFault
  <2>2. s # << >>
    BY <1>1, <2>1 DEF After
  <2> QED
    BY <1>3, <2>2
<1>5. /\ copy \in [1 .. z -> Node] /\ \A i \in 1 .. z : copy[i] \in Node /\ Fresh(copy[i])
      /\ \A i, j \in 1 .. z : copy[i] = copy[j] => i = j
  BY <1>2, <1>3 DEF IsInjective
<1> DEFINE X == {n \in Node : \E i \in 1 .. z : copy[i] = n}
           D1 == {n \in D : Alive(F, n)}
           li1 == [list EXCEPT ![l] = BlankList]
<1>6. /\ cell' \in [Node -> CellType]
      /\ \A n \in Node \ X : cell'[n] = F[n]
      /\ \A i \in 1 .. z :
            /\ cell'[copy[i]].next = cell[s[i]].next /\ cell'[copy[i]].prev = cell[s[i]].prev
            /\ cell'[copy[i]].data = cell[s[i]].data /\ cell'[copy[i]].home = l
            /\ cell'[copy[i]].use = "in" /\ cell'[copy[i]].of = l
  BY <1>1, <1>2, <1>3, <1>5, CopiesAt
<1>7. /\ list' \in [List -> ListType] /\ list'[l].free = << >> /\ list'[l].head = copy[1]
      /\ list'[l].taint /\ list'[l].open
      /\ \A k \in List \ {l} : list'[k] = list[k]
  <2> DEFINE a == Copied(list[l], MaxRecyclable[at], copy[1])
  <2>1. list[l] \in ListType /\ copy[1] \in Node
    BY <1>1, <1>4, <1>5
  <2>2. list' = [list EXCEPT ![l] = a]
    BY <1>2 DEF Copied
  <2>3. a \in ListType /\ a.free = << >> /\ a.head = copy[1] /\ a.taint /\ a.open = list[l].open
    BY <2>1, CopiedAt
  <2> HIDE DEF a
  <2> QED
    BY <1>1, <2>2, <2>3
<1>8. /\ AllOK(F, li1, [S EXCEPT ![l] = << >>], D1) /\ Spared(cell, list, F, {l})
      /\ ~li1[l].open /\ \A k \in List \ {l} : li1[k] = list[k]
  <2>1. BlankList \in ListType
    BY DEF BlankList, ListType
  <2>2. /\ li1 \in [List -> ListType] /\ \A k \in List \ {l} : li1[k] = list[k]
        /\ li1[l].head = NIL /\ li1[l].free = << >> /\ li1[l].count = 0
        /\ ~li1[l].taint /\ ~li1[l].open
    BY <1>1, <2>1 DEF BlankList
  <2> HIDE DEF li1, F
  <2>3. AllOK(Freed(l), li1, [S EXCEPT ![l] = << >>], {n \in D : Alive(Freed(l), n)})
        /\ Spared(cell, list, Freed(l), {l})
    BY <2>2, FreedKeeps
  <2> QED
    BY <2>2, <2>3 DEF F
<1>9. /\ F \in [Node -> CellType]
      /\ \A n \in Node : ~Alive(cell, n) => ~Alive(F, n)
      /\ \A n \in Node : Alive(F, n) => F[n].next = cell[n].next /\ F[n].prev = cell[n].prev
  BY <1>1, FreedAt DEF Alive
<1>10. \A i \in 1 .. z : /\ Leads(F, D1, cell[s[i]].next) /\ Leads(F, D1, cell[s[i]].prev)
  BY <1>1, LinksFreed
<1> HIDE DEF s, F, z, li1
<1>11. ASSUME NEW n \in X
       PROVE  /\ ~Alive(cell, n)
              /\ \A m \in Node : Alive(cell, m) => n # cell[m].next /\ n # cell[m].prev
              /\ \A k \in List : list[k].head # n
              /\ \A k \in List : \A i \in 1 .. Len(list[k].free) : list[k].free[i] # n
  <2>1. n \in Node /\ Fresh(n)
    BY <1>5
  <2>2. \A k \in List : n # list[k].head /\ n \notin Range(list[k].free)
    BY <2>1 DEF Fresh
  <2>3. ASSUME NEW k \in List, NEW i \in 1 .. Len(list[k].free) PROVE list[k].free[i] # n
    <3>1. list[k].free \in Seq(Node)
      BY <1>1 DEF ListType
    <3> QED
      BY <2>2, <3>1 DEF Range
  <2> QED
    BY <2>1, <2>2, <2>3 DEF Fresh, Live, Alive
<1>12. Revives(F, li1, D1, l, X, cell', list')
  <2>1. ASSUME NEW n \in X
        PROVE  /\ ~Alive(F, n) /\ Alive(cell', n) /\ cell'[n].data \in Data
               /\ cell'[n].use = "in" /\ cell'[n].of = l
               /\ cell'[n].next \notin X /\ Leads(F, D1, cell'[n].next)
               /\ cell'[n].prev \notin X /\ Leads(F, D1, cell'[n].prev)
    <3>1. PICK i \in 1 .. z : copy[i] = n
      OBVIOUS
    <3>2. s[i] \in Node /\ Alive(cell, s[i])
      BY <1>3, <1>4 DEF z
    <3>3. cell[s[i]].next \notin X /\ cell[s[i]].prev \notin X
      BY <1>11, <3>2
    <3>4. cell[s[i]].data \in Data
      BY <1>1, <3>2 DEF NodesOK
    <3>5. Alive(cell', n)
      BY <1>6, <3>1, NilAssumption DEF Alive
    <3> QED
      BY <1>6, <1>9, <1>10, <1>11, <3>1, <3>3, <3>4, <3>5
  <2>2. ASSUME NEW n \in X, NEW m \in D1 PROVE F[m].next # n /\ F[m].prev # n
    <3>1. m \in Node /\ Alive(F, m)
      BY <1>1
    <3>2. Alive(cell, m) /\ F[m].next = cell[m].next /\ F[m].prev = cell[m].prev
      BY <1>9, <3>1
    <3> QED
      BY <1>11, <3>1, <3>2
  <2>3. ASSUME NEW n \in X, NEW k \in List \ {l}
        PROVE  /\ li1[k].head # n
               /\ \A i \in 1 .. Len(li1[k].free) : li1[k].free[i] # n
    <3>1. li1[k] = list[k]
      BY <1>8
    <3> QED
      BY <1>11, <3>1
  <2>4. copy[1] \in X
    BY <1>4, <1>5
  <2>5. X \in SUBSET Node
    OBVIOUS
  <2>6. \A k \in List \ {l} : list'[k] = li1[k]
    BY <1>7, <1>8
  <2> HIDE DEF X, D1
  <2> QED
    BY <1>6, <1>7, <1>8, <2>1, <2>2, <2>3, <2>4, <2>5, <2>6 DEF Revives
<1> HIDE DEF X, D1
<1>13. /\ AllOK(cell', list', [S EXCEPT ![l] = << >>], D1 \cup X)
       /\ Spared(F, li1, cell', {})
  BY <1>8, <1>12, RevivingKeeps
<1>14. Spared(cell, list, cell', {l})
  <2>1. ASSUME NEW k \in List \ {l}, Clean(list[k]), NEW n \in Node,
               cell[n].use = "in", cell[n].of = k
        PROVE  cell'[n] = cell[n]
    <3>1. F[n] = cell[n]
      BY <1>8, <2>1 DEF Spared
    <3>2. Clean(li1[k])
      BY <1>8, <2>1
    <3> QED
      BY <1>13, <2>1, <3>1, <3>2 DEF Spared
  <2> QED
    BY <2>1 DEF Spared
<1> QED
  BY <1>7, <1>13, <1>14

-----------------------------------------------------------------------------
(* The lists together.                                                     *)

OthersAlone ==
    \A l, k \in List :
       /\ l # k /\ list'[l] # list[l] /\ list'[k] = list[k]
       /\ list[k].open /\ ~list[k].taint
       => \A i \in DOMAIN Walk(k) : cell'[Walk(k)[i]] = cell[Walk(k)[i]]

(* A call keeps the walk of a list it has not changed.                     *)
LEMMA WalkSpared ==
    ASSUME NEW S, NEW D, AllOK(cell, list, S, D), NEW X, Spared(cell, list, cell', X),
           NEW k \in List \ X, Clean(list[k])
    PROVE  \A i \in DOMAIN Walk(k) : cell'[Walk(k)[i]] = cell[Walk(k)[i]]
<1>1. Walk(k) \in Seq(Node) /\ Walk(k) = S[k] /\ ListOK(cell, list[k], k, S[k])
  BY CleanWalk DEF AllOK, ListsOK
<1> TAKE i \in DOMAIN Walk(k)
<1>2. i \in 1 .. Len(S[k]) /\ S[k][i] \in Node
  BY <1>1
<1>3. cell[S[k][i]].use = "in" /\ cell[S[k][i]].of = k
  BY <1>1, <1>2 DEF ListOK, Holds
<1> QED
  BY <1>1, <1>2, <1>3 DEF Spared

LEMMA OneAlone ==
    ASSUME NEW S, NEW D, AllOK(cell, list, S, D), NEW x \in List,
           Spared(cell, list, cell', {x}), \A k \in List \ {x} : list'[k] = list[k]
    PROVE  OthersAlone
<1>1. ASSUME NEW l \in List, NEW k \in List, l # k, list'[l] # list[l],
             list'[k] = list[k], list[k].open, ~list[k].taint
      PROVE  \A i \in DOMAIN Walk(k) : cell'[Walk(k)[i]] = cell[Walk(k)[i]]
  <2>1. k \in List \ {x} /\ Clean(list[k])
    BY <1>1 DEF Clean
  <2> QED
    BY <2>1, WalkSpared
<1> QED
  BY <1>1 DEF OthersAlone

(* Both lists of a concat change.                                          *)
LEMMA ConcatAlone ==
    ASSUME NEW S, NEW D, AllOK(cell, list, S, D), NEW d \in List, NEW s \in List,
           Concat(d, s), fault' = "none"
    PROVE  OthersAlone
<1>1. Spared(cell, list, cell', {d, s}) /\ \A k \in List \ {d, s} : list'[k] = list[k]
  BY ConcatKeeps
<1>2. Typed(cell, list) /\ list \in [List -> ListType] /\ ListsOK(cell, list, S)
  BY DEF AllOK, Typed
<1>3. ConcatLists(list, d, s, list') /\ list[s].head # NIL
  BY <1>2, ConcatListsAre DEF Concat, Head1
<1>4. list'[s] # list[s]
  BY <1>3 DEF ConcatLists
<1>5. ASSUME Clean(list[d]) PROVE list'[d] # list[d]
  <2>1. CASE list[d].head = NIL
    BY <1>3, <2>1 DEF ConcatLists
  <2>2. CASE list[s].taint
    BY <1>3, <1>5, <2>2 DEF ConcatLists, Clean
  <2>3. CASE list[d].head # NIL /\ ~list[s].taint
    <3>1. Clean(list[s])
      BY <1>3, <2>3 DEF ConcatLists, Clean
    <3>2. ListOK(cell, list[s], s, S[s]) /\ S[s] \in Seq(Node)
      BY <1>2, <3>1 DEF ListsOK, AllOK
    <3>3. Len(S[s]) \in Nat /\ Len(S[s]) # 0 /\ list[s].count = Len(S[s])
      BY <1>3, <3>2 DEF ListOK, Threads
    <3>4. list'[d].count = list[d].count + list[s].count /\ list[d].count \in Int
      BY <1>2, <1>3, <2>3 DEF ConcatLists, ListType
    <3> QED
      BY <3>3, <3>4
  <2> QED
    BY <2>1, <2>2, <2>3
<1>6. ASSUME NEW l \in List, NEW k \in List, l # k, list'[l] # list[l],
             list'[k] = list[k], list[k].open, ~list[k].taint
      PROVE  \A i \in DOMAIN Walk(k) : cell'[Walk(k)[i]] = cell[Walk(k)[i]]
  <2>1. k \in List \ {d, s} /\ Clean(list[k])
    BY <1>4, <1>5, <1>6 DEF Clean
  <2> QED
    BY <1>1, <2>1, WalkSpared
<1> QED
  BY <1>6 DEF OthersAlone

LEMMA ListInit == Init => ListInv
<1> SUFFICES ASSUME Init PROVE ListInv
  OBVIOUS
<1> DEFINE S == [l \in List |-> << >>]
           D == {n \in Node : FALSE}
<1>1. BlankCell \in CellType /\ BlankList \in ListType
  BY DEF BlankCell, CellType, BlankList, ListType
<1>2. /\ cell \in [Node -> CellType] /\ list \in [List -> ListType]
      /\ \A n \in Node : cell[n].home = NIL /\ cell[n].use = "none" /\ cell[n].of = NIL
      /\ \A l \in List : /\ ~list[l].open /\ ~list[l].taint /\ list[l].free = << >>
                         /\ list[l].max = 0
  BY <1>1 DEF Init, BlankCell, BlankList
<1>3. Typed(cell, list)
  BY <1>2 DEF Typed
<1>4. NodesOK(cell, list) /\ FreeOK(cell, list) /\ ListsOK(cell, list, S)
  BY <1>2 DEF NodesOK, Alive, FreeOK, ListsOK, Clean
<1>5. StrayOK(cell, list, D) /\ D \in SUBSET Node
  BY <1>2 DEF StrayOK
<1>6. S \in [List -> Seq(Node)]
  OBVIOUS
<1> HIDE DEF S, D
<1>7. AllOK(cell, list, S, D)
  BY <1>3, <1>4, <1>5, <1>6 DEF AllOK
<1> QED
  BY <1>7 DEF ListInv, Init, Faults

(* A call that is about the one list l.                                    *)
OneList(l) ==
    \/ New(l) \/ Free(l) \/ NodeNew(l) \/ NodeFree(l)
    \/ InsertTail(l) \/ InsertTailData(l) \/ InsertHead(l) \/ InsertHeadData(l)
    \/ RemoveNode(l) \/ RemoveData(l)
    \/ Sort(l) \/ ResizeEmpty(l) \/ ResizeKeep(l) \/ ResizeCopy(l)

LEMMA OneListKeeps ==
    ASSUME NEW S, NEW D, AllOK(cell, list, S, D), NEW l \in List, OneList(l), fault' = "none"
    PROVE  /\ \E S2, D2 : AllOK(cell', list', S2, D2)
           /\ Spared(cell, list, cell', {l}) /\ \A k \in List \ {l} : list'[k] = list[k]
<1>1. CASE New(l)
  <2>1. AllOK(cell', list', [S EXCEPT ![l] = << >>], D) /\ Spared(cell, list, cell', {l})
    BY <1>1, NewKeeps
  <2>2. \A k \in List \ {l} : list'[k] = list[k]
    BY <1>1 DEF New, AllOK, Typed
  <2> QED
    BY <2>1, <2>2
<1>2. CASE Free(l)
  BY <1>2, FreeKeeps
<1>3. CASE NodeNew(l)
  BY <1>3, NodeNewKeeps
<1>4. CASE NodeFree(l)
  BY <1>4, NodeFreeKeeps
<1>5. CASE InsertTail(l)
  BY <1>5, InsertTailKeeps
<1>6. CASE InsertHead(l)
  BY <1>6, InsertHeadKeeps
<1>7. CASE InsertTailData(l) \/ InsertHeadData(l)
  BY <1>7, InsertDataKeeps
<1>8. CASE RemoveNode(l)
  BY <1>8, RemoveNodeKeeps
<1>9. CASE RemoveData(l)
  BY <1>9, RemoveDataKeeps
<1>10. CASE Sort(l)
  BY <1>10, SortKeeps
<1>11. CASE ResizeEmpty(l)
  BY <1>11, ResizeEmptyKeeps
<1>12. CASE ResizeKeep(l)
  BY <1>12, ResizeKeepKeeps
<1>13. CASE ResizeCopy(l)
  BY <1>13, ResizeCopyKeeps
<1> QED
  BY <1>1, <1>2, <1>3, <1>4, <1>5, <1>6, <1>7, <1>8, <1>9, <1>10, <1>11, <1>12, <1>13
  DEF OneList

LEMMA ListNext == ListInv /\ [Next]_vars => ListInv' /\ OthersAlone
<1> SUFFICES ASSUME fault \in Faults, NEW S, NEW D, AllOK(cell, list, S, D), [Next]_vars
             PROVE  ListInv' /\ OthersAlone
  BY DEF ListInv
<1> DEFINE Still == \E S2, D2 : AllOK(cell', list', S2, D2)
<1>1. CASE cell' = cell /\ list' = list /\ fault' \in Faults
  BY <1>1 DEF ListInv, OthersAlone
<1>2. ASSUME fault' = "none", Still PROVE ListInv'
  BY <1>2 DEF ListInv, Faults
<1>3. CASE vars' = vars
  BY <1>1, <1>3 DEF vars
<1>4. CASE Next /\ fault' # "none"
  BY <1>1, <1>4, CrashKeeps
<1>5. CASE Next /\ fault' = "none"
  <2>1. ASSUME NEW l \in List, OneList(l) PROVE Still /\ OthersAlone
    BY <1>5, <2>1, OneListKeeps, OneAlone
  <2>2. ASSUME NEW l \in List, Bring(l) PROVE Still /\ OthersAlone
    <3>1. Still
      BY <2>2, BringKeeps
    <3>2. list' = list
      BY <2>2 DEF Bring
    <3> QED
      BY <3>1, <3>2 DEF OthersAlone
  <2>3. ASSUME NEW l \in List, Drop(l) PROVE Still /\ OthersAlone
    <3>1. Still
      BY <2>3, DropKeeps
    <3>2. list' = list
      BY <2>3 DEF Drop
    <3> QED
      BY <3>1, <3>2 DEF OthersAlone
  <2>4. ASSUME NEW l \in List, GrantCrash(l) \/ WalkCrash(l) PROVE FALSE
    BY <1>5, <2>4 DEF GrantCrash, WalkCrash, Crashes
  <2>5. ASSUME NEW d \in List, NEW s \in List, Concat(d, s) PROVE Still /\ OthersAlone
    BY <1>5, <2>5, ConcatKeeps, ConcatAlone
  <2> HIDE DEF Still
  <2> QED
    BY <1>2, <1>5, <2>1, <2>2, <2>3, <2>4, <2>5 DEF Next, OneList
<1> QED
  BY <1>3, <1>4, <1>5

(* From every state that the calls of any client lead to, with any number  *)
(* of lists and nodes: the nodes of the lists no call has broken, their    *)
(* recycled nodes and what broken lists lead to stay apart and in order.   *)
THEOREM ListInvariant == Spec => []ListInv
<1>1. Init => ListInv
  BY ListInit
<1>2. ListInv /\ [Next]_vars => ListInv'
  BY ListNext
<1> QED
  BY <1>1, <1>2, PTL DEF Spec

(* Following next from the head of a list meets count nodes and ends, and  *)
(* prev leads back, until a call that breaks the list is made on it.       *)
THEOREM ForwardStays == Spec => []ForwardSound
<1>1. ListInv => ForwardSound
  BY ListInvMeans
<1> QED
  BY <1>1, ListInvariant, PTL

(* Those nodes are the ones the client has put into the list and not taken *)
(* out: insertion, removal, concatenation and sorting lose none.           *)
THEOREM MembersStay == Spec => []MembersMet
<1>1. ListInv => MembersMet
  BY ListInvMeans
<1> QED
  BY <1>1, ListInvariant, PTL

(* The prev pointer of the head is the tail or, after a sort, NULL; it is  *)
(* never a node that has left the list.                                    *)
THEOREM TailStays == Spec => []TailKnown
<1>1. ListInv => TailKnown
  BY ListInvMeans
<1> QED
  BY <1>1, ListInvariant, PTL

(* A node waits in one place of one recycling array and is in no list, so  *)
(* that ina_list_node_new never hands out a node that is in use.           *)
THEOREM RecycledStay == Spec => []RecycledApart
<1>1. ListInv => RecycledApart
  BY ListInvMeans
<1> QED
  BY <1>1, ListInvariant, PTL

(* A call on some lists changes no node of any other, though lists share   *)
(* nodes and the memory of pools after a concat.                           *)
THEOREM OthersStaySpared == Spec => OthersSpared
<1>1. ListInv /\ [Next]_vars => [OthersAlone]_vars
  BY ListNext
<1> QED
  BY <1>1, ListInvariant, PTL DEF Spec, OthersSpared, OthersAlone

-----------------------------------------------------------------------------
(* The lists as sequences of data.                                         *)

Opened == {l \in List : Kept(l)}

Contents == [l \in List |-> DataOf(l)]

DataIn(c, s) == [i \in 1 .. Len(s) |-> c[s[i]].data]

ContentOf(c, li, S) ==
    [l \in List |-> IF Clean(li[l]) THEN DataIn(c, S[l]) ELSE << >>]

CleanIn(li) == {l \in List : Clean(li[l])}

ContentsAre ==
    \A S, D : AllOK(cell, list, S, D) =>
        Opened = CleanIn(list) /\ Contents = ContentOf(cell, list, S)

LEMMA ContentsThreaded == ContentsAre
<1> SUFFICES ASSUME NEW S, NEW D, AllOK(cell, list, S, D)
             PROVE  Opened = CleanIn(list) /\ Contents = ContentOf(cell, list, S)
  BY DEF ContentsAre
<1>1. \A l \in List : Kept(l) <=> Clean(list[l])
  BY DEF Kept, Clean
<1>2. ASSUME NEW l \in List
      PROVE  DataOf(l) = IF Clean(list[l]) THEN DataIn(cell, S[l]) ELSE << >>
  <2>1. CASE Clean(list[l])
    <3>1. Walk(l) = S[l] /\ S[l] \in Seq(Node)
      BY <2>1, CleanWalk DEF AllOK
    <3>2. DOMAIN S[l] = 1 .. Len(S[l])
      BY <3>1
    <3> QED
      BY <1>1, <2>1, <3>1, <3>2 DEF DataOf, DataIn
  <2>2. CASE ~Clean(list[l])
    BY <1>1, <2>2 DEF DataOf
  <2> QED
    BY <2>1, <2>2
<1> QED
  BY <1>1, <1>2 DEF Opened, Contents, CleanIn, ContentOf

LEMMA ContentsThreadedNext == ContentsAre'
BY ContentsThreaded, PTL

(* Its data is a sequence of what nodes may carry.                         *)
LEMMA DataInType ==
    ASSUME NEW c, NEW li, NEW S, NEW D, AllOK(c, li, S, D), NEW l \in List, Clean(li[l])
    PROVE  /\ S[l] \in Seq(Node) /\ Len(S[l]) \in Nat /\ ListOK(c, li[l], l, S[l])
           /\ \A i \in 1 .. Len(S[l]) : S[l][i] \in Node /\ c[S[l][i]].data \in Data
           /\ DataIn(c, S[l]) \in Seq(Data) /\ Len(DataIn(c, S[l])) = Len(S[l])
<1>1. S[l] \in Seq(Node) /\ ListOK(c, li[l], l, S[l])
  BY DEF AllOK, ListsOK
<1>2. Len(S[l]) \in Nat /\ \A i \in 1 .. Len(S[l]) : S[l][i] \in Node
  BY <1>1
<1>3. \A i \in 1 .. Len(S[l]) : c[S[l][i]].use = "in"
  BY <1>1 DEF ListOK, Holds
<1>4. \A i \in 1 .. Len(S[l]) : c[S[l][i]].data \in Data
  BY <1>2, <1>3 DEF AllOK, NodesOK
<1>5. DataIn(c, S[l]) \in [1 .. Len(S[l]) -> Data]
  BY <1>4 DEF DataIn
<1>6. DataIn(c, S[l]) \in Seq(Data) /\ Len(DataIn(c, S[l])) = Len(S[l])
  BY <1>2, <1>5
<1> QED
  BY <1>1, <1>2, <1>4, <1>6

(* A list whose nodes a step leaves alone keeps its walk and its data.     *)
LEMMA ContentSpared ==
    ASSUME NEW S, NEW D, AllOK(cell, list, S, D), NEW S2, NEW D2, AllOK(cell', list', S2, D2),
           NEW X, Spared(cell, list, cell', X), \A k \in List \ X : list'[k] = list[k]
    PROVE  \A k \in List \ X :
              /\ Clean(list'[k]) <=> Clean(list[k])
              /\ ContentOf(cell', list', S2)[k] = ContentOf(cell, list, S)[k]
<1> TAKE k \in List \ X
<1>1. list'[k] = list[k]
  OBVIOUS
<1>2. CASE ~Clean(list[k])
  BY <1>1, <1>2 DEF ContentOf
<1>3. CASE Clean(list[k])
  <2>1. /\ S[k] \in Seq(Node) /\ Len(S[k]) \in Nat /\ ListOK(cell, list[k], k, S[k])
        /\ \A i \in 1 .. Len(S[k]) : S[k][i] \in Node
    BY <1>3, DataInType
  <2>2. /\ S2[k] \in Seq(Node) /\ Len(S2[k]) \in Nat /\ ListOK(cell', list'[k], k, S2[k])
        /\ \A i \in 1 .. Len(S2[k]) : S2[k][i] \in Node
    BY <1>1, <1>3, DataInType
  <2>3. \A i \in 1 .. Len(S[k]) : cell'[S[k][i]] = cell[S[k][i]] /\ cell[S[k][i]].use = "in"
    BY <1>3, <2>1 DEF Spared, ListOK, Holds
  <2>4. Threads(cell', S[k], list'[k].head)
    <3>1. /\ \A i \in 2 .. Len(S[k]) : i \in 1 .. Len(S[k])
          /\ Len(S[k]) > 0 => 1 \in 1 .. Len(S[k])
      BY <2>1
    <3>2. Threads(cell, S[k], list[k].head)
      BY <2>1 DEF ListOK
    <3>3. \A i \in 1 .. Len(S[k]) : /\ cell'[S[k][i]].next = cell[S[k][i]].next
                                    /\ cell'[S[k][i]].prev = cell[S[k][i]].prev
      BY <2>3
    <3> QED
      BY <1>1, <3>1, <3>2, <3>3 DEF Threads
  <2>5. \A i \in 1 .. Len(S[k]) : Alive(cell', S[k][i])
    BY <2>1, <2>3 DEF AllOK, NodesOK, Alive
  <2>6. \A i \in 1 .. Len(S2[k]) : Alive(cell', S2[k][i])
    BY <2>2 DEF AllOK, NodesOK, ListOK, Holds
  <2>7. Walk(k)' = S[k]
    BY <2>1, <2>4, <2>5, WalkThreadsNext DEF WalkFollows
  <2>8. Walk(k)' = S2[k]
    BY <2>2, <2>6, WalkThreadsNext DEF WalkFollows, ListOK
  <2>9. DataIn(cell', S2[k]) = DataIn(cell, S[k])
    BY <2>3, <2>7, <2>8 DEF DataIn
  <2> QED
    BY <1>1, <2>9 DEF ContentOf
<1> QED
  BY <1>2, <1>3

(* A step that gives or takes nodes of the client's side keeps every list. *)
LEMMA ContentSame ==
    ASSUME NEW S, NEW D, AllOK(cell, list, S, D), NEW D2, AllOK(cell', list', S, D2),
           Spared(cell, list, cell', {}), \A k \in List : Clean(list'[k]) <=> Clean(list[k])
    PROVE  CleanIn(list') = CleanIn(list) /\ ContentOf(cell', list', S) = ContentOf(cell, list, S)
<1>1. ASSUME NEW k \in List, Clean(list[k]) PROVE DataIn(cell', S[k]) = DataIn(cell, S[k])
  <2>1. /\ S[k] \in Seq(Node) /\ Len(S[k]) \in Nat /\ ListOK(cell, list[k], k, S[k])
        /\ \A i \in 1 .. Len(S[k]) : S[k][i] \in Node
    BY <1>1, DataInType
  <2>2. \A i \in 1 .. Len(S[k]) : cell'[S[k][i]] = cell[S[k][i]]
    BY <1>1, <2>1 DEF Spared, ListOK, Holds
  <2> QED
    BY <2>2 DEF DataIn
<1> QED
  BY <1>1 DEF CleanIn, ContentOf

(* What a step about the list l does to the contents.                      *)
LEMMA OneContent ==
    ASSUME NEW S, NEW D, AllOK(cell, list, S, D), NEW S2, NEW D2, AllOK(cell', list', S2, D2),
           NEW l \in List, Spared(cell, list, cell', {l}), \A k \in List \ {l} : list'[k] = list[k]
    PROVE  /\ Contents[l] = IF Clean(list[l]) THEN DataIn(cell, S[l]) ELSE << >>
           /\ Contents' = [Contents EXCEPT ![l] =
                 IF Clean(list'[l]) THEN DataIn(cell', S2[l]) ELSE << >>]
           /\ Opened = CleanIn(list)
           /\ Opened' = IF Clean(list'[l]) THEN Opened \cup {l} ELSE Opened \ {l}
           /\ Contents = [k \in List |-> Contents[k]]
<1>1. Opened = CleanIn(list) /\ Contents = ContentOf(cell, list, S)
  BY ContentsThreaded DEF ContentsAre
<1>2. Opened' = CleanIn(list') /\ Contents' = ContentOf(cell', list', S2)
  BY ContentsThreadedNext DEF ContentsAre
<1>3. \A k \in List \ {l} :
         /\ Clean(list'[k]) <=> Clean(list[k])
         /\ ContentOf(cell', list', S2)[k] = ContentOf(cell, list, S)[k]
  BY ContentSpared
<1>4. ContentOf(cell', list', S2)[l] = IF Clean(list'[l]) THEN DataIn(cell', S2[l]) ELSE << >>
  BY DEF ContentOf
<1>5. ContentOf(cell', list', S2) = [ContentOf(cell, list, S) EXCEPT ![l] =
         IF Clean(list'[l]) THEN DataIn(cell', S2[l]) ELSE << >>]
  BY <1>3, <1>4 DEF ContentOf
<1>6. CleanIn(list') = IF Clean(list'[l]) THEN CleanIn(list) \cup {l} ELSE CleanIn(list) \ {l}
  BY <1>3 DEF CleanIn
<1>7. ContentOf(cell, list, S)[l] = IF Clean(list[l]) THEN DataIn(cell, S[l]) ELSE << >>
  BY DEF ContentOf
<1>8. Contents = [k \in List |-> Contents[k]]
  BY DEF Contents
<1> QED
  BY <1>1, <1>2, <1>5, <1>6, <1>7, <1>8

Unheard == Opened' = Opened /\ Contents' = Contents

(* A step that leaves l broken is the end of l, if it was whole.           *)
LEMMA BrokenStep ==
    ASSUME NEW S, NEW D, AllOK(cell, list, S, D), NEW S2, NEW D2, AllOK(cell', list', S2, D2),
           NEW l \in List, Spared(cell, list, cell', {l}), \A k \in List \ {l} : list'[k] = list[k],
           ~Clean(list'[l])
    PROVE  Sequences_!Free(l) \/ Unheard
<1>1. /\ Contents[l] = IF Clean(list[l]) THEN DataIn(cell, S[l]) ELSE << >>
      /\ Contents' = [Contents EXCEPT ![l] = << >>]
      /\ Opened = CleanIn(list) /\ Opened' = Opened \ {l}
      /\ Contents = [k \in List |-> Contents[k]]
  BY OneContent
<1>2. CASE Clean(list[l])
  <2>1. l \in Opened
    BY <1>1, <1>2 DEF CleanIn
  <2> QED
    BY <1>1, <2>1 DEF Sequences_!Free, Opened, Contents
<1>3. CASE ~Clean(list[l])
  <2>1. l \notin Opened /\ Contents[l] = << >>
    BY <1>1, <1>3 DEF CleanIn
  <2>2. Opened' = Opened /\ Contents' = Contents
    BY <1>1, <2>1
  <2> QED
    BY <2>2 DEF Unheard
<1> QED
  BY <1>2, <1>3

LEMMA NewStep ==
    ASSUME NEW S, NEW D, AllOK(cell, list, S, D), NEW l \in List, New(l)
    PROVE  Sequences_!New(l)
<1> DEFINE S2 == [S EXCEPT ![l] = << >>]
<1>1. AllOK(cell', list', S2, D) /\ Spared(cell, list, cell', {l})
  BY NewKeeps
<1>2. /\ \A k \in List \ {l} : list'[k] = list[k]
      /\ ~Clean(list[l]) /\ Clean(list'[l]) /\ S2[l] = << >>
  BY DEF New, AllOK, Typed, Clean, BlankList
<1> HIDE DEF S2
<1>3. /\ Contents[l] = << >> /\ Contents' = [Contents EXCEPT ![l] = DataIn(cell', S2[l])]
      /\ Opened = CleanIn(list) /\ Opened' = Opened \cup {l}
      /\ Contents = [k \in List |-> Contents[k]]
  BY <1>1, <1>2, OneContent
<1>4. DataIn(cell', S2[l]) = << >>
  BY <1>2 DEF DataIn
<1>5. Contents' = Contents /\ l \notin Opened
  BY <1>2, <1>3, <1>4 DEF CleanIn
<1> QED
  BY <1>3, <1>5 DEF Sequences_!New, Opened, Contents

(* Resizing a list without nodes and all calls about nodes outside lists.  *)
LEMMA QuietStep ==
    ASSUME NEW S, NEW D, AllOK(cell, list, S, D), NEW l \in List, fault' = "none",
           \/ NodeNew(l) \/ NodeFree(l) \/ Bring(l) \/ Drop(l) \/ ResizeKeep(l) \/ ResizeEmpty(l)
    PROVE  Unheard
<1>1. ASSUME NEW D2, AllOK(cell', list', S, D2), Spared(cell, list, cell', {}),
             \A k \in List : Clean(list'[k]) <=> Clean(list[k])
      PROVE  Unheard
  <2>1. Opened = CleanIn(list) /\ Contents = ContentOf(cell, list, S)
    BY ContentsThreaded DEF ContentsAre
  <2>2. Opened' = CleanIn(list') /\ Contents' = ContentOf(cell', list', S)
    BY <1>1, ContentsThreadedNext DEF ContentsAre
  <2>3. CleanIn(list') = CleanIn(list) /\ ContentOf(cell', list', S) = ContentOf(cell, list, S)
    BY <1>1, ContentSame
  <2> QED
    BY <2>1, <2>2, <2>3 DEF Unheard
<1>2. CASE NodeNew(l) \/ NodeFree(l)
  <2>1. /\ \E D2 : AllOK(cell', list', S, D2)
        /\ Spared(cell, list, cell', {})
        /\ list'[l].taint = list[l].taint /\ list'[l].open = list[l].open
        /\ \A k \in List \ {l} : list'[k] = list[k]
    BY <1>2, NodeNewKeeps, NodeFreeKeeps
  <2>2. \A k \in List : Clean(list'[k]) <=> Clean(list[k])
    BY <2>1 DEF Clean
  <2> QED
    BY <1>1, <2>1, <2>2
<1>3. CASE Bring(l) \/ Drop(l)
  <2>1. (\E D2 : AllOK(cell', list', S, D2)) /\ Spared(cell, list, cell', {})
    BY <1>3, BringKeeps, DropKeeps
  <2>2. list' = list
    BY <1>3 DEF Bring, Drop
  <2> QED
    BY <1>1, <2>1, <2>2
<1>4. CASE ResizeKeep(l)
  <2>1. AllOK(cell', list', S, D) /\ \A k \in List \ {l} : list'[k] = list[k]
    BY <1>4, ResizeKeepKeeps
  <2>2. cell' = cell
    BY <1>4 DEF ResizeKeep
  <2>3. list \in [List -> ListType]
    BY DEF AllOK, Typed
  <2>4. PICK i \in DOMAIN MaxRecyclable :
           list' = [list EXCEPT ![l] = Array(list[l], MaxRecyclable[i])]
    BY <1>4, <2>3 DEF ResizeKeep
  <2>5. list'[l].taint = list[l].taint /\ list'[l].open = list[l].open
    BY <2>3, <2>4, ArrayAt
  <2>6. \A k \in List : Clean(list'[k]) <=> Clean(list[k])
    BY <2>1, <2>5 DEF Clean
  <2>7. Spared(cell, list, cell', {})
    BY <2>2 DEF Spared
  <2> QED
    BY <1>1, <2>1, <2>6, <2>7
<1>5. CASE ResizeEmpty(l)
  <2>1. /\ \E S2, D2 : AllOK(cell', list', S2, D2)
        /\ Spared(cell, list, cell', {l}) /\ \A k \in List \ {l} : list'[k] = list[k]
    BY <1>5, ResizeEmptyKeeps
  <2>2. PICK S2, D2 : AllOK(cell', list', S2, D2)
    BY <2>1
  <2>3. list \in [List -> ListType]
    BY DEF AllOK, Typed
  <2>4. PICK i \in DOMAIN MaxRecyclable :
           list' = [list EXCEPT ![l] = Array(list[l], MaxRecyclable[i])]
    BY <1>5, <2>3 DEF ResizeEmpty
  <2>5. /\ list'[l].taint = list[l].taint /\ list'[l].open = list[l].open
        /\ list'[l].head = list[l].head /\ list[l].head = NIL
    BY <1>5, <2>3, <2>4, ArrayAt DEF ResizeEmpty, Head1
  <2>6. Clean(list'[l]) <=> Clean(list[l])
    BY <2>5 DEF Clean
  <2>7. Clean(list[l]) => DataIn(cell, S[l]) = << >>
    <3>1. ASSUME Clean(list[l]) PROVE Len(S[l]) = 0
      BY <2>5, <3>1, DataInType, NilAssumption DEF ListOK, Threads
    <3> QED
      BY <3>1 DEF DataIn
  <2>8. Clean(list'[l]) => DataIn(cell', S2[l]) = << >>
    <3>1. ASSUME Clean(list'[l]) PROVE Len(S2[l]) = 0
      BY <2>2, <2>5, <3>1, DataInType, NilAssumption DEF ListOK, Threads
    <3> QED
      BY <3>1 DEF DataIn
  <2>9. /\ Contents[l] = IF Clean(list[l]) THEN DataIn(cell, S[l]) ELSE << >>
        /\ Contents' = [Contents EXCEPT ![l] =
              IF Clean(list'[l]) THEN DataIn(cell', S2[l]) ELSE << >>]
        /\ Opened = CleanIn(list)
        /\ Opened' = IF Clean(list'[l]) THEN Opened \cup {l} ELSE Opened \ {l}
        /\ Contents = [k \in List |-> Contents[k]]
    BY <2>1, <2>2, OneContent
  <2>10. Contents[l] = << >> /\ Contents' = [Contents EXCEPT ![l] = << >>]
    BY <2>7, <2>8, <2>9
  <2>11. Contents' = Contents
    BY <2>9, <2>10
  <2>12. Opened' = Opened
    BY <2>6, <2>9 DEF CleanIn
  <2> QED
    BY <2>11, <2>12 DEF Unheard
<1> QED
  BY <1>2, <1>3, <1>4, <1>5

LEMMA DataAppended ==
    ASSUME NEW c, NEW c2, NEW s \in Seq(Node), SameData(c, c2, s), NEW n \in Node
    PROVE  DataIn(c2, Append(s, n)) = Append(DataIn(c, s), c2[n].data)
<1> DEFINE z == Len(s)
           a == DataIn(c2, Append(s, n))
           b == Append(DataIn(c, s), c2[n].data)
           V == {c[s[i]].data : i \in 1 .. z} \cup {c2[n].data}
<1>1. z \in Nat /\ Len(Append(s, n)) = z + 1 /\ Append(s, n)[z + 1] = n
      /\ \A i \in 1 .. z : Append(s, n)[i] = s[i]
  OBVIOUS
<1>2. a = [i \in 1 .. z + 1 |-> c2[Append(s, n)[i]].data]
  BY <1>1 DEF DataIn
<1>3. DataIn(c, s) \in [1 .. z -> V]
  BY DEF DataIn
<1>4. DataIn(c, s) \in Seq(V) /\ Len(DataIn(c, s)) = z
  BY <1>1, <1>3
<1>5. \A i \in 1 .. z : DataIn(c, s)[i] = c[s[i]].data
  BY DEF DataIn
<1> HIDE DEF V
<1>6. c2[n].data \in V
  BY DEF V
<1>7. b = [i \in 1 .. z + 1 |-> IF i = z + 1 THEN c2[n].data ELSE DataIn(c, s)[i]]
  BY <1>1, <1>4, <1>6
<1>8. \A i \in 1 .. z + 1 : i = z + 1 \/ i \in 1 .. z
  BY <1>1
<1>9. \A i \in 1 .. z + 1 : c2[Append(s, n)[i]].data = IF i = z + 1 THEN c2[n].data ELSE DataIn(c, s)[i]
  BY <1>1, <1>5, <1>8 DEF SameData
<1> QED
  BY <1>2, <1>7, <1>9

LEMMA RemovedAt ==
    ASSUME NEW V, NEW s \in Seq(V), NEW k \in 1 .. Len(s)
    PROVE  RemoveAt(s, k) = Without(s, k)
<1>1. Len(s) \in Nat /\ k \in Nat
  OBVIOUS
<1> DEFINE a == SubSeq(s, 1, k - 1)
           b == SubSeq(s, k + 1, Len(s))
           z == Len(s)
<1>2. a \in Seq(V) /\ Len(a) = k - 1 /\ \A i \in 1 .. k - 1 : a[i] = s[i]
  BY <1>1
<1>3. b \in Seq(V) /\ Len(b) = z - k /\ \A i \in 1 .. z - k : b[i] = s[k + i]
  BY <1>1
<1> HIDE DEF a, b
<1>4. /\ a \o b \in Seq(V) /\ Len(a \o b) = z - 1
      /\ \A i \in 1 .. z - 1 : (a \o b)[i] = IF i <= k - 1 THEN a[i] ELSE b[i - (k - 1)]
  <2>1. /\ a \o b \in Seq(V) /\ Len(a \o b) = Len(a) + Len(b)
        /\ \A i \in 1 .. Len(a) + Len(b) :
              (a \o b)[i] = IF i <= Len(a) THEN a[i] ELSE b[i - Len(a)]
    BY <1>2, <1>3, ConcatProperties
  <2>2. Len(a) + Len(b) = z - 1
    BY <1>1, <1>2, <1>3
  <2> QED
    BY <1>2, <2>1, <2>2
<1>5. \A i \in 1 .. z - 1 : (a \o b)[i] = IF i < k THEN s[i] ELSE s[i + 1]
  <2> TAKE i \in 1 .. z - 1
  <2>1. CASE i < k
    BY <1>1, <1>2, <1>4, <2>1
  <2>2. CASE ~(i < k)
    <3>1. i - (k - 1) \in 1 .. z - k /\ k + (i - (k - 1)) = i + 1
      BY <1>1, <2>2
    <3>2. b[i - (k - 1)] = s[k + (i - (k - 1))]
      BY <1>3, <3>1
    <3>3. (a \o b)[i] = b[i - (k - 1)]
      <4>1. ~(i <= k - 1)
        BY <1>1, <2>2
      <4> QED
        BY <1>4, <4>1
    <3> QED
      BY <2>2, <3>1, <3>2, <3>3
  <2> QED
    BY <2>1, <2>2
<1>6. a \o b = [i \in 1 .. z - 1 |-> (a \o b)[i]]
  <2> DEFINE ab == a \o b
  <2>1. ab \in Seq(V) /\ Len(ab) = z - 1
    BY <1>4
  <2> HIDE DEF ab
  <2>2. ab = [i \in 1 .. Len(ab) |-> ab[i]]
    BY <2>1
  <2> QED
    BY <2>1, <2>2 DEF ab
<1>7. a \o b = Without(s, k)
  BY <1>5, <1>6 DEF Without
<1> QED
  BY <1>7 DEF RemoveAt, a, b

LEMMA DataRemoved ==
    ASSUME NEW c, NEW c2, NEW s \in Seq(Node), SameData(c, c2, s), NEW k \in 1 .. Len(s)
    PROVE  DataIn(c2, Without(s, k)) = Without(DataIn(c, s), k)
<1>1. Len(s) \in Nat /\ Len(Without(s, k)) = Len(s) - 1
      /\ \A i \in 1 .. Len(s) - 1 : Without(s, k)[i] = IF i < k THEN s[i] ELSE s[i + 1]
  <2>1. Len(s) \in Nat
    OBVIOUS
  <2>2. s \in Seq(Node) /\ k \in 1 .. Len(s)
    OBVIOUS
  <2> QED
    BY <2>1, <2>2, WithoutAt, Zenon
<1>2. Len(DataIn(c, s)) = Len(s) /\ \A i \in 1 .. Len(s) : DataIn(c, s)[i] = c[s[i]].data
  <2>1. DOMAIN DataIn(c, s) = 1 .. Len(s)
    BY DEF DataIn
  <2>2. DataIn(c, s) \in Seq({c[s[i]].data : i \in 1 .. Len(s)})
    <3>1. DataIn(c, s) \in [1 .. Len(s) -> {c[s[i]].data : i \in 1 .. Len(s)}]
      BY DEF DataIn
    <3> QED
      BY <1>1, <3>1
  <2>3. Len(DataIn(c, s)) = Len(s)
    BY <1>1, <2>1, <2>2
  <2> QED
    BY <2>3 DEF DataIn
<1>3. \A i \in 1 .. Len(s) - 1 :
         c2[Without(s, k)[i]].data = IF i < k THEN DataIn(c, s)[i] ELSE DataIn(c, s)[i + 1]
  <2> TAKE i \in 1 .. Len(s) - 1
  <2>1. i \in 1 .. Len(s) /\ i + 1 \in 1 .. Len(s)
    BY <1>1
  <2> QED
    BY <1>1, <1>2, <2>1 DEF SameData
<1>4. DataIn(c2, Without(s, k)) = [i \in 1 .. Len(s) - 1 |-> c2[Without(s, k)[i]].data]
  BY <1>1 DEF DataIn
<1>5. Without(DataIn(c, s), k) =
         [i \in 1 .. Len(s) - 1 |-> IF i < k THEN DataIn(c, s)[i] ELSE DataIn(c, s)[i + 1]]
  BY <1>2 DEF Without
<1> QED
  BY <1>3, <1>4, <1>5

(* A node inserted without breaking the list comes last.                   *)
LEMMA InsertStep ==
    ASSUME NEW S, NEW D, AllOK(cell, list, S, D), NEW l \in List, fault' = "none",
           InsertTail(l) \/ InsertHead(l) \/ InsertTailData(l) \/ InsertHeadData(l)
    PROVE  Sequences_!PushBack(l) \/ Sequences_!Free(l) \/ Unheard
<1>1. /\ \E S2, D2 : /\ AllOK(cell', list', S2, D2)
                     /\ Grows(cell, list[l], S[l], cell', list'[l], S2[l])
      /\ Spared(cell, list, cell', {l}) /\ \A k \in List \ {l} : list'[k] = list[k]
  <2>1. CASE InsertTail(l)
    BY <2>1, InsertTailKeeps
  <2>2. CASE InsertHead(l)
    BY <2>2, InsertHeadKeeps
  <2>3. CASE InsertTailData(l) \/ InsertHeadData(l)
    BY <2>3, InsertDataKeeps
  <2> QED
    BY <2>1, <2>2, <2>3
<1>2. PICK S2, D2 : /\ AllOK(cell', list', S2, D2)
                    /\ Grows(cell, list[l], S[l], cell', list'[l], S2[l])
  BY <1>1
<1>3. AllOK(cell', list', S2, D2)
  BY <1>2
<1>4. CASE ~Clean(list'[l])
  BY <1>1, <1>3, <1>4, BrokenStep
<1>5. CASE Clean(list'[l])
  <2>1. PICK n \in Node : S2[l] = Append(S[l], n)
    BY <1>2, <1>5 DEF Grows
  <2>2. Clean(list[l]) /\ SameData(cell, cell', S[l])
    BY <1>2, <1>5 DEF Grows
  <2>3. S[l] \in Seq(Node) /\ Len(S[l]) \in Nat
    BY <2>2, DataInType
  <2>4. cell'[n].data \in Data
    <3>1. \A i \in 1 .. Len(S2[l]) : cell'[S2[l][i]].data \in Data
      BY <1>3, <1>5, DataInType
    <3>2. Len(S2[l]) = Len(S[l]) + 1 /\ S2[l][Len(S[l]) + 1] = n
      BY <2>1, <2>3
    <3> QED
      BY <2>3, <3>1, <3>2
  <2>5. DataIn(cell', S2[l]) = Append(DataIn(cell, S[l]), cell'[n].data)
    BY <2>1, <2>2, <2>3, DataAppended
  <2>6. /\ Contents[l] = DataIn(cell, S[l])
        /\ Contents' = [Contents EXCEPT ![l] = DataIn(cell', S2[l])]
        /\ Opened = CleanIn(list) /\ Opened' = Opened \cup {l}
    BY <1>1, <1>3, <1>5, <2>2, OneContent
  <2>7. l \in Opened /\ Opened' = Opened
    BY <2>2, <2>6 DEF CleanIn
  <2>8. Contents' = [Contents EXCEPT ![l] = Append(Contents[l], cell'[n].data)]
    BY <2>5, <2>6
  <2>9. Sequences_!Changes(l, Append(Contents[l], cell'[n].data))
    BY <2>7, <2>8 DEF Sequences_!Changes, Opened, Contents
  <2>10. Sequences_!PushBack(l)
    BY <2>4, <2>9 DEF Sequences_!PushBack, Contents
  <2> QED
    BY <2>10
<1> QED
  BY <1>4, <1>5

(* Removing a node takes one place out of the sequence.                    *)
LEMMA RemoveStep ==
    ASSUME NEW S, NEW D, AllOK(cell, list, S, D), NEW l \in List, fault' = "none",
           RemoveNode(l) \/ RemoveData(l)
    PROVE  Sequences_!Delete(l) \/ Sequences_!Free(l) \/ Unheard
<1>1. /\ \E S2, D2 : /\ AllOK(cell', list', S2, D2)
                     /\ Shrinks(cell, list[l], S[l], cell', list'[l], S2[l])
      /\ Spared(cell, list, cell', {l}) /\ \A k \in List \ {l} : list'[k] = list[k]
  BY RemoveNodeKeeps, RemoveDataKeeps
<1>2. PICK S2, D2 : /\ AllOK(cell', list', S2, D2)
                    /\ Shrinks(cell, list[l], S[l], cell', list'[l], S2[l])
  BY <1>1
<1>3. AllOK(cell', list', S2, D2)
  BY <1>2
<1>4. CASE ~Clean(list'[l])
  BY <1>1, <1>3, <1>4, BrokenStep
<1>5. CASE Clean(list'[l])
  <2>1. PICK k \in 1 .. Len(S[l]) : S2[l] = Without(S[l], k)
    BY <1>2, <1>5 DEF Shrinks
  <2>2. Clean(list[l]) /\ SameData(cell, cell', S[l])
    BY <1>2, <1>5 DEF Shrinks
  <2>3. /\ S[l] \in Seq(Node) /\ DataIn(cell, S[l]) \in Seq(Data)
        /\ Len(DataIn(cell, S[l])) = Len(S[l])
    BY <2>2, DataInType
  <2>4. DataIn(cell', S2[l]) = Without(DataIn(cell, S[l]), k)
    BY <2>1, <2>2, <2>3, DataRemoved
  <2>5. DataIn(cell', S2[l]) = RemoveAt(DataIn(cell, S[l]), k)
    BY <2>3, <2>4, RemovedAt
  <2>6. /\ Contents[l] = DataIn(cell, S[l])
        /\ Contents' = [Contents EXCEPT ![l] = DataIn(cell', S2[l])]
        /\ Opened = CleanIn(list) /\ Opened' = Opened \cup {l}
    BY <1>1, <1>3, <1>5, <2>2, OneContent
  <2>7. l \in Opened /\ Opened' = Opened
    BY <2>2, <2>6 DEF CleanIn
  <2>8. Contents' = [Contents EXCEPT ![l] = RemoveAt(Contents[l], k)]
    BY <2>5, <2>6
  <2>9. Sequences_!Changes(l, Sequences_!RemoveAt(Contents[l], k))
    <3>1. Sequences_!RemoveAt(Contents[l], k) = RemoveAt(Contents[l], k)
      BY DEF RemoveAt, Sequences_!RemoveAt
    <3> QED
      BY <2>7, <2>8, <3>1 DEF Sequences_!Changes, Opened, Contents
  <2>10. k \in DOMAIN Contents[l]
    BY <2>3, <2>6
  <2>11. Sequences_!Delete(l)
    BY <2>9, <2>10 DEF Sequences_!Delete, Contents
  <2> QED
    BY <2>11
<1> QED
  BY <1>4, <1>5

(* The sorted walk is in order.                                            *)
LEMMA SortedInOrder ==
    ASSUME NEW l, Ordered(Walk(l))
    PROVE  \E p \in [1 .. Len(Walk(l)) -> 1 .. Len(Walk(l))] :
              /\ \A i \in 1 .. Len(Walk(l)) : \E k \in 1 .. Len(Walk(l)) : p[k] = i
              /\ \A j, k \in 1 .. Len(Walk(l)) : p[j] = p[k] => j = k
              /\ SortedWalk(l) = [k \in 1 .. Len(Walk(l)) |-> Walk(l)[p[k]]]
              /\ \A j, k \in 1 .. Len(Walk(l)) :
                    j < k => cell[Walk(l)[p[j]]].data <= cell[Walk(l)[p[k]]].data
<1> DEFINE s == Walk(l)
           z == Len(s)
           at(k) == CHOOSE i \in DOMAIN s : Rank(s, i) = k - 1
           p == [k \in 1 .. z |-> at(k)]
<1>1. s \in Seq(Node) /\ z \in Nat /\ DOMAIN s = 1 .. z
      /\ \A i \in 1 .. z : cell[s[i]].data \in Nat
  BY DEF Ordered
<1>2. SortedWalk(l) = [k \in 1 .. z |-> s[at(k)]]
  BY <1>1 DEF SortedWalk
<1> HIDE DEF s, z
<1>3. /\ \A i \in 1 .. z : Rank(s, i) \in 0 .. z - 1
      /\ \A i, j \in 1 .. z : Rank(s, i) = Rank(s, j) => i = j
      /\ \A i, j \in 1 .. z : Earlier(s, j, i) => Rank(s, j) < Rank(s, i)
  BY RankBounds DEF s, z
<1>4. \A k \in 1 .. z : \E i \in 1 .. z : Rank(s, i) = k - 1
  BY RankOnto DEF s, z
<1>5. \A k \in 1 .. z : at(k) \in 1 .. z /\ Rank(s, at(k)) = k - 1
  BY <1>1, <1>4
<1> HIDE DEF at
<1>6. p \in [1 .. z -> 1 .. z] /\ \A k \in 1 .. z : p[k] = at(k)
  BY <1>5
<1>7. ASSUME NEW i \in 1 .. z PROVE \E k \in 1 .. z : p[k] = i
  <2> DEFINE k == Rank(s, i) + 1
  <2>1. k \in 1 .. z /\ k - 1 = Rank(s, i)
    BY <1>1, <1>3
  <2>2. at(k) = i
    BY <1>3, <1>5, <2>1
  <2> QED
    BY <1>6, <2>1, <2>2
<1>8. ASSUME NEW j \in 1 .. z, NEW k \in 1 .. z, j < k
      PROVE  cell[s[p[j]]].data <= cell[s[p[k]]].data
  <2>1. at(j) \in 1 .. z /\ at(k) \in 1 .. z /\ Rank(s, at(j)) = j - 1 /\ Rank(s, at(k)) = k - 1
    BY <1>5
  <2>2. ~(Rank(s, at(k)) < Rank(s, at(j)))
    BY <1>1, <1>8, <2>1
  <2>3. ~Earlier(s, at(k), at(j))
    BY <1>3, <2>1, <2>2
  <2>4. cell[s[at(j)]].data \in Nat /\ cell[s[at(k)]].data \in Nat
    BY <1>1, <2>1
  <2> QED
    BY <1>6, <2>3, <2>4 DEF Earlier
<1>9. SortedWalk(l) = [k \in 1 .. z |-> s[p[k]]]
  BY <1>2, <1>6
<1>10. ASSUME NEW j \in 1 .. z, NEW k \in 1 .. z, p[j] = p[k] PROVE j = k
  <2>1. j - 1 = k - 1
    BY <1>5, <1>6, <1>10
  <2> QED
    BY <1>1, <2>1
<1> HIDE DEF p
<1> QED
  BY <1>6, <1>7, <1>8, <1>9, <1>10 DEF s, z

(* Sorting permutes the sequence and leaves it in order.                   *)
LEMMA SortStep ==
    ASSUME NEW S, NEW D, AllOK(cell, list, S, D), NEW l \in List, fault' = "none", Sort(l)
    PROVE  Sequences_!Sort(l) \/ Sequences_!Free(l) \/ Unheard
<1>1. /\ \E S2, D2 : /\ AllOK(cell', list', S2, D2)
                     /\ Clean(list'[l]) => S2[l] = SortedWalk(l)
      /\ Clean(list'[l]) => Clean(list[l]) /\ Ordered(Walk(l))
      /\ \A n \in Node : cell'[n].data = cell[n].data
      /\ Spared(cell, list, cell', {l}) /\ \A k \in List \ {l} : list'[k] = list[k]
  BY SortKeeps
<1>2. PICK S2, D2 : /\ AllOK(cell', list', S2, D2)
                    /\ Clean(list'[l]) => S2[l] = SortedWalk(l)
  BY <1>1
<1>3. AllOK(cell', list', S2, D2)
  BY <1>2
<1>4. CASE ~Clean(list'[l])
  BY <1>1, <1>3, <1>4, BrokenStep
<1>5. CASE Clean(list'[l])
  <2> DEFINE s == Walk(l)
             z == Len(s)
             C == DataIn(cell, s)
  <2>1. Clean(list[l]) /\ Ordered(s) /\ S2[l] = SortedWalk(l)
    BY <1>1, <1>2, <1>5
  <2>2. s = S[l]
    BY <2>1, CleanWalk
  <2>3. /\ s \in Seq(Node) /\ z \in Nat /\ \A i \in 1 .. z : s[i] \in Node
    BY <2>1, <2>2, DataInType
  <2>4. PICK p \in [1 .. z -> 1 .. z] :
           /\ \A i \in 1 .. z : \E k \in 1 .. z : p[k] = i
           /\ \A j, k \in 1 .. z : p[j] = p[k] => j = k
           /\ SortedWalk(l) = [k \in 1 .. z |-> s[p[k]]]
           /\ \A j, k \in 1 .. z : j < k => cell[s[p[j]]].data <= cell[s[p[k]]].data
    BY <2>1, SortedInOrder
  <2>5. /\ Contents[l] = C
        /\ Contents' = [Contents EXCEPT ![l] = DataIn(cell', S2[l])]
        /\ Opened = CleanIn(list) /\ Opened' = Opened \cup {l}
    BY <1>1, <1>3, <1>5, <2>1, <2>2, OneContent
  <2>6. l \in Opened /\ Opened' = Opened
    BY <2>1, <2>5 DEF CleanIn
  <2> HIDE DEF s, z
  <2>7. DOMAIN C = 1 .. z /\ \A i \in 1 .. z : C[i] = cell[s[i]].data
    BY DEF DataIn, z
  <2> HIDE DEF C
  <2>8. DataIn(cell', S2[l]) = [k \in 1 .. z |-> C[p[k]]]
    <3>1. Len(S2[l]) = z /\ \A k \in 1 .. z : S2[l][k] = s[p[k]]
      <4>1. S2[l] = [k \in 1 .. z |-> s[p[k]]]
        BY <2>1, <2>4
      <4>2. \A k \in 1 .. z : s[p[k]] \in Node
        BY <2>3, <2>4
      <4>3. S2[l] \in Seq(Node) /\ DOMAIN S2[l] = 1 .. z
        BY <1>3, <4>1 DEF AllOK
      <4>4. Len(S2[l]) = z
        BY <2>3, <4>3
      <4> QED
        BY <4>1, <4>4
    <3>2. \A k \in 1 .. z : cell'[s[p[k]]].data = C[p[k]]
      BY <1>1, <2>3, <2>4, <2>7
    <3> QED
      BY <3>1, <3>2 DEF DataIn
  <2> DEFINE sorted == [k \in 1 .. z |-> C[p[k]]]
  <2>9. Sequences_!Changes(l, sorted)
    BY <2>5, <2>6, <2>8 DEF Sequences_!Changes, Opened, Contents
  <2>10. \A i, j \in 1 .. z : i < j => sorted[i] <= sorted[j]
    <3>1. \A i \in 1 .. z : sorted[i] = cell[s[p[i]]].data
      BY <2>7
    <3>2. \A j, k \in 1 .. z : j < k => cell[s[p[j]]].data <= cell[s[p[k]]].data
      BY <2>4
    <3> HIDE DEF sorted
    <3> QED
      BY <3>1, <3>2
  <2>11. p \in Sequences_!Bijection(1 .. z, 1 .. z)
    BY <2>4 DEF Sequences_!Bijection, Sequences_!Injection, Sequences_!Surjection,
                Sequences_!IsInjective
  <2>12. sorted = [i \in DOMAIN Contents[l] |-> Contents[l][p[i]]] /\ DOMAIN sorted = 1 .. z
    BY <2>5, <2>7
  <2>13. p \in Sequences_!Bijection(DOMAIN Contents[l], DOMAIN Contents[l])
    BY <2>5, <2>7, <2>11
  <2> HIDE DEF sorted
  <2>14. Sequences_!Sort(l)
    BY <2>9, <2>10, <2>12, <2>13 DEF Sequences_!Sort, Contents
  <2> QED
    BY <2>14
<1> QED
  BY <1>4, <1>5

LEMMA JoinAt ==
    ASSUME NEW V, NEW a \in Seq(V), NEW b \in Seq(V), NEW y, NEW z, Len(a) = y, Len(b) = z
    PROVE  /\ a \o b \in Seq(V) /\ Len(a \o b) = y + z
           /\ \A i \in 1 .. y + z : (a \o b)[i] = IF i <= y THEN a[i] ELSE b[i - y]
OBVIOUS

Chain(s, t) == s \o t

LEMMA DataJoined ==
    ASSUME NEW c, NEW c2, NEW s \in Seq(Node), NEW t \in Seq(Node),
           SameData(c, c2, Chain(s, t)),
           DataIn(c, s) \in Seq(Data), DataIn(c, t) \in Seq(Data),
           Len(DataIn(c, s)) = Len(s), Len(DataIn(c, t)) = Len(t)
    PROVE  DataIn(c2, Chain(s, t)) = Chain(DataIn(c, s), DataIn(c, t))
<1> DEFINE y == Len(s)
           z == Len(t)
           a == DataIn(c, s)
           b == DataIn(c, t)
<1>1. y \in Nat /\ z \in Nat
  OBVIOUS
<1>2. /\ s \o t \in Seq(Node) /\ Len(s \o t) = y + z
      /\ \A i \in 1 .. y + z : (s \o t)[i] = IF i <= y THEN s[i] ELSE t[i - y]
  BY JoinAt
<1>3. /\ \A i \in 1 .. y : a[i] = c[s[i]].data
      /\ \A i \in 1 .. z : b[i] = c[t[i]].data
  BY DEF DataIn
<1> DEFINE ab == a \o b
<1>4. /\ ab \in Seq(Data) /\ Len(ab) = y + z
      /\ \A i \in 1 .. y + z : ab[i] = IF i <= y THEN a[i] ELSE b[i - y]
  <2> HIDE DEF y, z, a, b
  <2>1. a \in Seq(Data) /\ b \in Seq(Data) /\ Len(a) = y /\ Len(b) = z
    BY DEF y, z, a, b
  <2> QED
    BY <2>1, JoinAt
<1> DEFINE st == s \o t
<1> HIDE DEF st, ab
<1>5. \A i \in 1 .. y + z : c2[st[i]].data = c[st[i]].data
  BY <1>2 DEF SameData, st, Chain
<1>6. ASSUME NEW i \in 1 .. y + z PROVE c2[st[i]].data = ab[i]
  <2>1. CASE i <= y
    <3>1. i \in 1 .. y /\ st[i] = s[i] /\ s[i] \in Node /\ ab[i] = a[i]
      BY <1>1, <1>2, <1>4, <2>1 DEF st
    <3> QED
      BY <1>3, <1>5, <3>1
  <2>2. CASE ~(i <= y)
    <3>1. i - y \in 1 .. z
      BY <1>1, <2>2
    <3>2. st[i] = t[i - y] /\ t[i - y] \in Node /\ ab[i] = b[i - y]
      BY <1>1, <1>2, <1>4, <2>2, <3>1 DEF st
    <3> QED
      BY <1>3, <1>5, <3>1, <3>2
  <2> QED
    BY <2>1, <2>2
<1>7. ab = [i \in 1 .. y + z |-> ab[i]]
  BY <1>4
<1>8. DataIn(c2, st) = [i \in 1 .. y + z |-> c2[st[i]].data]
  BY <1>2 DEF DataIn, st
<1> QED
  BY <1>6, <1>7, <1>8 DEF ab, st, Chain

(* Concatenation appends the sequence of s to that of d and empties s; a   *)
(* broken list loses what it is given and gives nothing.                   *)
LEMMA ConcatStep ==
    ASSUME NEW S, NEW D, AllOK(cell, list, S, D), NEW d \in List, NEW s \in List,
           fault' = "none", Concat(d, s)
    PROVE  Sequences_!Concat(d, s) \/ Sequences_!Free(d) \/ Unheard
<1>1. /\ \E S2, D2 : /\ AllOK(cell', list', S2, D2)
                     /\ S2[s] = << >> /\ S2[d] = S[d] \o S[s]
      /\ \A m \in Node : cell'[m].data = cell[m].data
      /\ d # s /\ list[d].open /\ list[s].open /\ list'[d].open /\ list'[s].open
      /\ list'[d].taint <=> list[d].taint \/ list[s].taint
      /\ list'[s].taint <=> list[s].taint
      /\ Spared(cell, list, cell', {d, s}) /\ \A k \in List \ {d, s} : list'[k] = list[k]
  BY ConcatKeeps
<1>2. PICK S2, D2 : /\ AllOK(cell', list', S2, D2)
                    /\ S2[s] = << >> /\ S2[d] = S[d] \o S[s]
  BY <1>1
<1>3. AllOK(cell', list', S2, D2)
  BY <1>2
<1> DEFINE C == ContentOf(cell, list, S)
           C2 == ContentOf(cell', list', S2)
<1>4. Opened = CleanIn(list) /\ Contents = C
  BY ContentsThreaded DEF ContentsAre
<1>5. Opened' = CleanIn(list') /\ Contents' = C2
  BY <1>3, ContentsThreadedNext DEF ContentsAre
<1>6. \A k \in List \ {d, s} : (Clean(list'[k]) <=> Clean(list[k])) /\ C2[k] = C[k]
  BY <1>1, <1>3, ContentSpared
<1>7. /\ Clean(list'[s]) <=> Clean(list[s])
      /\ Clean(list'[d]) <=> Clean(list[d]) /\ Clean(list[s])
  BY <1>1 DEF Clean
<1>8. C2[s] = << >>
  BY <1>2 DEF ContentOf, DataIn
<1>9. C = [k \in List |-> C[k]] /\ C2 = [k \in List |-> C2[k]]
  BY DEF ContentOf
<1>10. ASSUME ~Clean(list[s]) PROVE C[s] = << >>
  BY <1>10 DEF ContentOf
<1>11. CASE ~Clean(list[s])
  <2>1. ~Clean(list'[d]) /\ C2[d] = << >>
    BY <1>7, <1>11 DEF ContentOf
  <2>2. CASE Clean(list[d])
    <3>1. CleanIn(list') = CleanIn(list) \ {d} /\ d \in CleanIn(list)
      BY <1>6, <1>7, <1>11, <2>1, <2>2 DEF CleanIn
    <3> HIDE DEF C, C2
    <3>2. C2 = [C EXCEPT ![d] = << >>]
      BY <1>6, <1>8, <1>9, <1>10, <1>11, <2>1
    <3> QED
      BY <1>4, <1>5, <3>1, <3>2 DEF Sequences_!Free, Opened, Contents
  <2>3. CASE ~Clean(list[d])
    <3>1. CleanIn(list') = CleanIn(list)
      BY <1>6, <1>7, <1>11, <2>1, <2>3 DEF CleanIn
    <3>2. C[d] = << >>
      BY <2>3 DEF ContentOf
    <3> HIDE DEF C, C2
    <3>3. \A k \in List : C2[k] = C[k]
      BY <1>6, <1>8, <1>10, <1>11, <2>1, <3>2
    <3>4. C2 = C
      BY <1>9, <3>3
    <3> QED
      BY <1>4, <1>5, <3>1, <3>4 DEF Unheard
  <2> QED
    BY <2>2, <2>3
<1>12. CASE Clean(list[s])
  <2>1. s \in CleanIn(list) /\ CleanIn(list') = CleanIn(list) /\ (d \in CleanIn(list) <=> Clean(list[d]))
    BY <1>6, <1>7, <1>12 DEF CleanIn
  <2>2. C[s] = DataIn(cell, S[s])
    BY <1>12 DEF ContentOf
  <2>3. C2[d] = IF Clean(list[d]) THEN C[d] \o C[s] ELSE C[d]
    <3>1. CASE ~Clean(list[d])
      BY <1>7, <3>1 DEF ContentOf
    <3>2. CASE Clean(list[d])
      <4>1. C[d] = DataIn(cell, S[d]) /\ C2[d] = DataIn(cell', S2[d])
        BY <1>2, <1>7, <1>12, <3>2 DEF ContentOf
      <4>2. /\ S[d] \in Seq(Node) /\ S[s] \in Seq(Node)
            /\ DataIn(cell, S[d]) \in Seq(Data) /\ DataIn(cell, S[s]) \in Seq(Data)
            /\ Len(DataIn(cell, S[d])) = Len(S[d]) /\ Len(DataIn(cell, S[s])) = Len(S[s])
        BY <1>12, <3>2, DataInType
      <4>3. SameData(cell, cell', Chain(S[d], S[s]))
        <5>1. S2[d] \in Seq(Node)
          BY <1>3 DEF AllOK
        <5>2. \A i \in 1 .. Len(S2[d]) : S2[d][i] \in Node
          BY <5>1
        <5>3. SameData(cell, cell', S2[d])
          BY <1>1, <5>2 DEF SameData
        <5> QED
          BY <1>2, <5>3 DEF Chain
      <4>4. DataIn(cell', Chain(S[d], S[s])) = Chain(DataIn(cell, S[d]), DataIn(cell, S[s]))
        BY <4>2, <4>3, DataJoined
      <4> QED
        BY <1>2, <2>2, <3>2, <4>1, <4>4 DEF Chain
    <3> QED
      BY <3>1, <3>2
  <2> HIDE DEF C, C2
  <2>4. C2 = [C EXCEPT ![d] = IF Clean(list[d]) THEN C[d] \o C[s] ELSE C[d], ![s] = << >>]
    BY <1>1, <1>6, <1>8, <1>9, <2>3
  <2>5. s \in Opened /\ Opened' = Opened /\ (d \in Opened <=> Clean(list[d]))
    BY <1>4, <1>5, <2>1
  <2>6. Contents' = [Contents EXCEPT ![d] = IF d \in Opened THEN Contents[d] \o Contents[s]
                                            ELSE Contents[d],
                                     ![s] = << >>]
    BY <1>4, <1>5, <2>4, <2>5
  <2>7. d \in DOMAIN Contents
    BY <1>4, <1>9
  <2> QED
    BY <1>1, <2>5, <2>6, <2>7 DEF Sequences_!Concat, Opened, Contents
<1> QED
  BY <1>11, <1>12

LEMMA SequencesStep ==
    ListInv /\ [Next]_vars => Sequences_!Next \/ Unheard
<1> SUFFICES ASSUME fault \in Faults, NEW S, NEW D, AllOK(cell, list, S, D), [Next]_vars
             PROVE  Sequences_!Next \/ Unheard
  BY DEF ListInv
<1>1. CASE cell' = cell /\ list' = list
  BY <1>1 DEF Unheard, Opened, Contents, Kept, DataOf, Walk, Trail, Follow, Live
<1>2. CASE vars' = vars
  BY <1>1, <1>2 DEF vars
<1>3. CASE Next /\ fault' # "none"
  BY <1>1, <1>3, CrashKeeps
<1>4. CASE Next /\ fault' = "none"
  <2>1. ASSUME NEW l \in List, New(l)
        PROVE  Sequences_!Next
    BY <2>1, NewStep DEF Sequences_!Next
  <2>2. ASSUME NEW l \in List, Free(l) \/ ResizeCopy(l)
        PROVE  Sequences_!Next \/ Unheard
    <3>1. /\ \E S2, D2 : AllOK(cell', list', S2, D2)
          /\ Spared(cell, list, cell', {l}) /\ \A k \in List \ {l} : list'[k] = list[k]
      BY <1>4, <2>2, FreeKeeps, ResizeCopyKeeps
    <3>2. ~Clean(list'[l])
      <4>1. list \in [List -> ListType]
        BY DEF AllOK, Typed
      <4>2. CASE Free(l)
        BY <4>1, <4>2 DEF Free, Clean, BlankList
      <4>3. CASE ResizeCopy(l)
        <5>1. PICK i \in DOMAIN MaxRecyclable, copy \in [DOMAIN Walk(l) -> Node] :
                 list' = [list EXCEPT ![l] = Copied(list[l], MaxRecyclable[i], copy[1])]
          BY <1>4, <4>1, <4>3 DEF ResizeCopy, Crashes, Copied
        <5> QED
          <6>1. list[l] \in ListType
            BY <4>1
          <6>2. Copied(list[l], MaxRecyclable[i], copy[1]).taint
            BY <6>1 DEF Copied, Array, ListType
          <6>3. list'[l] = Copied(list[l], MaxRecyclable[i], copy[1])
            BY <4>1, <5>1
          <6> QED
            BY <6>2, <6>3 DEF Clean
      <4> QED
        BY <2>2, <4>2, <4>3
    <3>3. Sequences_!Free(l) \/ Unheard
      BY <3>1, <3>2, BrokenStep
    <3> QED
      BY <3>3 DEF Sequences_!Next
  <2>3. ASSUME NEW l \in List,
               \/ NodeNew(l) \/ NodeFree(l) \/ Bring(l) \/ Drop(l)
               \/ ResizeKeep(l) \/ ResizeEmpty(l)
        PROVE  Unheard
    BY <1>4, <2>3, QuietStep
  <2>4. ASSUME NEW l \in List,
               InsertTail(l) \/ InsertHead(l) \/ InsertTailData(l) \/ InsertHeadData(l)
        PROVE  Sequences_!Next \/ Unheard
    <3>1. Sequences_!PushBack(l) \/ Sequences_!Free(l) \/ Unheard
      BY <1>4, <2>4, InsertStep
    <3> QED
      BY <3>1 DEF Sequences_!Next
  <2>5. ASSUME NEW l \in List, RemoveNode(l) \/ RemoveData(l)
        PROVE  Sequences_!Next \/ Unheard
    <3>1. Sequences_!Delete(l) \/ Sequences_!Free(l) \/ Unheard
      BY <1>4, <2>5, RemoveStep
    <3> QED
      BY <3>1 DEF Sequences_!Next
  <2>6. ASSUME NEW l \in List, Sort(l) PROVE Sequences_!Next \/ Unheard
    <3>1. Sequences_!Sort(l) \/ Sequences_!Free(l) \/ Unheard
      BY <1>4, <2>6, SortStep
    <3> QED
      BY <3>1 DEF Sequences_!Next
  <2>7. ASSUME NEW d \in List, NEW s \in List, Concat(d, s) PROVE Sequences_!Next \/ Unheard
    <3>1. Sequences_!Concat(d, s) \/ Sequences_!Free(d) \/ Unheard
      BY <1>4, <2>7, ConcatStep
    <3> QED
      BY <3>1 DEF Sequences_!Next
  <2>8. ASSUME NEW l \in List, GrantCrash(l) \/ WalkCrash(l) PROVE FALSE
    BY <1>4, <2>8 DEF GrantCrash, WalkCrash, Crashes
  <2> QED
    BY <1>4, <2>1, <2>2, <2>3, <2>4, <2>5, <2>6, <2>7, <2>8 DEF Next
<1> QED
  BY <1>2, <1>3, <1>4

(* Whatever the client does to any number of lists, with any nodes: each   *)
(* list that no call has broken is a sequence of data; what is inserted    *)
(* comes last, removal takes one place out, sorting puts what is there in  *)
(* order, concatenation joins two sequences, and nothing else changes any. *)
THEOREM ListsImplementSequences == Spec => ImplementsSequences
<1>1. Init => Sequences_!Init
  BY DEF Init, BlankList, Sequences_!Init, Kept, DataOf
<1>2. ListInv /\ [Next]_vars => [Sequences_!Next]_<<Opened, Contents>>
  BY SequencesStep DEF Unheard
<1> QED
  BY <1>1, <1>2, ListInvariant, PTL
  DEF Spec, Sequences_!Spec, Sequences_!vars, ImplementsSequences, Opened, Contents

-----------------------------------------------------------------------------
(* The merge sort.                                                         *)

(* What holds of a point of D when it holds of all points of less measure. *)
LEMMA ByMeasure ==
    ASSUME NEW D, NEW mu \in [D -> Nat], NEW Q,
           \A x \in D : (\A y \in D : mu[y] < mu[x] => y \in Q) => x \in Q
    PROVE  \A x \in D : x \in Q
<1> DEFINE Bad == {k \in Nat : \E x \in D : mu[x] = k /\ x \notin Q}
<1> SUFFICES ASSUME NEW x \in D, x \notin Q PROVE FALSE
  OBVIOUS
<1>1. mu[x] \in Bad
  OBVIOUS
<1>2. PICK m \in Bad : \A k \in Bad : m <= k
  BY <1>1, LeastOf
<1>3. PICK y \in D : mu[y] = m /\ y \notin Q
  BY <1>2
<1>4. PICK z \in D : mu[z] < mu[y] /\ z \notin Q
  BY <1>3
<1>5. mu[z] \in Bad
  BY <1>4
<1> QED
  BY <1>2, <1>3, <1>4, <1>5

(* E makes of a function f another one, whose value at x depends on what f *)
(* is at points of less measure than x only.                               *)
Founded(D, V, mu, E) ==
    /\ mu \in [D -> Nat] /\ E \in [[D -> V] -> [D -> V]]
    /\ \A f, g \in [D -> V] : \A x \in D :
          (\A y \in D : mu[y] < mu[x] => f[y] = g[y]) => E[f][x] = E[g][x]

(* So the recursion f = E[f] defines a function.                           *)
LEMMA ByRecursion ==
    ASSUME NEW D, NEW V, V # {}, NEW mu, NEW E, Founded(D, V, mu, E),
           NEW M \in Nat, \A x \in D : mu[x] < M
    PROVE  \E f \in [D -> V] : f = E[f]
<1>0. /\ mu \in [D -> Nat] /\ E \in [[D -> V] -> [D -> V]]
      /\ \A f, g \in [D -> V] : \A x \in D :
            (\A y \in D : mu[y] < mu[x] => f[y] = g[y]) => E[f][x] = E[g][x]
  BY DEF Founded
<1>01. PICK v \in V : TRUE
  OBVIOUS
<1> DEFINE Upto(k, f) == \A x \in D : mu[x] < k => f[x] = E[f][x]
           Bad == {k \in Nat : ~\E f \in [D -> V] : Upto(k, f)}
<1>1. ASSUME Bad # {} PROVE FALSE
  <2>1. PICK m \in Bad : \A k \in Bad : m <= k
    BY <1>1, LeastOf
  <2>2. m \in Nat /\ ~\E f \in [D -> V] : Upto(m, f)
    BY <2>1
  <2>3. m # 0
    <3>1. ASSUME m = 0 PROVE Upto(m, [x \in D |-> v])
      BY <1>0, <3>1
    <3>2. [x \in D |-> v] \in [D -> V]
      BY <1>01
    <3> QED
      BY <2>2, <3>1, <3>2
  <2>4. m - 1 \in Nat /\ m - 1 \notin Bad
    <3> HIDE DEF Bad
    <3> QED
      BY <2>1, <2>2, <2>3
  <2>5. PICK f \in [D -> V] : Upto(m - 1, f)
    BY <2>4
  <2>6. PICK g \in [D -> V] : g = E[f]
    BY <1>0
  <2>7. ASSUME NEW x \in D, mu[x] < m PROVE g[x] = E[g][x]
    <3>1. \A y \in D : mu[y] < mu[x] => mu[y] < m - 1
      BY <1>0, <2>2, <2>7
    <3>2. \A y \in D : mu[y] < mu[x] => f[y] = g[y]
      BY <2>5, <2>6, <3>1
    <3>3. E[f][x] = E[g][x]
      BY <1>0, <3>2
    <3> QED
      BY <2>6, <3>3
  <2> QED
    BY <2>2, <2>7
<1>2. M \notin Bad
  BY <1>1
<1>3. PICK f \in [D -> V] : Upto(M, f)
  BY <1>2
<1>4. E[f] \in [D -> V] /\ \A x \in D : f[x] = E[f][x]
  BY <1>0, <1>3
<1> QED
  BY <1>4

MergeStep(a, b, key, m) ==
    [at \in Places(a) \X Places(b) |->
        LET i == at[1]  j == at[2]
        IN  IF i > Len(a) THEN SubSeq(b, j, Len(b))
            ELSE IF j > Len(b) THEN SubSeq(a, i, Len(a))
            ELSE IF FirstIsNext(key[a[i]], key[b[j]])
                 THEN <<a[i]>> \o m[<<i + 1, j>>]
                 ELSE <<b[j]>> \o m[<<i, j + 1>>]]

Merges(a, b, key, m) == m = MergeStep(a, b, key, m)

LEMMA MergeNodesIs ==
    ASSUME NEW a, NEW b, NEW key
    PROVE  MergeNodes(a, b, key) = (CHOOSE m : Merges(a, b, key, m))[<<1, 1>>]
BY DEF MergeNodes, MergeStep, Merges

MergedAt(a, b, key, m, i, j) ==
    m[<<i, j>>] = IF i > Len(a) THEN SubSeq(b, j, Len(b))
                  ELSE IF j > Len(b) THEN SubSeq(a, i, Len(a))
                  ELSE IF FirstIsNext(key[a[i]], key[b[j]])
                       THEN <<a[i]>> \o m[<<i + 1, j>>]
                       ELSE <<b[j]>> \o m[<<i, j + 1>>]

LEMMA MergeAt ==
    ASSUME NEW a, NEW b, NEW key, NEW m, Merges(a, b, key, m)
    PROVE  \A i \in Places(a), j \in Places(b) : MergedAt(a, b, key, m, i, j)
<1> TAKE i \in Places(a), j \in Places(b)
<1>1. <<i, j>> \in Places(a) \X Places(b)
  OBVIOUS
<1> QED
  BY <1>1 DEF Merges, MergeStep, MergedAt

(* How many nodes are left to merge.                                       *)
LeftAt(a, b) ==
    [at \in Places(a) \X Places(b) |-> Len(a) + 1 - at[1] + (Len(b) + 1 - at[2])]

LEMMA LeftFalls ==
    ASSUME NEW S, NEW a \in Seq(S), NEW b \in Seq(S)
    PROVE  /\ LeftAt(a, b) \in [Places(a) \X Places(b) -> Nat]
           /\ \A at \in Places(a) \X Places(b) : LeftAt(a, b)[at] < Len(a) + Len(b) + 1
           /\ \A i \in 1 .. Len(a), j \in Places(b) :
                 /\ <<i, j>> \in Places(a) \X Places(b) /\ <<i + 1, j>> \in Places(a) \X Places(b)
                 /\ LeftAt(a, b)[<<i + 1, j>>] < LeftAt(a, b)[<<i, j>>]
           /\ \A i \in Places(a), j \in 1 .. Len(b) :
                 /\ <<i, j>> \in Places(a) \X Places(b) /\ <<i, j + 1>> \in Places(a) \X Places(b)
                 /\ LeftAt(a, b)[<<i, j + 1>>] < LeftAt(a, b)[<<i, j>>]
<1>1. Len(a) \in Nat /\ Len(b) \in Nat
  OBVIOUS
<1>2. \A at \in Places(a) \X Places(b) :
         /\ at[1] \in 1 .. Len(a) + 1 /\ at[2] \in 1 .. Len(b) + 1
         /\ LeftAt(a, b)[at] = Len(a) + 1 - at[1] + (Len(b) + 1 - at[2])
  BY DEF LeftAt, Places
<1>3. ASSUME NEW at \in Places(a) \X Places(b)
      PROVE  LeftAt(a, b)[at] \in Nat /\ LeftAt(a, b)[at] < Len(a) + Len(b) + 1
  BY <1>1, <1>2
<1>4. LeftAt(a, b) \in [Places(a) \X Places(b) -> Nat]
  BY <1>3 DEF LeftAt
<1>5. ASSUME NEW i \in 1 .. Len(a), NEW j \in Places(b)
      PROVE  /\ <<i, j>> \in Places(a) \X Places(b) /\ <<i + 1, j>> \in Places(a) \X Places(b)
             /\ LeftAt(a, b)[<<i + 1, j>>] < LeftAt(a, b)[<<i, j>>]
  <2>1. i \in Places(a) /\ i + 1 \in Places(a) /\ i \in Nat /\ j \in Nat
    BY <1>1 DEF Places
  <2>2. <<i, j>> \in Places(a) \X Places(b) /\ <<i + 1, j>> \in Places(a) \X Places(b)
    BY <2>1
  <2>3. /\ LeftAt(a, b)[<<i, j>>] = Len(a) + 1 - i + (Len(b) + 1 - j)
        /\ LeftAt(a, b)[<<i + 1, j>>] = Len(a) + 1 - (i + 1) + (Len(b) + 1 - j)
    BY <1>2, <2>2
  <2> QED
    BY <1>1, <2>1, <2>2, <2>3
<1>6. ASSUME NEW i \in Places(a), NEW j \in 1 .. Len(b)
      PROVE  /\ <<i, j>> \in Places(a) \X Places(b) /\ <<i, j + 1>> \in Places(a) \X Places(b)
             /\ LeftAt(a, b)[<<i, j + 1>>] < LeftAt(a, b)[<<i, j>>]
  <2>1. j \in Places(b) /\ j + 1 \in Places(b) /\ i \in Nat /\ j \in Nat
    BY <1>1 DEF Places
  <2>2. <<i, j>> \in Places(a) \X Places(b) /\ <<i, j + 1>> \in Places(a) \X Places(b)
    BY <2>1
  <2>3. /\ LeftAt(a, b)[<<i, j>>] = Len(a) + 1 - i + (Len(b) + 1 - j)
        /\ LeftAt(a, b)[<<i, j + 1>>] = Len(a) + 1 - i + (Len(b) + 1 - (j + 1))
    BY <1>2, <2>2
  <2> QED
    BY <1>1, <2>1, <2>2, <2>3
<1> QED
  BY <1>3, <1>4, <1>5, <1>6

LEMMA MergeStepType ==
    ASSUME NEW S, NEW a \in Seq(S), NEW b \in Seq(S), NEW key,
           NEW f \in [Places(a) \X Places(b) -> Seq(S)]
    PROVE  MergeStep(a, b, key, f) \in [Places(a) \X Places(b) -> Seq(S)]
<1> DEFINE D == Places(a) \X Places(b)
<1>1. ASSUME NEW at \in D PROVE MergeStep(a, b, key, f)[at] \in Seq(S)
  <2> DEFINE i == at[1]
             j == at[2]
  <2>1. i \in Places(a) /\ j \in Places(b) /\ Len(a) \in Nat /\ Len(b) \in Nat
    OBVIOUS
  <2>2. MergeStep(a, b, key, f)[at] =
           IF i > Len(a) THEN SubSeq(b, j, Len(b))
           ELSE IF j > Len(b) THEN SubSeq(a, i, Len(a))
           ELSE IF FirstIsNext(key[a[i]], key[b[j]])
                THEN <<a[i]>> \o f[<<i + 1, j>>]
                ELSE <<b[j]>> \o f[<<i, j + 1>>]
    BY DEF MergeStep
  <2> HIDE DEF i, j
  <2>3. SubSeq(b, j, Len(b)) \in Seq(S) /\ SubSeq(a, i, Len(a)) \in Seq(S)
    BY <2>1, SubSeqProperties DEF Places
  <2>4. CASE i <= Len(a) /\ j <= Len(b)
    <3>1. i \in 1 .. Len(a) /\ j \in 1 .. Len(b)
      BY <2>1, <2>4 DEF Places
    <3>2. <<i + 1, j>> \in D /\ <<i, j + 1>> \in D
      BY <2>1, <3>1, LeftFalls
    <3>3. f[<<i + 1, j>>] \in Seq(S) /\ f[<<i, j + 1>>] \in Seq(S)
      BY <3>2
    <3>4. <<a[i]>> \in Seq(S) /\ <<b[j]>> \in Seq(S)
      BY <3>1
    <3>5. <<a[i]>> \o f[<<i + 1, j>>] \in Seq(S) /\ <<b[j]>> \o f[<<i, j + 1>>] \in Seq(S)
      BY <3>3, <3>4
    <3> QED
      BY <2>2, <2>3, <3>5
  <2> QED
    BY <2>1, <2>2, <2>3, <2>4 DEF Places
<1> QED
  BY <1>1 DEF MergeStep

LEMMA MergeExists ==
    ASSUME NEW S, NEW a \in Seq(S), NEW b \in Seq(S), NEW key
    PROVE  \E m : Merges(a, b, key, m)
<1> DEFINE D == Places(a) \X Places(b)
           V == Seq(S)
           mu == LeftAt(a, b)
           E == [f \in [D -> V] |-> MergeStep(a, b, key, f)]
<1>1. E \in [[D -> V] -> [D -> V]]
  BY MergeStepType
<1>2. ASSUME NEW f \in [D -> V], NEW g \in [D -> V], NEW at \in D,
             \A y \in D : mu[y] < mu[at] => f[y] = g[y]
      PROVE  E[f][at] = E[g][at]
  <2>1. PICK i \in Places(a), j \in Places(b) : at = <<i, j>>
    OBVIOUS
  <2>2. i \in 1 .. Len(a) => <<i + 1, j>> \in D /\ mu[<<i + 1, j>>] < mu[at]
    BY <2>1, LeftFalls
  <2>3. j \in 1 .. Len(b) => <<i, j + 1>> \in D /\ mu[<<i, j + 1>>] < mu[at]
    BY <2>1, LeftFalls
  <2>4. i \in 1 .. Len(a) => f[<<i + 1, j>>] = g[<<i + 1, j>>]
    BY <1>2, <2>2
  <2>5. j \in 1 .. Len(b) => f[<<i, j + 1>>] = g[<<i, j + 1>>]
    BY <1>2, <2>3
  <2>6. (i > Len(a) \/ i \in 1 .. Len(a)) /\ (j > Len(b) \/ j \in 1 .. Len(b))
    BY DEF Places
  <2>7. MergeStep(a, b, key, f)[at] = MergeStep(a, b, key, g)[at]
    BY <2>1, <2>4, <2>5, <2>6 DEF MergeStep
  <2> QED
    BY <2>7
<1>3. PICK M \in Nat : M = Len(a) + Len(b) + 1
  OBVIOUS
<1>4. << >> \in V
  OBVIOUS
<1>5. mu \in [D -> Nat] /\ \A at \in D : mu[at] < M
  <2> HIDE DEF mu
  <2> QED
    BY <1>3, LeftFalls DEF mu
<1> HIDE DEF D, V, mu, E
<1>6. Founded(D, V, mu, E)
  BY <1>1, <1>2, <1>5 DEF Founded
<1>7. \E f \in [D -> V] : f = E[f]
  BY <1>4, <1>5, <1>6, ByRecursion
<1> QED
  BY <1>7 DEF E, Merges

(* Place i of s goes before place j: equal data in reverse order.          *)
Ahead(s, key, i, j) ==
    \/ key[s[i]] < key[s[j]]
    \/ key[s[i]] = key[s[j]] /\ i > j

LEMMA AheadOrders ==
    ASSUME NEW S, NEW s \in Seq(S), NEW key, \A n \in S : key[n] \in Int
    PROVE  /\ \A i \in 1 .. Len(s) : ~Ahead(s, key, i, i)
           /\ \A i, j \in 1 .. Len(s) : Ahead(s, key, i, j) => ~Ahead(s, key, j, i)
           /\ \A i, j, k \in 1 .. Len(s) :
                 Ahead(s, key, i, j) /\ Ahead(s, key, j, k) => Ahead(s, key, i, k)
<1>1. \A i \in 1 .. Len(s) : key[s[i]] \in Int /\ i \in Nat
  BY ElementOfSeq
<1> QED
  BY <1>1 DEF Ahead

(* t names the places P of s in order.                                     *)
Lists(s, key, P, t) ==
    /\ t \in Seq(1 .. Len(s))
    /\ \A x, y \in 1 .. Len(t) : x < y => Ahead(s, key, t[x], t[y])
    /\ \A k : k \in P <=> \E x \in 1 .. Len(t) : t[x] = k

Laid(s, t) == [x \in 1 .. Len(t) |-> s[t[x]]]

LEMMA LaidType ==
    ASSUME NEW S, NEW s \in Seq(S), NEW t \in Seq(1 .. Len(s))
    PROVE  /\ Laid(s, t) \in Seq(S) /\ Len(Laid(s, t)) = Len(t)
           /\ \A x \in 1 .. Len(t) : Laid(s, t)[x] = s[t[x]] /\ t[x] \in 1 .. Len(s)
<1>1. \A x \in 1 .. Len(t) : t[x] \in 1 .. Len(s) /\ s[t[x]] \in S
  BY ElementOfSeq
<1>2. Laid(s, t) \in [1 .. Len(t) -> S] /\ Len(t) \in Nat
  BY <1>1 DEF Laid
<1>3. Laid(s, t) \in Seq(S) /\ Len(Laid(s, t)) = Len(t)
  BY <1>2
<1> QED
  BY <1>1, <1>3 DEF Laid

(* A place ahead of all of P.                                              *)
LEMMA ListsCons ==
    ASSUME NEW S, NEW s \in Seq(S), NEW key, NEW P, NEW t, Lists(s, key, P, t),
           NEW i \in 1 .. Len(s), \A k \in P : Ahead(s, key, i, k)
    PROVE  /\ Lists(s, key, P \cup {i}, <<i>> \o t)
           /\ Laid(s, <<i>> \o t) = <<s[i]>> \o Laid(s, t)
<1> DEFINE u == <<i>> \o t
<1>1. t \in Seq(1 .. Len(s)) /\ Len(t) \in Nat
  BY DEF Lists
<1>2. /\ u \in Seq(1 .. Len(s)) /\ Len(u) = Len(t) + 1 /\ u[1] = i
      /\ \A x \in 2 .. Len(u) : u[x] = t[x - 1]
  <2>1. <<i>> \in Seq(1 .. Len(s)) /\ Len(<<i>>) = 1 /\ <<i>>[1] = i
    OBVIOUS
  <2>2. u \in Seq(1 .. Len(s)) /\ Len(u) = 1 + Len(t)
    BY <1>1, <2>1, ConcatProperties
  <2>3. \A x \in 1 .. Len(u) : u[x] = IF x <= 1 THEN <<i>>[x] ELSE t[x - 1]
    BY <1>1, <2>1, ConcatProperties
  <2> QED
    BY <1>1, <2>1, <2>2, <2>3
<1> HIDE DEF u
<1>3. ASSUME NEW x \in 1 .. Len(u), NEW y \in 1 .. Len(u), x < y
      PROVE  Ahead(s, key, u[x], u[y])
  <2>1. y - 1 \in 1 .. Len(t) /\ u[y] = t[y - 1]
    BY <1>1, <1>2, <1>3
  <2>2. CASE x = 1
    BY <1>2, <2>1, <2>2 DEF Lists
  <2>3. CASE x # 1
    <3>1. x - 1 \in 1 .. Len(t) /\ x - 1 < y - 1 /\ u[x] = t[x - 1]
      BY <1>1, <1>2, <1>3, <2>3
    <3> QED
      BY <2>1, <3>1 DEF Lists
  <2> QED
    BY <2>2, <2>3
<1>4. \A k : k \in P \cup {i} <=> \E x \in 1 .. Len(u) : u[x] = k
  <2>1. ASSUME NEW x \in 1 .. Len(t) PROVE x + 1 \in 1 .. Len(u) /\ u[x + 1] = t[x]
    <3>1. PICK y \in 2 .. Len(u) : y = x + 1 /\ y - 1 = x /\ y \in 1 .. Len(u)
      BY <1>1, <1>2
    <3>2. u[y] = t[y - 1]
      BY <1>2
    <3> QED
      BY <3>1, <3>2
  <2>2. 1 \in 1 .. Len(u)
    BY <1>1, <1>2
  <2>3. ASSUME NEW x \in 1 .. Len(u), x # 1
        PROVE  x - 1 \in 1 .. Len(t) /\ u[x] = t[x - 1]
    <3>1. x \in 2 .. Len(u) /\ x - 1 \in 1 .. Len(t)
      BY <1>1, <1>2, <2>3
    <3> QED
      BY <1>2, <3>1
  <2>4. \A k : k \in P <=> \E x \in 1 .. Len(t) : t[x] = k
    BY DEF Lists
  <2> QED
    BY <1>2, <2>1, <2>2, <2>3, <2>4
<1>5. Laid(s, u) = <<s[i]>> \o Laid(s, t)
  <2> DEFINE v == <<s[i]>> \o Laid(s, t)
  <2>1. Laid(s, t) \in Seq(S) /\ Len(Laid(s, t)) = Len(t)
        /\ \A x \in 1 .. Len(t) : Laid(s, t)[x] = s[t[x]]
    BY <1>1, LaidType
  <2>2. Laid(s, u) \in Seq(S) /\ Len(Laid(s, u)) = Len(u)
        /\ \A x \in 1 .. Len(u) : Laid(s, u)[x] = s[u[x]]
    BY <1>2, LaidType
  <2>3. <<s[i]>> \in Seq(S) /\ Len(<<s[i]>>) = 1 /\ <<s[i]>>[1] = s[i]
    BY ElementOfSeq
  <2>4. /\ v \in Seq(S) /\ Len(v) = 1 + Len(t)
        /\ \A x \in 1 .. Len(v) : v[x] = IF x <= 1 THEN <<s[i]>>[x] ELSE Laid(s, t)[x - 1]
    BY <2>1, <2>3, ConcatProperties
  <2> HIDE DEF v
  <2>5. ASSUME NEW x \in 1 .. Len(v) PROVE Laid(s, u)[x] = v[x]
    <3>1. x \in 1 .. Len(u)
      BY <1>1, <1>2, <2>4
    <3>2. CASE x = 1
      BY <1>2, <2>2, <2>3, <2>4, <3>1, <3>2
    <3>3. CASE x # 1
      <4>1. x - 1 \in 1 .. Len(t) /\ x \in 2 .. Len(u) /\ ~(x <= 1)
        BY <1>1, <1>2, <3>1, <3>3
      <4> QED
        BY <1>2, <2>1, <2>2, <2>4, <3>1, <4>1
    <3> QED
      BY <3>2, <3>3
  <2>6. Len(Laid(s, u)) = Len(v)
    BY <1>1, <1>2, <2>2, <2>4
  <2>7. Laid(s, u) = v
    BY <2>2, <2>4, <2>5, <2>6, SeqEqual
  <2> QED
    BY <2>7 DEF v
<1> QED
  BY <1>2, <1>3, <1>4, <1>5 DEF Lists, u

Behind(t, x) == {t[y] : y \in x .. Len(t)}

LEMMA ListsBehind ==
    ASSUME NEW S, NEW s \in Seq(S), NEW key, NEW P, NEW t, Lists(s, key, P, t),
           NEW i \in Places(t)
    PROVE  /\ Lists(s, key, Behind(t, i), SubSeq(t, i, Len(t)))
           /\ Laid(s, SubSeq(t, i, Len(t))) = SubSeq(Laid(s, t), i, Len(t))
<1> DEFINE u == SubSeq(t, i, Len(t))
<1>1. t \in Seq(1 .. Len(s)) /\ Len(t) \in Nat /\ i \in 1 .. Len(t) + 1
  BY DEF Lists, Places
<1>2. /\ u \in Seq(1 .. Len(s)) /\ Len(u) = Len(t) - i + 1
      /\ \A x \in 1 .. Len(u) : u[x] = t[i + x - 1] /\ i + x - 1 \in 1 .. Len(t)
  <2>1. u \in Seq(1 .. Len(s)) /\ Len(u) = Len(t) - i + 1
        /\ \A x \in 1 .. Len(t) - i + 1 : u[x] = t[i + x - 1]
    BY <1>1, SubSeqProperties
  <2> HIDE DEF u
  <2> QED
    BY <1>1, <2>1
<1> HIDE DEF u
<1>3. ASSUME NEW x \in 1 .. Len(u), NEW y \in 1 .. Len(u), x < y
      PROVE  Ahead(s, key, u[x], u[y])
  <2>1. i + x - 1 < i + y - 1
    BY <1>1, <1>3
  <2> QED
    BY <1>2, <2>1 DEF Lists
<1>4. \A k : k \in Behind(t, i) <=> \E x \in 1 .. Len(u) : u[x] = k
  <2>1. ASSUME NEW y \in i .. Len(t)
        PROVE  y - i + 1 \in 1 .. Len(u) /\ u[y - i + 1] = t[y]
    <3>1. y - i + 1 \in 1 .. Len(u) /\ i + (y - i + 1) - 1 = y
      BY <1>1, <1>2
    <3> QED
      BY <1>2, <3>1
  <2>2. ASSUME NEW x \in 1 .. Len(u) PROVE i + x - 1 \in i .. Len(t) /\ u[x] = t[i + x - 1]
    BY <1>1, <1>2
  <2>3. \A k : k \in Behind(t, i) <=> \E y \in i .. Len(t) : t[y] = k
    BY DEF Behind
  <2>4. ASSUME NEW k, k \in Behind(t, i) PROVE \E x \in 1 .. Len(u) : u[x] = k
    BY <2>1, <2>3, <2>4
  <2>5. ASSUME NEW k, NEW x \in 1 .. Len(u), u[x] = k PROVE k \in Behind(t, i)
    BY <2>2, <2>3, <2>5
  <2> QED
    BY <2>4, <2>5
<1>5. Laid(s, u) = SubSeq(Laid(s, t), i, Len(t))
  <2> DEFINE v == SubSeq(Laid(s, t), i, Len(t))
  <2>1. Laid(s, t) \in Seq(S) /\ Len(Laid(s, t)) = Len(t)
        /\ \A x \in 1 .. Len(t) : Laid(s, t)[x] = s[t[x]]
    BY <1>1, LaidType
  <2>2. Laid(s, u) \in Seq(S) /\ Len(Laid(s, u)) = Len(u)
        /\ \A x \in 1 .. Len(u) : Laid(s, u)[x] = s[u[x]]
    BY <1>2, LaidType
  <2>3. v \in Seq(S) /\ Len(v) = Len(t) - i + 1
        /\ \A x \in 1 .. Len(t) - i + 1 : v[x] = Laid(s, t)[i + x - 1]
    BY <1>1, <2>1, SubSeqProperties
  <2> HIDE DEF v
  <2>4. ASSUME NEW x \in 1 .. Len(v) PROVE Laid(s, u)[x] = v[x]
    <3>1. /\ x \in 1 .. Len(u) /\ x \in 1 .. Len(t) - i + 1
          /\ i + x - 1 \in 1 .. Len(t) /\ u[x] = t[i + x - 1]
      BY <1>2, <2>3
    <3> QED
      BY <2>1, <2>2, <2>3, <3>1
  <2>5. Laid(s, u) = v
    BY <1>2, <2>2, <2>3, <2>4, SeqEqual
  <2> QED
    BY <2>5 DEF v
<1> QED
  BY <1>2, <1>3, <1>4, <1>5 DEF Lists, u

(* What is behind place i: its own, and what is behind the next.           *)
Heads(s, key, P, t, i) ==
    /\ Behind(t, i) = Behind(t, i + 1) \cup {t[i]}
    /\ t[i] \in P /\ t[i] \in 1 .. Len(s)
    /\ \A k \in Behind(t, i + 1) :
          k \in P /\ k \in 1 .. Len(s) /\ Ahead(s, key, t[i], k)

LEMMA BehindStep ==
    ASSUME NEW s, NEW key, NEW P, NEW t, Lists(s, key, P, t)
    PROVE  \A i \in 1 .. Len(t) : Heads(s, key, P, t, i)
<1>1. t \in Seq(1 .. Len(s)) /\ Len(t) \in Nat
  BY DEF Lists
<1>2. \A x \in 1 .. Len(t) : t[x] \in P /\ t[x] \in 1 .. Len(s)
  BY <1>1, ElementOfSeq DEF Lists
<1> TAKE i \in 1 .. Len(t)
<1>3. \A k : k \in Behind(t, i + 1) <=> \E y \in i + 1 .. Len(t) : t[y] = k
  BY DEF Behind
<1>4. \A k : k \in Behind(t, i) <=> \E y \in i .. Len(t) : t[y] = k
  BY DEF Behind
<1>5. \A y : y \in i .. Len(t) <=> y = i \/ y \in i + 1 .. Len(t)
  BY <1>1
<1>6. Behind(t, i) = Behind(t, i + 1) \cup {t[i]}
  BY <1>3, <1>4, <1>5
<1>7. ASSUME NEW y \in i + 1 .. Len(t)
      PROVE  t[y] \in P /\ t[y] \in 1 .. Len(s) /\ Ahead(s, key, t[i], t[y])
  <2>1. y \in 1 .. Len(t) /\ i < y
    BY <1>1
  <2> QED
    BY <1>2, <2>1 DEF Lists
<1> QED
  BY <1>2, <1>3, <1>6, <1>7 DEF Heads

Before(P, Q) == \A i \in P, j \in Q : i < j

MergesTo(s, key, P, Q, p, q) ==
    \E t : /\ Lists(s, key, P \cup Q, t)
          /\ MergeNodes(Laid(s, p), Laid(s, q), key) = Laid(s, t)

LEMMA MergesLists ==
    ASSUME NEW S, NEW s \in Seq(S), NEW key, \A n \in S : key[n] \in Int,
           NEW P, NEW Q, Before(P, Q),
           NEW p, Lists(s, key, P, p), NEW q, Lists(s, key, Q, q)
    PROVE  MergesTo(s, key, P, Q, p, q)
<1>1. PICK a \in Seq(S), b \in Seq(S) :
         /\ a = Laid(s, p) /\ b = Laid(s, q) /\ Len(a) = Len(p) /\ Len(b) = Len(q)
         /\ \A x \in 1 .. Len(p) : a[x] = s[p[x]]
         /\ \A x \in 1 .. Len(q) : b[x] = s[q[x]]
  <2>1. /\ Laid(s, p) \in Seq(S) /\ Len(Laid(s, p)) = Len(p)
        /\ \A x \in 1 .. Len(p) : Laid(s, p)[x] = s[p[x]]
    BY LaidType DEF Lists
  <2>2. /\ Laid(s, q) \in Seq(S) /\ Len(Laid(s, q)) = Len(q)
        /\ \A x \in 1 .. Len(q) : Laid(s, q)[x] = s[q[x]]
    BY LaidType DEF Lists
  <2> QED
    BY <2>1, <2>2
<1>2. PICK m : Merges(a, b, key, m) /\ MergeNodes(a, b, key) = m[<<1, 1>>]
  BY MergeExists, MergeNodesIs
<1>21. \A i \in Places(a), j \in Places(b) : MergedAt(a, b, key, m, i, j)
  BY <1>2, MergeAt
<1>22. /\ \A i \in 1 .. Len(p) : Heads(s, key, P, p, i)
       /\ \A j \in 1 .. Len(q) : Heads(s, key, Q, q, j)
  BY BehindStep
<1> DEFINE D == Places(a) \X Places(b)
           Both(i, j) == Behind(p, i) \cup Behind(q, j)
           Good(i, j) == \E t : Lists(s, key, Both(i, j), t) /\ m[<<i, j>>] = Laid(s, t)
           G == {at \in D : Good(at[1], at[2])}
           mu == LeftAt(a, b)
<1>3. Places(a) = Places(p) /\ Places(b) = Places(q) /\ Len(a) \in Nat /\ Len(b) \in Nat
  BY <1>1 DEF Places
<1>4. ASSUME NEW at \in D, \A y \in D : mu[y] < mu[at] => y \in G PROVE at \in G
  <2>1. PICK i \in Places(a), j \in Places(b) : at = <<i, j>>
    OBVIOUS
  <2>2. i \in 1 .. Len(a) => Good(i + 1, j)
    <3> SUFFICES ASSUME i \in 1 .. Len(a) PROVE Good(i + 1, j)
      OBVIOUS
    <3>1. <<i + 1, j>> \in D /\ mu[<<i + 1, j>>] < mu[at]
      BY <2>1, LeftFalls
    <3>2. <<i + 1, j>> \in G
      BY <1>4, <3>1
    <3> QED
      BY <3>2
  <2>3. j \in 1 .. Len(b) => Good(i, j + 1)
    <3> SUFFICES ASSUME j \in 1 .. Len(b) PROVE Good(i, j + 1)
      OBVIOUS
    <3>1. <<i, j + 1>> \in D /\ mu[<<i, j + 1>>] < mu[at]
      BY <2>1, LeftFalls
    <3>2. <<i, j + 1>> \in G
      BY <1>4, <3>1
    <3> QED
      BY <3>2
  <2> HIDE DEF G, mu
  <2>4. m[<<i, j>>] = IF i > Len(a) THEN SubSeq(b, j, Len(b))
                      ELSE IF j > Len(b) THEN SubSeq(a, i, Len(a))
                      ELSE IF FirstIsNext(key[a[i]], key[b[j]])
                           THEN <<a[i]>> \o m[<<i + 1, j>>]
                           ELSE <<b[j]>> \o m[<<i, j + 1>>]
    BY <1>21 DEF MergedAt
  <2>5. ASSUME i > Len(a) PROVE Good(i, j)
    <3>1. /\ Lists(s, key, Behind(q, j), SubSeq(q, j, Len(q)))
          /\ Laid(s, SubSeq(q, j, Len(q))) = SubSeq(b, j, Len(b))
      BY <1>1, <1>3, ListsBehind
    <3>2. Both(i, j) = Behind(q, j)
      <4>1. i .. Len(p) = {}
        BY <1>1, <1>3, <2>5 DEF Places
      <4> QED
        BY <4>1 DEF Behind
    <3> QED
      BY <2>4, <2>5, <3>1, <3>2
  <2>6. ASSUME i <= Len(a), j > Len(b) PROVE Good(i, j)
    <3>1. /\ Lists(s, key, Behind(p, i), SubSeq(p, i, Len(p)))
          /\ Laid(s, SubSeq(p, i, Len(p))) = SubSeq(a, i, Len(a))
      BY <1>1, <1>3, ListsBehind
    <3>2. Both(i, j) = Behind(p, i)
      <4>1. j .. Len(q) = {}
        BY <1>1, <1>3, <2>6 DEF Places
      <4> QED
        BY <4>1 DEF Behind
    <3>3. ~(i > Len(a))
      BY <1>3, <2>6 DEF Places
    <3> QED
      BY <2>4, <2>6, <3>1, <3>2, <3>3
  <2>7. ASSUME i <= Len(a), j <= Len(b) PROVE Good(i, j)
    <3>1. i \in 1 .. Len(p) /\ j \in 1 .. Len(q) /\ ~(i > Len(a)) /\ ~(j > Len(b))
      BY <1>1, <1>3, <2>7 DEF Places
    <3>2. /\ Behind(p, i) = Behind(p, i + 1) \cup {p[i]} /\ p[i] \in P /\ p[i] \in 1 .. Len(s)
          /\ \A k \in Behind(p, i + 1) :
                k \in P /\ k \in 1 .. Len(s) /\ Ahead(s, key, p[i], k)
      BY <1>22, <3>1 DEF Heads
    <3>3. /\ Behind(q, j) = Behind(q, j + 1) \cup {q[j]} /\ q[j] \in Q /\ q[j] \in 1 .. Len(s)
          /\ \A k \in Behind(q, j + 1) :
                k \in Q /\ k \in 1 .. Len(s) /\ Ahead(s, key, q[j], k)
      BY <1>22, <3>1 DEF Heads
    <3>4. /\ key[a[i]] = key[s[p[i]]] /\ key[b[j]] = key[s[q[j]]]
          /\ key[s[p[i]]] \in Int /\ key[s[q[j]]] \in Int
          /\ p[i] < q[j] /\ p[i] \in Nat /\ q[j] \in Nat
      <4>1. a[i] = s[p[i]] /\ b[j] = s[q[j]]
        BY <1>1, <3>1
      <4>2. s[p[i]] \in S /\ s[q[j]] \in S
        BY <3>2, <3>3, ElementOfSeq
      <4>3. p[i] < q[j] /\ p[i] \in Nat /\ q[j] \in Nat
        BY <3>2, <3>3 DEF Before
      <4> QED
        BY <4>1, <4>2, <4>3
    <3>5. CASE FirstIsNext(key[a[i]], key[b[j]])
      <4>1. Ahead(s, key, p[i], q[j])
        BY <3>4, <3>5 DEF FirstIsNext, Ahead
      <4>2. \A k \in Both(i + 1, j) : Ahead(s, key, p[i], k)
        BY <3>2, <3>3, <4>1, AheadOrders
      <4>3. PICK t : Lists(s, key, Both(i + 1, j), t) /\ m[<<i + 1, j>>] = Laid(s, t)
        BY <1>1, <2>2, <3>1
      <4> DEFINE u == <<p[i]>> \o t
      <4>4. Both(i, j) = Both(i + 1, j) \cup {p[i]}
        BY <3>2
      <4> HIDE DEF Both
      <4>5. /\ Lists(s, key, Both(i + 1, j) \cup {p[i]}, u)
            /\ Laid(s, u) = <<s[p[i]]>> \o Laid(s, t)
        <5>1. p[i] \in 1 .. Len(s)
          BY <3>2
        <5> QED
          BY <4>2, <4>3, <5>1, ListsCons
      <4>6. m[<<i, j>>] = <<s[p[i]]>> \o Laid(s, t)
        BY <1>1, <2>4, <3>1, <3>5, <4>3
      <4> HIDE DEF u
      <4> QED
        BY <4>4, <4>5, <4>6
    <3>6. CASE ~FirstIsNext(key[a[i]], key[b[j]])
      <4>1. Ahead(s, key, q[j], p[i])
        BY <3>4, <3>6 DEF FirstIsNext, Ahead
      <4>2. \A k \in Both(i, j + 1) : Ahead(s, key, q[j], k)
        BY <3>2, <3>3, <4>1, AheadOrders
      <4>3. PICK t : Lists(s, key, Both(i, j + 1), t) /\ m[<<i, j + 1>>] = Laid(s, t)
        BY <1>1, <2>3, <3>1
      <4> DEFINE u == <<q[j]>> \o t
      <4>4. Both(i, j) = Both(i, j + 1) \cup {q[j]}
        BY <3>3
      <4> HIDE DEF Both
      <4>5. /\ Lists(s, key, Both(i, j + 1) \cup {q[j]}, u)
            /\ Laid(s, u) = <<s[q[j]]>> \o Laid(s, t)
        <5>1. q[j] \in 1 .. Len(s)
          BY <3>3
        <5> QED
          BY <4>2, <4>3, <5>1, ListsCons
      <4>6. m[<<i, j>>] = <<s[q[j]]>> \o Laid(s, t)
        BY <1>1, <2>4, <3>1, <3>6, <4>3
      <4> HIDE DEF u
      <4> QED
        BY <4>4, <4>5, <4>6
    <3> QED
      BY <3>5, <3>6
  <2>8. Good(i, j)
    <3>1. i \in Int /\ j \in Int
      BY <1>3 DEF Places
    <3> HIDE DEF Good
    <3> QED
      BY <1>3, <2>5, <2>6, <2>7, <3>1
  <2> HIDE DEF Good
  <2> QED
    BY <2>1, <2>8 DEF G
<1>5. mu \in [D -> Nat]
  BY LeftFalls
<1>6. <<1, 1>> \in D
  BY <1>3 DEF Places
<1>7. <<1, 1>> \in G
  <2> HIDE DEF D, G, mu
  <2> QED
    BY <1>4, <1>5, <1>6, ByMeasure
<1>8. PICK t : Lists(s, key, Both(1, 1), t) /\ m[<<1, 1>>] = Laid(s, t)
  BY <1>7
<1>9. Both(1, 1) = P \cup Q
  BY DEF Behind, Lists
<1> HIDE DEF Both
<1> QED
  BY <1>1, <1>2, <1>8, <1>9 DEF MergesTo

(* What is merged of two sequences of members of S is one.                 *)
LEMMA MergeType ==
    ASSUME NEW S, NEW a \in Seq(S), NEW b \in Seq(S), NEW key
    PROVE  MergeNodes(a, b, key) \in Seq(S)
<1>1. PICK m : Merges(a, b, key, m) /\ MergeNodes(a, b, key) = m[<<1, 1>>]
  BY MergeExists, MergeNodesIs
<1>2. \A i \in Places(a), j \in Places(b) : MergedAt(a, b, key, m, i, j)
  BY <1>1, MergeAt
<1>3. Len(a) \in Nat /\ Len(b) \in Nat
  OBVIOUS
<1> DEFINE D == Places(a) \X Places(b)
           G == {at \in D : m[at] \in Seq(S)}
           mu == LeftAt(a, b)
<1>4. ASSUME NEW at \in D, \A y \in D : mu[y] < mu[at] => y \in G PROVE at \in G
  <2>1. PICK i \in Places(a), j \in Places(b) : at = <<i, j>>
    OBVIOUS
  <2>2. i \in 1 .. Len(a) => m[<<i + 1, j>>] \in Seq(S)
    <3>1. i \in 1 .. Len(a) => <<i + 1, j>> \in D /\ mu[<<i + 1, j>>] < mu[at]
      BY <2>1, LeftFalls
    <3> QED
      BY <1>4, <3>1
  <2>3. j \in 1 .. Len(b) => m[<<i, j + 1>>] \in Seq(S)
    <3>1. j \in 1 .. Len(b) => <<i, j + 1>> \in D /\ mu[<<i, j + 1>>] < mu[at]
      BY <2>1, LeftFalls
    <3> QED
      BY <1>4, <3>1
  <2>4. SubSeq(b, j, Len(b)) \in Seq(S) /\ SubSeq(a, i, Len(a)) \in Seq(S)
    BY <1>3, SubSeqProperties DEF Places
  <2>5. CASE i <= Len(a) /\ j <= Len(b)
    <3>1. i \in 1 .. Len(a) /\ j \in 1 .. Len(b)
      BY <1>3, <2>5 DEF Places
    <3>2. <<a[i]>> \o m[<<i + 1, j>>] \in Seq(S)
      BY <2>2, <3>1
    <3>3. <<b[j]>> \o m[<<i, j + 1>>] \in Seq(S)
      BY <2>3, <3>1
    <3>4. m[<<i, j>>] \in Seq(S)
      <4>1. MergedAt(a, b, key, m, i, j) /\ ~(i > Len(a)) /\ ~(j > Len(b))
        BY <1>2, <1>3, <2>5 DEF Places
      <4>2. \/ m[<<i, j>>] = <<a[i]>> \o m[<<i + 1, j>>]
            \/ m[<<i, j>>] = <<b[j]>> \o m[<<i, j + 1>>]
        BY <4>1 DEF MergedAt
      <4> QED
        BY <3>2, <3>3, <4>2
    <3> QED
      BY <2>1, <3>4
  <2>6. CASE i > Len(a) \/ j > Len(b)
    <3>1. m[<<i, j>>] \in Seq(S)
      BY <1>2, <2>4, <2>6 DEF MergedAt
    <3> QED
      BY <2>1, <3>1
  <2> QED
    BY <1>3, <2>5, <2>6 DEF Places
<1>5. mu \in [D -> Nat]
  BY LeftFalls
<1>6. <<1, 1>> \in D
  BY <1>3 DEF Places
<1>7. <<1, 1>> \in G
  <2> HIDE DEF D, G, mu
  <2> QED
    BY <1>4, <1>5, <1>6, ByMeasure
<1> QED
  BY <1>1, <1>7

Parts(s) == Places(s) \X (0 .. Len(s))

MergeSortStep(s, key, f) ==
    [part \in Places(s) \X (0 .. Len(s)) |->
        LET lo == part[1]  hi == part[2]
            mid == SplitAt(lo, hi)
        IN  IF lo >= hi THEN SubSeq(s, lo, hi)
            ELSE MergeNodes(f[<<lo, mid>>], f[<<mid + 1, hi>>], key)]

Sorts(s, key, f) == f = MergeSortStep(s, key, f)

LEMMA MergeSortIs ==
    ASSUME NEW s, NEW key
    PROVE  MergeSort(s, key) = (CHOOSE f : Sorts(s, key, f))[<<1, Len(s)>>]
BY DEF MergeSort, MergeSortStep, Sorts, Parts

(* How long a part is.                                                     *)
Span(s) == [part \in Parts(s) |-> IF part[1] <= part[2] THEN part[2] - part[1] ELSE 0]

(* Both halves of a part of two nodes or more are shorter parts.           *)
LEMMA SplitFalls ==
    ASSUME NEW S, NEW s \in Seq(S)
    PROVE  /\ Span(s) \in [Parts(s) -> Nat]
           /\ \A part \in Parts(s) : Span(s)[part] < Len(s) + 1
           /\ \A lo \in Places(s), hi \in 0 .. Len(s) :
                 lo < hi =>
                    /\ SplitAt(lo, hi) \in Nat /\ lo <= SplitAt(lo, hi) /\ SplitAt(lo, hi) < hi
                    /\ <<lo, SplitAt(lo, hi)>> \in Parts(s)
                    /\ <<SplitAt(lo, hi) + 1, hi>> \in Parts(s)
                    /\ Span(s)[<<lo, SplitAt(lo, hi)>>] < Span(s)[<<lo, hi>>]
                    /\ Span(s)[<<SplitAt(lo, hi) + 1, hi>>] < Span(s)[<<lo, hi>>]
<1>1. Len(s) \in Nat
  OBVIOUS
<1>2. \A part \in Parts(s) :
         /\ part[1] \in 1 .. Len(s) + 1 /\ part[2] \in 0 .. Len(s)
         /\ Span(s)[part] = IF part[1] <= part[2] THEN part[2] - part[1] ELSE 0
  BY DEF Span, Parts, Places
<1>3. ASSUME NEW part \in Parts(s) PROVE Span(s)[part] \in Nat /\ Span(s)[part] < Len(s) + 1
  BY <1>1, <1>2
<1>4. Span(s) \in [Parts(s) -> Nat]
  BY <1>3 DEF Span
<1>5. ASSUME NEW lo \in Places(s), NEW hi \in 0 .. Len(s), lo < hi
      PROVE  /\ SplitAt(lo, hi) \in Nat /\ lo <= SplitAt(lo, hi) /\ SplitAt(lo, hi) < hi
             /\ <<lo, SplitAt(lo, hi)>> \in Parts(s)
             /\ <<SplitAt(lo, hi) + 1, hi>> \in Parts(s)
             /\ Span(s)[<<lo, SplitAt(lo, hi)>>] < Span(s)[<<lo, hi>>]
             /\ Span(s)[<<SplitAt(lo, hi) + 1, hi>>] < Span(s)[<<lo, hi>>]
  <2>1. lo \in Nat /\ hi \in Nat /\ lo >= 1 /\ hi <= Len(s)
    BY <1>1 DEF Places
  <2>2. SplitAt(lo, hi) \in Nat /\ lo <= SplitAt(lo, hi) /\ SplitAt(lo, hi) < hi
    BY <1>5, <2>1 DEF SplitAt
  <2>3. PICK mid \in Nat : mid = SplitAt(lo, hi) /\ lo <= mid /\ mid < hi
    BY <2>2
  <2>4. mid \in 0 .. Len(s) /\ mid + 1 \in Places(s)
    BY <1>1, <2>1, <2>3 DEF Places
  <2>5. <<lo, mid>> \in Parts(s) /\ <<mid + 1, hi>> \in Parts(s) /\ <<lo, hi>> \in Parts(s)
    BY <2>4 DEF Parts
  <2>6. /\ Span(s)[<<lo, mid>>] = mid - lo
        /\ Span(s)[<<mid + 1, hi>>] = hi - (mid + 1)
        /\ Span(s)[<<lo, hi>>] = hi - lo
    BY <1>2, <1>5, <2>1, <2>3, <2>5
  <2> QED
    BY <2>1, <2>2, <2>3, <2>5, <2>6
<1> QED
  BY <1>3, <1>4, <1>5

LEMMA SortStepType ==
    ASSUME NEW S, NEW s \in Seq(S), NEW key, NEW f \in [Parts(s) -> Seq(S)]
    PROVE  MergeSortStep(s, key, f) \in [Parts(s) -> Seq(S)]
<1>1. ASSUME NEW part \in Parts(s) PROVE MergeSortStep(s, key, f)[part] \in Seq(S)
  <2>1. PICK lo \in Places(s), hi \in 0 .. Len(s) : part = <<lo, hi>>
    BY DEF Parts
  <2>2. MergeSortStep(s, key, f)[part] =
           IF lo >= hi THEN SubSeq(s, lo, hi)
           ELSE MergeNodes(f[<<lo, SplitAt(lo, hi)>>], f[<<SplitAt(lo, hi) + 1, hi>>], key)
    BY <2>1 DEF MergeSortStep, Parts
  <2>3. CASE lo >= hi
    <3>1. SubSeq(s, lo, hi) \in Seq(S)
      BY SubSeqProperties DEF Places
    <3> QED
      BY <2>2, <2>3, <3>1
  <2>4. CASE ~(lo >= hi)
    <3>1. lo < hi
      BY <2>4 DEF Places
    <3>2. <<lo, SplitAt(lo, hi)>> \in Parts(s) /\ <<SplitAt(lo, hi) + 1, hi>> \in Parts(s)
      BY <3>1, SplitFalls
    <3>3. PICK a \in Seq(S), b \in Seq(S) :
             a = f[<<lo, SplitAt(lo, hi)>>] /\ b = f[<<SplitAt(lo, hi) + 1, hi>>]
      BY <3>2
    <3>4. MergeNodes(a, b, key) \in Seq(S)
      BY MergeType
    <3> QED
      BY <2>2, <2>4, <3>3, <3>4
  <2> QED
    BY <2>3, <2>4
<1> QED
  BY <1>1 DEF MergeSortStep, Parts

LEMMA SortExists ==
    ASSUME NEW S, NEW s \in Seq(S), NEW key
    PROVE  \E f : Sorts(s, key, f)
<1> DEFINE D == Parts(s)
           V == Seq(S)
           mu == Span(s)
           E == [f \in [D -> V] |-> MergeSortStep(s, key, f)]
<1>1. E \in [[D -> V] -> [D -> V]]
  BY SortStepType
<1>2. ASSUME NEW f \in [D -> V], NEW g \in [D -> V], NEW part \in D,
             \A y \in D : mu[y] < mu[part] => f[y] = g[y]
      PROVE  E[f][part] = E[g][part]
  <2>1. PICK lo \in Places(s), hi \in 0 .. Len(s) : part = <<lo, hi>>
    BY DEF Parts
  <2>2. PICK mid : mid = SplitAt(lo, hi)
    OBVIOUS
  <2>3. lo < hi => /\ <<lo, mid>> \in D /\ mu[<<lo, mid>>] < mu[part]
                   /\ <<mid + 1, hi>> \in D /\ mu[<<mid + 1, hi>>] < mu[part]
    BY <2>1, <2>2, SplitFalls
  <2>4. lo < hi => f[<<lo, mid>>] = g[<<lo, mid>>] /\ f[<<mid + 1, hi>>] = g[<<mid + 1, hi>>]
    BY <1>2, <2>3
  <2>5. /\ MergeSortStep(s, key, f)[part] =
              IF lo >= hi THEN SubSeq(s, lo, hi)
              ELSE MergeNodes(f[<<lo, mid>>], f[<<mid + 1, hi>>], key)
        /\ MergeSortStep(s, key, g)[part] =
              IF lo >= hi THEN SubSeq(s, lo, hi)
              ELSE MergeNodes(g[<<lo, mid>>], g[<<mid + 1, hi>>], key)
    BY <2>1, <2>2 DEF MergeSortStep, Parts
  <2>6. lo >= hi \/ lo < hi
    BY DEF Places
  <2>7. MergeSortStep(s, key, f)[part] = MergeSortStep(s, key, g)[part]
    BY <2>4, <2>5, <2>6
  <2> QED
    BY <2>7
<1>3. PICK M \in Nat : M = Len(s) + 1
  OBVIOUS
<1>4. << >> \in V
  OBVIOUS
<1>5. mu \in [D -> Nat] /\ \A part \in D : mu[part] < M
  <2> HIDE DEF mu
  <2> QED
    BY <1>3, SplitFalls DEF mu
<1> HIDE DEF D, V, mu, E
<1>6. Founded(D, V, mu, E)
  BY <1>1, <1>2, <1>5 DEF Founded
<1>7. \E f \in [D -> V] : f = E[f]
  BY <1>4, <1>5, <1>6, ByRecursion
<1> QED
  BY <1>7 DEF E, Sorts

(* A part of one node or none is in order.                                 *)
LEMMA ListsShort ==
    ASSUME NEW S, NEW s \in Seq(S), NEW key,
           NEW lo \in Places(s), NEW hi \in 0 .. Len(s), lo >= hi
    PROVE  \E t : Lists(s, key, lo .. hi, t) /\ Laid(s, t) = SubSeq(s, lo, hi)
<1>1. Len(s) \in Nat /\ lo \in 1 .. Len(s) + 1 /\ hi \in 0 .. Len(s)
  BY DEF Places
<1>2. CASE lo > hi
  <2>1. lo .. hi = {} /\ SubSeq(s, lo, hi) = << >>
    BY <1>1, <1>2, SubSeqProperties
  <2>2. << >> \in Seq(1 .. Len(s)) /\ Len(<< >>) = 0 /\ 1 .. 0 = {}
    OBVIOUS
  <2>3. Lists(s, key, lo .. hi, << >>)
    BY <2>1, <2>2 DEF Lists
  <2>4. Laid(s, << >>) = << >>
    <3>1. PICK e : e = << >> /\ e \in Seq(1 .. Len(s)) /\ Len(e) = 0
      BY <2>2
    <3>2. Laid(s, e) \in Seq(S) /\ Len(Laid(s, e)) = 0
      BY <3>1, LaidType
    <3> QED
      BY <3>1, <3>2, EmptySeq
  <2> QED
    BY <2>1, <2>3, <2>4
<1>3. CASE lo = hi
  <2>1. lo \in 1 .. Len(s) /\ lo .. hi = {lo}
    BY <1>1, <1>3
  <2> DEFINE t == <<lo>>
  <2>2. t \in Seq(1 .. Len(s)) /\ Len(t) = 1 /\ t[1] = lo
    BY <2>1
  <2>3. Lists(s, key, lo .. hi, t)
    BY <2>1, <2>2 DEF Lists
  <2>4. /\ SubSeq(s, lo, hi) \in Seq(S) /\ Len(SubSeq(s, lo, hi)) = 1
        /\ SubSeq(s, lo, hi)[1] = s[lo]
    <3>1. /\ SubSeq(s, lo, hi) \in Seq(S) /\ Len(SubSeq(s, lo, hi)) = hi - lo + 1
          /\ \A i \in 1 .. hi - lo + 1 : SubSeq(s, lo, hi)[i] = s[lo + i - 1]
      BY <1>1, <1>3, <2>1, SubSeqProperties
    <3>2. hi - lo + 1 = 1 /\ lo + 1 - 1 = lo
      BY <1>1, <1>3
    <3> QED
      BY <3>1, <3>2
  <2>5. Laid(s, t) \in Seq(S) /\ Len(Laid(s, t)) = 1 /\ Laid(s, t)[1] = s[lo]
    <3> HIDE DEF t
    <3>1. Laid(s, t) \in Seq(S) /\ Len(Laid(s, t)) = Len(t)
          /\ \A x \in 1 .. Len(t) : Laid(s, t)[x] = s[t[x]]
      BY <2>2, LaidType
    <3>2. 1 \in 1 .. Len(t)
      BY <2>2
    <3> QED
      BY <2>2, <3>1, <3>2
  <2>6. Laid(s, t) = SubSeq(s, lo, hi)
    <3>1. \A x \in 1 .. 1 : x = 1
      OBVIOUS
    <3>2. PICK v \in Seq(S), w \in Seq(S) : /\ v = Laid(s, t) /\ w = SubSeq(s, lo, hi)
                                /\ Len(v) = 1 /\ Len(w) = 1 /\ v[1] = w[1]
      BY <2>4, <2>5
    <3> QED
      BY <3>1, <3>2, SeqEqual
  <2> QED
    BY <2>3, <2>6
<1> QED
  BY <1>1, <1>2, <1>3

(* The merge sort lays the places of s out in order.                       *)
LEMMA SortsLists ==
    ASSUME NEW S, NEW s \in Seq(S), NEW key, \A n \in S : key[n] \in Int
    PROVE  \E t : Lists(s, key, 1 .. Len(s), t) /\ MergeSort(s, key) = Laid(s, t)
<1>1. PICK f : Sorts(s, key, f) /\ MergeSort(s, key) = f[<<1, Len(s)>>]
  BY SortExists, MergeSortIs
<1>2. f = MergeSortStep(s, key, f)
  BY <1>1 DEF Sorts
<1> DEFINE D == Parts(s)
           mu == Span(s)
           Good(part) == \E t : Lists(s, key, part[1] .. part[2], t) /\ f[part] = Laid(s, t)
           G == {part \in D : Good(part)}
<1>3. ASSUME NEW part \in D, \A y \in D : mu[y] < mu[part] => y \in G PROVE part \in G
  <2>1. PICK lo \in Places(s), hi \in 0 .. Len(s) : part = <<lo, hi>>
    BY DEF Parts
  <2>2. PICK mid : mid = SplitAt(lo, hi)
    OBVIOUS
  <2>3. f[part] = IF lo >= hi THEN SubSeq(s, lo, hi)
                  ELSE MergeNodes(f[<<lo, mid>>], f[<<mid + 1, hi>>], key)
    <3>1. MergeSortStep(s, key, f)[part] =
             IF lo >= hi THEN SubSeq(s, lo, hi)
             ELSE MergeNodes(f[<<lo, mid>>], f[<<mid + 1, hi>>], key)
      BY <2>1, <2>2 DEF MergeSortStep, Parts
    <3> QED
      BY <1>2, <3>1
  <2>4. CASE lo >= hi
    <3>1. PICK t : Lists(s, key, lo .. hi, t) /\ Laid(s, t) = SubSeq(s, lo, hi)
      BY <2>4, ListsShort
    <3>2. f[part] = Laid(s, t)
      BY <2>3, <2>4, <3>1
    <3> QED
      BY <2>1, <3>1, <3>2
  <2>5. CASE lo < hi
    <3>1. /\ mid \in Nat /\ lo <= mid /\ mid < hi
          /\ <<lo, mid>> \in D /\ mu[<<lo, mid>>] < mu[part]
          /\ <<mid + 1, hi>> \in D /\ mu[<<mid + 1, hi>>] < mu[part]
      BY <2>1, <2>2, <2>5, SplitFalls
    <3>2. <<lo, mid>> \in G /\ <<mid + 1, hi>> \in G
      BY <1>3, <3>1
    <3>3. PICK p : Lists(s, key, lo .. mid, p) /\ f[<<lo, mid>>] = Laid(s, p)
      BY <3>2
    <3>4. PICK q : Lists(s, key, mid + 1 .. hi, q) /\ f[<<mid + 1, hi>>] = Laid(s, q)
      BY <3>2
    <3>5. lo \in Nat /\ hi \in Nat
      BY DEF Places
    <3>6. Before(lo .. mid, mid + 1 .. hi)
      BY <3>1, <3>5 DEF Before
    <3>7. (lo .. mid) \cup (mid + 1 .. hi) = lo .. hi
      BY <3>1, <3>5
    <3>8. PICK P, Q : P = lo .. mid /\ Q = mid + 1 .. hi
      OBVIOUS
    <3>9. Lists(s, key, P, p) /\ Lists(s, key, Q, q) /\ Before(P, Q)
      BY <3>3, <3>4, <3>6, <3>8
    <3>10. PICK t : Lists(s, key, P \cup Q, t) /\ MergeNodes(Laid(s, p), Laid(s, q), key) = Laid(s, t)
      <4>1. MergesTo(s, key, P, Q, p, q)
        BY <3>9, MergesLists
      <4> QED
        BY <4>1 DEF MergesTo
    <3>11. ~(lo >= hi)
      BY <2>5, <3>5
    <3>12. f[part] = Laid(s, t) /\ Lists(s, key, lo .. hi, t)
      BY <2>3, <3>3, <3>4, <3>7, <3>8, <3>10, <3>11
    <3> QED
      BY <2>1, <3>12
  <2> QED
    BY <2>4, <2>5 DEF Places
<1>4. mu \in [D -> Nat]
  BY SplitFalls
<1>5. <<1, Len(s)>> \in D
  BY DEF Parts, Places
<1>6. <<1, Len(s)>> \in G
  <2> HIDE DEF D, G, mu
  <2> QED
    BY <1>3, <1>4, <1>5, ByMeasure
<1> QED
  BY <1>1, <1>6

(* There is one order to list the places in.                               *)
LEMMA ListsAgree ==
    ASSUME NEW S, NEW s \in Seq(S), NEW key, \A n \in S : key[n] \in Int,
           NEW P, NEW t, Lists(s, key, P, t), NEW u, Lists(s, key, P, u)
    PROVE  \A x \in 1 .. Len(t) : x \in 1 .. Len(u) /\ t[x] = u[x]
<1>1. t \in Seq(1 .. Len(s)) /\ Len(t) \in Nat /\ u \in Seq(1 .. Len(s)) /\ Len(u) \in Nat
  BY DEF Lists
<1>2. /\ \A x \in 1 .. Len(t) : t[x] \in 1 .. Len(s)
      /\ \A x \in 1 .. Len(u) : u[x] \in 1 .. Len(s)
  BY <1>1, ElementOfSeq
<1>3. /\ \A x, y \in 1 .. Len(t) : x < y => Ahead(s, key, t[x], t[y])
      /\ \A x, y \in 1 .. Len(u) : x < y => Ahead(s, key, u[x], u[y])
  BY DEF Lists
<1>4. /\ \A x \in 1 .. Len(t) : \E y \in 1 .. Len(u) : u[y] = t[x]
      /\ \A x \in 1 .. Len(u) : \E y \in 1 .. Len(t) : t[y] = u[x]
  BY DEF Lists
<1>5. /\ \A i \in 1 .. Len(s) : ~Ahead(s, key, i, i)
      /\ \A i, j \in 1 .. Len(s) : Ahead(s, key, i, j) => ~Ahead(s, key, j, i)
  BY AheadOrders
<1> DEFINE D == 1 .. Len(t)
           G == {x \in D : x \in 1 .. Len(u) /\ t[x] = u[x]}
           mu == [x \in D |-> x]
<1>6. ASSUME NEW x \in D, \A y \in D : mu[y] < mu[x] => y \in G PROVE x \in G
  <2>1. ASSUME NEW y \in D, y < x PROVE y \in 1 .. Len(u) /\ t[y] = u[y]
    BY <1>6, <2>1
  <2>2. PICK y \in 1 .. Len(u) : u[y] = t[x]
    BY <1>4
  <2>3. ~(y < x)
    <3> SUFFICES ASSUME y < x PROVE FALSE
      OBVIOUS
    <3>1. y \in D /\ t[y] = t[x]
      BY <1>1, <2>1, <2>2
    <3> QED
      BY <1>2, <1>3, <1>5, <3>1
  <2>4. x \in 1 .. Len(u) /\ x <= y
    BY <1>1, <2>3
  <2>5. ASSUME x < y PROVE FALSE
    <3>1. Ahead(s, key, u[x], t[x])
      BY <1>3, <2>2, <2>4, <2>5
    <3>2. PICK z \in D : t[z] = u[x]
      BY <1>4, <2>4
    <3>3. CASE z < x
      <4>1. z \in 1 .. Len(u) /\ u[z] = u[x]
        BY <2>1, <3>2, <3>3
      <4> QED
        BY <1>2, <1>3, <1>5, <2>4, <3>3, <4>1
    <3>4. CASE z = x
      BY <1>2, <1>5, <2>4, <3>1, <3>2, <3>4
    <3>5. CASE x < z
      <4>1. Ahead(s, key, t[x], u[x])
        BY <1>3, <3>2, <3>5
      <4> QED
        BY <1>2, <1>5, <2>4, <3>1, <4>1
    <3> QED
      BY <1>1, <3>3, <3>4, <3>5
  <2>6. x = y
    BY <1>1, <2>4, <2>5
  <2> QED
    BY <2>2, <2>4, <2>6
<1>7. mu \in [D -> Nat]
  BY <1>1
<1>8. \A x \in D : x \in G
  <2> HIDE DEF D, G, mu
  <2> QED
    BY <1>6, <1>7, ByMeasure
<1> QED
  BY <1>8

LEMMA ListsOnce ==
    ASSUME NEW S, NEW s \in Seq(S), NEW key, \A n \in S : key[n] \in Int,
           NEW P, NEW t, Lists(s, key, P, t), NEW u, Lists(s, key, P, u)
    PROVE  t = u
<1>1. t \in Seq(1 .. Len(s)) /\ Len(t) \in Nat /\ u \in Seq(1 .. Len(s)) /\ Len(u) \in Nat
  BY DEF Lists
<1>2. \A x \in 1 .. Len(t) : x \in 1 .. Len(u) /\ t[x] = u[x]
  BY ListsAgree
<1>3. \A x \in 1 .. Len(u) : x \in 1 .. Len(t)
  BY ListsAgree
<1>4. Len(t) = Len(u)
  <2>1. Len(t) > 0 => Len(t) \in 1 .. Len(t)
    BY <1>1
  <2>2. Len(u) > 0 => Len(u) \in 1 .. Len(u)
    BY <1>1
  <2> QED
    BY <1>1, <1>2, <1>3, <2>1, <2>2
<1> QED
  BY <1>1, <1>2, <1>4, SeqEqual

(* What a walk meets are nodes whose data the client compares.             *)
LEMMA WalkOrdered ==
    ASSUME NEW S, NEW D, AllOK(cell, list, S, D), NEW l \in List
    PROVE  Ordered(Walk(l))
<1> DEFINE t == Trail(l)
<1>1. PICK m \in Nat : Met(l) = 1 .. m /\ Cardinality(Met(l)) = m
  BY MetInitial
<1>2. Walk(l) = [i \in 1 .. m |-> t[i]]
  BY <1>1, WalkMet
<1>3. cell \in [Node -> CellType] /\ list[l].head \in Node \cup {NIL}
  BY DEF AllOK, Typed, ListType
<1>4. \A n \in Node : cell[n].next \in Node \cup {NIL}
  BY <1>3 DEF CellType
<1>5. \A i \in 1 .. m : t[i] # NIL /\ Live(t[i]) /\ i \in Steps
  BY <1>1 DEF Met
<1>6. \A i \in 1 .. m : i # 1 => i - 1 \in 1 .. m /\ t[i] = cell[t[i - 1]].next
  BY <1>1, MetBefore
<1>7. 1 \in 1 .. m => t[1] = list[l].head
  <2>1. 1 \in Steps
    BY StepsType
  <2> QED
    BY <2>1, TrailAt
<1> HIDE DEF t
<1> DEFINE I == 1 .. m
           G == {i \in I : t[i] \in Node}
           mu == [i \in I |-> i]
<1>8. ASSUME NEW i \in I, \A j \in I : mu[j] < mu[i] => j \in G PROVE i \in G
  <2>1. CASE i = 1
    BY <1>3, <1>5, <1>7, <2>1
  <2>2. CASE i # 1
    <3>1. i - 1 \in I /\ i - 1 < i
      BY <1>6, <2>2
    <3>2. t[i - 1] \in Node
      BY <1>8, <3>1
    <3> QED
      BY <1>4, <1>5, <1>6, <2>2, <3>2
  <2> QED
    BY <2>1, <2>2
<1>9. mu \in [I -> Nat]
  OBVIOUS
<1>10. \A i \in I : i \in G
  <2> HIDE DEF I, G, mu
  <2> QED
    BY <1>8, <1>9, ByMeasure
<1>11. \A i \in 1 .. m : t[i] \in Node /\ cell[t[i]].data \in Nat
  <2>1. \A n \in Node : Live(n) => cell[n].data \in Data
    BY DEF AllOK, NodesOK, Alive, Live
  <2>2. Data \subseteq Nat
    BY ListAssumption
  <2> QED
    BY <1>5, <1>10, <2>1, <2>2
<1>12. Walk(l) \in Seq(Node) /\ Len(Walk(l)) = m /\ \A i \in 1 .. m : Walk(l)[i] = t[i]
  <2>1. Walk(l) \in [1 .. m -> Node]
    BY <1>2, <1>11
  <2> QED
    BY <1>2, <2>1
<1> QED
  BY <1>11, <1>12 DEF Ordered

(* What nodes are compared by.                                             *)
Datum == [n \in Node |-> cell[n].data]

LEMMA SortedLists ==
    ASSUME NEW l, Ordered(Walk(l))
    PROVE  \E t : /\ Lists(Walk(l), Datum, 1 .. Len(Walk(l)), t)
                  /\ SortedWalk(l) = Laid(Walk(l), t)
<1> DEFINE s == Walk(l)
           z == Len(s)
           at(k) == CHOOSE i \in DOMAIN s : Rank(s, i) = k - 1
           p == [k \in 1 .. z |-> at(k)]
<1>1. s \in Seq(Node) /\ z \in Nat /\ DOMAIN s = 1 .. z
      /\ \A i \in 1 .. z : cell[s[i]].data \in Nat /\ Datum[s[i]] = cell[s[i]].data
  BY DEF Ordered, Datum
<1>2. SortedWalk(l) = [k \in 1 .. z |-> s[at(k)]]
  BY <1>1 DEF SortedWalk
<1> HIDE DEF s, z
<1>3. /\ \A i \in 1 .. z : Rank(s, i) \in 0 .. z - 1
      /\ \A i, j \in 1 .. z : Rank(s, i) = Rank(s, j) => i = j
      /\ \A i, j \in 1 .. z : Earlier(s, j, i) => Rank(s, j) < Rank(s, i)
  BY RankBounds DEF s, z
<1>4. \A k \in 1 .. z : \E i \in 1 .. z : Rank(s, i) = k - 1
  BY RankOnto DEF s, z
<1>5. \A k \in 1 .. z : at(k) \in 1 .. z /\ Rank(s, at(k)) = k - 1
  BY <1>1, <1>4
<1> HIDE DEF at
<1>6. /\ p \in [1 .. z -> 1 .. z] /\ \A k \in 1 .. z : p[k] = at(k)
      /\ p \in Seq(1 .. z) /\ Len(p) = z
  <2>1. p \in [1 .. z -> 1 .. z] /\ \A k \in 1 .. z : p[k] = at(k)
    BY <1>5
  <2> HIDE DEF p
  <2> QED
    BY <1>1, <2>1
<1>7. ASSUME NEW i \in 1 .. z PROVE \E k \in 1 .. z : p[k] = i
  <2> DEFINE k == Rank(s, i) + 1
  <2>1. k \in 1 .. z /\ k - 1 = Rank(s, i)
    BY <1>1, <1>3
  <2>2. at(k) = i
    BY <1>3, <1>5, <2>1
  <2> QED
    BY <1>6, <2>1, <2>2
<1>8. ASSUME NEW j \in 1 .. z, NEW k \in 1 .. z, j < k PROVE Ahead(s, Datum, p[j], p[k])
  <2>1. at(j) \in 1 .. z /\ at(k) \in 1 .. z /\ Rank(s, at(j)) = j - 1 /\ Rank(s, at(k)) = k - 1
    BY <1>5
  <2>2. ~(Rank(s, at(k)) < Rank(s, at(j))) /\ at(j) # at(k)
    BY <1>1, <1>8, <2>1
  <2>3. ~Earlier(s, at(k), at(j))
    BY <1>3, <2>1, <2>2
  <2>4. /\ cell[s[at(j)]].data \in Nat /\ Datum[s[at(j)]] = cell[s[at(j)]].data
        /\ cell[s[at(k)]].data \in Nat /\ Datum[s[at(k)]] = cell[s[at(k)]].data
        /\ at(j) \in Nat /\ at(k) \in Nat
    BY <1>1, <2>1
  <2>5. Ahead(s, Datum, at(j), at(k))
    BY <2>2, <2>3, <2>4 DEF Earlier, Ahead
  <2> QED
    BY <1>6, <2>5
<1>9. SortedWalk(l) = [k \in 1 .. z |-> s[p[k]]]
  BY <1>2, <1>6
<1> HIDE DEF p
<1>10. Lists(s, Datum, 1 .. z, p)
  <2>1. \A k : k \in 1 .. z <=> \E x \in 1 .. Len(p) : p[x] = k
    <3>1. \A x \in 1 .. z : p[x] \in 1 .. z
      BY <1>6
    <3>2. ASSUME NEW k, k \in 1 .. z PROVE \E x \in 1 .. Len(p) : p[x] = k
      <4>1. \E x \in 1 .. z : p[x] = k
        BY <1>7, <3>2
      <4> QED
        BY <1>6, <4>1
    <3>3. ASSUME NEW k, NEW x \in 1 .. Len(p), p[x] = k PROVE k \in 1 .. z
      BY <1>6, <3>1, <3>3
    <3> QED
      BY <3>2, <3>3
  <2> QED
    BY <1>6, <1>8, <2>1 DEF Lists, z
<1>11. SortedWalk(l) = Laid(s, p)
  BY <1>6, <1>9 DEF Laid
<1> QED
  BY <1>10, <1>11 DEF s, z

(* Sorting by split and merge, as the code does, orders the nodes of any   *)
(* list the client can build by data, equal data in reverse order: what    *)
(* InaList's Sort takes in one step.                                       *)
THEOREM SortIsMergesort == Spec => []SortsAsMergesort
<1>1. ASSUME NEW S, NEW D, AllOK(cell, list, S, D), NEW l \in List
      PROVE  SortedWalk(l) = MergeSort(Walk(l), Datum)
  <2>1. Ordered(Walk(l))
    BY <1>1, WalkOrdered
  <2> DEFINE N == {n \in Node : cell[n].data \in Nat}
  <2>2. PICK s \in Seq(N) : s = Walk(l)
    <3>1. Walk(l) \in Seq(Node) /\ \A i \in 1 .. Len(Walk(l)) : Walk(l)[i] \in N
      BY <2>1, ElementOfSeq DEF Ordered
    <3>2. Walk(l) \in Seq(N)
      BY <3>1
    <3> QED
      BY <3>2
  <2>3. \A n \in N : Datum[n] \in Int
    BY DEF Datum
  <2> HIDE DEF N
  <2>4. PICK t : Lists(s, Datum, 1 .. Len(s), t) /\ MergeSort(s, Datum) = Laid(s, t)
    BY <2>3, SortsLists
  <2>5. PICK u : Lists(s, Datum, 1 .. Len(s), u) /\ SortedWalk(l) = Laid(s, u)
    BY <2>1, <2>2, SortedLists
  <2>6. t = u
    BY <2>3, <2>4, <2>5, ListsOnce
  <2> QED
    BY <2>2, <2>4, <2>5, <2>6
<1>2. ListInv => SortsAsMergesort
  BY <1>1 DEF ListInv, SortsAsMergesort, Datum
<1> QED
  BY <1>2, ListInvariant, PTL
=============================================================================
