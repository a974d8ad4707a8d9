---------------------------- MODULE StringProofs -----------------------------
(***************************************************************************)
(* Proofs about the functions of src/src/string.c that take a text apart:  *)
(* Wildcard, StrTok and StrSplit.                                          *)
(***************************************************************************)
EXTENDS Wildcard, StrTok, StrSplit, StrBufProofs

-----------------------------------------------------------------------------
(* Wildcard: the verdict "match" is right for every string and every       *)
(* pattern.  The invariant says of the positions what a match of a prefix  *)
(* is, and of the bookmarks that an asterisk is before them, so that the   *)
(* match up to there may be stretched.                                     *)

(* Matching a prefix.                                                      *)

LEMMA MatchNothing ==
  ASSUME NEW t, NEW v
  PROVE  PrefixMatches(t, v, 1, 1)
<1> DEFINE f == [i \in 1 .. 1 |-> 1]
<1>1. f \in [1 .. 1 -> 1 .. 1] /\ f[1] = 1
  OBVIOUS
<1>2. 1 .. 1 - 1 = {}
  OBVIOUS
<1> HIDE DEF f
<1> QED BY <1>1, <1>2 DEF PrefixMatches

LEMMA MatchCharacter ==
  ASSUME NEW t, NEW v, NEW q \in Nat \ {0}, NEW n \in Nat \ {0},
         PrefixMatches(t, v, q, n),
         v[n] \in {"?", CharAt(t, q)}, v[n] # "*"
  PROVE  PrefixMatches(t, v, q + 1, n + 1)
<1>1. PICK f \in [1 .. n -> 1 .. q] :
        f[1] = 1 /\ f[n] = q /\ \A h2 \in 1 .. n - 1 : Fits(t, v, f, h2)
  BY DEF PrefixMatches
<1> DEFINE g == [i \in 1 .. n + 1 |-> IF i = n + 1 THEN q + 1 ELSE f[i]]
<1>2. g \in [1 .. n + 1 -> 1 .. q + 1]
  OBVIOUS
<1>3. g[1] = 1 /\ g[n] = q /\ g[n + 1] = q + 1
  BY <1>1
<1>4. ASSUME NEW h2 \in 1 .. (n + 1) - 1 PROVE Fits(t, v, g, h2)
  <2>1. CASE h2 = n
    BY <2>1, <1>3 DEF Fits
  <2>2. CASE h2 # n
    <3>1. h2 \in 1 .. n - 1 /\ g[h2] = f[h2] /\ g[h2 + 1] = f[h2 + 1]
      BY <2>2
    <3> QED BY <3>1, <1>1 DEF Fits
  <2> QED BY <2>1, <2>2
<1> HIDE DEF g
<1> QED BY <1>2, <1>3, <1>4 DEF PrefixMatches

(* A row of asterisks takes the string from q to any r.                    *)
LEMMA MatchStars ==
  ASSUME NEW t, NEW v, NEW q \in Nat \ {0}, NEW n \in Nat \ {0},
         NEW r \in Nat, NEW m \in Nat,
         PrefixMatches(t, v, q, n),
         n < m, q <= r, \A k \in n .. m - 1 : v[k] = "*"
  PROVE  PrefixMatches(t, v, r, m)
<1>1. PICK f \in [1 .. n -> 1 .. q] :
        f[1] = 1 /\ f[n] = q /\ \A h2 \in 1 .. n - 1 : Fits(t, v, f, h2)
  BY DEF PrefixMatches
<1> DEFINE g == [i \in 1 .. m |-> IF i <= n THEN f[i] ELSE IF i = m THEN r ELSE q]
<1>2. g \in [1 .. m -> 1 .. r]
  OBVIOUS
<1>3. g[1] = 1 /\ g[m] = r
  BY <1>1
<1>4. ASSUME NEW h2 \in 1 .. m - 1 PROVE Fits(t, v, g, h2)
  <2>1. CASE h2 < n
    <3>1. h2 \in 1 .. n - 1 /\ g[h2] = f[h2] /\ g[h2 + 1] = f[h2 + 1]
      BY <2>1
    <3> QED BY <3>1, <1>1 DEF Fits
  <2>2. CASE h2 >= n
    <3>1. v[h2] = "*" /\ g[h2] = q /\ g[h2 + 1] \in {q, r}
      BY <2>2, <1>1
    <3> QED BY <3>1 DEF Fits
  <2> QED BY <2>1, <2>2
<1> HIDE DEF g
<1> QED BY <1>2, <1>3, <1>4 DEF PrefixMatches

(* Where the last character before n is an asterisk, the match stretches.  *)
LEMMA MatchStretched ==
  ASSUME NEW t, NEW v, NEW q \in Nat \ {0}, NEW n \in Nat \ {0, 1},
         NEW r \in Nat,
         PrefixMatches(t, v, q, n), v[n - 1] = "*", q <= r
  PROVE  PrefixMatches(t, v, r, n)
<1>1. PICK f \in [1 .. n -> 1 .. q] :
        f[1] = 1 /\ f[n] = q /\ \A h2 \in 1 .. n - 1 : Fits(t, v, f, h2)
  BY DEF PrefixMatches
<1> DEFINE g == [i \in 1 .. n |-> IF i = n THEN r ELSE f[i]]
<1>2. g \in [1 .. n -> 1 .. r]
  OBVIOUS
<1>3. g[1] = 1 /\ g[n] = r
  BY <1>1
<1>4. ASSUME NEW h2 \in 1 .. n - 1 PROVE Fits(t, v, g, h2)
  <2>1. CASE h2 = n - 1
    <3>1. g[h2] \in 1 .. q /\ g[h2 + 1] = r /\ v[h2] = "*"
      BY <2>1
    <3> QED BY <3>1 DEF Fits
  <2>2. CASE h2 # n - 1
    <3>1. g[h2] = f[h2] /\ g[h2 + 1] = f[h2 + 1]
      BY <2>2
    <3> QED BY <3>1, <1>1 DEF Fits
  <2> QED BY <2>1, <2>2
<1> HIDE DEF g
<1> QED BY <1>2, <1>3, <1>4 DEF PrefixMatches

-----------------------------------------------------------------------------
(* The invariant.                                                          *)

(* The bookmarks: up to there the strings match, and an asterisk is just   *)
(* before.                                                                 *)
WildMarks ==
    wildMark # 0 =>
        /\ wildMark > 1 /\ tameMark > 0
        /\ wild[wildMark - 1] = "*" /\ wild[wildMark] # "*"
        /\ PrefixMatches(tame, wild, tameMark, wildMark)
        /\ wildMark <= w /\ tameMark <= p
        /\ w # wildMark => tameMark < p

(* While the pass goes on, all before the two positions matches.           *)
WildPlace ==
    verdict = "running" =>
        /\ p <= Len(tame) + 1 /\ w <= Len(wild) + 1
        /\ PrefixMatches(tame, wild, p, w)

WildInv == WildTypeOK /\ WildMarks /\ WildPlace /\ NoFalseMatch

LEMMA StarsSkipped ==
  ASSUME WildTypeOK, w <= Len(wild) + 1
  PROVE  /\ AfterStars(w) \in w .. Len(wild) + 1
         /\ CharAt(wild, AfterStars(w)) # "*"
         /\ \A k \in w .. AfterStars(w) - 1 : wild[k] = "*"
<1> DEFINE S == {k \in w .. Len(wild) + 1 : CharAt(wild, k) # "*"}
<1>1. Len(wild) \in Nat /\ w \in Nat /\ w > 0
  BY DEF WildTypeOK
<1>2. Len(wild) + 1 \in S
  BY <1>1 DEF CharAt, NUL
<1>3. S \in SUBSET Nat
  BY <1>1
<1>4. AfterStars(w) \in S /\ \A k \in S : AfterStars(w) <= k
  <2> HIDE DEF S
  <2>1. Min(S) \in S /\ \A k \in S : Min(S) <= k
    BY <1>2, <1>3, MinExists
  <2> QED BY <2>1 DEF AfterStars, S
<1>5. ASSUME NEW k \in w .. AfterStars(w) - 1 PROVE wild[k] = "*"
  <2>1. k \in 1 .. Len(wild)
    BY <1>1, <1>4
  <2>2. k \notin S
    BY <1>1, <1>4, <2>1
  <2>3. CharAt(wild, k) = "*"
    BY <1>1, <1>4, <2>1, <2>2
  <2> QED BY <2>1, <2>3 DEF CharAt
<1> QED BY <1>4, <1>5

(* The end of a round keeps the invariant, if the characters there match.  *)
LEMMA AdvanceMatches ==
  ASSUME WildTypeOK, UNCHANGED <<tame, wild>>,
         NEW q \in 1 .. Len(tame) + 1, NEW n \in 1 .. Len(wild),
         PrefixMatches(tame, wild, q, n), wild[n] # "*",
         wild[n] \in {"?", CharAt(tame, q)},
         Advance(q, n)
  PROVE  /\ WildPlace' /\ NoFalseMatch'
         /\ p' \in 1 .. Len(tame) + 2 /\ w' \in 1 .. Len(wild) + 2
         /\ verdict' \in {"running", "match", "differs", "overread"}
<1>1. Len(tame) \in Nat /\ Len(wild) \in Nat
  BY DEF WildTypeOK
<1>2. PrefixMatches(tame, wild, q + 1, n + 1)
  <2>1. q \in Nat \ {0} /\ n \in Nat \ {0}
    BY <1>1
  <2> QED BY <2>1, MatchCharacter, Zenon
<1>3. CASE q < Len(tame)
  <2>1. p' = q + 1 /\ w' = n + 1 /\ verdict' = "running"
    BY <1>1, <1>3 DEF Advance
  <2> QED BY <1>1, <1>2, <1>3, <2>1 DEF WildPlace, NoFalseMatch
<1>4. CASE q = Len(tame)
  <2>1. p' = q + 1 /\ w' = n + 1
        /\ verdict' = IF OnlyStars(n + 1) THEN "match" ELSE "differs"
    BY <1>1, <1>4 DEF Advance
  <2>2. OnlyStars(n + 1) => Matches
    <3>1. CASE n = Len(wild)
      BY <1>2, <1>4, <3>1 DEF Matches
    <3>2. CASE n < Len(wild)
      <4>1. OnlyStars(n + 1) => \A k \in n + 1 .. (Len(wild) + 1) - 1 : wild[k] = "*"
        BY <1>1 DEF OnlyStars
      <4> QED BY <1>1, <1>2, <1>4, <3>2, <4>1, MatchStars DEF Matches
    <3> QED BY <3>1, <3>2, <1>1
  <2>3. Matches' = Matches
    BY DEF Matches
  <2> QED BY <1>1, <1>4, <2>1, <2>2, <2>3 DEF WildPlace, NoFalseMatch
<1>5. CASE q > Len(tame)
  BY <1>1, <1>5 DEF Advance, WildPlace, NoFalseMatch
<1> QED BY <1>1, <1>3, <1>4, <1>5

LEMMA WildInit_Inv ==
  ASSUME WildInit
  PROVE  WildInv
<1>1. PICK t \in Tames, v \in Wilds : WildStart(t, v)
  BY DEF WildInit
<1>2. tame \in Seq(Letters) /\ wild \in Seq(Letters \cup {"*", "?"})
  BY <1>1, WildcardAssumption DEF WildStart, Tames, Wilds
<1>3. Len(tame) \in Nat /\ Len(wild) \in Nat
  BY <1>2
<1> QED BY <1>1, <1>2, <1>3, MatchNothing
        DEF WildStart, WildInv, WildTypeOK, WildMarks, WildPlace, NoFalseMatch

THEOREM WildNext_Inv ==
  ASSUME WildInv, [WildNext]_wildVars
  PROVE  WildInv'
<1> USE DEF WildInv
<1>0. Len(tame) \in Nat /\ Len(wild) \in Nat /\ p \in Nat /\ w \in Nat
      /\ tameMark \in Nat /\ wildMark \in Nat
  BY DEF WildTypeOK
<1>m. tame' = tame /\ wild' = wild => Matches' = Matches
  BY DEF Matches
<1>1. CASE TrailingStar
  <2>1. p <= Len(tame) + 1 /\ w <= Len(wild) + 1 /\ PrefixMatches(tame, wild, p, w)
    BY <1>1 DEF TrailingStar, AtStar, WildPlace
  <2>2. \A k \in w .. Len(wild) : wild[k] = "*"
    BY <1>0, <1>1, <2>1, StarsSkipped DEF TrailingStar
  <2>3. w < Len(wild) + 1
    BY <1>0, <1>1, <2>1 DEF TrailingStar, AtStar, CharAt, NUL
  <2>4. Matches
    <3>1. p \in Nat \ {0} /\ w \in Nat \ {0}
      BY <1>0 DEF WildTypeOK
    <3>2. \A k \in w .. (Len(wild) + 1) - 1 : wild[k] = "*"
      BY <1>0, <2>2
    <3> QED BY <1>0, <2>1, <2>3, <3>1, <3>2, MatchStars DEF Matches
  <2> QED BY <1>1, <1>m, <2>4
          DEF TrailingStar, Returns, WildTypeOK, WildMarks, WildPlace, NoFalseMatch
<1>2. CASE FastForward \/ StarBeforeAny
  <2> DEFINE n == AfterStars(w)
             found == {q \in p .. Len(tame) : tame[q] = wild[n]}
  <2>1. p <= Len(tame) + 1 /\ w <= Len(wild) + 1 /\ PrefixMatches(tame, wild, p, w)
        /\ CharAt(wild, w) = "*" /\ n <= Len(wild) /\ UNCHANGED <<tame, wild>>
    BY <1>2 DEF FastForward, StarBeforeAny, AtStar, WildPlace
  <2>2. n \in w .. Len(wild) /\ wild[n] # "*" /\ \A k \in w .. n - 1 : wild[k] = "*"
    BY <1>0, <2>1, StarsSkipped DEF CharAt, WildTypeOK
  <2>3. w < n /\ wild[n - 1] = "*" /\ n \in 2 .. Len(wild) /\ w > 0 /\ p > 0
    BY <1>0, <2>1, <2>2 DEF CharAt, WildTypeOK
  <2> HIDE DEF n
  <2>4. ASSUME NEW q \in p .. Len(tame) + 1,
               wild[n] \in {"?", CharAt(tame, q)},
               tameMark' = q, wildMark' = n, Advance(q, n)
        PROVE  WildInv'
    <3>1. PrefixMatches(tame, wild, q, n)
      <4>1. p \in Nat \ {0} /\ w \in Nat \ {0} /\ q \in Nat /\ n \in Nat /\ p <= q
        BY <1>0, <2>3
      <4> QED BY <2>1, <2>2, <2>3, <4>1, MatchStars
    <3>2. q \in 1 .. Len(tame) + 1 /\ n \in 1 .. Len(wild)
      BY <1>0, <2>3
    <3>3. /\ WildPlace' /\ NoFalseMatch'
          /\ p' \in 1 .. Len(tame) + 2 /\ w' \in 1 .. Len(wild) + 2
          /\ verdict' \in {"running", "match", "differs", "overread"}
      BY <2>1, <2>2, <2>4, <3>1, <3>2, AdvanceMatches
    <3>4. p' = q + 1 /\ w' = n + 1
      BY <2>4 DEF Advance
    <3>5. WildTypeOK'
      BY <1>0, <2>1, <2>4, <3>2, <3>3 DEF WildTypeOK
    <3>6. WildMarks'
      BY <1>0, <2>1, <2>2, <2>3, <2>4, <3>1, <3>2, <3>4 DEF WildMarks
    <3> QED BY <3>3, <3>5, <3>6
  <2>5. CASE FastForward
    <3>1. CASE found # {}
      <4>1. found \in SUBSET Nat
        BY <1>0
      <4>2. Min(found) \in found
        BY <3>1, <4>1, MinExists
      <4>3. tameMark' = Min(found) /\ wildMark' = n /\ Advance(Min(found), n)
        BY <2>5, <3>1 DEF FastForward, n
      <4>4. wild[n] = CharAt(tame, Min(found)) /\ Min(found) \in p .. Len(tame) + 1
        BY <1>0, <2>3, <4>2 DEF CharAt
      <4> QED BY <2>4, <4>3, <4>4
    <3>2. CASE found = {}
      <4>1. Returns(IF p > Len(tame) THEN "overread" ELSE "differs")
        BY <2>5, <3>2 DEF FastForward, n
      <4> QED BY <2>1, <4>1
              DEF Returns, WildTypeOK, WildMarks, WildPlace, NoFalseMatch
    <3> QED BY <3>1, <3>2
  <2>6. CASE StarBeforeAny
    BY <1>0, <2>1, <2>4, <2>6 DEF StarBeforeAny, n
  <2> QED BY <1>2, <2>5, <2>6
<1>3. CASE BackToMark
  <2>1. wildMark \in Nat \ {0, 1} /\ tameMark \in Nat \ {0} /\ tameMark + 1 <= p
        /\ p <= Len(tame) + 1 /\ wildMark <= Len(wild)
        /\ wild[wildMark - 1] = "*" /\ wild[wildMark] # "*"
        /\ PrefixMatches(tame, wild, tameMark, wildMark)
    BY <1>0, <1>3 DEF BackToMark, Mismatch, WildMarks, WildPlace, WildTypeOK
  <2>2. PrefixMatches(tame, wild, tameMark + 1, wildMark)
    BY <2>1, MatchStretched
  <2>3. /\ w' = wildMark /\ tameMark' = tameMark + 1 /\ p' = tameMark + 1
        /\ UNCHANGED <<tame, wild, wildMark, verdict>>
    BY <1>3 DEF BackToMark
  <2>4. WildTypeOK'
    BY <1>0, <2>1, <2>3 DEF WildTypeOK
  <2>5. WildMarks'
    BY <1>0, <2>1, <2>2, <2>3 DEF WildMarks
  <2>6. WildPlace'
    BY <1>0, <2>1, <2>2, <2>3 DEF WildPlace
  <2> QED BY <1>m, <2>3, <2>4, <2>5, <2>6 DEF NoFalseMatch
<1>4. CASE PassOver
  <2>1. /\ wildMark \in Nat \ {0, 1} /\ tameMark \in Nat \ {0} /\ tameMark <= p
        /\ wildMark <= Len(wild) /\ wildMark <= w /\ p > 0
        /\ wild[wildMark - 1] = "*" /\ wild[wildMark] # "*"
        /\ PrefixMatches(tame, wild, tameMark, wildMark)
        /\ p <= Len(tame) /\ w <= Len(wild) + 1 /\ p' = p + 1
        /\ w' = IF w = wildMark THEN w ELSE wildMark + 1
        /\ UNCHANGED <<tame, wild, tameMark, wildMark, verdict>>
    BY <1>0, <1>4 DEF PassOver, Mismatch, WildMarks, WildPlace, WildTypeOK
  <2>2. PrefixMatches(tame, wild, p + 1, w')
    <3>1. CASE w = wildMark
      BY <1>0, <2>1, <3>1, MatchStretched
    <3>2. CASE w # wildMark
      <4>1. PrefixMatches(tame, wild, p, wildMark)
        BY <1>0, <2>1, MatchStretched
      <4>2. CharAt(tame, p) = wild[wildMark]
        BY <1>0, <1>4, <2>1, <3>2 DEF PassOver, AtMark, CharAt
      <4>3. p \in Nat \ {0} /\ wildMark \in Nat \ {0}
        BY <1>0, <2>1
      <4>4. PrefixMatches(tame, wild, p + 1, wildMark + 1)
        BY <2>1, <4>1, <4>2, <4>3, MatchCharacter
      <4> QED BY <2>1, <3>2, <4>4
    <3> QED BY <3>1, <3>2
  <2>3. WildTypeOK'
    BY <1>0, <2>1 DEF WildTypeOK
  <2>4. WildMarks'
    BY <1>0, <2>1 DEF WildMarks
  <2>5. WildPlace'
    BY <1>0, <2>1, <2>2 DEF WildPlace
  <2> QED BY <1>m, <2>1, <2>3, <2>4, <2>5 DEF NoFalseMatch
<1>5. CASE GiveUp
  BY <1>5 DEF GiveUp, Returns, WildTypeOK, WildMarks, WildPlace, NoFalseMatch
<1>6. CASE SameCharacter
  <2>1. p \in 1 .. Len(tame) + 1 /\ w \in 1 .. Len(wild) + 1
        /\ PrefixMatches(tame, wild, p, w) /\ Advance(p, w)
        /\ UNCHANGED <<tame, wild, tameMark, wildMark>>
        /\ CharAt(wild, w) # "*" /\ CharAt(wild, w) \in {"?", CharAt(tame, p)}
    BY <1>0, <1>6 DEF SameCharacter, Mismatch, AtStar, WildPlace, WildTypeOK
  <2>2. WildMarks'
    BY <1>0, <2>1 DEF WildMarks, Advance
  <2>3. CASE w <= Len(wild)
    <3>1. wild[w] = CharAt(wild, w) /\ w \in 1 .. Len(wild)
      BY <1>0, <2>1, <2>3 DEF CharAt
    <3>2. /\ WildPlace' /\ NoFalseMatch'
          /\ p' \in 1 .. Len(tame) + 2 /\ w' \in 1 .. Len(wild) + 2
          /\ verdict' \in {"running", "match", "differs", "overread"}
      BY <2>1, <3>1, AdvanceMatches
    <3>3. WildTypeOK'
      BY <2>1, <3>2 DEF WildTypeOK
    <3> QED BY <2>2, <3>2, <3>3
  <2>4. CASE w > Len(wild)
    <3>1. CharAt(tame, p) = NUL
      BY <1>0, <2>1, <2>4 DEF CharAt, NUL
    <3>2. p > Len(tame)
      <4>1. ASSUME p <= Len(tame) PROVE FALSE
        <5>1. tame[p] \in Letters /\ tame[p] = NUL
          BY <1>0, <2>1, <3>1, <4>1 DEF CharAt, WildTypeOK
        <5> QED BY <5>1, WildcardAssumption
      <4> QED BY <4>1, <1>0
    <3>3. verdict' = "overread" /\ p' = p + 1 /\ w' = w + 1
      BY <2>1, <3>2 DEF Advance
    <3> QED BY <1>0, <2>1, <2>2, <3>3 DEF WildTypeOK, WildPlace, NoFalseMatch
  <2> QED BY <1>0, <2>3, <2>4
<1>7. CASE UNCHANGED wildVars
  BY <1>7, <1>m DEF wildVars, WildTypeOK, WildMarks, WildPlace, NoFalseMatch
<1> QED BY <1>1, <1>2, <1>3, <1>4, <1>5, <1>6, <1>7 DEF WildNext

(* The invariant of the pass, for every string and pattern.                *)
THEOREM WildInvariant == WildSpec => []WildInv
<1>1. WildInit => WildInv
  BY WildInit_Inv
<1>2. WildInv /\ [WildNext]_wildVars => WildInv'
  BY WildNext_Inv
<1> QED BY <1>1, <1>2, PTL DEF WildSpec

(* A string that is said to match the pattern does match it, as string.h   *)
(* defines it, for every string and pattern.                               *)
THEOREM NeverFalseMatch == WildSpec => []NoFalseMatch
<1>1. WildInv => NoFalseMatch
  BY DEF WildInv
<1> QED BY <1>1, WildInvariant, PTL

-----------------------------------------------------------------------------
(* Patterns and strings for which one bookmark is enough.  A fit gives for *)
(* every position of the pattern the one of the string it starts at: the   *)
(* invariant bounds what a fit can do with the position of the bookmark.   *)

Maps == [1 .. Len(wild) + 1 -> 1 .. Len(tame) + 1]

Fit(f) ==
    /\ f[1] = 1 /\ f[Len(wild) + 1] = Len(tame) + 1
    /\ \A h2 \in 1 .. Len(wild) : Fits(tame, wild, f, h2)

NoStars(a, b) == \A k \in a .. b - 1 : wild[k] # "*"

Distinct ==
    /\ \A i, k \in 1 .. Len(tame) : i # k => tame[i] # tame[k]
    /\ \A i \in 1 .. Len(tame) : tame[i] # "?"

(* Without a bookmark the two are in step.                                 *)
Unmarked == wildMark = 0 /\ p = w /\ p <= Len(tame) /\ NoStars(1, w)

(* Behind the bookmark they are in step too, and no fit puts the character *)
(* that was marked before the bookmark of the string.                      *)
InSegment ==
    /\ wildMark # 0 /\ Distinct /\ NoStars(wildMark, w)
    /\ p = tameMark + (w - wildMark) /\ p <= Len(tame)
    /\ wild[wildMark] = "?" \/ (w # wildMark /\ tame[tameMark] = wild[wildMark])
    /\ \A f \in Maps : Fit(f) => tameMark <= f[wildMark]

(* Or the only place for the character that was marked has been passed.    *)
Passing ==
    /\ wildMark # 0 /\ w = wildMark /\ wild[wildMark] # "?" /\ ~Matches
    /\ \A k \in p .. Len(tame) : tame[k] # wild[wildMark]

SimpleInv ==
    Len(tame) > 0 /\ Simple =>
        /\ verdict # "overread" /\ (verdict = "differs" => ~Matches)
        /\ verdict = "running" => Unmarked \/ InSegment \/ Passing

LEMMA MatchesFit ==
  ASSUME WildTypeOK
  PROVE  Matches <=> \E f \in Maps : Fit(f)
<1>1. (Len(wild) + 1) - 1 = Len(wild)
  BY DEF WildTypeOK
<1> QED BY <1>1 DEF Matches, PrefixMatches, Maps, Fit

(* What a fit says of one position of the pattern.                         *)
LEMMA FitStep ==
  ASSUME WildTypeOK, NEW f \in Maps, Fit(f), NEW k \in 1 .. Len(wild)
  PROVE  /\ f[k] \in 1 .. Len(tame) + 1 /\ f[k + 1] \in 1 .. Len(tame) + 1
         /\ f[k] <= f[k + 1]
         /\ wild[k] # "*" =>
               /\ f[k + 1] = f[k] + 1 /\ f[k] \in 1 .. Len(tame)
               /\ wild[k] # "?" => tame[f[k]] = wild[k]
<1>1. Len(tame) \in Nat /\ Len(wild) \in Nat
  BY DEF WildTypeOK
<1>2. f[k] \in 1 .. Len(tame) + 1 /\ f[k + 1] \in 1 .. Len(tame) + 1
  BY <1>1 DEF Maps
<1>3. Fits(tame, wild, f, k)
  BY DEF Fit
<1>4. CASE wild[k] = "*"
  BY <1>2, <1>3, <1>4 DEF Fits
<1>5. CASE wild[k] # "*"
  <2>1. f[k + 1] = f[k] + 1 /\ wild[k] \in {"?", CharAt(tame, f[k])}
    BY <1>3, <1>5 DEF Fits
  <2>2. f[k] \in 1 .. Len(tame)
    BY <1>1, <1>2, <2>1
  <2> QED BY <1>2, <2>1, <2>2 DEF CharAt
<1> QED BY <1>4, <1>5

LEMMA FitRises ==
  ASSUME WildTypeOK, NEW f \in Maps, Fit(f),
         NEW a \in 1 .. Len(wild) + 1, NEW b \in a .. Len(wild) + 1
  PROVE  f[a] <= f[b]
<1> DEFINE S == {k \in a .. Len(wild) + 1 : ~(f[a] <= f[k])}
<1>1. SUFFICES ASSUME S # {} PROVE FALSE
  OBVIOUS
<1>2. Len(tame) \in Nat /\ Len(wild) \in Nat /\ S \in SUBSET Nat
  BY DEF WildTypeOK
<1>3. Min(S) \in S /\ \A k \in S : Min(S) <= k
  <2> HIDE DEF S
  <2> QED BY <1>1, <1>2, MinExists
<1>4. PICK m \in S : \A k \in S : m <= k
  BY <1>3
<1>5. f[a] \in Nat /\ f[m] \in Nat
  BY <1>2, <1>4 DEF Maps
<1>6. m # a /\ m - 1 \in a .. Len(wild) + 1 /\ m - 1 \notin S
  BY <1>2, <1>4, <1>5
<1>7. m - 1 \in 1 .. Len(wild) /\ (m - 1) + 1 = m
  BY <1>2, <1>4, <1>6
<1>8. f[m - 1] <= f[m] /\ f[m - 1] \in Nat
  BY <1>2, <1>7, FitStep
<1> QED BY <1>4, <1>5, <1>6, <1>8

(* Between asterisks a fit goes on in step.                                *)
LEMMA FitInStep ==
  ASSUME WildTypeOK, NEW f \in Maps, Fit(f),
         NEW a \in 1 .. Len(wild) + 1, NEW b \in a .. Len(wild) + 1, NoStars(a, b)
  PROVE  f[b] = f[a] + (b - a)
<1> DEFINE S == {k \in a .. b : f[k] # f[a] + (k - a)}
<1>1. SUFFICES ASSUME S # {} PROVE FALSE
  <2>1. Len(wild) \in Nat
    BY DEF WildTypeOK
  <2>2. b \in a .. b
    BY <2>1
  <2> QED BY <2>2
<1>2. Len(tame) \in Nat /\ Len(wild) \in Nat /\ S \in SUBSET Nat
  BY DEF WildTypeOK
<1>3. Min(S) \in S /\ \A k \in S : Min(S) <= k
  <2> HIDE DEF S
  <2> QED BY <1>1, <1>2, MinExists
<1>4. PICK m \in S : \A k \in S : m <= k
  BY <1>3
<1>5. f[a] \in Nat
  BY <1>2 DEF Maps
<1>6. m # a /\ m - 1 \in a .. b - 1 /\ m - 1 \notin S
  BY <1>2, <1>4, <1>5
<1>7. m - 1 \in 1 .. Len(wild) /\ (m - 1) + 1 = m /\ wild[m - 1] # "*"
  BY <1>2, <1>4, <1>6 DEF NoStars
<1>8. f[m] = f[m - 1] + 1
  BY <1>7, FitStep
<1>9. f[m - 1] = f[a] + ((m - 1) - a)
  BY <1>6
<1>10. m \in Nat /\ a \in Nat /\ f[m] # f[a] + (m - a)
  BY <1>2, <1>4
<1>11. f[m] = f[a] + (m - a)
  BY <1>5, <1>8, <1>9, <1>10
<1> QED BY <1>10, <1>11

(* A pattern that goes on behind the end of the string does not match.     *)
LEMMA NoRoomLeft ==
  ASSUME WildTypeOK, NEW f \in Maps, Fit(f), NEW n \in 1 .. Len(wild),
         wild[n] # "*", Len(tame) <= f[n], ~OnlyStars(n + 1)
  PROVE  FALSE
<1>1. Len(tame) \in Nat /\ Len(wild) \in Nat
  BY DEF WildTypeOK
<1>2. PICK k \in n + 1 .. Len(wild) : wild[k] # "*"
  BY DEF OnlyStars
<1>3. n + 1 \in 1 .. Len(wild) + 1 /\ k \in n + 1 .. Len(wild) + 1 /\ k \in 1 .. Len(wild)
  BY <1>1
<1>4. f[n + 1] = f[n] + 1 /\ f[n] \in Nat
  BY <1>1, FitStep
<1>5. f[k] \in Nat /\ f[k] <= Len(tame)
  BY <1>1, <1>2, <1>3, FitStep
<1>6. f[n + 1] <= f[k]
  BY <1>3, FitRises
<1> QED BY <1>1, <1>4, <1>5, <1>6

(* Wherever the pass is in step, a fit has not left more of the string.    *)
LEMMA FitBehind ==
  ASSUME WildInv, verdict = "running", Unmarked \/ InSegment,
         NEW f \in Maps, Fit(f)
  PROVE  /\ p <= f[w] /\ w \in 1 .. Len(wild) + 1 /\ p \in 1 .. Len(tame)
         /\ InSegment /\ f[wildMark] = tameMark => f[w] = p
         /\ Unmarked => f[w] = p
<1>1. /\ Len(tame) \in Nat /\ Len(wild) \in Nat /\ w \in 1 .. Len(wild) + 1
      /\ p \in Nat \ {0} /\ tameMark \in Nat /\ wildMark \in Nat
  BY DEF WildInv, WildTypeOK, WildPlace
<1>2. CASE Unmarked
  <2>1. 1 \in 1 .. Len(wild) + 1 /\ w \in 1 .. Len(wild) + 1 /\ NoStars(1, w) /\ f[1] = 1
    BY <1>1, <1>2 DEF Unmarked, Fit
  <2>2. f[w] = f[1] + (w - 1)
    BY <2>1, FitInStep DEF WildInv
  <2> QED BY <1>1, <1>2, <2>1, <2>2 DEF Unmarked, InSegment
<1>3. CASE InSegment
  <2>1. wildMark \in 1 .. Len(wild) + 1 /\ w \in wildMark .. Len(wild) + 1
    BY <1>1, <1>3 DEF InSegment, WildInv, WildMarks, WildTypeOK
  <2>2. f[w] = f[wildMark] + (w - wildMark)
    BY <1>3, <2>1, FitInStep DEF WildInv, InSegment
  <2>3. tameMark <= f[wildMark] /\ p = tameMark + (w - wildMark) /\ p <= Len(tame)
        /\ wildMark # 0
    BY <1>3 DEF InSegment
  <2>4. f[wildMark] \in Nat
    BY <1>1, <2>1 DEF Maps
  <2> QED BY <1>1, <2>1, <2>2, <2>3, <2>4 DEF Unmarked
<1> QED BY <1>2, <1>3

(* The end of a round that was in step leaves the pass in step, or decides *)
(* right.                                                                  *)
LEMMA AdvanceRight ==
  ASSUME WildTypeOK, UNCHANGED <<tame, wild>>,
         NEW q \in 1 .. Len(tame), NEW n \in 1 .. Len(wild), wild[n] # "*",
         \A f \in Maps : Fit(f) => q <= f[n],
         Advance(q, n)
  PROVE  /\ verdict' # "overread" /\ (verdict' = "differs" => ~Matches)
         /\ verdict' = "running" => p' = q + 1 /\ w' = n + 1 /\ p' <= Len(tame)
<1>1. Len(tame) \in Nat /\ Len(wild) \in Nat
  BY DEF WildTypeOK
<1>2. CASE q < Len(tame)
  BY <1>1, <1>2 DEF Advance
<1>3. CASE q = Len(tame)
  <2>1. verdict' = IF OnlyStars(n + 1) THEN "match" ELSE "differs"
    BY <1>1, <1>3 DEF Advance
  <2>2. ~OnlyStars(n + 1) => ~Matches
    <3> SUFFICES ASSUME ~OnlyStars(n + 1), NEW f \in Maps, Fit(f) PROVE FALSE
      BY MatchesFit
    <3> QED BY <1>3, NoRoomLeft
  <2> QED BY <2>1, <2>2
<1> QED BY <1>1, <1>2, <1>3

LEMMA WildFixed ==
  ASSUME [WildNext]_wildVars
  PROVE  /\ tame' = tame /\ wild' = wild /\ Matches' = Matches
         /\ Simple' = Simple /\ Distinct' = Distinct
<1>1. tame' = tame /\ wild' = wild
  BY DEF WildNext, wildVars, TrailingStar, FastForward, StarBeforeAny, BackToMark,
         PassOver, GiveUp, SameCharacter
<1> QED BY <1>1 DEF Matches, Simple, Distinct, OnlyStars

(* Neither the characters of the string nor those of the pattern are its   *)
(* terminator.                                                             *)
LEMMA LettersApart ==
  ASSUME WildTypeOK
  PROVE  /\ \A i \in 1 .. Len(tame) : tame[i] # NUL /\ CharAt(tame, i) = tame[i]
         /\ \A i \in 1 .. Len(wild) : wild[i] # NUL /\ CharAt(wild, i) = wild[i]
<1>1. tame \in Seq(Letters) /\ wild \in Seq(Letters \cup {"*", "?"})
  BY DEF WildTypeOK
<1>2. \A x \in Letters : x # NUL
  BY WildcardAssumption
<1>3. \A i \in 1 .. Len(tame) : tame[i] \in Letters
  BY <1>1
<1>4. \A i \in 1 .. Len(wild) : wild[i] \in Letters \cup {"*", "?"}
  BY <1>1
<1>5. NUL # "*" /\ NUL # "?"
  BY DEF NUL
<1> QED BY <1>2, <1>3, <1>4, <1>5 DEF CharAt

(* A bookmark is set at the first place the rest of the pattern can start. *)
LEMMA MarkRight ==
  ASSUME WildInv, SimpleInv, Simple, Len(tame) > 0, FastForward \/ StarBeforeAny
  PROVE  SimpleInv'
<1> DEFINE n == AfterStars(w)
           found == {q \in p .. Len(tame) : tame[q] = wild[n]}
<1>1. /\ Len(tame) \in Nat /\ Len(wild) \in Nat /\ w \in 1 .. Len(wild) + 1 /\ p \in Nat \ {0}
      /\ verdict = "running" /\ CharAt(wild, w) = "*" /\ n <= Len(wild)
      /\ WildTypeOK
  BY DEF WildInv, WildTypeOK, WildPlace, FastForward, StarBeforeAny, AtStar
<1>2. n \in w .. Len(wild) /\ n \in 1 .. Len(wild) /\ wild[n] # "*" /\ w \in 1 .. Len(wild)
      /\ wild[w] = "*"
  <2>1. n \in w .. Len(wild) + 1 /\ CharAt(wild, n) # "*"
    BY <1>1, StarsSkipped
  <2>2. n \in 1 .. Len(wild) /\ n \in w .. Len(wild) /\ w \in 1 .. Len(wild)
    BY <1>1, <2>1
  <2> QED BY <1>1, <2>1, <2>2, LettersApart
<1>3. ~OnlyStars(w)
  BY <1>2 DEF OnlyStars
<1>4. Distinct
  BY <1>2, <1>3 DEF Simple, Distinct
<1>5. Unmarked \/ InSegment
  <2>1. ~Passing
    BY <1>2 DEF Passing, WildInv, WildMarks
  <2> QED BY <1>1, <2>1 DEF SimpleInv
<1>6. p \in 1 .. Len(tame)
  BY <1>1, <1>5 DEF Unmarked, InSegment
<1>7. [WildNext]_wildVars
  BY DEF WildNext
<1>8. tame' = tame /\ wild' = wild /\ Matches' = Matches /\ Distinct'
  BY <1>4, <1>7, WildFixed
<1>9. ASSUME NEW f \in Maps, Fit(f)
      PROVE  p <= f[n] /\ f[n] \in 1 .. Len(tame) /\ (wild[n] # "?" => tame[f[n]] = wild[n])
  <2>1. p <= f[w]
    BY <1>1, <1>5, <1>9, FitBehind
  <2>2. w \in 1 .. Len(wild) + 1 /\ n \in w .. Len(wild) + 1
    BY <1>1, <1>2
  <2>3. f[w] <= f[n]
    BY <1>1, <1>9, <2>2, FitRises
  <2>4. f[w] \in Nat
    BY <1>1, <2>2 DEF Maps
  <2>5. f[n] \in 1 .. Len(tame) /\ (wild[n] # "?" => tame[f[n]] = wild[n])
    BY <1>1, <1>2, <1>9, FitStep
  <2> QED BY <1>1, <2>1, <2>3, <2>4, <2>5
<1> HIDE DEF n
<1>10. ASSUME NEW q \in 1 .. Len(tame), wild[n] \in {"?", tame[q]},
              \A f \in Maps : Fit(f) => q <= f[n],
              tameMark' = q, wildMark' = n, Advance(q, n)
       PROVE  SimpleInv'
  <2>1. /\ verdict' # "overread" /\ (verdict' = "differs" => ~Matches)
        /\ verdict' = "running" => p' = q + 1 /\ w' = n + 1 /\ p' <= Len(tame)
    BY <1>1, <1>2, <1>8, <1>10, AdvanceRight
  <2>2. ASSUME verdict' = "running" PROVE InSegment'
    <3>1. p' = q + 1 /\ w' = n + 1 /\ p' <= Len(tame) /\ n \in Nat /\ n # 0 /\ q \in Nat
      BY <1>1, <1>2, <2>1, <2>2
    <3>2. NoStars(wildMark, w)'
      <4>1. \A k \in n .. (n + 1) - 1 : k = n
        BY <3>1
      <4> QED BY <1>2, <1>8, <1>10, <3>1, <4>1 DEF NoStars
    <3>3. p' = tameMark' + (w' - wildMark') /\ wildMark' # 0 /\ w' # wildMark'
      BY <1>10, <3>1
    <3>4. wild'[wildMark'] = "?" \/ tame'[tameMark'] = wild'[wildMark']
      BY <1>8, <1>10
    <3>5. \A f \in Maps' : Fit(f)' => tameMark' <= f[wildMark']
      BY <1>8, <1>10 DEF Maps, Fit
    <3> QED BY <1>8, <3>1, <3>2, <3>3, <3>4, <3>5 DEF InSegment
  <2> QED BY <1>8, <2>1, <2>2 DEF SimpleInv
<1>11. CASE StarBeforeAny
  <2>1. /\ wild[n] = "?" /\ tameMark' = p /\ wildMark' = n /\ Advance(p, n)
    BY <1>11 DEF StarBeforeAny, n
  <2> QED BY <1>6, <1>9, <1>10, <2>1
<1>12. CASE FastForward /\ found # {}
  <2>1. found \in SUBSET Nat
    BY <1>1
  <2>2. PICK q \in found : q = Min(found) /\ \A k \in found : q <= k
    <3> HIDE DEF found
    <3>1. Min(found) \in found /\ \A k \in found : Min(found) <= k
      BY <1>12, <2>1, MinExists
    <3> QED BY <3>1
  <2>3. tameMark' = q /\ wildMark' = n /\ Advance(q, n) /\ wild[n] # "?"
    BY <1>12, <2>2 DEF FastForward, n
  <2>4. q \in 1 .. Len(tame) /\ tame[q] = wild[n]
    BY <1>1
  <2>5. \A f \in Maps : Fit(f) => q <= f[n]
    <3> SUFFICES ASSUME NEW f \in Maps, Fit(f) PROVE q <= f[n]
      OBVIOUS
    <3>1. f[n] \in p .. Len(tame) /\ tame[f[n]] = wild[n]
      BY <1>1, <1>9, <2>3
    <3> QED BY <2>2, <3>1
  <2> QED BY <1>10, <2>3, <2>4, <2>5
<1>13. CASE FastForward /\ found = {}
  <2>1. verdict' = "differs" /\ wild[n] # "?"
    BY <1>1, <1>6, <1>13 DEF FastForward, Returns, n
  <2>2. ~Matches
    <3> SUFFICES ASSUME NEW f \in Maps, Fit(f) PROVE FALSE
      BY <1>1, MatchesFit
    <3>1. f[n] \in p .. Len(tame) /\ tame[f[n]] = wild[n]
      BY <1>1, <1>9, <2>1
    <3> QED BY <1>13, <3>1
  <2> QED BY <1>8, <2>1, <2>2 DEF SimpleInv
<1> QED BY <1>11, <1>12, <1>13

LEMMA BackRight ==
  ASSUME WildInv, SimpleInv, Simple, Len(tame) > 0, BackToMark
  PROVE  SimpleInv'
<1>1. /\ Len(tame) \in Nat /\ Len(wild) \in Nat /\ w \in 1 .. Len(wild) + 1 /\ p \in Nat \ {0}
      /\ verdict = "running" /\ WildTypeOK /\ wildMark # 0 /\ w # wildMark
      /\ CharAt(wild, w) \notin {"*", "?", CharAt(tame, p)}
      /\ w' = wildMark /\ tameMark' = tameMark + 1 /\ p' = tameMark + 1
      /\ UNCHANGED <<tame, wild, wildMark, verdict>>
  BY DEF WildInv, WildTypeOK, WildPlace, BackToMark, Mismatch
<1>2. /\ wildMark \in 1 .. Len(wild) /\ wildMark < w /\ tameMark \in 1 .. Len(tame)
      /\ wild[wildMark] # "*" /\ tameMark < p
  BY <1>1 DEF WildInv, WildMarks, WildTypeOK, WildPlace
<1>3. InSegment
  BY <1>1 DEF SimpleInv, Unmarked, Passing
<1>4. [WildNext]_wildVars
  BY DEF WildNext
<1>5. Matches' = Matches /\ Distinct'
  BY <1>3, <1>4, WildFixed DEF InSegment
<1>6. ASSUME NEW f \in Maps, Fit(f) PROVE tameMark + 1 <= f[wildMark]
  <2>1. tameMark <= f[wildMark] /\ f[wildMark] \in Nat
    <3>1. wildMark \in 1 .. Len(wild) + 1
      BY <1>1, <1>2
    <3> QED BY <1>1, <1>3, <1>6, <3>1 DEF InSegment, Maps
  <2>2. f[wildMark] # tameMark
    <3> SUFFICES ASSUME f[wildMark] = tameMark PROVE FALSE
      OBVIOUS
    <3>1. f[w] = p /\ p \in 1 .. Len(tame)
      BY <1>1, <1>3, <1>6, FitBehind
    <3>2. CASE w = Len(wild) + 1
      BY <1>1, <1>6, <3>1, <3>2 DEF Fit
    <3>3. CASE w \in 1 .. Len(wild)
      <4>1. wild[w] \notin {"*", "?", tame[p]}
        BY <1>1, <3>1, <3>3, LettersApart
      <4>2. tame[f[w]] = wild[w]
        BY <1>1, <1>6, <3>3, <4>1, FitStep
      <4> QED BY <3>1, <4>1, <4>2
    <3> QED BY <1>1, <3>2, <3>3
  <2> QED BY <1>1, <1>2, <2>1, <2>2
<1>7. CASE wild[wildMark] = "?"
  <2>1. NoStars(wildMark, w)'
    <3>1. \A k \in wildMark .. wildMark - 1 : FALSE
      BY <1>2
    <3> QED BY <1>1, <3>1 DEF NoStars
  <2>2. p' = tameMark' + (w' - wildMark') /\ p' <= Len(tame')
    BY <1>1, <1>2, <1>3 DEF InSegment
  <2>3. \A f \in Maps' : Fit(f)' => tameMark' <= f[wildMark']
    BY <1>1, <1>6 DEF Maps, Fit
  <2>4. InSegment'
    BY <1>1, <1>5, <1>7, <2>1, <2>2, <2>3 DEF InSegment
  <2> QED BY <1>1, <2>4 DEF SimpleInv
<1>8. CASE wild[wildMark] # "?"
  <2>1. tame[tameMark] = wild[wildMark]
    BY <1>3, <1>8 DEF InSegment
  <2>2. \A k \in tameMark + 1 .. Len(tame) : tame[k] # wild[wildMark]
    <3> SUFFICES ASSUME NEW k \in tameMark + 1 .. Len(tame) PROVE tame[k] # tame[tameMark]
      BY <2>1
    <3>1. k \in 1 .. Len(tame) /\ k # tameMark
      BY <1>1, <1>2
    <3> QED BY <1>2, <1>3, <3>1 DEF InSegment, Distinct
  <2>3. ~Matches
    <3> SUFFICES ASSUME NEW f \in Maps, Fit(f) PROVE FALSE
      BY <1>1, MatchesFit
    <3>1. f[wildMark] \in 1 .. Len(tame) /\ tame[f[wildMark]] = wild[wildMark]
      BY <1>1, <1>2, <1>8, FitStep
    <3>2. f[wildMark] \in tameMark + 1 .. Len(tame)
      BY <1>2, <1>6, <3>1
    <3> QED BY <2>2, <3>1, <3>2
  <2>4. Passing'
    BY <1>1, <1>5, <1>8, <2>2, <2>3 DEF Passing
  <2> QED BY <1>1, <2>4 DEF SimpleInv
<1> QED BY <1>7, <1>8

(* A mismatch behind the bookmark never gives up nor passes on: there is   *)
(* another place to try.                                                   *)
LEMMA NotAtMark ==
  ASSUME WildInv, InSegment, verdict = "running", Mismatch
  PROVE  w # wildMark /\ ~AtMark
<1>1. /\ Len(tame) \in Nat /\ Len(wild) \in Nat /\ w \in Nat /\ p \in Nat
      /\ WildTypeOK /\ wildMark \in 1 .. Len(wild) /\ tameMark \in Nat \ {0}
      /\ tameMark <= p /\ wildMark <= w
  BY DEF WildInv, WildTypeOK, WildMarks, InSegment
<1>2. p \in 1 .. Len(tame) /\ tameMark \in 1 .. Len(tame) /\ p = tameMark + (w - wildMark)
  BY <1>1 DEF InSegment
<1>3. tame[p] # "?" /\ CharAt(tame, p) = tame[p] /\ CharAt(wild, wildMark) = wild[wildMark]
  BY <1>1, <1>2, LettersApart DEF InSegment, Distinct
<1>4. w # wildMark
  BY <1>3 DEF Mismatch, InSegment
<1>5. tame[p] # wild[wildMark]
  <2>1. p # tameMark
    BY <1>1, <1>2, <1>4
  <2>2. tame[p] # tame[tameMark]
    BY <1>2, <2>1 DEF InSegment, Distinct
  <2> QED BY <1>3, <1>4, <2>2 DEF InSegment
<1> QED BY <1>3, <1>4, <1>5 DEF AtMark

LEMMA PassRight ==
  ASSUME WildInv, SimpleInv, Simple, Len(tame) > 0, PassOver
  PROVE  SimpleInv'
<1>1. /\ verdict = "running" /\ Mismatch /\ wildMark # 0 /\ (w = wildMark \/ AtMark)
      /\ p' = p + 1 /\ UNCHANGED <<tame, wild, tameMark, wildMark, verdict>>
      /\ (w = wildMark => w' = w) /\ p \in Nat
  BY DEF PassOver, Mismatch, WildInv, WildTypeOK
<1>2. Passing
  BY <1>1, NotAtMark DEF SimpleInv, Unmarked
<1>3. Matches' = Matches
  BY <1>1 DEF Matches
<1>4. \A k \in p + 1 .. Len(tame) : k \in p .. Len(tame)
  BY <1>1 DEF WildInv, WildTypeOK
<1>5. Passing'
  BY <1>1, <1>2, <1>3, <1>4 DEF Passing
<1> QED BY <1>1, <1>5 DEF SimpleInv

LEMMA GiveUpRight ==
  ASSUME WildInv, SimpleInv, Simple, Len(tame) > 0, GiveUp
  PROVE  SimpleInv'
<1>1. /\ verdict = "running" /\ Mismatch /\ (wildMark = 0 \/ w = wildMark \/ AtMark)
      /\ verdict' = "differs" /\ UNCHANGED <<tame, wild, p, w, tameMark, wildMark>>
      /\ WildTypeOK /\ Len(tame) \in Nat /\ Len(wild) \in Nat
  BY DEF GiveUp, Mismatch, Returns, WildInv, WildTypeOK
<1>2. Unmarked \/ Passing
  BY <1>1, NotAtMark DEF SimpleInv, InSegment
<1>3. ~Matches
  <2>1. CASE Passing
    BY <2>1 DEF Passing
  <2>2. CASE Unmarked
    <3> SUFFICES ASSUME NEW f \in Maps, Fit(f) PROVE FALSE
      BY <1>1, MatchesFit
    <3>1. f[w] = p /\ p \in 1 .. Len(tame) /\ w \in 1 .. Len(wild) + 1
      BY <1>1, <2>2, FitBehind
    <3>2. CASE w = Len(wild) + 1
      BY <1>1, <3>1, <3>2 DEF Fit
    <3>3. CASE w \in 1 .. Len(wild)
      <4>1. wild[w] \notin {"*", "?", tame[p]}
        BY <1>1, <3>1, <3>3, LettersApart DEF Mismatch
      <4>2. tame[f[w]] = wild[w]
        BY <1>1, <3>3, <4>1, FitStep
      <4> QED BY <3>1, <4>1, <4>2
    <3> QED BY <1>1, <3>1, <3>2, <3>3
  <2> QED BY <1>2, <2>1, <2>2
<1>4. Matches' = Matches
  BY <1>1 DEF Matches
<1> QED BY <1>1, <1>3, <1>4 DEF SimpleInv

LEMMA SameRight ==
  ASSUME WildInv, SimpleInv, Simple, Len(tame) > 0, SameCharacter
  PROVE  SimpleInv'
<1>1. /\ verdict = "running" /\ Advance(p, w) /\ UNCHANGED <<tame, wild, tameMark, wildMark>>
      /\ CharAt(wild, w) # "*" /\ CharAt(wild, w) \in {"?", CharAt(tame, p)}
      /\ WildTypeOK /\ Len(tame) \in Nat /\ Len(wild) \in Nat /\ p \in Nat \ {0}
      /\ w \in 1 .. Len(wild) + 1 /\ p <= Len(tame) + 1
      /\ wildMark \in Nat /\ tameMark \in Nat
  BY DEF SameCharacter, Mismatch, AtStar, WildInv, WildTypeOK, WildPlace
<1>2. ~Passing
  <2> SUFFICES ASSUME Passing PROVE FALSE
    OBVIOUS
  <2>1. w \in 1 .. Len(wild) /\ wild[w] \notin {NUL, "?"} /\ CharAt(wild, w) = wild[w]
    <3>1. w \in 1 .. Len(wild)
      BY <1>1 DEF Passing, WildTypeOK
    <3> QED BY <1>1, <3>1, LettersApart DEF Passing
  <2>2. CharAt(tame, p) = wild[w]
    BY <1>1, <2>1
  <2>3. p \in 1 .. Len(tame)
    BY <1>1, <2>1, <2>2 DEF CharAt
  <2>4. tame[p] # wild[w] /\ CharAt(tame, p) = tame[p]
    BY <1>1, <2>3, LettersApart DEF Passing
  <2> QED BY <2>2, <2>4
<1>3. Unmarked \/ InSegment
  BY <1>1, <1>2 DEF SimpleInv
<1>4. p \in 1 .. Len(tame)
  BY <1>1, <1>3 DEF Unmarked, InSegment
<1>5. w \in 1 .. Len(wild) /\ wild[w] # "*"
  <2>1. CharAt(tame, p) # NUL
    BY <1>1, <1>4, LettersApart
  <2>2. w \in 1 .. Len(wild)
    BY <1>1, <2>1 DEF CharAt, NUL
  <2> QED BY <1>1, <2>2, LettersApart
<1>6. \A f \in Maps : Fit(f) => p <= f[w]
  BY <1>1, <1>3, FitBehind
<1>7. /\ verdict' # "overread" /\ (verdict' = "differs" => ~Matches)
      /\ verdict' = "running" => p' = p + 1 /\ w' = w + 1 /\ p' <= Len(tame)
  BY <1>1, <1>4, <1>5, <1>6, AdvanceRight
<1>8. [WildNext]_wildVars
  BY DEF WildNext
<1>9. Matches' = Matches /\ Distinct' = Distinct
  BY <1>8, WildFixed
<1>10. ASSUME verdict' = "running" PROVE Unmarked' \/ InSegment'
  <2>1. p' = p + 1 /\ w' = w + 1 /\ p' <= Len(tame)
    BY <1>7, <1>10
  <2>2. ASSUME NEW a \in Nat, NoStars(a, w) PROVE \A k \in a .. (w + 1) - 1 : wild[k] # "*"
    <3>1. \A k \in a .. (w + 1) - 1 : k \in a .. w - 1 \/ k = w
      BY <1>1, <2>2
    <3> QED BY <1>5, <2>2, <3>1 DEF NoStars
  <2>3. CASE Unmarked
    <3>1. \A k \in 1 .. (w + 1) - 1 : wild[k] # "*"
      BY <2>2, <2>3 DEF Unmarked
    <3> QED BY <1>1, <2>1, <2>3, <3>1 DEF Unmarked, NoStars
  <2>4. CASE InSegment
    <3>1. \A k \in wildMark .. (w + 1) - 1 : wild[k] # "*"
      BY <1>1, <2>2, <2>4 DEF InSegment
    <3>2. NoStars(wildMark, w)'
      BY <1>1, <2>1, <3>1 DEF NoStars
    <3>3. /\ p' = tameMark' + (w' - wildMark') /\ w' # wildMark'
      BY <1>1, <2>1, <2>4 DEF InSegment, WildInv, WildMarks
    <3>4. wild[wildMark] = "?" \/ tame[tameMark] = wild[wildMark]
      BY <2>4 DEF InSegment
    <3>5. \A f \in Maps' : Fit(f)' => tameMark' <= f[wildMark']
      BY <1>1, <2>4 DEF InSegment, Maps, Fit
    <3> QED BY <1>1, <1>9, <2>1, <2>4, <3>2, <3>3, <3>4, <3>5 DEF InSegment
  <2> QED BY <1>3, <2>3, <2>4
<1> QED BY <1>7, <1>9, <1>10, <1>1 DEF SimpleInv

LEMMA SimpleNext ==
  ASSUME WildInv, SimpleInv, [WildNext]_wildVars
  PROVE  SimpleInv'
<1>1. tame' = tame /\ wild' = wild /\ Matches' = Matches /\ Simple' = Simple
  BY WildFixed
<1>2. CASE ~(Len(tame) > 0 /\ Simple)
  BY <1>1, <1>2 DEF SimpleInv
<1>3. CASE Len(tame) > 0 /\ Simple
  <2>1. CASE TrailingStar
    BY <1>1, <2>1 DEF SimpleInv, TrailingStar, Returns
  <2>2. CASE UNCHANGED wildVars
    <3>1. Unmarked' = Unmarked /\ Passing' = Passing
      BY <1>1, <2>2 DEF wildVars, Unmarked, Passing, NoStars
    <3>2. Maps' = Maps /\ \A f \in Maps : Fit(f)' = Fit(f)
      BY <1>1 DEF Maps, Fit
    <3>3. InSegment' = InSegment
      BY <1>1, <2>2, <3>2 DEF wildVars, InSegment, NoStars, Distinct
    <3> QED BY <1>1, <2>2, <3>1, <3>3 DEF wildVars, SimpleInv
  <2> QED
    BY <1>3, <2>1, <2>2, MarkRight, BackRight, PassRight, GiveUpRight, SameRight
    DEF WildNext
<1> QED BY <1>2, <1>3

(* For every string but the empty one, and every pattern: the verdict      *)
(* "match" is right, and where one bookmark is enough so is the verdict    *)
(* "differs", and nothing behind the string is read (string.c,             *)
(* ina_str_wildcard_match).                                                *)
THEOREM VerdictsRight == WildSpec => []WildRight
<1>1. WildInit => SimpleInv
  <2> SUFFICES ASSUME WildInit, Len(tame) > 0 PROVE SimpleInv
    BY DEF SimpleInv
  <2>1. WildTypeOK
    BY WildInit_Inv DEF WildInv
  <2>2. PICK t \in Tames, v \in Wilds : WildStart(t, v)
    BY DEF WildInit
  <2>3. Unmarked
    BY <2>1, <2>2 DEF WildStart, Unmarked, NoStars, WildTypeOK
  <2> QED BY <2>2, <2>3 DEF WildStart, SimpleInv
<1>2. WildInv /\ SimpleInv /\ [WildNext]_wildVars => SimpleInv'
  BY SimpleNext
<1>3. WildInv /\ SimpleInv => WildRight
  BY DEF WildInv, SimpleInv, WildRight, FindsMatch
<1> QED BY <1>1, <1>2, <1>3, WildInvariant, PTL DEF WildSpec

-----------------------------------------------------------------------------
(* StrTok: the tokens are the runs of the text.  The buffer is what it was *)
(* from the place on where the search goes on, and the tokens before that  *)
(* place are the runs that begin there.                                    *)

(* The run of the text from b to e, left alone and terminated.             *)
Whole(b, e) ==
    /\ e \in b .. Len(tokText)
    /\ e = Len(tokText) \/ tokText[e + 1] \in tokSeps
    /\ \A i \in b .. e : tokText[i] \notin tokSeps /\ cells[i] = tokText[i]
    /\ cells[e + 1] = Terminator

(* The search goes on at q.                                                *)
Going(q) ==
    /\ q \in 1 .. Len(tokText) + 2
    /\ \A i \in q .. Len(tokText) : cells[i] = tokText[i]
    /\ q \in 2 .. Len(tokText) + 1 => tokText[q - 1] \in tokSeps
    /\ q = Len(tokText) + 2 => tokText[Len(tokText)] \notin tokSeps
    /\ \A b \in RunStarts : b < q => b \in GivenStarts
    /\ \A b \in GivenStarts : \E e \in Nat : e < q /\ Whole(b, e)

TokInv ==
    /\ tokText \in Seq(Chars) /\ tokSeps \subseteq Chars
    /\ cells \in Seq(Nat) /\ Len(cells) = Len(tokText) + 1
    /\ cells[Len(cells)] = Terminator
    /\ given \in Seq(Nat)
    /\ \A i, k \in 1 .. Len(given) : i < k => given[i] < given[k]
    /\ GivenStarts \subseteq RunStarts
    /\ \A b \in GivenStarts, r \in RunStarts : r < b => r \in GivenStarts
    /\ \A b \in GivenStarts : \E e \in Nat : Whole(b, e)
    /\ tokState \in {"new", "going", "ended", "overread"}
    /\ tokState = "new" => Going(1)
    /\ tokState = "going" => Going(nextTok)
    /\ tokState \in {"ended", "overread"} /\ tokSeps # {} => GivenStarts = RunStarts
    /\ tokState = "overread" => tokText[Len(tokText)] \notin tokSeps

LEMMA TokInit_Inv == TokInit => TokInv
<1> SUFFICES ASSUME NEW text \in Texts(MaxText), NEW seps \in SUBSET Chars,
                    TokStart(text, seps)
             PROVE  TokInv
  BY DEF TokInit
<1>1. text \in Seq(Chars)
  BY TokAssumption DEF Texts
<1>2. Chars \subseteq Nat
  BY TokAssumption
<1>3. /\ cells \in Seq(Nat) /\ Len(cells) = Len(tokText) + 1
      /\ \A i \in 1 .. Len(tokText) : cells[i] = tokText[i]
      /\ cells[Len(cells)] = Terminator
  <2>1. text \in Seq(Nat) /\ 0 \in Nat
    <3>1. Len(text) \in Nat /\ text \in [1 .. Len(text) -> Chars]
      BY <1>1
    <3>2. text \in [1 .. Len(text) -> Nat]
      BY <1>2, <3>1
    <3> QED BY <3>1, <3>2
  <2>2. tokText = text /\ cells = Append(text, 0)
    BY DEF TokStart, Terminator
  <2> QED BY <2>1, <2>2 DEF Terminator
<1>4. given = <<>> /\ GivenStarts = {} /\ tokState = "new"
  BY DEF TokStart, GivenStarts
<1>5. tokText \in Seq(Chars) /\ tokSeps \subseteq Chars
  BY <1>1 DEF TokStart
<1>6. \A b \in RunStarts : b >= 1
  BY DEF RunStarts
<1>7. Going(1)
  <2>1. Len(tokText) \in Nat
    BY <1>5
  <2> QED BY <1>3, <1>4, <1>5, <1>6, <2>1 DEF Going, RunStarts
<1> QED BY <1>3, <1>4, <1>5, <1>7 DEF TokInv

(* What a call finds from q on.                                            *)
LEMMA Found ==
  ASSUME TokInv, NEW q \in Nat, Going(q), q <= Len(cells)
  PROVE  \E b \in q .. Len(cells) :
           /\ b = Min({i \in q .. Len(cells) : cells[i] \notin tokSeps})
           /\ cells[b] \notin tokSeps
           /\ \A i \in q .. b - 1 : tokText[i] \in tokSeps
           /\ (cells[b] = Terminator) <=> (b = Len(tokText) + 1)
           /\ b <= Len(tokText) => cells[b] = tokText[b]
<1> DEFINE S == {i \in q .. Len(cells) : cells[i] \notin tokSeps}
<1>1. Len(cells) \in Nat /\ Len(tokText) \in Nat /\ Len(cells) = Len(tokText) + 1 /\ q >= 1
  BY DEF TokInv, Going
<1>2. Terminator \notin Chars /\ tokSeps \subseteq Chars
  BY TokAssumption DEF TokInv
<1>3. Len(cells) \in S
  BY <1>1, <1>2 DEF TokInv
<1>4. S \in SUBSET Nat
  BY <1>1
<1>5. Min(S) \in S /\ \A k \in S : Min(S) <= k
  BY <1>3, <1>4, MinExists
<1>6. PICK b \in q .. Len(cells) : b = Min(S)
  BY <1>5
<1>7. cells[b] \notin tokSeps
  BY <1>5, <1>6
<1>8. ASSUME NEW i \in q .. b - 1 PROVE tokText[i] \in tokSeps
  <2>1. i \in q .. Len(tokText) /\ i \notin S
    BY <1>1, <1>5, <1>6
  <2>2. cells[i] = tokText[i]
    BY <2>1 DEF Going
  <2> QED BY <1>1, <2>1, <2>2
<1>9. b <= Len(tokText) => cells[b] = tokText[b]
  BY <1>1 DEF Going
<1>10. (cells[b] = Terminator) <=> (b = Len(tokText) + 1)
  <2>1. CASE b = Len(tokText) + 1
    BY <1>1, <2>1 DEF TokInv
  <2>2. CASE b <= Len(tokText)
    <3>1. tokText[b] \in Chars
      BY <1>1, <2>2 DEF TokInv
    <3> QED BY <1>2, <1>9, <2>2, <3>1
  <2> QED BY <1>1, <2>1, <2>2
<1> QED BY <1>6, <1>7, <1>8, <1>9, <1>10

(* A step that stops at the end of the text.                               *)
LEMMA NoTokenLeft ==
  ASSUME TokInv, NEW q \in Nat, Going(q), q <= Len(cells),
         \A i \in q .. Len(tokText) : tokText[i] \in tokSeps
  PROVE  GivenStarts = RunStarts
<1>1. \A b \in RunStarts : b < q
  BY DEF RunStarts, TokInv
<1> QED BY <1>1 DEF Going, TokInv

(* The token that begins at b and is stopped at e is a run, and leaves the *)
(* text behind e as it was.                                                *)
(* Where a token from b to e - 1 is in a text of n characters.             *)
LEMMA TokenPlaces ==
  ASSUME NEW n \in Nat, NEW q \in Nat, NEW b \in q .. n, NEW e \in b + 1 .. n + 1
  PROVE  /\ b \in Nat /\ e \in Nat /\ q <= b /\ b < e /\ e <= n + 1
         /\ e - 1 \in Nat /\ e - 1 \in b .. n /\ (e - 1) + 1 = e
         /\ \A i \in b .. e - 1 : i = b \/ i \in b + 1 .. e - 1
OBVIOUS

LEMMA ElementsAppended ==
  ASSUME NEW s \in Seq(Nat), NEW b \in Nat, NEW r, r = Append(s, b)
  PROVE  {r[i] : i \in 1 .. Len(r)} = {s[i] : i \in 1 .. Len(s)} \cup {b}
<1>1. /\ Len(s) \in Nat /\ Len(r) = Len(s) + 1 /\ r[Len(s) + 1] = b
      /\ \A i \in 1 .. Len(s) : r[i] = s[i]
  OBVIOUS
<1>2. \A i \in 1 .. Len(r) : i \in 1 .. Len(s) \/ i = Len(s) + 1
  BY <1>1
<1>3. Len(s) + 1 \in 1 .. Len(r) /\ \A i \in 1 .. Len(s) : i \in 1 .. Len(r)
  BY <1>1
<1> QED BY <1>1, <1>2, <1>3

LEMMA TokenSound ==
  ASSUME TokInv, NEW q \in Nat, Going(q), NEW b \in q .. Len(tokText),
         tokText[b] \notin tokSeps, \A i \in q .. b - 1 : tokText[i] \in tokSeps,
         NEW e \in b + 1 .. Len(cells), cells[e] \in tokSeps \cup {Terminator},
         \A i \in b + 1 .. e - 1 : cells[i] \notin tokSeps \cup {Terminator},
         Token(b, e), UNCHANGED <<tokText, tokSeps>>
  PROVE  TokInv'
<1>1. /\ Len(tokText) \in Nat /\ Len(cells) = Len(tokText) + 1
      /\ q \in Nat \ {0} /\ tokText \in Seq(Chars) /\ cells \in Seq(Nat)
      /\ given \in Seq(Nat) /\ Len(given) \in Nat
  <2>1. /\ tokText \in Seq(Chars) /\ cells \in Seq(Nat) /\ given \in Seq(Nat)
        /\ Len(cells) = Len(tokText) + 1
    BY DEF TokInv
  <2>2. Len(tokText) \in Nat /\ Len(given) \in Nat
    BY <2>1
  <2>3. q \in 1 .. Len(tokText) + 2
    BY DEF Going
  <2> QED BY <2>1, <2>2, <2>3
<1>2. /\ given' = Append(given, b) /\ nextTok' = e + 1 /\ tokState' = "going"
      /\ cells' = [cells EXCEPT ![e] = Terminator]
      /\ tokText' = tokText /\ tokSeps' = tokSeps
  BY DEF Token
<1>3. /\ cells' \in Seq(Nat) /\ Len(cells') = Len(cells) /\ cells'[e] = Terminator
      /\ \A i \in 1 .. Len(cells) : i # e => cells'[i] = cells[i]
  <2>1. e \in 1 .. Len(cells) /\ Terminator \in Nat
    BY <1>1 DEF Terminator
  <2> QED BY <1>1, <1>2, <2>1
<1>4. cells'[Len(cells')] = Terminator
  <2>1. Len(cells) \in 1 .. Len(cells) /\ Len(cells') = Len(cells)
    BY <1>1, <1>3
  <2>2. cells[Len(cells)] = Terminator
    BY DEF TokInv
  <2> QED BY <1>3, <2>1, <2>2
<1>22. e \in Nat /\ (e <= Len(tokText) \/ e = Len(tokText) + 1)
  <2>1. PICK n \in Nat : n = Len(tokText) /\ Len(cells) = n + 1
    BY <1>1
  <2>2. e >= b + 1 /\ e <= n + 1 /\ e \in Int /\ b >= q
    BY <2>1
  <2>3. e \in Nat
    BY <2>2
  <2>4. e <= n \/ e = n + 1
    BY <2>2
  <2> QED BY <2>1, <2>3, <2>4
<1>5. \A i \in q .. Len(tokText) : cells[i] = tokText[i]
  BY DEF Going
<1>6. ASSUME NEW i \in b + 1 .. e - 1 PROVE tokText[i] \notin tokSeps
  <2>1. i \in q .. Len(tokText)
    BY <1>1, <1>6
  <2> QED BY <1>5, <2>1
<1>7. e <= Len(tokText) => tokText[e] \in tokSeps
  <2> SUFFICES ASSUME e <= Len(tokText) PROVE tokText[e] \in tokSeps
    OBVIOUS
  <2>1. e \in q .. Len(tokText) /\ e \in 1 .. Len(tokText)
    BY <1>1
  <2>2. cells[e] = tokText[e] /\ tokText[e] \in Chars
    BY <1>1, <1>5, <2>1
  <2> QED BY <2>2, TokAssumption
<1>8. b \in RunStarts
  <2>1. CASE b > q
    BY <1>1, <2>1 DEF RunStarts
  <2>2. CASE b = q
    BY <1>1, <2>2 DEF RunStarts, Going
  <2> QED BY <1>1, <2>1, <2>2
<1>9. ASSUME NEW x \in RunStarts, x < e + 1 PROVE x \in GivenStarts \cup {b}
  <2>1. CASE x < q
    BY <2>1 DEF Going
  <2>2. CASE x \in q .. b - 1
    BY <2>2 DEF RunStarts
  <2>3. CASE x \in b + 1 .. e
    <3>1. tokText[x - 1] \in tokSeps /\ x <= Len(tokText) /\ tokText[x] \notin tokSeps
      BY <1>1, <2>3 DEF RunStarts
    <3>2. x # e
      BY <1>7, <3>1
    <3>3. x - 1 \in b .. e - 1
      BY <1>1, <2>3, <3>2
    <3> QED BY <1>1, <1>6, <3>1, <3>3
  <2>4. x \in 1 .. Len(tokText)
    BY DEF RunStarts
  <2> QED BY <1>1, <1>9, <2>1, <2>2, <2>3, <2>4
<1>21. /\ given' \in Seq(Nat) /\ Len(given') = Len(given) + 1
       /\ \A i \in 1 .. Len(given) : given'[i] = given[i]
       /\ given'[Len(given) + 1] = b
  <2>1. b \in Nat
    BY <1>1
  <2> QED BY <1>1, <1>2, <2>1
<1>10. GivenStarts' = GivenStarts \cup {b}
  <2>1. given \in Seq(Nat) /\ b \in Nat /\ given' = Append(given, b)
    BY <1>1, <1>2
  <2> QED BY <2>1, ElementsAppended DEF GivenStarts
<1>11. RunStarts' = RunStarts
  BY <1>2 DEF RunStarts
<1>12. ASSUME NEW x \in GivenStarts PROVE x \in Nat /\ x < q
  BY <1>1 DEF Going, Whole, TokInv, RunStarts
<1>13. /\ given' \in Seq(Nat)
       /\ \A i, k \in 1 .. Len(given') : i < k => given'[i] < given'[k]
  <2>1. \A i \in 1 .. Len(given) : given[i] < b
    <3>1. ASSUME NEW i \in 1 .. Len(given) PROVE given[i] < b
      <4>1. given[i] \in GivenStarts
        BY <3>1 DEF GivenStarts
      <4>2. given[i] \in Nat /\ given[i] < q
        BY <1>12, <4>1
      <4> QED BY <1>1, <4>2
    <3> QED BY <3>1
  <2>2. \A i, k \in 1 .. Len(given) : i < k => given[i] < given[k]
    BY DEF TokInv
  <2>4. \A i \in 1 .. Len(given') : i \in 1 .. Len(given) \/ i = Len(given) + 1
    BY <1>1, <1>21
  <2>3. ASSUME NEW i \in 1 .. Len(given'), NEW k \in 1 .. Len(given'), i < k
        PROVE  given'[i] < given'[k]
    <3>1. i \in 1 .. Len(given)
      BY <1>1, <1>21, <2>3
    <3>2. k \in 1 .. Len(given) \/ k = Len(given) + 1
      BY <2>3, <2>4
    <3> QED BY <1>21, <2>1, <2>2, <2>3, <3>1, <3>2
  <2> QED BY <1>21, <2>3
<1>14. ASSUME NEW x \in GivenStarts' PROVE \E f \in Nat : f < e + 1 /\ Whole(x, f)'
  <2>1. CASE x = b
    <3>1. e - 1 \in Nat /\ e - 1 \in b .. Len(tokText) /\ (e - 1) + 1 = e
      BY <1>1, TokenPlaces
    <3>2. e - 1 = Len(tokText) \/ tokText'[e] \in tokSeps'
      <4>1. CASE e <= Len(tokText)
        BY <1>2, <1>7, <4>1
      <4>2. CASE e = Len(tokText) + 1
        BY <1>1, <4>2
      <4>3. e <= Len(tokText) \/ e = Len(tokText) + 1
        BY <1>22
      <4> QED BY <4>1, <4>2, <4>3
    <3>3. ASSUME NEW i \in b .. e - 1
          PROVE  tokText'[i] \notin tokSeps' /\ cells'[i] = tokText'[i]
      <4>1. i \in q .. Len(tokText) /\ i \in 1 .. Len(cells) /\ i # e
        BY <1>1, <3>3
      <4>2. cells'[i] = tokText[i]
        BY <1>3, <1>5, <4>1
      <4>3. i = b \/ i \in b + 1 .. e - 1
        BY <1>1, <3>3, TokenPlaces
      <4> QED BY <1>2, <1>6, <4>2, <4>3
    <3>4. Whole(b, e - 1)'
      BY <1>2, <1>3, <3>1, <3>2, <3>3 DEF Whole
    <3> QED BY <1>1, <2>1, <3>1, <3>4
  <2>2. CASE x \in GivenStarts
    <3>1. PICK f \in Nat : f < q /\ Whole(x, f)
      BY <2>2 DEF Going
    <3>2. x \in 1 .. Len(tokText)
      BY <2>2 DEF TokInv, RunStarts
    <3>6. f \in x .. Len(tokText) /\ cells[f + 1] = Terminator
      BY <3>1 DEF Whole
    <3>3. ASSUME NEW i \in x .. f PROVE cells'[i] = cells[i]
      <4>1. PICK n \in Nat : n = Len(tokText) /\ Len(cells) = n + 1
        BY <1>1
      <4>2. q <= b /\ b < e /\ b \in Nat /\ e \in Nat
        BY <1>1, TokenPlaces
      <4>3. x \in 1 .. n /\ f \in x .. n /\ i \in x .. f /\ f < q
        BY <3>1, <3>2, <3>3, <3>6, <4>1
      <4>4. i \in 1 .. Len(cells) /\ i # e
        BY <4>1, <4>2, <4>3
      <4> QED BY <1>3, <4>4
    <3>4. cells'[f + 1] = Terminator
      <4>1. f + 1 \in 1 .. Len(cells)
        BY <1>1, <3>2, <3>6
      <4> QED BY <1>3, <3>6, <4>1
    <3>5. Whole(x, f)'
      BY <1>2, <3>1, <3>3, <3>4 DEF Whole
    <3> QED BY <1>1, <3>1, <3>5
  <2> QED BY <1>10, <2>1, <2>2
<1>15. e + 1 \in Nat /\ e + 1 \in 2 .. Len(tokText) + 2
  BY <1>1
<1>16. ASSUME NEW i \in e + 1 .. Len(tokText) PROVE cells'[i] = tokText[i]
  <2>1. i \in q .. Len(tokText) /\ i \in 1 .. Len(cells) /\ i # e
    BY <1>1, <1>16
  <2> QED BY <1>3, <1>5, <2>1
<1>17. e + 1 = Len(tokText) + 2 => tokText[Len(tokText)] \notin tokSeps
  <2> SUFFICES ASSUME e + 1 = Len(tokText) + 2 PROVE tokText[Len(tokText)] \notin tokSeps
    OBVIOUS
  <2>1. Len(tokText) = b \/ Len(tokText) \in b + 1 .. e - 1
    BY <1>1
  <2> QED BY <1>6, <2>1
<1>18. Going(nextTok)'
  <2>1. \A x \in RunStarts' : x < e + 1 => x \in GivenStarts'
    BY <1>9, <1>10, <1>11
  <2>2. e + 1 \in 2 .. Len(tokText) + 1 => tokText[(e + 1) - 1] \in tokSeps
    BY <1>1, <1>7
  <2> QED BY <1>2, <1>14, <1>15, <1>16, <1>17, <2>1, <2>2 DEF Going
<1>19. GivenStarts' \subseteq RunStarts'
  BY <1>8, <1>10, <1>11 DEF TokInv
<1>20. \A x \in GivenStarts', r \in RunStarts' : r < x => r \in GivenStarts'
  <2>1. \A r \in RunStarts : r < b => r \in GivenStarts'
    <3> SUFFICES ASSUME NEW r \in RunStarts, r < b PROVE r \in GivenStarts'
      OBVIOUS
    <3>1. r \in Nat
      BY DEF RunStarts
    <3>2. r < e + 1
      BY <1>1, <3>1
    <3> QED BY <1>9, <1>10, <3>2
  <2> QED BY <1>10, <1>11, <2>1 DEF TokInv
<1> QED BY <1>1, <1>2, <1>3, <1>4, <1>13, <1>14, <1>18, <1>19, <1>20 DEF TokInv

(* Of a plain text the map tells the separators.                           *)
LEMMA DividersTold ==
  ASSUME Plain, TokInv, NEW q \in Nat, Going(q), NEW dividers \in Dividers(q)
  PROVE  dividers = {i \in q .. Len(cells) : cells[i] \in tokSeps}
<1>1. ASSUME NEW i \in q .. Len(cells) PROVE cells[i] \in Nat /\ cells[i] < SignBit
  <2>1. /\ tokText \in Seq(Chars) /\ Len(tokText) \in Nat /\ Len(cells) = Len(tokText) + 1
        /\ cells \in Seq(Nat) /\ cells[Len(cells)] = 0 /\ q >= 1
    BY DEF TokInv, Going, Terminator
  <2>2. CASE i = Len(cells)
    BY <2>1, <2>2 DEF SignBit
  <2>3. CASE i # Len(cells)
    <3>1. i \in q .. Len(tokText) /\ i \in 1 .. Len(tokText) /\ i \in 1 .. Len(cells)
      BY <2>1, <2>3
    <3>2. cells[i] = tokText[i] /\ tokText[i] < SignBit /\ cells[i] \in Nat
      BY <2>1, <3>1 DEF Going, Plain
    <3> QED BY <3>2
  <2> QED BY <2>2, <2>3
<1>2. {i \in q .. Len(cells) : cells[i] >= SignBit} = {}
  BY <1>1 DEF SignBit
<1>3. PICK odd \in SUBSET {i \in q .. Len(cells) : cells[i] >= SignBit} :
        dividers = {i \in q .. Len(cells) : cells[i] < SignBit /\ cells[i] \in tokSeps}
                     \cup odd
  BY DEF Dividers
<1>4. odd = {}
  BY <1>2
<1> QED BY <1>1, <1>3, <1>4

LEMMA FromSound ==
  ASSUME Plain, TokInv, NEW q \in Nat, Going(q), From(q), UNCHANGED <<tokText, tokSeps>>
  PROVE  TokInv'
<1>1. CASE q > Len(cells)
  <2>1. tokState' = "overread" /\ UNCHANGED <<cells, nextTok, given>>
    <3>1. Len(cells) \in Nat
      BY DEF TokInv
    <3> QED BY <1>1, <3>1 DEF From
  <2>2. q = Len(tokText) + 2
    BY <1>1 DEF Going, TokInv
  <2>3. tokText[Len(tokText)] \notin tokSeps
    BY <2>2 DEF Going
  <2>4. GivenStarts = RunStarts
    <3>1. \A x \in RunStarts : x \in Nat /\ x <= Len(tokText)
      BY DEF RunStarts
    <3>2. Len(tokText) \in Nat
      BY DEF TokInv
    <3>3. \A x \in RunStarts : x < q
      BY <2>2, <3>1, <3>2
    <3> QED BY <3>3 DEF Going, TokInv
  <2>5. GivenStarts' = GivenStarts /\ RunStarts' = RunStarts
    BY <2>1 DEF GivenStarts, RunStarts
  <2> QED BY <2>1, <2>3, <2>4, <2>5 DEF TokInv, Whole
<1>2. CASE q <= Len(cells)
  <2>1. PICK b \in q .. Len(cells) :
           /\ b = Min({i \in q .. Len(cells) : cells[i] \notin tokSeps})
           /\ cells[b] \notin tokSeps
           /\ \A i \in q .. b - 1 : tokText[i] \in tokSeps
           /\ (cells[b] = Terminator) <=> (b = Len(tokText) + 1)
           /\ b <= Len(tokText) => cells[b] = tokText[b]
    BY <1>2, Found
  <2> DEFINE T == {i \in b + 1 .. Len(cells) : cells[i] \in tokSeps \cup {Terminator}}
  <2>2. Len(cells) \in Nat /\ Len(tokText) \in Nat /\ Len(cells) = Len(tokText) + 1
    BY DEF TokInv
  <2>3. IF cells[b] = Terminator THEN NoToken ELSE Token(b, Min(T))
    <3>1. ~(q > Len(cells))
      BY <1>2 DEF TokInv
    <3>2. PICK dividers \in Dividers(q) :
             LET at    == Min((q .. Len(cells)) \ dividers)
                 stops == {i \in at + 1 .. Len(cells) : i \in dividers \/ cells[i] = Terminator}
             IN  IF cells[at] = Terminator THEN NoToken ELSE Token(at, Min(stops))
      BY <3>1 DEF From
    <3>3. dividers = {i \in q .. Len(cells) : cells[i] \in tokSeps}
      BY DividersTold
    <3>4. (q .. Len(cells)) \ dividers = {i \in q .. Len(cells) : cells[i] \notin tokSeps}
      BY <3>3
    <3>5. b = Min((q .. Len(cells)) \ dividers)
      BY <2>1, <3>4
    <3>6. {i \in b + 1 .. Len(cells) : i \in dividers \/ cells[i] = Terminator} = T
      <4>1. \A i \in b + 1 .. Len(cells) : i \in q .. Len(cells)
        BY <2>2
      <4> QED BY <3>3, <4>1
    <3> HIDE DEF T
    <3> QED BY <3>2, <3>5, <3>6
  <2>4. CASE cells[b] = Terminator
    <3>1. \A i \in q .. Len(tokText) : tokText[i] \in tokSeps
      BY <2>1, <2>2, <2>4
    <3>2. GivenStarts = RunStarts
      BY <1>2, <3>1, NoTokenLeft
    <3>3. tokState' = "ended" /\ UNCHANGED <<cells, given>>
      BY <2>3, <2>4 DEF NoToken
    <3>4. GivenStarts' = GivenStarts /\ RunStarts' = RunStarts
      BY <3>3 DEF GivenStarts, RunStarts
    <3> QED BY <3>2, <3>3, <3>4 DEF TokInv, Whole
  <2>5. CASE cells[b] # Terminator
    <3>1. b \in q .. Len(tokText) /\ tokText[b] \notin tokSeps
      BY <2>1, <2>2, <2>5
    <3>2. T \in SUBSET Nat /\ T # {}
      <4>1. Len(cells) \in T
        BY <2>2, <3>1 DEF TokInv
      <4> QED BY <2>2, <3>1, <4>1
    <3>3. PICK e \in T : e = Min(T) /\ \A k \in T : e <= k
      <4> HIDE DEF T
      <4>1. Min(T) \in T /\ \A k \in T : Min(T) <= k
        BY <3>2, MinExists
      <4> QED BY <4>1
    <3>4. /\ e \in b + 1 .. Len(cells) /\ cells[e] \in tokSeps \cup {Terminator}
          /\ \A i \in b + 1 .. e - 1 : cells[i] \notin tokSeps \cup {Terminator}
      <4>1. e \in b + 1 .. Len(cells) /\ cells[e] \in tokSeps \cup {Terminator}
        BY <3>3
      <4>2. ASSUME NEW i \in b + 1 .. e - 1 PROVE cells[i] \notin tokSeps \cup {Terminator}
        <5>1. i \in b + 1 .. Len(cells) /\ i < e
          BY <2>2, <3>1, <4>1
        <5>2. i \notin T
          BY <3>3, <4>1, <5>1
        <5> QED BY <5>1, <5>2
      <4> QED BY <4>1, <4>2
    <3>5. Token(b, e)
      BY <2>3, <2>5, <3>3
    <3> QED BY <2>1, <3>1, <3>4, <3>5, TokenSound
  <2> QED BY <2>4, <2>5
<1> QED BY <1>1, <1>2 DEF TokInv

LEMMA TokNext_Inv == Plain /\ TokInv /\ [TokNext]_tokVars => TokInv'
<1> SUFFICES ASSUME Plain, TokInv, [TokNext]_tokVars PROVE TokInv'
  OBVIOUS
<1>2. CASE NoSeparators
  <2>1. tokText' = tokText /\ cells' = cells /\ given' = given /\ tokSeps' = tokSeps
        /\ tokState' = "ended" /\ tokSeps = {}
    BY <1>2 DEF NoSeparators
  <2>2. GivenStarts' = GivenStarts /\ RunStarts' = RunStarts
    BY <2>1 DEF GivenStarts, RunStarts
  <2> QED BY <2>1, <2>2 DEF TokInv, Whole
<1>3. CASE FirstToken
  BY <1>3, FromSound DEF FirstToken, TokInv
<1>4. CASE NextToken
  <2>1. Going(nextTok) /\ From(nextTok) /\ UNCHANGED <<tokText, tokSeps>>
    BY <1>4 DEF NextToken, TokInv
  <2>2. PICK q \in Nat : q = nextTok
    <3>1. nextTok \in 1 .. Len(tokText) + 2
      BY <2>1 DEF Going
    <3> QED BY <3>1
  <2> QED BY <2>1, <2>2, FromSound
<1>5. CASE UNCHANGED tokVars
  <2>1. tokText' = tokText /\ cells' = cells /\ given' = given /\ tokSeps' = tokSeps
        /\ tokState' = tokState /\ nextTok' = nextTok
    BY <1>5 DEF tokVars
  <2>2. GivenStarts' = GivenStarts /\ RunStarts' = RunStarts
    BY <2>1 DEF GivenStarts, RunStarts
  <2> QED BY <2>1, <2>2 DEF TokInv, Whole, Going
<1> QED BY <1>2, <1>3, <1>4, <1>5 DEF TokNext

(* For every text of characters below 128 and every set of separators: the *)
(* tokens are the runs of the text, in order and none left out; each stays *)
(* the C string it was; and the text is read beyond its terminator only    *)
(* when it does not end in a separator and only after its last token.      *)
THEOREM TokensAreRuns == TokSpec => []TokensRight
<1>1. ASSUME TokInv PROVE TokensRight
  <2>1. ASSUME NEW b \in GivenStarts
        PROVE  /\ SubSeq(cells, b, RunEnd(b)) = SubSeq(tokText, b, RunEnd(b))
               /\ cells[RunEnd(b) + 1] = Terminator
    <3>1. PICK e \in Nat : Whole(b, e)
      BY <1>1 DEF TokInv
    <3>2. Len(tokText) \in Nat /\ Len(cells) \in Nat /\ Len(cells) = Len(tokText) + 1
          /\ b \in 1 .. Len(tokText) /\ e \in b .. Len(tokText)
      BY <1>1, <3>1 DEF TokInv, RunStarts, Whole
    <3> DEFINE S == {i \in b .. Len(tokText) : i = Len(tokText) \/ tokText[i + 1] \in tokSeps}
    <3>3. e \in S /\ S \in SUBSET Nat
      BY <3>1, <3>2 DEF Whole
    <3>4. ASSUME NEW k \in S PROVE e <= k
      <4> SUFFICES ASSUME k < e PROVE FALSE
        BY <3>2
      <4>1. k + 1 \in b .. e /\ k # Len(tokText)
        BY <3>2
      <4> QED BY <3>1, <3>2, <4>1 DEF Whole
    <3>5. RunEnd(b) = e
      BY <3>3, <3>4, MinIs DEF RunEnd
    <3>6. \A i \in b .. e : cells[i] = tokText[i]
      BY <3>1 DEF Whole
    <3>7. SubSeq(cells, b, e) = SubSeq(tokText, b, e)
      BY <3>2, <3>6
    <3> QED BY <3>1, <3>5, <3>7 DEF Whole
  <2> QED BY <1>1, <2>1 DEF TokInv, TokensRight
<1>2. (Plain => TokInv) => TokensRight
  BY <1>1 DEF TokensRight
<1>3. (Plain => TokInv) /\ [TokNext]_tokVars => (Plain => TokInv)'
  <2>1. [TokNext]_tokVars => UNCHANGED tokText
    BY DEF TokNext, NoSeparators, FirstToken, NextToken, tokVars
  <2>2. [TokNext]_tokVars /\ Plain' => Plain
    BY <2>1 DEF Plain
  <2> QED BY <2>2, TokNext_Inv
<1> QED BY <1>2, <1>3, TokInit_Inv, PTL DEF TokSpec

-----------------------------------------------------------------------------
(* StrSplit: ina_str_split never writes behind its array of tokens, and    *)
(* cuts the text into pieces that lie in it.                               *)

(* The search and the open token stay inside the text, and what a round    *)
(* needs of the array is there before and after it.                        *)
SplitInv ==
    /\ splitText \in Seq(Nat) /\ splitSep \in Seq(Nat)
    /\ Len(tokens) \in Nat /\ tokens \in Seq(Seq(Nat))
    /\ slots \in Nat /\ slots >= 5
    /\ j \in Nat /\ start \in Nat /\ start <= j
    /\ splitState \in {"called", "loop", "done", "null", "freed", "overread"}
    /\ splitState = "overread" => Len(splitSep) > 3
    /\ splitState = "called" => tokens = <<>> /\ j = 0 /\ ~array /\ live = {}
    /\ splitState = "loop" => j <= Len(splitText) /\ splitSep # <<>>
    /\ SplitRoom /\ SplitFreed

LEMMA PieceInText ==
  ASSUME NEW s \in Seq(Nat), NEW a \in Nat, NEW b \in Nat, b <= Len(s)
  PROVE  SubSeq(s, a + 1, b) \in Seq(Nat)
<1>1. \A i \in a + 1 .. b : i \in 1 .. Len(s)
  OBVIOUS
<1> QED BY <1>1

LEMMA AddTokenType ==
  ASSUME SplitInv, NEW to \in Nat, to <= Len(splitText), AddToken(start, to)
  PROVE  tokens' \in Seq(Seq(Nat)) /\ Len(tokens') = Len(tokens) + 1
<1>1. SubSeq(splitText, start + 1, to) \in Seq(Nat)
  BY PieceInText DEF SplitInv
<1> QED BY <1>1 DEF AddToken, SplitInv

LEMMA SplitInit_Inv == SplitInit => SplitInv
<1>1. SUFFICES ASSUME NEW text \in SplitTexts, NEW sep \in Separators, SplitStart(text, sep)
               PROVE  SplitInv
  BY DEF SplitInit
<1>2. text \in Seq(Nat) /\ sep \in Seq(Nat)
  BY SplitAssumption
<1> QED BY <1>1, <1>2 DEF SplitStart, SplitInv, SplitRoom, SplitFreed, LeftOver

LEMMA SplitNext_Inv == SplitInv /\ [SplitNext]_splitVars => SplitInv'
<1>1. SUFFICES ASSUME SplitInv, [SplitNext]_splitVars PROVE SplitInv'
  OBVIOUS
<1>2. Len(splitText) \in Nat /\ Len(splitSep) \in Nat /\ Len(tokens) \in Nat
  BY <1>1 DEF SplitInv
<1>3. CASE NothingToSplit
  BY <1>1, <1>3 DEF NothingToSplit, SplitInv, SplitRoom, SplitFreed, LeftOver
<1>4. CASE AllocateArray
  BY <1>1, <1>2, <1>4 DEF AllocateArray, SplitInv, SplitRoom, SplitFreed, LeftOver
<1>5. CASE Fail
  BY <1>1, <1>5 DEF Fail, SplitInv, SplitRoom, SplitFreed, LeftOver
<1>6. CASE Grow
  <2>1. CASE slots' = 2 * slots
             /\ UNCHANGED <<splitText, splitSep, tokens, j, start, count, array, live, splitState>>
    <3>1. slots' \in Nat /\ slots' >= slots
      BY <1>1, <2>1 DEF SplitInv
    <3>2. SplitRoom' /\ SplitFreed'
      BY <1>1, <1>2, <2>1, <3>1 DEF SplitInv, SplitRoom, SplitFreed, LeftOver
    <3> QED BY <1>1, <2>1, <3>1, <3>2 DEF SplitInv
  <2> QED BY <1>5, <1>6, <2>1 DEF Grow
<1>7. CASE Cut
  <2>1. CASE /\ AddToken(start, j)
             /\ start' = j + Len(splitSep) /\ j' = j + Len(splitSep)
             /\ UNCHANGED <<splitText, splitSep, slots, count, array, splitState>>
    <3>1. j + Len(splitSep) <= Len(splitText) /\ splitState = "loop" /\ ~Cramped
      BY <1>7 DEF Cut, Searching, SeparatorAt
    <3>2. tokens' \in Seq(Seq(Nat)) /\ Len(tokens') = Len(tokens) + 1
      BY <1>1, <1>2, <2>1, <3>1, AddTokenType DEF SplitInv
    <3> QED BY <1>1, <1>2, <2>1, <3>1, <3>2 DEF SplitInv, SplitRoom, SplitFreed, LeftOver, Cramped
  <2> QED BY <1>5, <1>7, <2>1 DEF Cut
<1>8. CASE Step
  <2>1. /\ splitState = "loop" /\ j < Len(splitText) - 1
        /\ UNCHANGED <<splitText, splitSep, tokens, slots, start, count, array, live>>
        /\ \/ j' = j + 1 /\ splitState' = "loop"
           \/ /\ j' = j /\ splitState' = "overread"
              /\ j + Len(splitSep) > Len(splitText) + 1
    BY <1>8 DEF Step, Searching
  <2>2. CASE j' = j + 1 /\ splitState' = "loop"
    BY <1>1, <1>2, <2>1, <2>2 DEF SplitInv, SplitRoom, SplitFreed, LeftOver
  <2>3. CASE j' = j /\ splitState' = "overread" /\ j + Len(splitSep) > Len(splitText) + 1
    <3>1. Len(splitSep) > 3
      BY <1>1, <1>2, <2>1, <2>3 DEF SplitInv
    <3>2. SplitRoom' /\ SplitFreed'
      BY <2>3 DEF SplitRoom, SplitFreed
    <3> QED BY <1>1, <2>1, <2>3, <3>1, <3>2 DEF SplitInv
  <2> QED BY <2>1, <2>2, <2>3
<1>9. CASE LastToken
  <2>1. CASE /\ AddToken(start, Len(splitText))
             /\ splitState' = "done"
             /\ UNCHANGED <<splitText, splitSep, slots, j, start, array>>
    <3>1. tokens' \in Seq(Seq(Nat)) /\ Len(tokens') = Len(tokens) + 1
      BY <1>1, <1>2, <2>1, AddTokenType
    <3>2. Len(tokens) + 2 <= slots
      BY <1>1, <1>9 DEF LastToken, SplitInv, SplitRoom, SplitFreed, LeftOver
    <3> QED BY <1>1, <1>2, <2>1, <3>1, <3>2 DEF SplitInv, SplitRoom, SplitFreed, LeftOver
  <2> QED BY <1>5, <1>9, <2>1 DEF LastToken
<1>10. CASE FreeTokens
  BY <1>1, <1>10 DEF FreeTokens, SplitInv, SplitRoom, SplitFreed, LeftOver
<1>11. CASE UNCHANGED splitVars
  BY <1>1, <1>11 DEF splitVars, SplitInv, SplitRoom, SplitFreed, LeftOver
<1> QED BY <1>1, <1>3, <1>4, <1>6, <1>7, <1>8, <1>9, <1>10, <1>11 DEF SplitNext

(* For every text, every separator and every allocation that fails, the    *)
(* tokens and the NULL behind them have slots of the array.                *)
THEOREM SplitNeverOverflows == SplitSpec => []SplitRoom
<1>1. SplitInv => SplitRoom
  BY DEF SplitInv
<1> QED BY SplitInit_Inv, SplitNext_Inv, <1>1, PTL DEF SplitSpec

(* Whichever allocation fails, and after split_free_tokens, only tokens    *)
(* whose capacity has a bit of the mark are left.                          *)
THEOREM SplitGivesBack == SplitSpec => []SplitFreed
<1>1. SplitInv => SplitFreed
  BY DEF SplitInv
<1> QED BY SplitInit_Inv, SplitNext_Inv, <1>1, PTL DEF SplitSpec

-----------------------------------------------------------------------------
(* StrSplit: the tokens joined again.  Piled gives the first i of them     *)
(* joined, for every i, as FlattenSeq builds them.                         *)
Glued(a, b) == a \o b

Piled(s, f) == [i \in 1 .. Len(s) |-> IF i = 1 THEN s[i] ELSE Glued(f[i - 1], s[i])]

LEMMA PiledIs ==
  ASSUME NEW s, Len(s) \in Nat
  PROVE  \E f : f = Piled(s, f)
<1> DEFINE Upto(n, f) == [i \in 1 .. n |-> IF i = 1 THEN s[i] ELSE Glued(f[i - 1], s[i])]
           Bad == {n \in Nat : ~\E f : f = Upto(n, f)}
<1>1. ASSUME Bad # {} PROVE FALSE
  <2>1. PICK m \in Bad : \A k \in Bad : m <= k
    BY <1>1, MinExists
  <2>2. m \in Nat /\ ~\E f : f = Upto(m, f)
    BY <2>1
  <2>3. m # 0
    <3>1. ASSUME m = 0 PROVE <<>> = Upto(m, <<>>)
      BY <3>1
    <3> QED BY <2>2, <3>1
  <2>4. m - 1 \in Nat /\ m - 1 \notin Bad
    <3> HIDE DEF Bad
    <3> QED BY <2>1, <2>2, <2>3
  <2>5. PICK f : f = Upto(m - 1, f)
    BY <2>4
  <2> DEFINE g == [i \in 1 .. m |-> IF i < m THEN f[i]
                                    ELSE IF i = 1 THEN s[i] ELSE Glued(f[i - 1], s[i])]
  <2>6. ASSUME NEW i \in 1 .. m
        PROVE  g[i] = IF i = 1 THEN s[i] ELSE Glued(g[i - 1], s[i])
    <3>1. i < m => f[i] = IF i = 1 THEN s[i] ELSE Glued(f[i - 1], s[i])
      BY <2>2, <2>5
    <3>2. i # 1 => i - 1 \in 1 .. m /\ i - 1 < m
      BY <2>2
    <3>3. i # 1 => g[i - 1] = f[i - 1]
      BY <3>2
    <3> QED BY <3>1, <3>3
  <2>7. g = Upto(m, g)
    BY <2>6
  <2> QED BY <2>2, <2>7
<1>2. Len(s) \notin Bad
  BY <1>1
<1> QED BY <1>2 DEF Piled

(* FlattenSeq, in these words.                                             *)
LEMMA FlattenIs ==
  ASSUME NEW s
  PROVE  FlattenSeq(s) = IF Len(s) = 0 THEN s ELSE (CHOOSE h : h = Piled(s, h))[Len(s)]
BY DEF FlattenSeq, Piled, Glued

(* Joining one piece more appends it.                                      *)
LEMMA FlattenMore ==
  ASSUME NEW s \in Seq(Seq(Nat)), NEW e \in Seq(Nat)
  PROVE  FlattenSeq(Append(s, e)) = Glued(FlattenSeq(s), e)
<1> DEFINE n == Len(s)
           q == Append(s, e)
           f == CHOOSE h : h = Piled(s, h)
           g == CHOOSE h : h = Piled(q, h)
<1>1. n \in Nat /\ Len(q) = n + 1 /\ q[n + 1] = e /\ \A i \in 1 .. n : q[i] = s[i]
  OBVIOUS
<1>2. f = Piled(s, f)
  BY <1>1, PiledIs
<1>3. g = Piled(q, g)
  BY <1>1, PiledIs
<1>4. FlattenSeq(q) = g[n + 1]
  <2>1. FlattenSeq(q) = IF Len(q) = 0 THEN q ELSE g[Len(q)]
    <3> HIDE DEF q
    <3> QED BY FlattenIs
  <2> HIDE DEF g, q
  <2> QED BY <1>1, <2>1
<1>5. FlattenSeq(s) = IF n = 0 THEN s ELSE f[n]
  BY FlattenIs
<1> HIDE DEF f, g, q
<1>6. \A i \in 1 .. n : f[i] = IF i = 1 THEN s[i] ELSE Glued(f[i - 1], s[i])
  BY <1>2 DEF Piled
<1>7. \A i \in 1 .. n + 1 : g[i] = IF i = 1 THEN q[i] ELSE Glued(g[i - 1], q[i])
  BY <1>1, <1>3 DEF Piled
<1> DEFINE Bad == {i \in 1 .. n : f[i] # g[i]}
<1>8. ASSUME Bad # {} PROVE FALSE
  <2>1. PICK m \in Bad : \A k \in Bad : m <= k
    <3>1. Bad \in SUBSET Nat
      OBVIOUS
    <3> HIDE DEF Bad
    <3> QED BY <1>8, <3>1, MinExists
  <2>2. m \in 1 .. n /\ m \in Nat /\ f[m] # g[m]
    BY <2>1
  <2>3. m # 1 => m - 1 \in 1 .. n /\ f[m - 1] = g[m - 1]
    <3>1. ASSUME m # 1 PROVE m - 1 \in 1 .. n /\ ~(m <= m - 1)
      BY <1>1, <2>2, <3>1
    <3> QED BY <2>1, <3>1
  <2> QED BY <1>1, <1>6, <1>7, <2>2, <2>3
<1>9. \A i \in 1 .. n : f[i] = g[i]
  BY <1>8
<1>10. CASE n = 0
  <2>1. g[1] = e
    BY <1>1, <1>7, <1>10
  <2>2. s = <<>>
    BY <1>10
  <2>3. <<>> \o e = e
    BY ConcatEmptySeq
  <2> QED BY <1>4, <1>5, <1>10, <2>1, <2>2, <2>3 DEF Glued, q
<1>11. CASE n # 0
  <2>1. n \in 1 .. n /\ n + 1 \in 1 .. n + 1 /\ n + 1 # 1 /\ n + 1 - 1 = n
    BY <1>1, <1>11
  <2>2. g[n + 1] = Glued(g[n], e)
    BY <1>1, <1>7, <2>1
  <2> QED BY <1>4, <1>5, <1>9, <1>11, <2>1, <2>2 DEF q
<1> QED BY <1>10, <1>11

-----------------------------------------------------------------------------
(* StrSplit: where the text is cut.                                        *)

(* SeparatorIn, of a text and a separator.                                 *)
Holds(s, sep) ==
    \E i \in 0 .. Len(s) - Len(sep) : SubSeq(s, i + 1, i + Len(sep)) = sep

LEMMA HoldsIs == \A s : SeparatorIn(s) <=> Holds(s, splitSep)
BY DEF SeparatorIn, Holds

(* While the loop goes on, the tokens with their separators are the text   *)
(* up to the open token, and no separator begins between there and the     *)
(* position of the search.                                                 *)
SplitCuts ==
    /\ live \subseteq Nat /\ count \in Nat \cup {-1} /\ array \in BOOLEAN
    /\ splitState \in {"called", "loop"} =>
          /\ start <= Len(splitText)
          /\ Joined = SubSeq(splitText, 1, start)
          /\ \A i \in start .. j - 1 : ~SeparatorAt(i)
          /\ \A i \in 1 .. Len(tokens) : ~Holds(tokens[i], splitSep)
    /\ splitState = "done" => SplitRight

(* Append, as a function.                                                  *)
LEMMA AppendIs ==
  ASSUME NEW S, NEW s \in Seq(S), NEW e \in S
  PROVE  Append(s, e) = [i \in 1 .. Len(s) + 1 |-> IF i = Len(s) + 1 THEN e ELSE s[i]]
<1> DEFINE a == Append(s, e)
           n == Len(s)
<1>1. a \in Seq(S) /\ n \in Nat /\ Len(a) = n + 1 /\ a[n + 1] = e /\ \A i \in 1 .. n : a[i] = s[i]
  BY AppendProperties
<1> HIDE DEF a, n
<1>2. a = [i \in 1 .. n + 1 |-> a[i]]
  BY <1>1
<1>3. \A i \in 1 .. n + 1 : a[i] = IF i = n + 1 THEN e ELSE s[i]
  BY <1>1
<1>4. a = [i \in 1 .. n + 1 |-> IF i = n + 1 THEN e ELSE s[i]]
  BY <1>2, <1>3
<1> QED BY <1>4 DEF a, n

(* One token more, and the separator behind it.                            *)
LEMMA JoinedMore ==
  ASSUME SplitInv, NEW to \in Nat, to <= Len(splitText), AddToken(start, to),
         splitSep' = splitSep
  PROVE  Joined' = Glued(Joined, Glued(SubSeq(splitText, start + 1, to), splitSep))
<1> DEFINE t == SubSeq(splitText, start + 1, to)
           s == [i \in 1 .. Len(tokens) |-> Glued(tokens[i], splitSep)]
           e == Glued(t, splitSep)
<1>1. t \in Seq(Nat) /\ splitSep \in Seq(Nat) /\ tokens \in Seq(Seq(Nat)) /\ Len(tokens) \in Nat
      /\ start \in Nat
  BY PieceInText DEF SplitInv
<1>2. e \in Seq(Nat)
  <2> HIDE DEF t
  <2> QED BY <1>1 DEF Glued
<1>3. s \in Seq(Seq(Nat)) /\ Len(s) = Len(tokens)
  <2>1. \A i \in 1 .. Len(tokens) : Glued(tokens[i], splitSep) \in Seq(Nat)
    BY <1>1 DEF Glued
  <2> QED BY <1>1, <2>1
<1>4. tokens' = Append(tokens, t)
  BY DEF AddToken
<1>5. Len(tokens') = Len(tokens) + 1 /\ tokens'[Len(tokens) + 1] = t
      /\ \A i \in 1 .. Len(tokens) : tokens'[i] = tokens[i]
  <2> HIDE DEF t
  <2> QED BY <1>1, <1>4
<1>6. [i \in 1 .. Len(tokens') |-> Glued(tokens'[i], splitSep)] = Append(s, e)
  <2> DEFINE l == [i \in 1 .. Len(tokens') |-> Glued(tokens'[i], splitSep)]
             r == Append(s, e)
  <2>1. l = [i \in 1 .. Len(tokens) + 1 |-> Glued(tokens'[i], splitSep)]
    BY <1>5
  <2>2. r = [i \in 1 .. Len(tokens) + 1 |-> IF i = Len(tokens) + 1 THEN e ELSE s[i]]
    <3>1. s \in Seq(Seq(Nat)) /\ e \in Seq(Nat) /\ Len(s) = Len(tokens) /\ Len(tokens) \in Nat
      BY <1>1, <1>2, <1>3
    <3> HIDE DEF s, e
    <3>2. Append(s, e) = [i \in 1 .. Len(s) + 1 |-> IF i = Len(s) + 1 THEN e ELSE s[i]]
      BY <3>1, AppendIs
    <3> QED BY <3>1, <3>2
  <2>3. \A i \in 1 .. Len(tokens) + 1 :
           Glued(tokens'[i], splitSep) = IF i = Len(tokens) + 1 THEN e ELSE s[i]
    <3> HIDE DEF t
    <3> QED BY <1>1, <1>5
  <2> HIDE DEF l, r, e, s
  <2>4. l = r
    BY <2>1, <2>2, <2>3
  <2> QED BY <2>4 DEF l, r
<1>7. Joined = FlattenSeq(s)
  BY DEF Joined, Glued
<1>8. Joined' = FlattenSeq([i \in 1 .. Len(tokens') |-> Glued(tokens'[i], splitSep)])
  BY DEF Joined, Glued
<1>9. FlattenSeq(Append(s, e)) = Glued(FlattenSeq(s), e)
  <2> HIDE DEF s, e
  <2> QED BY <1>2, <1>3, FlattenMore
<1> QED BY <1>6, <1>7, <1>8, <1>9

(* A piece of the text in which no separator begins holds none.            *)
LEMMA PieceHoldsNone ==
  ASSUME SplitInv, splitSep # <<>>, NEW b \in Nat, start <= b, b <= Len(splitText),
         NEW t, t = SubSeq(splitText, start + 1, b),
         NEW i \in 0 .. (b - start) - Len(splitSep),
         SubSeq(t, i + 1, i + Len(splitSep)) = splitSep
  PROVE  start + i \in start .. b - 1 /\ start + i + Len(splitSep) <= b /\ SeparatorAt(start + i)
<1> DEFINE n == Len(splitSep)
<1>1. /\ splitText \in Seq(Nat) /\ splitSep \in Seq(Nat) /\ start \in Nat
      /\ n \in Nat /\ n # 0 /\ Len(splitText) \in Nat
  BY DEF SplitInv
<1>2. i \in Nat /\ i + n <= b - start
  BY <1>1
<1>3. start + i \in start .. b - 1 /\ start + i + n <= Len(splitText) /\ start + i + n <= b
  BY <1>1, <1>2
<1>4. \A k \in 1 .. b - start : t[k] = splitText[start + k]
  BY <1>1
<1>5. SubSeq(t, i + 1, i + n) = [k \in 1 .. n |-> t[i + k]]
  <2>1. t \in Seq(Nat) /\ Len(t) = b - start
    BY <1>1
  <2> QED BY <1>1, <1>2, <2>1
<1>6. SubSeq(splitText, start + i + 1, start + i + n) = [k \in 1 .. n |-> splitText[start + i + k]]
  BY <1>1, <1>2, <1>3
<1>7. \A k \in 1 .. n : t[i + k] = splitText[start + i + k]
  <2> SUFFICES ASSUME NEW k \in 1 .. n PROVE t[i + k] = splitText[start + i + k]
    OBVIOUS
  <2>1. i + k \in 1 .. b - start /\ start + (i + k) = start + i + k
    BY <1>1, <1>2
  <2> QED BY <1>4, <2>1
<1>8. SubSeq(splitText, start + i + 1, start + i + n) = splitSep
  BY <1>5, <1>6, <1>7
<1> QED BY <1>3, <1>8 DEF SeparatorAt

(* The separator behind the token that Cut makes is the text's own.        *)
LEMMA JoinedCut ==
  ASSUME SplitInv, splitSep # <<>>, start <= Len(splitText), SeparatorAt(j),
         Joined = SubSeq(splitText, 1, start)
  PROVE  Glued(Joined, Glued(SubSeq(splitText, start + 1, j), splitSep))
            = SubSeq(splitText, 1, j + Len(splitSep))
<1> DEFINE n == Len(splitSep)
<1>1. /\ splitText \in Seq(Nat) /\ splitSep \in Seq(Nat) /\ start \in Nat /\ j \in Nat
      /\ start <= j /\ n \in Nat /\ Len(splitText) \in Nat /\ j + n <= Len(splitText)
      /\ splitSep = SubSeq(splitText, j + 1, j + n)
  BY DEF SplitInv, SeparatorAt
<1>2. /\ 1 \in 1 .. Len(splitText) + 1 /\ start \in 1 - 1 .. Len(splitText)
      /\ j \in start .. Len(splitText) /\ start + 1 \in 1 .. Len(splitText) + 1
      /\ j \in (start + 1) - 1 .. Len(splitText) /\ j + n \in j .. Len(splitText)
      /\ j + n \in start .. Len(splitText)
  BY <1>1
<1> HIDE DEF n
<1>3. SubSeq(splitText, start + 1, j) \o SubSeq(splitText, j + 1, j + n)
         = SubSeq(splitText, start + 1, j + n)
  BY <1>1, <1>2, ConcatAdjacentSubSeq
<1>4. SubSeq(splitText, 1, start) \o SubSeq(splitText, start + 1, j + n)
         = SubSeq(splitText, 1, j + n)
  BY <1>1, <1>2, ConcatAdjacentSubSeq
<1> QED BY <1>1, <1>3, <1>4 DEF Glued, n

LEMMA Reglued ==
  ASSUME NEW a \in Seq(Nat), NEW b \in Seq(Nat), NEW c \in Seq(Nat)
  PROVE  Glued(Glued(a, b), c) = Glued(a, Glued(b, c))
BY ConcatAssociative DEF Glued

(* The last token and the separator behind it.                             *)
LEMMA JoinedLast ==
  ASSUME SplitInv, start <= Len(splitText), Joined = SubSeq(splitText, 1, start)
  PROVE  Glued(Joined, Glued(SubSeq(splitText, start + 1, Len(splitText)), splitSep))
            = splitText \o splitSep
<1> DEFINE n == Len(splitText)
           a == SubSeq(splitText, 1, start)
           b == SubSeq(splitText, start + 1, n)
<1>1. /\ splitText \in Seq(Nat) /\ splitSep \in Seq(Nat) /\ start \in Nat /\ n \in Nat
      /\ 1 \in 1 .. n + 1 /\ start \in 1 - 1 .. n /\ n \in start .. n
  BY DEF SplitInv
<1>2. a \in Seq(Nat) /\ b \in Seq(Nat)
  BY <1>1, PieceInText
<1>3. a \o b = SubSeq(splitText, 1, n)
  BY <1>1, ConcatAdjacentSubSeq
<1>4. SubSeq(splitText, 1, n) = splitText
  BY <1>1
<1> HIDE DEF a, b, n
<1>5. (a \o b) \o splitSep = a \o (b \o splitSep)
  BY <1>1, <1>2, Reglued DEF Glued
<1> QED BY <1>3, <1>4, <1>5 DEF Glued, a, b, n

(* What the last token may hold of a separator.                            *)
LEMMA LastHolds ==
  ASSUME SplitInv, splitSep # <<>>, start <= Len(splitText), ~(j < Len(splitText) - 1),
         \A i \in start .. j - 1 : ~SeparatorAt(i),
         SeparatorIn(SubSeq(splitText, start + 1, Len(splitText)))
  PROVE  /\ Len(splitSep) = 1
         /\ ~SeparatorIn(Front(SubSeq(splitText, start + 1, Len(splitText))))
<1> DEFINE n == Len(splitText)
           t == SubSeq(splitText, start + 1, n)
<1>1. /\ splitText \in Seq(Nat) /\ splitSep \in Seq(Nat) /\ start \in Nat /\ n \in Nat
      /\ j \in Nat /\ Len(splitSep) \in Nat /\ Len(splitSep) # 0 /\ j >= n - 1
  BY DEF SplitInv
<1>2. Len(t) = n - start
  BY <1>1
<1>3. PICK i \in 0 .. (n - start) - Len(splitSep) :
         SubSeq(t, i + 1, i + Len(splitSep)) = splitSep
  <2> HIDE DEF t
  <2>1. SeparatorIn(t)
    BY DEF t
  <2> QED BY <1>2, <2>1 DEF SeparatorIn
<1>4. start + i \in start .. n - 1 /\ start + i + Len(splitSep) <= n /\ SeparatorAt(start + i)
  <2>1. n \in Nat /\ start <= n /\ n <= Len(splitText) /\ t = SubSeq(splitText, start + 1, n)
    BY <1>1
  <2> HIDE DEF n, t
  <2> QED BY <1>1, <1>3, <2>1, PieceHoldsNone
<1>5. start + i = n - 1 /\ Len(splitSep) = 1
  <2>1. start + i \notin start .. j - 1
    BY <1>4
  <2> QED BY <1>1, <1>3, <1>4, <2>1
<1>6. n - 1 \in Nat /\ start <= n - 1
  BY <1>1, <1>3, <1>5
<1>7. Front(t) = SubSeq(splitText, start + 1, n - 1)
  <2> DEFINE u == SubSeq(splitText, start + 1, n - 1)
  <2>1. SubSeq(t, 1, (n - start) - 1) = [k \in 1 .. (n - start) - 1 |-> t[k]]
    <3>1. t \in Seq(Nat)
      BY <1>1, PieceInText
    <3> HIDE DEF t
    <3> QED BY <1>1, <1>2, <1>6, <3>1
  <2>2. u = [k \in 1 .. (n - start) - 1 |-> splitText[start + k]]
    BY <1>1, <1>6
  <2>3. \A k \in 1 .. n - start : t[k] = splitText[start + k]
    BY <1>1
  <2>4. \A k \in 1 .. (n - start) - 1 : t[k] = splitText[start + k]
    <3> HIDE DEF t
    <3> QED BY <1>1, <1>6, <2>3
  <2>5. SubSeq(t, 1, (n - start) - 1) = u
    <3> HIDE DEF t, u
    <3> QED BY <2>1, <2>2, <2>4
  <2> QED BY <1>2, <2>5 DEF Front
<1>8. ASSUME SeparatorIn(SubSeq(splitText, start + 1, n - 1)) PROVE FALSE
  <2> DEFINE u == SubSeq(splitText, start + 1, n - 1)
  <2>1. Len(u) = (n - 1) - start
    BY <1>1, <1>6
  <2>2. PICK k \in 0 .. ((n - 1) - start) - Len(splitSep) :
           SubSeq(u, k + 1, k + Len(splitSep)) = splitSep
    <3> HIDE DEF u
    <3>1. SeparatorIn(u)
      BY <1>8 DEF u
    <3> QED BY <2>1, <3>1 DEF SeparatorIn
  <2>3. start + k \in start .. (n - 1) - 1 /\ SeparatorAt(start + k)
    <3>1. /\ n - 1 \in Nat /\ start <= n - 1 /\ n - 1 <= Len(splitText)
          /\ u = SubSeq(splitText, start + 1, n - 1)
      BY <1>1, <1>6
    <3> HIDE DEF n, u
    <3> QED BY <2>2, <3>1, PieceHoldsNone
  <2> QED BY <1>1, <2>3
<1> QED BY <1>5, <1>7, <1>8

LEMMA SplitInit_Cuts == SplitInit => SplitCuts
<1>1. SUFFICES ASSUME NEW text \in SplitTexts, NEW sep \in Separators, SplitStart(text, sep)
               PROVE  SplitCuts
  BY DEF SplitInit
<1>2. text \in Seq(Nat) /\ tokens = <<>> /\ splitText = text /\ start = 0 /\ j = 0
      /\ live = {} /\ count = -1 /\ array = FALSE /\ splitState = "called"
  BY <1>1, SplitAssumption DEF SplitStart
<1>3. Joined = <<>>
  <2> DEFINE s == [i \in 1 .. Len(tokens) |-> Glued(tokens[i], splitSep)]
  <2>1. s = <<>> /\ Len(s) = 0
    BY <1>2
  <2>2. Joined = FlattenSeq(s)
    BY DEF Joined, Glued
  <2> HIDE DEF s
  <2> QED BY <2>1, <2>2, FlattenIs
<1>4. Joined = SubSeq(splitText, 1, start)
  <2>1. SubSeq(splitText, 1, 0) = <<>>
    BY <1>2
  <2> QED BY <1>2, <1>3, <2>1
<1>5. start <= Len(splitText)
  BY <1>2
<1>6. start .. j - 1 = {} /\ 1 .. Len(tokens) = {}
  BY <1>2
<1> QED BY <1>2, <1>4, <1>5, <1>6 DEF SplitCuts

(* A step that keeps what the cuts are made of.                            *)
LEMMA SplitCuts_Same ==
  ASSUME SplitInv, SplitCuts, UNCHANGED <<splitText, splitSep, tokens, start, j>>,
         splitState' = "loop" => splitState \in {"called", "loop"},
         splitState' \notin {"called", "done"},
         live' \subseteq Nat, count' \in Nat \cup {-1}, array' \in BOOLEAN
  PROVE  SplitCuts'
<1>1. Joined' = Joined
  BY DEF Joined
<1>2. \A i \in Int : SeparatorAt(i)' <=> SeparatorAt(i)
  BY DEF SeparatorAt
<1> QED BY <1>1, <1>2 DEF SplitCuts, SplitInv

LEMMA SplitNext_Cuts == SplitInv /\ SplitInv' /\ SplitCuts /\ [SplitNext]_splitVars => SplitCuts'
<1>1. SUFFICES ASSUME SplitInv, SplitInv', SplitCuts, [SplitNext]_splitVars PROVE SplitCuts'
  OBVIOUS
<1>2. /\ splitText \in Seq(Nat) /\ splitSep \in Seq(Nat) /\ tokens \in Seq(Seq(Nat))
      /\ Len(splitText) \in Nat /\ Len(splitSep) \in Nat /\ Len(tokens) \in Nat
      /\ start \in Nat /\ j \in Nat /\ start <= j /\ slots \in Nat
  BY <1>1 DEF SplitInv
<1>3. live \subseteq Nat /\ count \in Nat \cup {-1} /\ array \in BOOLEAN
  BY <1>1 DEF SplitCuts
<1>4. CASE NothingToSplit
  BY <1>1, <1>3, <1>4, SplitCuts_Same DEF NothingToSplit
<1>5. CASE AllocateArray
  BY <1>1, <1>3, <1>5, SplitCuts_Same DEF AllocateArray
<1>6. CASE Fail
  BY <1>1, <1>3, <1>6, SplitCuts_Same DEF Fail
<1>7. CASE Grow
  BY <1>1, <1>3, <1>6, <1>7, SplitCuts_Same DEF Grow, Searching
<1>8. CASE splitState = "loop"
           /\ UNCHANGED <<splitText, splitSep, slots, array>>
           /\ \E to \in Nat : /\ to <= Len(splitText) /\ AddToken(start, to)
                              /\ \/ /\ Cut /\ to = j /\ start' = j + Len(splitSep)
                                    /\ j' = j + Len(splitSep) /\ count' = count
                                    /\ splitState' = "loop"
                                 \/ /\ LastToken /\ to = Len(splitText) /\ start' = start
                                    /\ j' = j /\ count' = Len(tokens) + 1
                                    /\ splitState' = "done"
  <2>1. /\ splitSep # <<>> /\ start <= Len(splitText)
        /\ Joined = SubSeq(splitText, 1, start)
        /\ \A i \in start .. j - 1 : ~SeparatorAt(i)
        /\ \A i \in 1 .. Len(tokens) : ~Holds(tokens[i], splitSep)
    BY <1>1, <1>8 DEF SplitCuts, SplitInv
  <2>2. PICK to \in Nat : /\ to <= Len(splitText) /\ AddToken(start, to)
                          /\ \/ /\ Cut /\ to = j /\ start' = j + Len(splitSep)
                                /\ j' = j + Len(splitSep) /\ count' = count
                                /\ splitState' = "loop"
                             \/ /\ LastToken /\ to = Len(splitText) /\ start' = start
                                /\ j' = j /\ count' = Len(tokens) + 1
                                /\ splitState' = "done"
    BY <1>8
  <2> DEFINE t == SubSeq(splitText, start + 1, to)
  <2>3. t \in Seq(Nat) /\ tokens' = Append(tokens, t)
    BY <1>2, <2>2, PieceInText DEF AddToken
  <2>4. /\ Len(tokens') = Len(tokens) + 1 /\ tokens'[Len(tokens) + 1] = t
        /\ \A i \in 1 .. Len(tokens) : tokens'[i] = tokens[i]
    <3> HIDE DEF t
    <3> QED BY <1>2, <2>3
  <2>5. live' \subseteq Nat /\ array' \in BOOLEAN
    <3>1. array' = array /\ live' = live \cup {Len(tokens) + 1}
      BY <1>8, <2>2 DEF AddToken
    <3>2. live' \subseteq Nat
      <4>1. live \subseteq Nat /\ Len(tokens) + 1 \in Nat
        BY <1>2, <1>3
      <4>2. live' = live \cup {Len(tokens) + 1}
        BY <3>1
      <4> QED BY <4>1, <4>2
    <3>3. array' \in BOOLEAN
      BY <1>3, <3>1
    <3> QED BY <3>2, <3>3
  <2>6. Joined' = Glued(Joined, Glued(t, splitSep))
    BY <1>1, <1>8, <2>2, JoinedMore
  <2>7. \A i \in 1 .. Len(tokens) : ~Holds(tokens'[i], splitSep')
    BY <1>8, <2>1, <2>4
  <2>8. tokens'[Len(tokens) + 1] = t /\ splitSep' = splitSep
    BY <1>8, <2>4
  <2>9. CASE /\ Cut /\ to = j /\ start' = j + Len(splitSep)
             /\ j' = j + Len(splitSep) /\ count' = count /\ splitState' = "loop"
    <3>1. SeparatorAt(j) /\ j + Len(splitSep) <= Len(splitText)
      BY <2>9 DEF Cut, SeparatorAt
    <3>2. Joined' = SubSeq(splitText, 1, j + Len(splitSep))
      BY <1>1, <2>1, <2>6, <2>9, <3>1, JoinedCut
    <3>3. ASSUME Holds(t, splitSep) PROVE FALSE
      <4>1. Len(t) = j - start
        BY <1>2, <2>2, <2>9
      <4>2. /\ t = SubSeq(splitText, start + 1, j) /\ j <= Len(splitText)
        BY <2>2, <2>9
      <4> HIDE DEF t
      <4>3. PICK i \in 0 .. (j - start) - Len(splitSep) :
               SubSeq(t, i + 1, i + Len(splitSep)) = splitSep
        BY <3>3, <4>1 DEF Holds
      <4>4. start + i \in start .. j - 1 /\ SeparatorAt(start + i)
        BY <1>1, <1>2, <2>1, <4>2, <4>3, PieceHoldsNone
      <4> QED BY <2>1, <4>4
    <3>4. \A i \in 1 .. Len(tokens) + 1 : ~Holds(tokens'[i], splitSep')
      <4> HIDE DEF t
      <4> QED BY <1>2, <2>7, <2>8, <3>3
    <3>5. start' .. j' - 1 = {}
      BY <1>2, <2>9
    <3> QED BY <1>2, <1>3, <1>8, <2>4, <2>5, <2>9, <3>1, <3>2, <3>4, <3>5 DEF SplitCuts
  <2>10. CASE /\ LastToken /\ to = Len(splitText) /\ start' = start
              /\ j' = j /\ count' = Len(tokens) + 1 /\ splitState' = "done"
    <3>1. ~(j < Len(splitText) - 1)
      BY <1>8, <2>10 DEF LastToken, Searching
    <3>2. Joined' = splitText \o splitSep
      BY <1>1, <2>1, <2>6, <2>10, JoinedLast
    <3>3. Holds(t, splitSep) => Len(splitSep) = 1 /\ ~Holds(Front(t), splitSep)
      BY <1>1, <2>1, <2>10, <3>1, HoldsIs, LastHolds
    <3>4. ASSUME NEW i \in 1 .. Len(tokens'), Holds(tokens'[i], splitSep')
          PROVE  /\ i = Len(tokens') /\ Len(splitSep') = 1
                 /\ ~Holds(Front(tokens'[i]), splitSep')
      <4> HIDE DEF t
      <4>1. i = Len(tokens) + 1
        <5>1. i \notin 1 .. Len(tokens)
          BY <2>7, <3>4
        <5>2. i \in 1 .. Len(tokens) + 1
          BY <2>4
        <5> QED BY <1>2, <5>1, <5>2
      <4> QED BY <2>4, <2>8, <3>3, <3>4, <4>1
    <3>5. ASSUME NEW i \in 1 .. Len(tokens'), SeparatorIn(tokens[i])'
          PROVE  /\ i = Len(tokens') /\ Len(splitSep') = 1
                 /\ ~SeparatorIn(Front(tokens[i]))'
      BY <3>4, <3>5 DEF SeparatorIn, Holds
    <3>6. SplitTypeOK'
      BY <1>1, <1>2, <2>4, <2>5, <2>10 DEF SplitTypeOK, SplitInv
    <3>7. count' = Len(tokens')
      BY <2>4, <2>10
    <3>8. SplitRight'
      BY <1>8, <2>10, <3>2, <3>5, <3>6, <3>7 DEF SplitRight
    <3>9. count' \in Nat
      BY <1>2, <2>10
    <3> QED BY <2>5, <2>10, <3>8, <3>9 DEF SplitCuts
  <2> QED BY <2>2, <2>9, <2>10
<1>9. CASE Cut
  <2>1. splitState = "loop" /\ j \in Nat /\ j <= Len(splitText)
    BY <1>1, <1>2, <1>9 DEF Cut, Searching
  <2> QED BY <1>6, <1>8, <1>9, <2>1 DEF Cut
<1>10. CASE Step /\ splitState' = "overread"
  BY <1>1, <1>3, <1>10, SplitCuts_Same DEF Step, Searching
<1>11. CASE Step /\ splitState' # "overread"
  <2>1. /\ splitState = "loop" /\ ~SeparatorAt(j) /\ j' = j + 1
        /\ UNCHANGED <<splitText, splitSep, tokens, slots, start, count, array, live, splitState>>
    BY <1>11 DEF Step, Searching
  <2>2. Joined' = Joined /\ start' <= Len(splitText')
    BY <1>1, <2>1 DEF Joined, SplitCuts
  <2>3. \A i \in start .. (j + 1) - 1 : ~SeparatorAt(i)'
    <3>1. \A i \in Int : SeparatorAt(i)' <=> SeparatorAt(i)
      BY <2>1 DEF SeparatorAt
    <3>2. \A i \in start .. (j + 1) - 1 : i \in Int /\ (i \in start .. j - 1 \/ i = j)
      BY <1>2
    <3>3. \A i \in start .. j - 1 : ~SeparatorAt(i)
      BY <1>1, <2>1 DEF SplitCuts
    <3> QED BY <2>1, <3>1, <3>2, <3>3
  <2>4. \A i \in 1 .. Len(tokens') : ~Holds(tokens'[i], splitSep')
    BY <1>1, <2>1 DEF SplitCuts
  <2> QED BY <1>1, <1>3, <2>1, <2>2, <2>3, <2>4 DEF SplitCuts
<1>12. CASE LastToken
  <2>1. splitState = "loop" /\ Len(splitText) \in Nat /\ Len(splitText) <= Len(splitText)
    BY <1>2, <1>12 DEF LastToken
  <2> QED BY <1>6, <1>8, <1>12, <2>1 DEF LastToken
<1>13. CASE FreeTokens
  BY <1>1, <1>3, <1>13, SplitCuts_Same DEF FreeTokens
<1>14. CASE UNCHANGED splitVars
  <2>1. Joined' = Joined
    BY <1>14 DEF Joined, splitVars
  <2>2. \A i \in Int : SeparatorAt(i)' <=> SeparatorAt(i)
    BY <1>14 DEF SeparatorAt, splitVars
  <2>3. SplitRight' <=> SplitRight
    BY <1>14 DEF SplitRight, SplitTypeOK, Joined, SeparatorIn, splitVars
  <2> QED BY <1>1, <1>2, <1>14, <2>1, <2>2, <2>3 DEF SplitCuts, splitVars
<1> QED BY <1>1, <1>4, <1>5, <1>7, <1>9, <1>10, <1>11, <1>12, <1>13,
           <1>14 DEF SplitNext

(* For every text and every separator, the tokens joined again are the     *)
(* text, as far as it is cut while the loop goes on and all of it at its   *)
(* end, where *count is their number; and no separator is left in a token  *)
(* but a last one of a single character at the end of the text.  The       *)
(* search reads behind the text only for separators of more than three.    *)
THEOREM SplitCutsRight == SplitSpec => []SplitRight
<1>1. SplitInv /\ SplitCuts => SplitRight
  <2>1. ASSUME SplitInv, SplitCuts PROVE SplitTypeOK
    BY <2>1 DEF SplitTypeOK, SplitInv, SplitCuts
  <2>2. ASSUME SplitInv, SplitCuts, splitState # "done" PROVE SplitRight
    BY <2>1, <2>2 DEF SplitRight, SplitInv, SplitCuts
  <2> QED BY <2>2 DEF SplitCuts
<1> QED BY SplitInit_Inv, SplitNext_Inv, SplitInit_Cuts, SplitNext_Cuts, <1>1, PTL DEF SplitSpec
=============================================================================
