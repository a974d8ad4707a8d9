------------------------------ MODULE Wildcard -------------------------------
(***************************************************************************)
(* ina_str_wildcard_match (src/src/string.c): one pass over a tame string  *)
(* and a pattern with two bookmarks to come back to.  A step is one round  *)
(* of its loop; the loops inside a round are the positions they stop at.   *)
(*                                                                         *)
(* Positions count from 1, and the terminator is at Len(s) + 1.  What is   *)
(* behind the terminator of the tame string is not the string's: a round   *)
(* that reads it ends the run with "overread".                             *)
(***************************************************************************)
EXTENDS Naturals, Sequences, FiniteSetsExt

CONSTANTS
    Letters,     \* the characters of strings; of patterns, with "*" and "?"
    MaxTame,     \* bound: the length of the tame string
    MaxWild      \* bound: the length of the pattern

NUL == "NUL"

ASSUME WildcardAssumption ==
    /\ NUL \notin Letters
    /\ MaxTame \in Nat /\ MaxWild \in Nat

VARIABLES
    tame,      \* the string
    wild,      \* the pattern
    p,         \* pTameText
    w,         \* pWildText
    tameMark,  \* pTameBookmark, 0 for NULL
    wildMark,  \* pWildBookmark, 0 for NULL
    verdict    \* "running", what is returned, or "overread"

wildVars == <<tame, wild, p, w, tameMark, wildMark, verdict>>

CharAt(s, i) == IF i \in 1 .. Len(s) THEN s[i] ELSE NUL

(* Where the loop that skips asterisks from position i on stops.           *)
AfterStars(i) == Min({k \in i .. Len(wild) + 1 : CharAt(wild, k) # "*"})

OnlyStars(i) == \A k \in i .. Len(wild) : wild[k] = "*"

WildStart(t, v) ==
    /\ tame = t /\ wild = v
    /\ p = 1 /\ w = 1 /\ tameMark = 0 /\ wildMark = 0
    /\ verdict = "running"

(* The rest of a round, from tame position q and pattern position n: both  *)
(* move on, and the end of the tame string decides.                        *)
Advance(q, n) ==
    /\ p' = q + 1 /\ w' = n + 1
    /\ verdict' = CASE q > Len(tame) -> "overread"
                    [] q = Len(tame) -> IF OnlyStars(n + 1) THEN "match" ELSE "differs"
                    [] OTHER -> "running"

Returns(result) == verdict' = result /\ UNCHANGED <<p, w, tameMark, wildMark>>

AtStar == verdict = "running" /\ CharAt(wild, w) = "*"

TrailingStar ==
    /\ AtStar /\ AfterStars(w) > Len(wild)
    /\ Returns("match")
    /\ UNCHANGED <<tame, wild>>

(* The next character the pattern names is searched in the tame string,    *)
(* whose terminator is noticed only after a step.                          *)
FastForward ==
    /\ AtStar /\ AfterStars(w) <= Len(wild) /\ wild[AfterStars(w)] # "?"
    /\ LET n     == AfterStars(w)
           found == {q \in p .. Len(tame) : tame[q] = wild[n]}
       IN IF found # {}
          THEN tameMark' = Min(found) /\ wildMark' = n /\ Advance(Min(found), n)
          ELSE Returns(IF p > Len(tame) THEN "overread" ELSE "differs")
    /\ UNCHANGED <<tame, wild>>

StarBeforeAny ==
    /\ AtStar /\ AfterStars(w) <= Len(wild) /\ wild[AfterStars(w)] = "?"
    /\ tameMark' = p /\ wildMark' = AfterStars(w)
    /\ Advance(p, AfterStars(w))
    /\ UNCHANGED <<tame, wild>>

Mismatch ==
    /\ verdict = "running"
    /\ CharAt(wild, w) \notin {"*", "?", CharAt(tame, p)}

AtMark == CharAt(tame, p) = CharAt(wild, wildMark)

(* Mutant: the tame bookmark stays where it is.                            *)
BackToSameMark ==
    /\ Mismatch /\ wildMark # 0 /\ w # wildMark /\ ~AtMark
    /\ w' = wildMark /\ p' = tameMark
    /\ UNCHANGED <<tame, wild, tameMark, wildMark, verdict>>

BackToMark ==
    /\ Mismatch /\ wildMark # 0 /\ w # wildMark /\ ~AtMark
    /\ w' = wildMark /\ tameMark' = tameMark + 1 /\ p' = tameMark + 1
    /\ UNCHANGED <<tame, wild, wildMark, verdict>>

(* Mutant: the pattern is not set back when a character is passed over.    *)
PassOverAnywhere ==
    /\ Mismatch /\ wildMark # 0 /\ (w = wildMark \/ AtMark) /\ p <= Len(tame)
    /\ p' = p + 1
    /\ UNCHANGED <<tame, wild, w, tameMark, wildMark, verdict>>

PassOver ==
    /\ Mismatch /\ wildMark # 0 /\ (w = wildMark \/ AtMark) /\ p <= Len(tame)
    /\ p' = p + 1
    /\ w' = IF w = wildMark THEN w ELSE wildMark + 1
    /\ UNCHANGED <<tame, wild, tameMark, wildMark, verdict>>

GiveUp ==
    /\ Mismatch
    /\ wildMark = 0 \/ ((w = wildMark \/ AtMark) /\ p > Len(tame))
    /\ Returns("differs")
    /\ UNCHANGED <<tame, wild>>

(* Also when both are at their terminators.                                *)
SameCharacter ==
    /\ verdict = "running" /\ ~AtStar /\ ~Mismatch
    /\ Advance(p, w)
    /\ UNCHANGED <<tame, wild, tameMark, wildMark>>

WildNext ==
    \/ TrailingStar \/ FastForward \/ StarBeforeAny
    \/ BackToMark \/ PassOver \/ GiveUp \/ SameCharacter

Tames == UNION {[1 .. n -> Letters] : n \in 0 .. MaxTame}
Wilds == UNION {[1 .. n -> Letters \cup {"*", "?"}] : n \in 0 .. MaxWild}

WildInit == \E t \in Tames, v \in Wilds : WildStart(t, v)

WildSpec == WildInit /\ [][WildNext]_wildVars /\ WF_wildVars(WildNext)

-----------------------------------------------------------------------------
(* What the pattern means (string.h: "? = matches a single character",     *)
(* "* = matches any number of characters").                                *)

(* f gives for each position of the pattern v the position of the string t *)
(* it starts at: an asterisk takes any number of characters, others one.   *)
Fits(t, v, f, j) ==
    IF v[j] = "*" THEN f[j] <= f[j + 1]
    ELSE f[j + 1] = f[j] + 1 /\ v[j] \in {"?", CharAt(t, f[j])}

(* The first n - 1 characters of the pattern match the first q - 1 of the  *)
(* string.                                                                 *)
PrefixMatches(t, v, q, n) ==
    \E f \in [1 .. n -> 1 .. q] :
        f[1] = 1 /\ f[n] = q /\ \A j \in 1 .. n - 1 : Fits(t, v, f, j)

Matches == PrefixMatches(tame, wild, Len(tame) + 1, Len(wild) + 1)

-----------------------------------------------------------------------------
(* Properties.                                                             *)

WildTypeOK ==
    /\ tame \in Seq(Letters) /\ wild \in Seq(Letters \cup {"*", "?"})
    /\ p \in 1 .. Len(tame) + 2 /\ w \in 1 .. Len(wild) + 2
    /\ tameMark \in 0 .. Len(tame) + 1 /\ wildMark \in 0 .. Len(wild)
    /\ verdict \in {"running", "match", "differs", "overread"}

(* The verdict "match" is never wrong, whatever the bookmarks have made of *)
(* the pass.                                                               *)
NoFalseMatch == verdict = "match" => Matches

(* Patterns and strings for which one bookmark is enough: the asterisks    *)
(* are at the end, or no two characters of the string are the same and     *)
(* none is a question mark, which a bookmark at one takes for its own:     *)
(* "a?" with "*?" is read beyond its end.                                  *)
Simple ==
    \/ \A i \in 1 .. Len(wild) : wild[i] = "*" => OnlyStars(i)
    \/ /\ \A i, k \in 1 .. Len(tame) : i # k => tame[i] # tame[k]
       /\ \A i \in 1 .. Len(tame) : tame[i] # "?"

(* For these, a match is found and nothing behind the string is read       *)
(* (unless it is empty: the end is only looked for after a step).          *)
FindsMatch ==
    Len(tame) > 0 /\ Simple =>
        verdict # "overread" /\ (verdict = "differs" => ~Matches)

WildRight == NoFalseMatch /\ FindsMatch

(* What string.h says, for every string and pattern.                       *)
WildMatches == verdict = "differs" => ~Matches

(* The loop ends: coming back to a bookmark never goes round in circles.   *)
WildEnds == <>(verdict # "running")
=============================================================================
