------------------------------ MODULE StrSplit ------------------------------
(***************************************************************************)
(* ina_str_split and ina_str_split_free_tokens (src/src/string.c): one     *)
(* call of split, a step per round of its loop, any allocation of which    *)
(* may fail, and the call that frees what it returned.                     *)
(*                                                                         *)
(* j and start are offsets as in the code, from 0 on.                      *)
(***************************************************************************)
EXTENDS StrHeader, SequencesExt

CONSTANTS
    SplitTexts,   \* bound: the texts to split
    Separators    \* bound: the separators

ASSUME SplitAssumption == SplitTexts \subseteq Seq(Nat) /\ Separators \subseteq Seq(Nat)

VARIABLES
    splitText, splitSep,   \* str and sep
    tokens,     \* what the slots of the array hold, the first of them in use
    slots,      \* the number of slots of the array
    j, start,   \* the position of the search, and where the open token begins
    count,      \* what *count is left with, -1 while it is not written
    array,      \* whether the array is allocated
    live,       \* the slots whose token is allocated
    splitState  \* "called", "loop", "done", "null" when it returned NULL, "freed";
                \* "overread" when memcmp has read behind the terminator

splitVars ==
    <<splitText, splitSep, tokens, slots, j, start, count, array, live, splitState>>

SplitStart(text, sep) ==
    /\ splitText = text /\ splitSep = sep
    /\ tokens = <<>> /\ slots = 5
    /\ j = 0 /\ start = 0
    /\ count = -1
    /\ array = FALSE /\ live = {}
    /\ splitState = "called"

NothingToSplit ==
    /\ splitState = "called" /\ (splitText = <<>> \/ splitSep = <<>>)
    /\ count' = 0
    /\ splitState' = "null"
    /\ UNCHANGED <<splitText, splitSep, tokens, slots, j, start, array, live>>

(* A first failure leaves *count as it was.                                *)
AllocateArray ==
    /\ splitState = "called" /\ splitText # <<>> /\ splitSep # <<>>
    /\ \/ array' = TRUE /\ splitState' = "loop"
       \/ array' = FALSE /\ splitState' = "null"
    /\ UNCHANGED <<splitText, splitSep, tokens, slots, j, start, count, live>>

Searching == splitState = "loop" /\ j < Len(splitText) - 1

(* Mutant: the terminator is not counted.                                  *)
CrampedByOne == slots < Len(tokens) + 2

(* Room for the next token, the last one and the terminator.               *)
Cramped == slots < Len(tokens) + 3

(* What the free of a token leaves: ina_str_free takes a capacity with a   *)
(* bit of the mark for a pooled string.                                    *)
LeftOver(slot) == Pooled(Len(tokens[slot]) + 1)

(* Mutant: the tokens made so far are left alone.                          *)
FailKeepsTokens ==
    /\ array' = FALSE /\ count' = 0
    /\ splitState' = "null"
    /\ UNCHANGED <<splitText, splitSep, tokens, slots, j, start, live>>

Fail ==
    /\ live' = {slot \in live : LeftOver(slot)}
    /\ array' = FALSE /\ count' = 0
    /\ splitState' = "null"
    /\ UNCHANGED <<splitText, splitSep, tokens, slots, j, start>>

Grow ==
    /\ Searching /\ Cramped
    /\ \/ /\ slots' = 2 * slots
          /\ UNCHANGED <<splitText, splitSep, tokens, j, start, count, array, live, splitState>>
       \/ Fail

(* The separator is at offset i.                                           *)
SeparatorAt(i) ==
    /\ i + Len(splitSep) <= Len(splitText)
    /\ SubSeq(splitText, i + 1, i + Len(splitSep)) = splitSep

(* tokens[elements] = the text from offset from on, up to offset to.       *)
AddToken(from, to) ==
    /\ tokens' = Append(tokens, SubSeq(splitText, from + 1, to))
    /\ live' = live \cup {Len(tokens) + 1}

(* Mutant: only the start of the separator is passed over.                 *)
CutOneCharacter ==
    /\ Searching /\ ~Cramped /\ SeparatorAt(j)
    /\ \/ /\ AddToken(start, j)
          /\ start' = j + 1 /\ j' = j + 1
          /\ UNCHANGED <<splitText, splitSep, slots, count, array, splitState>>
       \/ Fail

(* The separator and the j++ of the loop are passed over.                  *)
Cut ==
    /\ Searching /\ ~Cramped /\ SeparatorAt(j)
    /\ \/ /\ AddToken(start, j)
          /\ start' = j + Len(splitSep) /\ j' = j + Len(splitSep)
          /\ UNCHANGED <<splitText, splitSep, slots, count, array, splitState>>
       \/ Fail

(* memcmp is asked for all characters of the separator, and may look at    *)
(* those behind a difference.                                              *)
Step ==
    /\ Searching /\ ~Cramped /\ ~SeparatorAt(j)
    /\ \/ j' = j + 1 /\ UNCHANGED splitState
       \/ /\ j + Len(splitSep) > Len(splitText) + 1
          /\ splitState' = "overread" /\ UNCHANGED j
    /\ UNCHANGED <<splitText, splitSep, tokens, slots, start, count, array, live>>

LastToken ==
    /\ splitState = "loop" /\ ~Searching
    /\ \/ /\ AddToken(start, Len(splitText))
          /\ count' = Len(tokens) + 1
          /\ splitState' = "done"
          /\ UNCHANGED <<splitText, splitSep, slots, j, start, array>>
       \/ Fail

FreeTokens ==
    /\ splitState = "done"
    /\ live' = {slot \in live : LeftOver(slot)}
    /\ array' = FALSE
    /\ splitState' = "freed"
    /\ UNCHANGED <<splitText, splitSep, tokens, slots, j, start, count>>

SplitNext ==
    NothingToSplit \/ AllocateArray \/ Grow \/ Cut \/ Step \/ LastToken \/ FreeTokens

SplitInit == \E text \in SplitTexts, sep \in Separators : SplitStart(text, sep)

SplitSpec == SplitInit /\ [][SplitNext]_splitVars

-----------------------------------------------------------------------------
(* Properties.                                                             *)

SplitTypeOK ==
    /\ splitText \in Seq(Nat) /\ splitSep \in Seq(Nat)
    /\ tokens \in Seq(Seq(Nat))
    /\ slots \in Nat /\ j \in Nat /\ start \in Nat
    /\ count \in Nat \cup {-1}
    /\ array \in BOOLEAN /\ live \subseteq Nat
    /\ splitState \in {"called", "loop", "done", "null", "freed", "overread"}

(* The tokens and the NULL behind them fit in the array: when the loop     *)
(* ends there is room for two more without another look at the slots.      *)
SplitRoom ==
    /\ splitState = "loop" => Len(tokens) + 2 <= slots
    /\ splitState \in {"done", "freed"} => Len(tokens) + 1 <= slots

(* The text a token and the separator behind it were cut from.             *)
Joined == FlattenSeq([i \in 1 .. Len(tokens) |-> tokens[i] \o splitSep])

SeparatorIn(s) ==
    \E i \in 0 .. Len(s) - Len(splitSep) :
        SubSeq(s, i + 1, i + Len(splitSep)) = splitSep

(* Joined again with the separator the tokens are the text, and none holds *)
(* a separator, but for the last, which keeps one of a single character    *)
(* that ends the text: the loop stops a character short.  For the same     *)
(* reason separators of up to three characters are never looked for behind *)
(* the terminator.                                                         *)
SplitRight ==
    /\ SplitTypeOK
    /\ splitState = "overread" => Len(splitSep) > 3
    /\ splitState = "loop" => Joined = SubSeq(splitText, 1, start)
    /\ splitState = "done" =>
          /\ count = Len(tokens) /\ Joined = splitText \o splitSep
          /\ \A i \in 1 .. Len(tokens) : SeparatorIn(tokens[i]) =>
                /\ i = Len(tokens) /\ Len(splitSep) = 1
                /\ ~SeparatorIn(Front(tokens[i]))

(* A call that returned NULL has nothing left, whichever allocation        *)
(* failed, nor has a caller after split_free_tokens, except tokens whose   *)
(* capacity looks like that of a pooled string.                            *)
SplitFreed ==
    splitState \in {"null", "freed"} =>
        ~array /\ \A slot \in live : LeftOver(slot)
=============================================================================
