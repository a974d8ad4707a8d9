------------------------------ MODULE StrText -------------------------------
(***************************************************************************)
(* The text of a string on the heap, without capacity, length, terminator  *)
(* and memory: what each call may do to it.  This is what string.h says of *)
(* the calls, except of those that print.  string.h:681-684 has "output    *)
(* characters beyond the n-1st are discarded rather than being written to  *)
(* str" (also at 656-658); the calls keep all of them, and so does         *)
(* PrintWhole.                                                             *)
(***************************************************************************)
EXTENDS Integers, Sequences, FiniteSetsExt

CONSTANTS Sources, TrimSets, NoText

VARIABLE text

Init == text = NoText

Holds == text # NoText

Create == ~Holds /\ text' \in Sources \cup {<<>>}

(* The string is freed, or its text is lost to a print or to a growth that *)
(* finds no memory, or to one whose capacity is misread.                   *)
Drop == Holds /\ text' = NoText

Copy == Holds /\ text' \in Sources

(* Any of the texts, whole, whatever the limit of the call.  A string that *)
(* lives elsewhere may come to the heap by it.                             *)
PrintWhole == text' \in Sources

Concat == Holds /\ \E t \in Sources : text' = text \o t

Truncate == Holds /\ \E n \in 0 .. Len(text) : text' = SubSeq(text, 1, n)

(* Only what is trimmed is taken away, on both sides, and all of it.       *)
Trim ==
    /\ Holds
    /\ \E chars \in TrimSets, from \in 1 .. Len(text) + 1, to \in 0 .. Len(text) :
          LET out == chars \cup {0}
          IN  /\ text' = SubSeq(text, from, to)
              /\ \A i \in (1 .. from - 1) \cup (to + 1 .. Len(text)) : text[i] \in out
              /\ from <= to => text[from] \notin out /\ text[to] \notin out
              /\ from > to => \A i \in 1 .. Len(text) : text[i] \in out

(* Letters change their case, and other bytes of their blocks with them.   *)
Recase ==
    /\ Holds
    /\ \E upper \in BOOLEAN, n \in 0 .. Len(text) :
          /\ n < Len(text) => text[n + 1] = 0
          /\ text' = [i \in 1 .. Len(text) |->
                IF i > n THEN text[i]
                ELSE IF upper /\ text[i] \in 96 .. 127 THEN text[i] - 32
                ELSE IF ~upper /\ text[i] \in 64 .. 95 THEN text[i] + 32
                ELSE text[i]]

Next == Create \/ Drop \/ Copy \/ PrintWhole \/ Concat \/ Truncate \/ Trim \/ Recase

Spec == Init /\ [][Next]_text
=============================================================================
