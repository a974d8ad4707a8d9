------------------------------- MODULE StrTok -------------------------------
(***************************************************************************)
(* ina_str_tok (src/src/string.c) under the loop its callers run: a first  *)
(* call with the buffer, then calls with NULL until NULL comes back.  A    *)
(* token is a place in the caller's buffer, terminated by overwriting the  *)
(* separator behind it.                                                    *)
(*                                                                         *)
(* Positions count from 1, and the terminator of the text is at            *)
(* Len(tokText) + 1.  A call that reads behind it ends in "overread".      *)
(***************************************************************************)
EXTENDS StrHeader

CONSTANTS
    Chars,      \* the characters
    MaxText     \* bound: the length of the text

SignBit == 128

ASSUME TokAssumption == Chars \subseteq Nat \ {Terminator} /\ MaxText \in Nat

VARIABLES
    tokText,    \* the text before the first call
    tokSeps,    \* the characters of sep
    cells,      \* the buffer, with its terminator
    nextTok,    \* *next, 0 for NULL
    given,      \* where the tokens returned so far begin
    tokState    \* "new", "going", "ended" after NULL, or "overread"

tokVars == <<tokText, tokSeps, cells, nextTok, given, tokState>>

TokStart(text, seps) ==
    /\ tokText = text /\ tokSeps = seps
    /\ cells = Append(text, Terminator)
    /\ nextTok = 0 /\ given = <<>>
    /\ tokState = "new"

NoSeparators ==
    /\ tokState = "new" /\ tokSeps = {}
    /\ tokState' = "ended"
    /\ UNCHANGED <<tokText, tokSeps, cells, nextTok, given>>

(* Mutant: *next stays at the character that was overwritten.              *)
TokenAtSeparator(b, e) ==
    /\ given' = Append(given, b)
    /\ cells' = [cells EXCEPT ![e] = Terminator]
    /\ nextTok' = e
    /\ tokState' = "going"

(* The token from b on, whose separator or terminator is at e.             *)
Token(b, e) ==
    /\ given' = Append(given, b)
    /\ cells' = [cells EXCEPT ![e] = Terminator]
    /\ nextTok' = e + 1
    /\ tokState' = "going"

NoToken ==
    /\ nextTok' = 0
    /\ tokState' = "ended"
    /\ UNCHANGED <<cells, given>>

(* What the map of separators says of the positions from q on.  It is      *)
(* asked with a signed char: from SignBit on that is a place in front of   *)
(* the map, where anything may be.                                         *)
Dividers(q) ==
    LET places   == q .. Len(cells)
        mapped   == {i \in places : cells[i] < SignBit /\ cells[i] \in tokSeps}
        unmapped == {i \in places : cells[i] >= SignBit}
    IN  {mapped \cup odd : odd \in SUBSET unmapped}

(* The separators from q on are passed over; the text behind is a token    *)
(* up to the next of them.                                                 *)
From(q) ==
    LET end == Len(cells)
    IN  \/ q > end /\ tokState' = "overread" /\ UNCHANGED <<cells, nextTok, given>>
        \/ /\ q <= end
           /\ \E dividers \in Dividers(q) :
                 LET b     == Min((q .. end) \ dividers)
                     stops == {i \in b + 1 .. end : i \in dividers \/ cells[i] = Terminator}
                 IN  IF cells[b] = Terminator THEN NoToken ELSE Token(b, Min(stops))

FirstToken ==
    /\ tokState = "new" /\ tokSeps # {}
    /\ From(1)
    /\ UNCHANGED <<tokText, tokSeps>>

NextToken ==
    /\ tokState = "going"
    /\ From(nextTok)
    /\ UNCHANGED <<tokText, tokSeps>>

TokNext == NoSeparators \/ FirstToken \/ NextToken

Texts(n) == UNION {[1 .. k -> Chars] : k \in 0 .. n}

TokInit == \E text \in Texts(MaxText), seps \in SUBSET Chars : TokStart(text, seps)

TokSpec == TokInit /\ [][TokNext]_tokVars

-----------------------------------------------------------------------------
(* Properties.                                                             *)

(* Where the maximal runs of characters that are no separators begin, and  *)
(* where the run that begins at b ends.                                    *)
RunStarts ==
    {b \in 1 .. Len(tokText) :
        /\ tokText[b] \notin tokSeps
        /\ b = 1 \/ tokText[b - 1] \in tokSeps}

RunEnd(b) ==
    Min({e \in b .. Len(tokText) : e = Len(tokText) \/ tokText[e + 1] \in tokSeps})

GivenStarts == {given[i] : i \in 1 .. Len(given)}

(* Of other texts the map may say one thing to one call and another to the *)
(* next.                                                                   *)
Plain == \A i \in 1 .. Len(tokText) : tokText[i] < SignBit

(* The tokens of a plain text are its runs, in order and none left out,    *)
(* and each stays the C string it was while later calls overwrite          *)
(* separators (the token is not a copy).  Only a text that does not end in *)
(* a separator is read beyond its terminator, and only after its last      *)
(* token.                                                                  *)
TokensRight ==
    Plain =>
        /\ \A i, k \in 1 .. Len(given) : i < k => given[i] < given[k]
        /\ GivenStarts \subseteq RunStarts
        /\ \A b \in GivenStarts, r \in RunStarts : r < b => r \in GivenStarts
        /\ \A b \in GivenStarts :
              /\ SubSeq(cells, b, RunEnd(b)) = SubSeq(tokText, b, RunEnd(b))
              /\ cells[RunEnd(b) + 1] = Terminator
        /\ tokState \in {"ended", "overread"} /\ tokSeps # {} => GivenStarts = RunStarts
        /\ tokState = "overread" => tokText[Len(tokText)] \notin tokSeps
=============================================================================
