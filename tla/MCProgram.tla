------------------------------ MODULE MCProgram -----------------------------
(* What a process does with src/src/lib.c, error.c and string.c, on small  *)
(* instances: its start and end, its options, its return codes, or one of  *)
(* the string functions, one of them at a time, chosen at the start, while *)
(* the others rest.                                                        *)
EXTENDS Lifecycle, Options, ErrorCode, Wildcard, StrTok, StrSplit, StrBufText

CONSTANT Jobs    \* bound: what is chosen from

VARIABLE job

progVars == <<vars, optVars, errVars>>

strVars == <<wildVars, tokVars, splitVars, bufVars>>

allVars == <<job, progVars, strVars>>

-----------------------------------------------------------------------------
(* Values of the constants.                                                *)

A == <<"a">>
B == <<"b">>

Opt(short, long, flag, dft) == [short |-> short, long |-> long, flag |-> flag, dft |-> dft]

SomeDeclarations ==
    { <<>>, <<Opt(A, B, TRUE, FALSE)>>, <<Opt(<<>>, A, FALSE, TRUE)>>,
      <<Opt(A, <<"b", "a">>, FALSE, TRUE), Opt(<<>>, B, TRUE, FALSE)>> }

Arguments ==
    { <<"b">>, <<"-", "a">>, <<"-", "-", "b">>, <<"-", "-", "b", "a", "=", "b">>,
      <<"b", "-", "a">>, <<"=", "-", "a">>, <<"-", "=">>, <<"-", "a", "b">>,
      <<"-", "-", "b", "a", "b">> }

SomeCommandLines ==
    {<<>>} \cup {<<x>> : x \in Arguments} \cup {<<x, y>> : x, y \in Arguments}

AskedNames == {A, B, <<"b", "a">>, <<"b", "b">>, <<>>}

(* NOT_ENOUGH, NOT_VALID, and a subject of the client's.                   *)
SomeErrors ==
    { [code |-> 36, neg |-> TRUE, subject |-> 14],
      [code |-> 147, neg |-> TRUE, subject |-> 2],
      [code |-> 21, neg |-> FALSE, subject |-> 1025] }

SomeVersion == [minor |-> 1, micro |-> 2]

SmallSources == {<<>>, <<65, 97>>, <<97, 0>>}
SmallTrimSets == {{65}, {97}}
Words(n, chars) == UNION {[1 .. k -> chars] : k \in 0 .. n}
SmallSplitTexts == Words(6, {44, 97})
SmallSeparators ==
    {<<>>, <<44>>, <<44, 44>>, <<44, 97>>, <<44, 97, 44>>, <<44, 97, 44, 97>>}

-----------------------------------------------------------------------------
InitAll ==
    /\ job \in Jobs
    /\ Init /\ (job # "life" => debug = CHOOSE build \in Builds : TRUE)
    /\ IF job = "options" THEN OptInit ELSE OptStart(<<>>, <<>>)
    /\ ErrInit
    /\ IF job = "wildcard" THEN WildInit ELSE WildStart(<<>>, <<>>)
    /\ IF job = "tok" THEN TokInit ELSE TokStart(<<>>, {})
    /\ IF job = "split" THEN SplitInit ELSE SplitStart(<<>>, <<>>)
    /\ BufInit

Living ==
    /\ job = "life" /\ Next
    /\ UNCHANGED <<job, optVars, errVars, strVars>>

InLibrary ==
    /\ job = "life" /\ Library
    /\ UNCHANGED <<job, optVars, errVars, strVars>>

Choosing ==
    /\ job = "options" /\ OptNext
    /\ UNCHANGED <<job, vars, errVars, strVars>>

Reporting ==
    /\ job = "errors" /\ ErrNext
    /\ UNCHANGED <<job, vars, optVars, strVars>>

Matching ==
    /\ job = "wildcard" /\ WildNext
    /\ UNCHANGED <<job, progVars, tokVars, splitVars, bufVars>>

Tokenising ==
    /\ job = "tok" /\ TokNext
    /\ UNCHANGED <<job, progVars, wildVars, splitVars, bufVars>>

Splitting ==
    /\ job = "split" /\ SplitNext
    /\ UNCHANGED <<job, progVars, wildVars, tokVars, bufVars>>

Building ==
    /\ job = "buf" /\ BufNext
    /\ UNCHANGED <<job, progVars, wildVars, tokVars, splitVars>>

NextAll ==
    \/ Living \/ Choosing \/ Reporting
    \/ Matching \/ Tokenising \/ Splitting \/ Building

(* The fairness of Lifecycle, of Options and of Wildcard, whose steps are  *)
(* those of a call that runs; the others need none.                        *)
SpecAll ==
    /\ InitAll /\ [][NextAll]_allVars
    /\ WF_allVars(InLibrary) /\ WF_allVars(Choosing) /\ WF_allVars(Matching)

(* ina_app_init returns or ends the process, unless it prints the usage.   *)
ArgumentsEnd == job = "options" => StartEnds

(* ina_str_wildcard_match returns: coming back to a bookmark never goes    *)
(* round in circles.                                                       *)
MatchingEnds == job = "wildcard" => WildEnds
=============================================================================
