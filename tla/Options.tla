------------------------------ MODULE Options -------------------------------
(***************************************************************************)
(* The command line options of src/src/lib.c: what ina_app_init builds of  *)
(* the declared options, how it reads the arguments, the lookups of the    *)
(* client, and what ina_exit frees.                                        *)
(*                                                                         *)
(* A name is a sequence of letters, an argument one of letters, "-" and    *)
(* "=".  Offsets count from 0 as in the code: offset i is arg[i + 1].      *)
(* Entry i is made of declared option i: a record in the list of short     *)
(* options, unless its short name is empty, and one in the list of long    *)
(* options.  A fault is a signal whose handler calls exit and with it      *)
(* ina_exit; a fault in there ends the process.                            *)
(***************************************************************************)
EXTENDS Integers, Sequences, FiniteSets

CONSTANTS
    Declarations,   \* bound: the options a client declares
    CommandLines,   \* bound: the arguments
    Names,          \* bound: the names a client asks for
    BufSize,        \* the bytes of the buffer for a name (100)
    FreedMemory     \* what is found in freed memory: "kept", "lost"

ASSUME OptionsAssumption ==
    /\ Declarations \subseteq Seq([short : Seq(STRING), long : Seq(STRING), flag : BOOLEAN,
                                   dft : BOOLEAN])
    /\ CommandLines \subseteq Seq(Seq(STRING))
    /\ BufSize \in Nat /\ FreedMemory \subseteq {"kept", "lost"}

VARIABLES
    declared,   \* opt
    args,       \* argv from 1 on
    made,       \* the lists that are not NULL
    shorts,     \* __sopt: the entries in it
    longs,      \* __lopt
    nameless,   \* the entries whose long name found no memory
    argn,       \* the argument that is looked at
    stage,      \* where the program is
    handling,   \* whether the handler of a fault calls exit
    freed,      \* the records that were freed
    answer      \* what the last lookup told the client

optVars == <<declared, args, made, shorts, longs, nameless, argn, stage, handling, freed, answer>>

None == [of |-> <<>>, rc |-> "none"]

OptStart(declaration, line) ==
    /\ declared = declaration /\ args = line
    /\ made = {} /\ shorts = <<>> /\ longs = <<>> /\ nameless = {}
    /\ argn = 1 /\ stage = "lists" /\ handling = FALSE
    /\ freed = {} /\ answer = None

OptInit == \E d \in Declarations, a \in CommandLines : OptStart(d, a)

(* The first fault is handled, the second is not.                          *)
Fault ==
    /\ stage' = IF handling THEN "dead" ELSE "freeing short"
    /\ handling' = TRUE

Elements(list) == {list[i] : i \in 1 .. Len(list)}

-----------------------------------------------------------------------------
(* Making the lists: a list that is not made aborts the program.           *)

Make(list, next) ==
    /\ \/ made' = made \cup {list} /\ stage' = next /\ UNCHANGED handling
       \/ Fault /\ UNCHANGED made
    /\ UNCHANGED <<declared, args, shorts, longs, nameless, argn, freed, answer>>

MakeShorts == stage = "lists" /\ made = {} /\ Make("short", "lists")

MakeLongs == stage = "lists" /\ made # {} /\ Make("long", "registering")

(* The entry that is made next.                                            *)
Entry == Len(longs) + 1

WithShort(i) ==
    IF declared[i].short = <<>> THEN shorts ELSE Append(shorts, i)

(* A record that finds no memory is set to zero before it is looked at,    *)
(* and a short name that finds none is measured; a long name that finds    *)
(* none is missed only by a lookup.                                        *)
Register ==
    /\ stage = "registering" /\ Entry <= Len(declared)
    /\ \/ /\ shorts' = WithShort(Entry) /\ longs' = Append(longs, Entry)
          /\ nameless' \in {nameless, nameless \cup {Entry}}
          /\ UNCHANGED <<stage, handling>>
       \/ /\ shorts' \in {shorts, WithShort(Entry)}
          /\ Fault
          /\ UNCHANGED <<longs, nameless>>
    /\ UNCHANGED <<declared, args, made, argn, freed, answer>>

Registered ==
    /\ stage = "registering" /\ Entry > Len(declared)
    /\ stage' = "parsing"
    /\ UNCHANGED <<declared, args, made, shorts, longs, nameless, argn, handling, freed, answer>>

-----------------------------------------------------------------------------
(* Lookup.                                                                 *)

(* The entries a search for a name stops at: strcmp of a name without      *)
(* memory is a fault.                                                      *)
ShortHits(name) == {i \in Elements(shorts) : declared[i].short = name}
LongHits(name) == {i \in Elements(longs) : i \in nameless \/ declared[i].long = name}

(* Mutant: long names are not looked for.                                  *)
KnownShort(name) == ShortHits(name) # {}

(* ina_list_find returns success without having set the node, which is     *)
(* NULL, and which __ina_opt_get then follows: every hit is a fault.       *)
Known(name) == ShortHits(name) # {} \/ LongHits(name) # {}

-----------------------------------------------------------------------------
(* The arguments.                                                          *)

(* The offset of the first "=", or of the end.                             *)
EqualsAt(arg) ==
    CHOOSE e \in 0 .. Len(arg) :
        /\ e = Len(arg) \/ arg[e + 1] = "="
        /\ \A i \in 0 .. e - 1 : arg[i + 1] # "="

(* A name starts behind the first "-" before it, wherever that is, ...     *)
Dashes(arg) == {i \in 0 .. EqualsAt(arg) - 1 : arg[i + 1] = "-"}

(* ... or behind the second of two.                                        *)
NameOf(arg) ==
    LET d == CHOOSE i \in Dashes(arg) : \A k \in Dashes(arg) : i <= k
        s == IF d + 1 \in Dashes(arg) THEN d + 2 ELSE d + 1
    IN  SubSeq(arg, s + 1, EqualsAt(arg))

Parsing == stage = "parsing" /\ argn <= Len(args)

(* Mutant: the argument is looked at again.                                *)
SkipNothing ==
    /\ Parsing /\ Dashes(args[argn]) = {}
    /\ UNCHANGED optVars

SkipArgument ==
    /\ Parsing /\ Dashes(args[argn]) = {}
    /\ argn' = argn + 1
    /\ UNCHANGED <<declared, args, made, shorts, longs, nameless, stage, handling, freed, answer>>

(* The name is copied to the buffer before anything is known of it.        *)
TakeOption ==
    /\ Parsing /\ Dashes(args[argn]) # {}
    /\ LET name == NameOf(args[argn])
       IN  \/ /\ Len(name) >= BufSize
              /\ stage' = "overflow" /\ UNCHANGED handling
           \/ /\ Len(name) < BufSize /\ Known(name)
              /\ Fault
           \/ /\ Len(name) < BufSize /\ ~Known(name)
              /\ stage' = "usage" /\ UNCHANGED handling
    /\ UNCHANGED <<declared, args, made, shorts, longs, nameless, argn, freed, answer>>

(* The second loop of __ina_opt_usage prints the first entry for ever;     *)
(* without entries it follows the NULL behind the list.                    *)
PrintUsage ==
    /\ stage = "usage"
    /\ \/ longs # <<>> /\ UNCHANGED <<stage, handling>>
       \/ longs = <<>> /\ Fault
    /\ UNCHANGED <<declared, args, made, shorts, longs, nameless, argn, freed, answer>>

(* __ina_check_options complains of options without a value, but returns   *)
(* success for each: the arguments are accepted whatever it finds.         *)
AcceptArguments ==
    /\ stage = "parsing" /\ argn > Len(args)
    /\ stage' = "ready"
    /\ UNCHANGED <<declared, args, made, shorts, longs, nameless, argn, handling, freed, answer>>

-----------------------------------------------------------------------------
(* What the client does then.                                              *)

(* ina_opt_isset, get_string, get_int, get_float                           *)
Ask ==
    /\ stage = "ready"
    /\ \E name \in Names :
          \/ Known(name) /\ Fault /\ UNCHANGED answer
          \/ /\ ~Known(name) /\ answer' = [of |-> name, rc |-> "not exists"]
             /\ UNCHANGED <<stage, handling>>
    /\ UNCHANGED <<declared, args, made, shorts, longs, nameless, argn, freed>>

(* ina_opt_get_key_value takes a record of the list of short options for   *)
(* one of the list of long options: the key is the short name, and bytes   *)
(* of the value are followed as an address.  Without a value, and behind   *)
(* the list, NULL is followed.                                             *)
AskByIndex ==
    /\ stage = "ready"
    /\ \E index \in 1 .. Len(declared) + 1 :
          \/ Fault /\ UNCHANGED answer
          \/ /\ index <= Len(shorts) /\ declared[shorts[index]].dft
             /\ answer' = [of |-> declared[shorts[index]].short, rc |-> "garbage"]
             /\ UNCHANGED <<stage, handling>>
    /\ UNCHANGED <<declared, args, made, shorts, longs, nameless, argn, freed>>

Exit ==
    /\ stage = "ready"
    /\ stage' = "freeing short"
    /\ UNCHANGED <<declared, args, made, shorts, longs, nameless, argn, handling, freed, answer>>

-----------------------------------------------------------------------------
(* ina_exit: a list is walked by a foreach that reads the node of the      *)
(* record its callback has freed.                                          *)

FreedOf(list) == {i \in 1 .. Len(declared) : <<list, i>> \in freed}

FreeNext(name, list, next) ==
    \/ /\ Len(list) > Cardinality(FreedOf(name))
       /\ LET i == Cardinality(FreedOf(name)) + 1
          IN  freed' = freed \cup {<<name, list[i]>>}
       /\ \/ "kept" \in FreedMemory /\ UNCHANGED <<stage, handling>>
          \/ "lost" \in FreedMemory /\ stage' = "dead" /\ UNCHANGED handling
    \/ /\ Len(list) = Cardinality(FreedOf(name))
       /\ stage' = next
       /\ UNCHANGED <<freed, handling>>

(* Mutant: the short options are freed only without a fault.          *)
FreeShortsUnhandled ==
    /\ stage = "freeing short"
    /\ IF "long" \in made /\ ~handling THEN FreeNext("short", shorts, "freeing long")
       ELSE stage' = "ended" /\ UNCHANGED <<freed, handling>>
    /\ UNCHANGED <<declared, args, made, shorts, longs, nameless, argn, answer>>

(* Which list is there is asked of the other: with the first list made and *)
(* not the second, the second is walked.                                   *)
FreeShorts ==
    /\ stage = "freeing short"
    /\ IF "long" \in made THEN FreeNext("short", shorts, "freeing long")
       ELSE /\ stage' = IF made # {} THEN "dead" ELSE "ended"
            /\ UNCHANGED <<freed, handling>>
    /\ UNCHANGED <<declared, args, made, shorts, longs, nameless, argn, answer>>

FreeLongs ==
    /\ stage = "freeing long"
    /\ FreeNext("long", longs, "ended")
    /\ UNCHANGED <<declared, args, made, shorts, longs, nameless, argn, answer>>

OptNext ==
    \/ MakeShorts \/ MakeLongs \/ Register \/ Registered
    \/ SkipArgument \/ TakeOption \/ PrintUsage \/ AcceptArguments
    \/ Ask \/ AskByIndex \/ Exit
    \/ FreeShorts \/ FreeLongs

(* One thread: the program goes on while there is something to do.         *)
OptSpec == OptInit /\ [][OptNext]_optVars /\ WF_optVars(OptNext)

-----------------------------------------------------------------------------
(* Properties.                                                             *)

IsDeclared(name) ==
    \E i \in 1 .. Len(declared) :
        name = declared[i].long \/ (name # <<>> /\ name = declared[i].short)

(* Neither the client nor, by the usage text, the user is told of a        *)
(* declared option that there is none, by its short name or its long one.  *)
AnswersRight ==
    /\ answer.rc = "not exists" => ~IsDeclared(answer.of)
    /\ stage = "usage" => ~IsDeclared(NameOf(args[argn]))

(* An argument that is a declared option, in a program that had memory for *)
(* its options, is read without a fault (lib.h of ina_app_init:            *)
(* "INA_SUCCESS  if no error occurred"; manual.md: "The function fails     *)
(* with RC `INA_EOPT` if current command line options don't match with the *)
(* registered definition").                                                *)
ValidOptionsTaken ==
    [][ /\ Parsing /\ nameless = {}
        /\ Dashes(args[argn]) # {} /\ IsDeclared(NameOf(args[argn]))
        /\ Len(NameOf(args[argn])) < BufSize
        => UNCHANGED handling ]_optVars

(* When the process ends by itself each record of a list was freed, also   *)
(* when a fault has ended the start half way; what is left are the short   *)
(* records of entries without a short name, which no list has.             *)
RecordsFreed ==
    /\ FreedOf("long") # {} => FreedOf("short") = Elements(shorts)
    /\ stage = "ended" /\ "long" \in made =>
          /\ FreedOf("short") = Elements(shorts) /\ FreedOf("long") = Elements(longs)
          /\ \A i \in Elements(longs) \ FreedOf("short") : declared[i].short = <<>>

(* The first argument that is taken for an option.                         *)
FirstOption ==
    {n \in 1 .. Len(args) :
        Dashes(args[n]) # {} /\ \A k \in 1 .. n - 1 : Dashes(args[k]) = {}}

(* The start ends, one way or another, unless an unknown option makes it   *)
(* print the usage of a program that has options.                          *)
StartEnds ==
    \/ declared # <<>> /\ \E n \in FirstOption : ~IsDeclared(NameOf(args[n]))
    \/ <>(stage \in {"ready", "ended", "dead", "overflow"})
=============================================================================
