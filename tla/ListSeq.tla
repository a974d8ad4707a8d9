------------------------------- MODULE ListSeq -------------------------------
(***************************************************************************)
(* What list.h promises: a list is a sequence of data.  InaList implements *)
(* it with linked nodes.                                                   *)
(***************************************************************************)
EXTENDS Integers, Sequences, SequencesExt

CONSTANTS List, Data

VARIABLES open, content

vars == <<open, content>>

Init == open = {} /\ content = [l \in List |-> << >>]

New(l) ==
    /\ l \notin open
    /\ open' = open \cup {l} /\ UNCHANGED content

Free(l) ==
    /\ l \in open
    /\ open' = open \ {l} /\ content' = [content EXCEPT ![l] = << >>]

Changes(l, s) ==
    /\ l \in open
    /\ content' = [content EXCEPT ![l] = s] /\ UNCHANGED open

PushBack(l) == \E d \in Data : Changes(l, Append(content[l], d))

Delete(l) == \E i \in DOMAIN content[l] : Changes(l, RemoveAt(content[l], i))

(* Sorting keeps the data and puts it in order.                            *)
Sort(l) ==
    \E p \in Bijection(DOMAIN content[l], DOMAIN content[l]) :
        LET sorted == [i \in DOMAIN content[l] |-> content[l][p[i]]]
        IN  /\ \A i, j \in DOMAIN sorted : i < j => sorted[i] <= sorted[j]
            /\ Changes(l, sorted)

(* What is given to a list that is not open is lost.                       *)
Concat(d, s) ==
    /\ s \in open /\ d # s
    /\ content' = [content EXCEPT ![d] = IF d \in open THEN @ \o content[s] ELSE @,
                                  ![s] = << >>]
    /\ UNCHANGED open

Next ==
    \/ \E l \in List : New(l) \/ Free(l) \/ PushBack(l) \/ Delete(l) \/ Sort(l)
    \/ \E d, s \in List : Concat(d, s)

Spec == Init /\ [][Next]_vars
=============================================================================
