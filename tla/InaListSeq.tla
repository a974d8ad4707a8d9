----------------------------- MODULE InaListSeq -----------------------------
(* The linked lists of InaList implement the sequences of ListSeq, and its *)
(* Sort is the merge sort of ListSort.  A list that a call has broken is   *)
(* taken for one that was freed by that call.                              *)
EXTENDS InaList, ListSort

Kept(l) == list[l].open /\ ~list[l].taint

DataOf(l) ==
    LET s == Walk(l)
    IN  IF Kept(l) THEN [i \in DOMAIN s |-> cell[s[i]].data] ELSE << >>

Sequences_ == INSTANCE ListSeq
    WITH open <- {l \in List : Kept(l)},
         content <- [l \in List |-> DataOf(l)]

(* Whatever the client does to its lists, each list that no call has       *)
(* broken keeps the data in the order it was inserted or sorted, and gives *)
(* it up only when it is removed, concatenated or freed (list.h).          *)
ImplementsSequences == Sequences_!Spec

(* Sorting by split and merge orders the nodes of every list the client    *)
(* can build as InaList's Sort does: by data, equal data in reverse order. *)
SortsAsMergesort ==
    \A l \in List :
        SortedWalk(l) = MergeSort(Walk(l), [n \in Node |-> cell[n].data])
=============================================================================
