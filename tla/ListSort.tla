------------------------------ MODULE ListSort ------------------------------
(***************************************************************************)
(* The merge sort of src/src/list.c on the sequence of nodes of a list:    *)
(* __ina_split, __ina_merge and __ina_mergesort.  compare_fn compares what *)
(* key maps the nodes to.  The recursive calls are the values of a         *)
(* function of the places the two arguments start at, or of the first and  *)
(* the last place of the part to be sorted.                                *)
(***************************************************************************)
EXTENDS Integers, Sequences

Places(s) == 1 .. Len(s) + 1

(* slow moves one node for each two of fast; it is the last of the first   *)
(* half, which is the longer one.                                          *)
SplitAt(lo, hi) == (lo + hi) \div 2

(* Mutant: equal data is taken from the first half.                        *)
FirstUnlessLarger(x, y) == x <= y

FirstIsNext(x, y) == x < y

MergeNodes(first, second, key) ==
    LET merged[at \in Places(first) \X Places(second)] ==
            LET i == at[1]  j == at[2]
            IN  IF i > Len(first) THEN SubSeq(second, j, Len(second))
                ELSE IF j > Len(second) THEN SubSeq(first, i, Len(first))
                ELSE IF FirstIsNext(key[first[i]], key[second[j]])
                     THEN <<first[i]>> \o merged[<<i + 1, j>>]
                     ELSE <<second[j]>> \o merged[<<i, j + 1>>]
    IN  merged[<<1, 1>>]

MergeSort(s, key) ==
    LET sorted[part \in Places(s) \X (0 .. Len(s))] ==
            LET lo == part[1]  hi == part[2]
                mid == SplitAt(lo, hi)
            IN  IF lo >= hi THEN SubSeq(s, lo, hi)
                ELSE MergeNodes(sorted[<<lo, mid>>], sorted[<<mid + 1, hi>>], key)
    IN  sorted[<<1, Len(s)>>]
=============================================================================
