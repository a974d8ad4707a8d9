----------------------------- MODULE StrHeader ------------------------------
(***************************************************************************)
(* What the string functions of src/src/string.c know of a string: the     *)
(* header before its characters.  The word that holds the capacity also    *)
(* holds the mark of a string that lives in a memory pool, __INA_POOLED.   *)
(* It is written 80000000UL, in decimal: eight bits between 10 and 26, all *)
(* of which a capacity uses, and none of them bit 30, which the functions  *)
(* that grow a string mask off to get the capacity back.  A capacity that  *)
(* has bit 30 itself comes out of the mask too small.                      *)
(***************************************************************************)
EXTENDS Integers, Sequences, FiniteSetsExt

CONSTANTS
    PoolMarks,   \* the bits of __INA_POOLED, as powers of two
    MaskBit      \* the bit that is masked off, as a power of two (2^30)

ASSUME HeaderAssumption ==
    PoolMarks \subseteq Nat \ {0} /\ MaskBit \in Nat \ ({0} \cup PoolMarks)

Terminator == 0

Has(size, bit) == (size \div bit) % 2 = 1

(* hdr->size & __INA_POOLED                                                *)
Pooled(size) == \E bit \in PoolMarks : Has(size, bit)

(* hdr->size | __INA_POOLED                                                *)
WithMark(size) == size + SumSet({bit \in PoolMarks : ~Has(size, bit)})

(* hdr->size & ~(1UL << (31 - 1))                                          *)
Masked(size) == IF Has(size, MaskBit) THEN size - MaskBit ELSE size
=============================================================================
