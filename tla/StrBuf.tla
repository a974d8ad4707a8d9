------------------------------- MODULE StrBuf -------------------------------
(***************************************************************************)
(* The growing strings of src/src/string.c: a header and the characters    *)
(* behind it, on the heap, in a memory pool or in a buffer of the caller.  *)
(* A client works on one string, `str`, and keeps a second, `sub`, made    *)
(* from the first.                                                         *)
(*                                                                         *)
(* A string is a record: where it lives, the words size and len of its     *)
(* header, and its bytes, as many as the memory behind the header has.     *)
(* Offsets count from 0 as in the code: offset i is data[i + 1].  Bytes    *)
(* nobody has written are one of Fills.  A call that makes a string and    *)
(* finds no memory returns NULL and changes nothing: it is no step.  A     *)
(* call that grows one and finds none does not return: ina_mem_realloc     *)
(* stores through the NULL it got.                                         *)
(***************************************************************************)
EXTENDS StrHeader

CONSTANTS
    Sources,     \* bound: the bytes a call is given
    Fills,       \* bound: what memory holds before it is written
    TrimSets,    \* bound: the characters to trim
    MaxLen,      \* bound: the length of a string
    SizeMax,     \* the largest value of size_t
    PrintRoom    \* what ina_str_sprintf reserves at first (128)

ASSUME BufAssumption ==
    /\ Sources \subseteq Seq(Nat) /\ Fills \subseteq Nat
    /\ MaxLen \in Nat /\ PrintRoom \in Nat \ {0} /\ SizeMax \in Nat

VARIABLES
    str, sub,    \* the strings
    kept,        \* capacities of heap strings that ina_str_free kept
    strState     \* "ok"; "spoiled" when a print had no memory; or how the
                 \* program went wrong: "overflow", "overread", "foreign" for
                 \* a realloc of memory it was not given, "fault" for a store
                 \* through NULL

bufVars == <<str, sub, kept, strState>>

Absent == [kind |-> "none", size |-> 0, len |-> 0, data |-> <<>>]

OffsetData(s, i) == s.data[i + 1]
Content(s) == SubSeq(s.data, 1, s.len)
Terminators(s) == {i \in 0 .. Len(s.data) - 1 : OffsetData(s, i) = Terminator}

(* strlen(s) = n                                                           *)
Strlen(s, n) == n \in Terminators(s) /\ \A i \in Terminators(s) : n <= i

(* The n bytes from t on; behind t they are fill.                          *)
Bytes(n, t, fill) == [i \in 1 .. n |-> IF i <= Len(t) THEN t[i] ELSE fill]

(* The bytes with t written at an offset.                                  *)
Overwrite(data, offset, t) ==
    [i \in 1 .. Len(data) |-> IF i - offset \in 1 .. Len(t) THEN t[i - offset] ELSE data[i]]

-----------------------------------------------------------------------------
(* Creation.                                                               *)

(* ina_str_new                                                             *)
Empty(room, fill) ==
    [kind |-> "heap", size |-> room + 1, len |-> 0,
     data |-> Bytes(room + 1, <<Terminator>>, fill)]

(* ina_str_new_using_pool                                                  *)
EmptyPooled(room, fill) ==
    [kind |-> "pool", size |-> WithMark(room + 1), len |-> 0,
     data |-> Bytes(room + 1, <<Terminator>>, fill)]

(* ina_str_new_fromblk and ina_str_new_fromcstr                            *)
Holding(t) ==
    [kind |-> "heap", size |-> Len(t) + 1, len |-> Len(t), data |-> Append(t, Terminator)]

(* ina_str_new_fromblk_using_pool: neither the length nor the terminator   *)
(* is written.                                                             *)
BlockPooled(t, fill) ==
    LET s == EmptyPooled(Len(t), fill)
    IN  [s EXCEPT !.data = Overwrite(@, 0, t)]

(* ina_str_new_fromcstr_using_pool: the terminator is not.                 *)
CstrPooled(t, fill) == [BlockPooled(t, fill) EXCEPT !.len = Len(t)]

Makes(s) ==
    /\ strState = "ok" /\ str = Absent
    /\ str' = s
    /\ UNCHANGED <<sub, kept, strState>>

New == \E room \in 0 .. MaxLen, fill \in Fills : Makes(Empty(room, fill))

NewUsingPool == \E room \in 0 .. MaxLen, fill \in Fills : Makes(EmptyPooled(room, fill))

NewFrom == \E t \in Sources : Makes(Holding(t))

NewFromBlockUsingPool == \E t \in Sources, fill \in Fills : Makes(BlockPooled(t, fill))

NewFromCstrUsingPool ==
    \E t \in Sources, fill \in Fills :
        Terminator \notin {t[i] : i \in 1 .. Len(t)} /\ Makes(CstrPooled(t, fill))

(* The header takes 16 bytes of the buffer, which may be all of it: the    *)
(* terminator is then written behind the buffer.                           *)
AssignBuf ==
    /\ strState = "ok" /\ str = Absent
    /\ \E room \in 0 .. MaxLen, fill \in Fills :
          /\ str' = [kind |-> "buf", size |-> room, len |-> 0,
                     data |-> Bytes(room, <<Terminator>>, fill)]
          /\ strState' = IF room = 0 THEN "overflow" ELSE "ok"
    /\ UNCHANGED <<sub, kept>>

-----------------------------------------------------------------------------
(* The end of a string.                                                    *)

(* What ina_str_free keeps: a capacity with a bit of the mark is taken for *)
(* that of a pooled string.                                                *)
KeptBy(s) == IF s.kind = "heap" /\ Pooled(s.size) THEN kept \cup {s.size} ELSE kept

Free ==
    /\ strState \in {"ok", "spoiled"} /\ str.kind \in {"heap", "pool"}
    /\ str' = Absent /\ kept' = KeptBy(str)
    /\ strState' = "ok"
    /\ UNCHANGED sub

FreeSub ==
    /\ strState = "ok" /\ sub # Absent
    /\ sub' = Absent /\ kept' = KeptBy(sub)
    /\ UNCHANGED <<str, strState>>

(* The buffer is the caller's again.                                       *)
ReleaseBuf ==
    /\ strState = "ok" /\ str # Absent
    /\ str' = Absent
    /\ UNCHANGED <<sub, kept, strState>>

-----------------------------------------------------------------------------
(* Growing.                                                                *)

(* What the mask leaves of the capacity, without the characters and the    *)
(* terminator; below zero it wraps around to more than any request.        *)
Spare(s) == Masked(s.size) - s.len - 1

(* Mutant: the byte of the terminator is not counted.                      *)
EnoughButOne(s, n) == Spare(s) < 0 \/ Spare(s) + 1 >= n

Enough(s, n) == Spare(s) < 0 \/ Spare(s) > n

Resized(s, n, fill) ==
    LET size == Masked(s.size) - s.len + n
    IN  [s EXCEPT !.size = size, !.data = Bytes(size, @, fill)]

(* t is written at an offset of s, which then has length n.                *)
Writes(s, offset, t, n) ==
    IF offset + Len(t) <= Len(s.data)
    THEN /\ str' = [s EXCEPT !.data = Overwrite(@, offset, t), !.len = n]
         /\ UNCHANGED strState
    ELSE strState' = "overflow" /\ UNCHANGED str

(* __ina_ensure_size: realloc takes what the heap has granted only, and    *)
(* may find no memory.                                                     *)
Ensured(n, offset, t, len) ==
    /\ \/ Enough(str, n) /\ Writes(str, offset, t, len)
       \/ /\ ~Enough(str, n) /\ str.kind = "heap"
          /\ \/ \E fill \in Fills : Writes(Resized(str, n, fill), offset, t, len)
             \/ strState' = "fault" /\ UNCHANGED str
       \/ /\ ~Enough(str, n) /\ str.kind = "buf"
          /\ strState' = "foreign" /\ UNCHANGED str
    /\ UNCHANGED <<sub, kept>>

Usable == strState = "ok" /\ str # Absent

Ncpy == Usable /\ \E t \in Sources : Ensured(Len(t), 0, Append(t, Terminator), Len(t))

(* ina_str_ncat and ina_str_ncatcstr; the pool variants find room in every *)
(* pooled string, whose capacity with the mark is beyond any request.      *)
Ncat ==
    /\ Usable
    /\ \E t \in Sources :
          /\ str.len + Len(t) <= MaxLen
          /\ Ensured(str.len + Len(t), str.len, Append(t, Terminator), str.len + Len(t))

-----------------------------------------------------------------------------
(* Changes in place.                                                       *)

Truncate ==
    /\ Usable
    /\ \E pos \in 0 .. str.len : Writes(str, pos, <<Terminator>>, pos)
    /\ UNCHANGED <<sub, kept>>

(* Mutant: the length is left as it was.                                   *)
TrimKeepsLength(rest) ==
    \/ rest = {} /\ Writes(str, 0, <<Terminator>>, str.len)
    \/ \E from, to \in rest :
          /\ \A i \in rest : from <= i /\ i <= to
          /\ Writes(str, 0, Append(SubSeq(str.data, from, to), Terminator), str.len)

(* The text from the first to the last byte that stays.                    *)
TrimTo(rest) ==
    \/ rest = {} /\ Writes(str, 0, <<Terminator>>, 0)
    \/ \E from, to \in rest :
          /\ \A i \in rest : from <= i /\ i <= to
          /\ Writes(str, 0, Append(SubSeq(str.data, from, to), Terminator), to - from + 1)

(* strchr finds the terminator too: zero bytes are trimmed with the rest.  *)
Trim ==
    /\ Usable
    /\ \E chars \in TrimSets :
          TrimTo({i \in 1 .. str.len : str.data[i] \notin chars \cup {Terminator}})
    /\ UNCHANGED <<sub, kept>>

(* Every byte of the block is flipped that a letter of the other case      *)
(* could be, up to the first zero byte.                                    *)
Flips(first, change) ==
    /\ Usable
    /\ \/ Terminators(str) = {} /\ strState' = "overflow" /\ UNCHANGED str
       \/ \E n \in Terminators(str) :
             /\ Strlen(str, n)
             /\ str' = [str EXCEPT !.data = [i \in 1 .. Len(@) |->
                   IF i <= n /\ @[i] \in first .. first + 31 THEN @[i] + change ELSE @[i]]]
             /\ UNCHANGED strState
    /\ UNCHANGED <<sub, kept>>

ToUpper == Flips(96, -32)
ToLower == Flips(64, 32)

AdjustLen ==
    /\ Usable
    /\ \/ Terminators(str) = {} /\ strState' = "overread" /\ UNCHANGED str
       \/ \E n \in Terminators(str) :
             Strlen(str, n) /\ str' = [str EXCEPT !.len = n] /\ UNCHANGED strState
    /\ UNCHANGED <<sub, kept>>

-----------------------------------------------------------------------------
(* Printing.                                                               *)

(* ina_str_vsnprintf of t into s with limit n: what does not fit is        *)
(* printed again to a string of its own, which takes the place of the      *)
(* first.  Without memory for it the first keeps the cut output and its    *)
(* old length.                                                             *)
Prints(s, t, n) ==
    IF Len(t) < n
    THEN Writes(s, 0, Append(t, Terminator), Len(t)) /\ UNCHANGED kept
    ELSE LET cut == Append(SubSeq(t, 1, n - 1), Terminator)
         IN  \/ n > Len(s.data) /\ strState' = "overflow" /\ UNCHANGED <<str, kept>>
             \/ /\ n <= Len(s.data) /\ s.kind = "buf" /\ ~Pooled(s.size)
                /\ strState' = "foreign" /\ UNCHANGED <<str, kept>>
             \/ /\ n <= Len(s.data) /\ (s.kind # "buf" \/ Pooled(s.size))
                /\ str' = Holding(t) /\ kept' = KeptBy(s)
                /\ UNCHANGED strState
             \/ /\ n <= Len(s.data)
                /\ str' = [s EXCEPT !.data = Overwrite(@, 0, cut)]
                /\ strState' = "spoiled" /\ UNCHANGED kept

Vsnprintf ==
    /\ Usable
    /\ \E t \in Sources, n \in 1 .. MaxLen : n <= str.size /\ Prints(str, t, n)
    /\ UNCHANGED sub

(* Nothing printed is taken for a failure, and what a failure leaves is    *)
(* freed.                                                                  *)
Sprintf ==
    /\ strState = "ok" /\ str = Absent
    /\ \E t \in Sources, fill \in Fills :
          LET first == Empty(PrintRoom, fill)
          IN  \/ /\ t # <<>> /\ Len(t) < PrintRoom
                 /\ Writes(first, 0, Append(t, Terminator), Len(t))
                 /\ UNCHANGED kept
              \/ /\ Len(t) >= PrintRoom
                 /\ str' = Holding(t) /\ kept' = KeptBy(first)
                 /\ UNCHANGED strState
              \/ /\ t = <<>> \/ Len(t) >= PrintRoom
                 /\ kept' = KeptBy(first)
                 /\ UNCHANGED <<str, strState>>
    /\ UNCHANGED sub

-----------------------------------------------------------------------------
(* A second string.                                                        *)

(* __ina_str_substr_internal: (end - start) + 1 is 0 for all of size_t.    *)
SubstrLen(from, to, len) ==
    IF from > to \/ from >= len \/ (from = 0 /\ to = SizeMax) THEN 0
    ELSE (IF to >= len THEN len - 1 ELSE to) - from + 1

Substr ==
    /\ Usable /\ sub = Absent
    /\ \E from, to \in 0 .. MaxLen \cup {SizeMax}, fill \in Fills :
          LET n == SubstrLen(from, to, str.len)
              t == SubSeq(str.data, from + 1, from + n)
          IN  sub' \in {Holding(t), BlockPooled(t, fill)}
    /\ UNCHANGED <<str, kept, strState>>

(* ina_str_dup and ina_str_dup_using_pool copy up to the first zero byte.  *)
Dup ==
    /\ Usable /\ sub = Absent
    /\ \/ Terminators(str) = {} /\ strState' = "overread" /\ UNCHANGED sub
       \/ \E n \in Terminators(str), fill \in Fills :
             LET t == SubSeq(str.data, 1, n)
             IN  /\ Strlen(str, n)
                 /\ sub' \in {Holding(t), CstrPooled(t, fill)}
                 /\ UNCHANGED strState
    /\ UNCHANGED <<str, kept>>

BufNext ==
    \/ New \/ NewUsingPool \/ NewFrom \/ NewFromBlockUsingPool
    \/ NewFromCstrUsingPool \/ AssignBuf
    \/ Free \/ FreeSub \/ ReleaseBuf
    \/ Ncpy \/ Ncat \/ Truncate \/ Trim \/ ToUpper \/ ToLower \/ AdjustLen
    \/ Vsnprintf \/ Sprintf \/ Substr \/ Dup

BufInit == str = Absent /\ sub = Absent /\ kept = {} /\ strState = "ok"

BufSpec == BufInit /\ [][BufNext]_bufVars
-----------------------------------------------------------------------------
(* Comparison.                                                             *)

(* Mutant: a string that begins with the other is equal to it.             *)
CmpPrefix(a, b) ==
    LET n       == Min({a.len, b.len})
        differs == {i \in 0 .. n - 1 : OffsetData(a, i) # OffsetData(b, i)}
    IN  IF differs = {} THEN 0 ELSE OffsetData(a, Min(differs)) - OffsetData(b, Min(differs))

(* ina_str_cmp: the common length first, then the byte behind it.          *)
Cmp(a, b) ==
    LET n       == Min({a.len, b.len})
        differs == {i \in 0 .. n - 1 : OffsetData(a, i) # OffsetData(b, i)}
        at      == IF differs = {} THEN n ELSE Min(differs)
    IN  OffsetData(a, at) - OffsetData(b, at)

-----------------------------------------------------------------------------
(* Properties.                                                             *)

(* The capacity is the memory there is, the length leaves room for a       *)
(* terminator, and it is there, behind the characters.                     *)
HeapSound(s) ==
    s.kind = "heap" =>
        /\ s.size = Len(s.data) /\ s.len < s.size
        /\ OffsetData(s, s.len) = Terminator

(* A print without memory leaves a C string in its memory, not its length. *)
CutSound(s) == s.kind = "heap" => s.size = Len(s.data) /\ Terminators(s) # {}

(* A string on the heap is never read outside its memory nor handed to     *)
(* realloc of another, whatever is done to it; it is written outside only  *)
(* when its capacity has the bit that is masked off, and stored through    *)
(* NULL only by a call that has to grow it.  It is given back, unless its  *)
(* capacity has a bit of the mark.                                         *)
StrSound ==
    /\ strState = "ok" => HeapSound(str)
    /\ HeapSound(sub)
    /\ strState = "spoiled" => CutSound(str)
    /\ strState \in {"overread", "foreign"} => str.kind # "heap"
    /\ strState = "overflow" /\ str.kind = "heap" => Has(str.size, MaskBit)
    /\ strState = "fault" => HeapSound(str) /\ str.kind = "heap"
    /\ \A size \in kept : Pooled(size)

ZeroFree(s) == Terminator \notin {Content(s)[i] : i \in 1 .. s.len}

Before(t, u) ==
    \E k \in 0 .. Len(t) :
        /\ k < Len(u) /\ SubSeq(t, 1, k) = SubSeq(u, 1, k)
        /\ k = Len(t) \/ t[k + 1] < u[k + 1]

(* Two heap strings without zero bytes compare as their characters do,     *)
(* from the first on and the shorter first (string.h: lexicographically).  *)
CmpLexicographic ==
    /\ strState = "ok" /\ str.kind = "heap" /\ sub.kind = "heap"
    /\ ZeroFree(str) /\ ZeroFree(sub)
    => /\ (Cmp(str, sub) = 0) <=> (Content(str) = Content(sub))
       /\ (Cmp(str, sub) < 0) <=> Before(Content(str), Content(sub))
=============================================================================
