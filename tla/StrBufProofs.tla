---------------------------- MODULE StrBufProofs ----------------------------
(* The strings of StrBuf on the heap are sound for every size and text,    *)
(* compare as their texts do, and implement StrText.                       *)
EXTENDS StrBufText, SequenceTheorems, WellFoundedInduction, TLAPS

IsRecord(s) ==
    /\ s \in [kind : {"none", "heap", "pool", "buf"}, size : {s.size}, len : Nat, data : Seq(Nat)]
    /\ s.kind = "heap" => s.size \in Nat

IsString(s) == IsRecord(s) /\ s.len <= Len(s.data)

BufInv ==
    /\ IsString(str) /\ IsString(sub)
    /\ strState \in {"ok", "spoiled", "overflow", "overread", "foreign", "fault"}
    /\ StrSound

(* What a call may come to: a sound string, or one left as it was.         *)
Outcome ==
    \/ strState' = "ok" /\ IsString(str') /\ HeapSound(str')
    \/ /\ str' = str
       /\ \/ strState' \in {"overflow", "overread", "foreign"} /\ str.kind # "heap"
          \/ strState' = "overflow" /\ Has(str.size, MaskBit)
          \/ strState' = "fault" /\ str.kind = "heap"

-----------------------------------------------------------------------------
(* Bytes.                                                                  *)

LEMMA BytesType ==
  ASSUME NEW n \in Nat, NEW t \in Seq(Nat), NEW fill \in Nat
  PROVE  /\ Bytes(n, t, fill) \in Seq(Nat) /\ Len(Bytes(n, t, fill)) = n
         /\ n > 0 /\ Len(t) > 0 => Bytes(n, t, fill)[1] = t[1]
<1>1. Bytes(n, t, fill) \in [1 .. n -> Nat]
  BY DEF Bytes
<1> QED BY <1>1 DEF Bytes

LEMMA OverwriteType ==
  ASSUME NEW data \in Seq(Nat), NEW offset \in Nat, NEW t \in Seq(Nat)
  PROVE  /\ Overwrite(data, offset, t) \in Seq(Nat)
         /\ Len(Overwrite(data, offset, t)) = Len(data)
         /\ \A i \in 1 .. Len(t) : offset + i <= Len(data) =>
               Overwrite(data, offset, t)[offset + i] = t[i]
<1>1. Overwrite(data, offset, t) \in [1 .. Len(data) -> Nat]
  BY DEF Overwrite
<1>2. ASSUME NEW i \in 1 .. Len(t), offset + i <= Len(data)
      PROVE  Overwrite(data, offset, t)[offset + i] = t[i]
  BY <1>2 DEF Overwrite
<1> QED BY <1>1, <1>2

LEMMA SubSeqType ==
  ASSUME NEW s \in Seq(Nat), NEW a \in Nat \ {0}, NEW b \in Int, b <= Len(s)
  PROVE  /\ SubSeq(s, a, b) \in Seq(Nat)
         /\ a <= b => Len(SubSeq(s, a, b)) = b - a + 1
<1>1. \A i \in a .. b : i \in 1 .. Len(s)
  OBVIOUS
<1> QED BY <1>1

-----------------------------------------------------------------------------
(* New strings.                                                            *)

LEMMA EmptyType ==
  ASSUME NEW room \in Nat, NEW fill \in Nat
  PROVE  /\ IsString(Empty(room, fill)) /\ HeapSound(Empty(room, fill))
         /\ IsString(EmptyPooled(room, fill)) /\ EmptyPooled(room, fill).kind = "pool"
         /\ Len(EmptyPooled(room, fill).data) = room + 1
         /\ Empty(room, fill).kind = "heap" /\ Empty(room, fill).size = room + 1
<1>1. <<Terminator>> \in Seq(Nat) /\ Len(<<Terminator>>) = 1 /\ <<Terminator>>[1] = Terminator
  BY DEF Terminator
<1> DEFINE d == Bytes(room + 1, <<Terminator>>, fill)
<1>2. d \in Seq(Nat) /\ Len(d) = room + 1 /\ d[1] = Terminator
  <2> DEFINE n == room + 1
             t == <<Terminator>>
  <2>1. n \in Nat /\ n > 0 /\ t \in Seq(Nat) /\ Len(t) = 1 /\ t[1] = Terminator
    BY <1>1
  <2>2. d = Bytes(n, t, fill)
    OBVIOUS
  <2> HIDE DEF n, t, d
  <2>3. /\ Bytes(n, t, fill) \in Seq(Nat) /\ Len(Bytes(n, t, fill)) = n
        /\ n > 0 /\ Len(t) > 0 => Bytes(n, t, fill)[1] = t[1]
    BY <2>1, BytesType
  <2> QED BY <2>1, <2>2, <2>3 DEF n
<1> HIDE DEF d
<1>3. Empty(room, fill) = [kind |-> "heap", size |-> room + 1, len |-> 0, data |-> d]
  BY DEF Empty, d
<1>4. EmptyPooled(room, fill) =
        [kind |-> "pool", size |-> WithMark(room + 1), len |-> 0, data |-> d]
  BY DEF EmptyPooled, d
<1> QED BY <1>2, <1>3, <1>4 DEF IsString, IsRecord, HeapSound, OffsetData

LEMMA HoldingType ==
  ASSUME NEW t \in Seq(Nat)
  PROVE  /\ IsString(Holding(t)) /\ HeapSound(Holding(t))
         /\ Holding(t).kind = "heap"
  BY DEF Holding, IsString, IsRecord, HeapSound, OffsetData, Terminator

LEMMA PooledType ==
  ASSUME NEW t \in Seq(Nat), NEW fill \in Nat
  PROVE  /\ IsString(BlockPooled(t, fill)) /\ BlockPooled(t, fill).kind = "pool"
         /\ IsString(CstrPooled(t, fill)) /\ CstrPooled(t, fill).kind = "pool"
<1> DEFINE s == EmptyPooled(Len(t), fill)
           d == Overwrite(s.data, 0, t)
<1>1. IsString(s) /\ s.kind = "pool" /\ Len(s.data) = Len(t) + 1
  <2>1. Len(t) \in Nat
    OBVIOUS
  <2> QED BY <2>1, EmptyType
<1>2. BlockPooled(t, fill) = [s EXCEPT !.data = d]
  BY DEF BlockPooled
<1> HIDE DEF s
<1>3. d \in Seq(Nat) /\ Len(d) = Len(t) + 1
  BY <1>1, OverwriteType DEF IsString, IsRecord
<1> HIDE DEF d
<1>4. /\ IsString(BlockPooled(t, fill)) /\ BlockPooled(t, fill).kind = "pool"
      /\ BlockPooled(t, fill).data = d
  BY <1>1, <1>2, <1>3 DEF IsString, IsRecord
<1>5. CstrPooled(t, fill) = [BlockPooled(t, fill) EXCEPT !.len = Len(t)]
  BY DEF CstrPooled
<1>6. Len(t) \in Nat /\ Len(t) <= Len(d)
  BY <1>3
<1> QED BY <1>3, <1>4, <1>5, <1>6 DEF IsString, IsRecord

LEMMA AbsentType == IsString(Absent) /\ HeapSound(Absent) /\ Absent.kind = "none"
  BY DEF Absent, IsString, IsRecord, HeapSound

(* The mask takes nothing from a capacity without its bit.                 *)
LEMMA MaskedType ==
  ASSUME NEW size \in Nat
  PROVE  /\ Masked(size) \in Int
         /\ ~Has(size, MaskBit) => Masked(size) = size
  BY HeaderAssumption DEF Masked

(* A capacity the mask leaves alone is not overestimated.                  *)
LEMMA EnoughRoom ==
  ASSUME NEW s, IsString(s), HeapSound(s), s.kind = "heap", NEW n \in Nat,
         Enough(s, n), ~Has(s.size, MaskBit)
  PROVE  n + 1 <= s.size
<1>1. s.size \in Nat /\ s.len \in Nat /\ s.len < s.size
  BY DEF IsString, IsRecord, HeapSound
<1>2. Masked(s.size) = s.size
  BY <1>1, MaskedType
<1> QED BY <1>1, <1>2 DEF Enough, Spare

LEMMA ResizedType ==
  ASSUME NEW s, IsString(s), HeapSound(s), s.kind = "heap",
         NEW n \in Nat, NEW fill \in Nat, ~Enough(s, n)
  PROVE  /\ IsRecord(Resized(s, n, fill)) /\ Resized(s, n, fill).kind = "heap"
         /\ Resized(s, n, fill).size = Len(Resized(s, n, fill).data)
         /\ Resized(s, n, fill).size = Masked(s.size) - s.len + n
         /\ n + 1 <= Resized(s, n, fill).size
<1> DEFINE size == Masked(s.size) - s.len + n
           d    == Bytes(size, s.data, fill)
<1>1. size \in Nat /\ s.data \in Seq(Nat) /\ n + 1 <= size
  <2>1. s.size \in Nat /\ s.len \in Nat /\ s.data \in Seq(Nat)
    BY DEF IsString, IsRecord, HeapSound
  <2>2. Masked(s.size) \in Int
    BY <2>1, MaskedType
  <2> QED BY <2>1, <2>2 DEF Enough, Spare
<1>2. d \in Seq(Nat) /\ Len(d) = size
  BY <1>1, BytesType
<1>3. Resized(s, n, fill) = [s EXCEPT !.size = size, !.data = d]
  BY DEF Resized, IsString, IsRecord
<1> HIDE DEF size, d
<1>4. s \in [kind : {"none", "heap", "pool", "buf"}, size : {s.size}, len : Nat, data : Seq(Nat)]
  BY DEF IsString, IsRecord
<1>5. QED BY <1>1, <1>2, <1>3, <1>4 DEF IsString, IsRecord, size
-----------------------------------------------------------------------------
(* A text with its terminator written where there is room for it.          *)

LEMMA WritesSound ==
  ASSUME NEW s, IsRecord(s), s.kind = "heap" => s.size = Len(s.data),
         NEW offset \in Nat, NEW t \in Seq(Nat),
         s.kind = "heap" => offset + Len(t) + 1 <= s.size,
         strState = "ok", Writes(s, offset, Append(t, Terminator), offset + Len(t))
  PROVE  \/ strState' = "ok" /\ IsString(str') /\ HeapSound(str')
         \/ strState' = "overflow" /\ s.kind # "heap" /\ str' = str
<1> DEFINE u == Append(t, Terminator)
<1>1. u \in Seq(Nat) /\ Len(u) = Len(t) + 1 /\ u[Len(u)] = Terminator /\ Len(t) \in Nat
  BY DEF Terminator
<1>2. s.data \in Seq(Nat) /\ Len(s.data) \in Nat
  BY DEF IsString, IsRecord
<1>3. s \in [kind : {"none", "heap", "pool", "buf"}, size : {s.size}, len : Nat, data : Seq(Nat)]
  BY DEF IsString, IsRecord
<1> DEFINE d == Overwrite(s.data, offset, u)
<1>4. CASE offset + Len(u) <= Len(s.data)
  <2>1. str' = [s EXCEPT !.data = d, !.len = offset + Len(t)] /\ strState' = "ok"
    BY <1>4 DEF Writes
  <2>2. d \in Seq(Nat) /\ Len(d) = Len(s.data) /\ d[offset + Len(u)] = Terminator
    <3> HIDE DEF u
    <3>1. Len(u) \in 1 .. Len(u) /\ offset + Len(u) <= Len(s.data)
      BY <1>1, <1>4
    <3>2. /\ d \in Seq(Nat) /\ Len(d) = Len(s.data)
          /\ \A i \in 1 .. Len(u) : offset + i <= Len(s.data) => d[offset + i] = u[i]
      BY <1>1, <1>2, OverwriteType
    <3> HIDE DEF d
    <3> QED BY <1>1, <3>1, <3>2
  <2> HIDE DEF d, u
  <2>3. /\ str' \in [kind : {"none", "heap", "pool", "buf"}, size : {s.size}, len : Nat,
                     data : Seq(Nat)]
        /\ str'.kind = s.kind /\ str'.size = s.size /\ str'.len = offset + Len(t)
        /\ str'.data = d
    <3>1. offset + Len(t) \in Nat
      BY <1>1
    <3> QED BY <1>3, <2>1, <2>2, <3>1
  <2>4. IsString(str')
    BY <1>1, <1>2, <1>4, <2>2, <2>3 DEF IsString, IsRecord
  <2>5. HeapSound(str')
    <3>1. ASSUME str'.kind = "heap"
          PROVE  /\ str'.size = Len(str'.data) /\ str'.len < str'.size
                 /\ str'.data[str'.len + 1] = Terminator
      <4>1. s.kind = "heap" /\ s.size = Len(d) /\ offset + Len(t) + 1 <= s.size
        BY <2>2, <2>3, <3>1
      <4>2. offset + Len(u) = str'.len + 1 /\ str'.len < s.size
        BY <1>1, <2>3, <4>1
      <4> QED BY <2>2, <2>3, <4>1, <4>2
    <3> QED BY <3>1 DEF HeapSound, OffsetData
  <2> QED BY <2>1, <2>4, <2>5
<1>5. CASE ~(offset + Len(u) <= Len(s.data))
  BY <1>1, <1>2, <1>5 DEF Writes
<1> QED BY <1>4, <1>5

LEMMA EnsuredSound ==
  ASSUME BufInv, Usable, NEW t \in Seq(Nat), NEW offset \in {0, str.len},
         Ensured(offset + Len(t), offset, Append(t, Terminator), offset + Len(t))
  PROVE  Outcome
<1> DEFINE n == offset + Len(t)
<1>1. IsString(str) /\ HeapSound(str) /\ strState = "ok" /\ offset \in Nat /\ n \in Nat
  BY DEF BufInv, Usable, StrSound, IsString, IsRecord
<1>2. CASE Enough(str, n) /\ Writes(str, offset, Append(t, Terminator), n)
  <2>1. CASE str.kind = "heap" => n + 1 <= str.size
    <3>1. str.kind = "heap" => str.size = Len(str.data) /\ n + 1 <= str.size
      BY <1>1, <2>1 DEF HeapSound, IsString, IsRecord
    <3>2. \/ strState' = "ok" /\ IsString(str') /\ HeapSound(str')
          \/ strState' = "overflow" /\ str.kind # "heap" /\ str' = str
      BY <1>1, <1>2, <3>1, WritesSound DEF IsString
    <3> QED BY <3>2 DEF Outcome
  <2>2. CASE ~(str.kind = "heap" => n + 1 <= str.size)
    <3>1. Has(str.size, MaskBit)
      BY <1>1, <1>2, <2>2, EnoughRoom
    <3>2. Len(Append(t, Terminator)) = Len(t) + 1 /\ Len(t) \in Nat
      BY DEF Terminator
    <3>3. str.size = Len(str.data) /\ Len(str.data) \in Nat
      BY <1>1, <2>2 DEF HeapSound, IsString, IsRecord
    <3>4. ~(offset + Len(Append(t, Terminator)) <= Len(str.data))
      BY <1>1, <2>2, <3>2, <3>3
    <3>5. strState' = "overflow" /\ str' = str
      BY <1>2, <3>4 DEF Writes
    <3> QED BY <3>1, <3>5 DEF Outcome
  <2> QED BY <2>1, <2>2
<1>3. ASSUME ~Enough(str, n), str.kind = "heap", NEW fill \in Fills,
             Writes(Resized(str, n, fill), offset, Append(t, Terminator), n)
      PROVE  Outcome
  <2> DEFINE r == Resized(str, n, fill)
  <2>1. fill \in Nat
    BY BufAssumption
  <2>2. IsRecord(r) /\ r.kind = "heap" /\ r.size = Len(r.data) /\ n + 1 <= r.size
    BY <1>1, <1>3, <2>1, ResizedType
  <2>3. Writes(r, offset, Append(t, Terminator), n)
    BY <1>3
  <2> HIDE DEF r
  <2>4. \/ strState' = "ok" /\ IsString(str') /\ HeapSound(str')
        \/ strState' = "overflow" /\ r.kind # "heap" /\ str' = str
    BY <1>1, <2>2, <2>3, WritesSound
  <2> QED BY <2>2, <2>4 DEF Outcome
<1>4. CASE str.kind = "heap" /\ strState' = "fault" /\ UNCHANGED str
  BY <1>4 DEF Outcome
<1>5. CASE str.kind = "buf" /\ strState' = "foreign" /\ UNCHANGED str
  BY <1>5 DEF Outcome
<1> QED BY <1>2, <1>3, <1>4, <1>5 DEF Ensured

-----------------------------------------------------------------------------
LEMMA StrChanged ==
  ASSUME BufInv, strState = "ok", sub' = sub,
         \A size \in kept' \ kept : Pooled(size),
         Outcome
  PROVE  BufInv'
<1>1. HeapSound(str) /\ HeapSound(sub) /\ IsString(str) /\ IsString(sub)
      /\ \A size \in kept : Pooled(size)
  BY DEF BufInv, StrSound
<1>2. \A size \in kept' : Pooled(size)
  BY <1>1
<1>3. IsString(sub)' /\ HeapSound(sub)'
  BY <1>1 DEF IsString, IsRecord, HeapSound, OffsetData
<1>4. CASE strState' = "ok" /\ IsString(str') /\ HeapSound(str')
  BY <1>2, <1>3, <1>4 DEF BufInv, StrSound, IsString, IsRecord, HeapSound, OffsetData
<1>5. CASE /\ str' = str
           /\ \/ strState' \in {"overflow", "overread", "foreign"} /\ str.kind # "heap"
              \/ strState' = "overflow" /\ Has(str.size, MaskBit)
              \/ strState' = "fault" /\ str.kind = "heap"
  <2>1. IsString(str)' /\ HeapSound(str)'
    BY <1>1, <1>5 DEF IsString, IsRecord, HeapSound, OffsetData
  <2>2. strState' = "overflow" /\ str'.kind = "heap" => Has(str'.size, MaskBit)
    BY <1>5
  <2> QED BY <1>2, <1>3, <1>5, <2>1, <2>2 DEF BufInv, StrSound
<1> QED BY <1>4, <1>5 DEF Outcome

LEMMA KeptBySound == ASSUME NEW s PROVE \A size \in KeptBy(s) \ kept : Pooled(size)
  BY DEF KeptBy

LEMMA SubSeqCut ==
  ASSUME NEW t \in Seq(Nat), NEW n \in Nat \ {0}, ~(Len(t) < n)
  PROVE  SubSeq(t, 1, n - 1) \in Seq(Nat) /\ Len(SubSeq(t, 1, n - 1)) = n - 1
<1>1. 1 \in Nat \ {0} /\ n - 1 \in Int /\ n - 1 <= Len(t)
  OBVIOUS
<1>2. CASE n = 1
  BY <1>2
<1>3. CASE n # 1
  BY <1>1, <1>3, SubSeqType
<1> QED BY <1>2, <1>3

LEMMA PrintsSound ==
  ASSUME BufInv, Usable, NEW t \in Seq(Nat), NEW n \in Nat \ {0}, n <= str.size,
         Prints(str, t, n), UNCHANGED sub
  PROVE  BufInv'
<1>1. IsString(str) /\ HeapSound(str) /\ strState = "ok"
  BY DEF BufInv, Usable, StrSound
<1>2. CASE Len(t) < n
  <2>1. Writes(str, 0, Append(t, Terminator), Len(t)) /\ kept' = kept
    BY <1>2 DEF Prints
  <2>2. str.kind = "heap" => str.size = Len(str.data) /\ 0 + Len(t) + 1 <= str.size
    BY <1>1, <1>2 DEF HeapSound, IsString, IsRecord
  <2>3. Writes(str, 0, Append(t, Terminator), 0 + Len(t))
    BY <2>1
  <2>4. \/ strState' = "ok" /\ IsString(str') /\ HeapSound(str')
        \/ strState' = "overflow" /\ str.kind # "heap" /\ str' = str
    BY <1>1, <2>2, <2>3, WritesSound DEF IsString
  <2> QED BY <1>1, <2>1, <2>4, StrChanged DEF Outcome
<1>3. CASE n > Len(str.data) /\ strState' = "overflow" /\ UNCHANGED <<str, kept>>
  <2>1. str.kind # "heap"
    BY <1>1, <1>3 DEF HeapSound, IsString, IsRecord
  <2> QED BY <1>1, <1>3, <2>1, StrChanged DEF Outcome
<1>4. CASE str.kind = "buf" /\ strState' = "foreign" /\ UNCHANGED <<str, kept>>
  BY <1>1, <1>4, StrChanged DEF Outcome
<1>5. CASE str' = Holding(t) /\ kept' = KeptBy(str) /\ UNCHANGED strState
  <2>1. IsString(str') /\ HeapSound(str')
    BY <1>5, HoldingType
  <2>2. \A size \in kept' \ kept : Pooled(size)
    BY <1>5, KeptBySound
  <2> QED BY <1>1, <1>5, <2>1, <2>2, StrChanged DEF Outcome
<1>6. CASE /\ ~(Len(t) < n) /\ n <= Len(str.data)
           /\ str' = [str EXCEPT !.data =
                        Overwrite(@, 0, Append(SubSeq(t, 1, n - 1), Terminator))]
           /\ strState' = "spoiled" /\ UNCHANGED kept
  <2>0. SubSeq(t, 1, n - 1) \in Seq(Nat) /\ Len(SubSeq(t, 1, n - 1)) = n - 1
    BY <1>6, SubSeqCut
  <2>1. /\ Append(SubSeq(t, 1, n - 1), Terminator) \in Seq(Nat)
        /\ Len(Append(SubSeq(t, 1, n - 1), Terminator)) = n
        /\ Append(SubSeq(t, 1, n - 1), Terminator)[n] = Terminator
    <3> DEFINE c == SubSeq(t, 1, n - 1)
    <3>1. c \in Seq(Nat) /\ Len(c) = n - 1
      BY <2>0
    <3> HIDE DEF c
    <3>2. Append(c, Terminator) \in Seq(Nat) /\ Len(Append(c, Terminator)) = n
          /\ Append(c, Terminator)[n] = Terminator
      BY <3>1 DEF Terminator
    <3> QED BY <3>2 DEF c
  <2> DEFINE c == Append(SubSeq(t, 1, n - 1), Terminator)
             d == Overwrite(str.data, 0, c)
  <2>2. str' = [str EXCEPT !.data = d]
    BY <1>6
  <2>3. c \in Seq(Nat) /\ Len(c) = n /\ c[n] = Terminator
    BY <2>1
  <2> HIDE DEF c
  <2>4. /\ d \in Seq(Nat) /\ Len(d) = Len(str.data)
        /\ \A i \in 1 .. Len(c) : 0 + i <= Len(str.data) => d[0 + i] = c[i]
    <3>1. str.data \in Seq(Nat) /\ 0 \in Nat
      BY <1>1 DEF IsString, IsRecord
    <3> QED BY <2>3, <3>1, OverwriteType
  <2> HIDE DEF d
  <2>5. n \in 1 .. Len(str.data) /\ Len(str.data) \in Nat /\ d[n] = Terminator
    <3>1. Len(str.data) \in Nat
      BY <1>1 DEF IsString, IsRecord
    <3>2. n \in 1 .. Len(c) /\ 0 + n = n /\ n <= Len(str.data)
      BY <1>6, <2>3
    <3>3. d[0 + n] = c[n]
      BY <2>4, <3>2
    <3> QED BY <2>3, <3>1, <3>2, <3>3
  <2>6. IsString(str') /\ str'.data = d /\ str'.kind = str.kind /\ str'.size = str.size
    BY <1>1, <2>2, <2>4 DEF IsString, IsRecord
  <2>7. n - 1 \in Terminators(str')
    BY <2>4, <2>5, <2>6 DEF Terminators, OffsetData
  <2>8. CutSound(str')
    BY <1>1, <2>4, <2>6, <2>7 DEF CutSound, HeapSound
  <2>9. IsString(str)' /\ CutSound(str)'
    BY <2>6, <2>8 DEF IsString, IsRecord, CutSound, Terminators, OffsetData
  <2>10. /\ IsString(sub)' /\ HeapSound(sub)' /\ kept' = kept
         /\ \A size \in kept : Pooled(size)
    BY <1>6 DEF BufInv, StrSound, IsString, IsRecord, HeapSound, OffsetData
  <2> QED BY <1>6, <2>9, <2>10 DEF BufInv, StrSound
<1>7. CASE ~(Len(t) < n)
  BY <1>3, <1>4, <1>5, <1>6, <1>7 DEF Prints
<1> QED BY <1>2, <1>7

LEMMA TrimSound ==
  ASSUME BufInv, Usable, NEW rest \in SUBSET (1 .. str.len), TrimTo(rest)
  PROVE  \/ strState' = "ok" /\ IsString(str') /\ HeapSound(str')
         \/ strState' = "overflow" /\ str.kind # "heap" /\ str' = str
<1>1. IsString(str) /\ HeapSound(str) /\ strState = "ok"
  BY DEF BufInv, Usable, StrSound
<1>2. str.len \in Nat /\ str.data \in Seq(Nat)
  BY <1>1 DEF IsString, IsRecord
<1>3. str.kind = "heap" => str.size = Len(str.data) /\ str.len + 1 <= str.size
  BY <1>1 DEF HeapSound, IsString, IsRecord
<1>4. CASE Writes(str, 0, <<Terminator>>, 0)
  <2>1. <<>> \in Seq(Nat) /\ Append(<<>>, Terminator) = <<Terminator>> /\ Len(<<>>) = 0
    OBVIOUS
  <2>2. Writes(str, 0, Append(<<>>, Terminator), 0 + Len(<<>>))
    BY <1>4, <2>1
  <2>3. str.kind = "heap" => 0 + Len(<<>>) + 1 <= str.size
    BY <1>1, <1>2, <1>3, <2>1 DEF IsString, IsRecord
  <2> QED BY <1>1, <1>3, <2>1, <2>2, <2>3, WritesSound DEF IsString
<1>5. ASSUME NEW from \in rest, NEW to \in rest, \A i \in rest : from <= i /\ i <= to,
             Writes(str, 0, Append(SubSeq(str.data, from, to), Terminator), to - from + 1)
      PROVE  \/ strState' = "ok" /\ IsString(str') /\ HeapSound(str')
             \/ strState' = "overflow" /\ str.kind # "heap" /\ str' = str
  <2>1. from \in 1 .. str.len /\ to \in 1 .. str.len /\ from <= to
    BY <1>5
  <2>2. to <= Len(str.data)
    BY <1>1, <1>2, <2>1 DEF IsString, IsRecord
  <2>3. /\ SubSeq(str.data, from, to) \in Seq(Nat)
        /\ Len(SubSeq(str.data, from, to)) = to - from + 1
    BY <1>2, <2>1, <2>2, SubSeqType
  <2> DEFINE t == SubSeq(str.data, from, to)
  <2>4. /\ t \in Seq(Nat) /\ 0 + Len(t) = to - from + 1
        /\ str.kind = "heap" => 0 + Len(t) + 1 <= str.size
    BY <1>1, <1>2, <1>3, <2>1, <2>3 DEF IsString, IsRecord
  <2>5. Writes(str, 0, Append(t, Terminator), 0 + Len(t))
    BY <1>5, <2>4
  <2> HIDE DEF t
  <2> QED BY <1>1, <1>3, <2>4, <2>5, WritesSound DEF IsString
<1> QED BY <1>4, <1>5 DEF TrimTo

(* A new string takes the place of none.                                   *)
LEMMA MakesSound ==
  ASSUME BufInv, NEW s, IsString(s), HeapSound(s), Makes(s)
  PROVE  BufInv'
  BY DEF Makes, BufInv, StrSound

LEMMA SubMade ==
  ASSUME BufInv, strState = "ok", IsString(sub'), HeapSound(sub'),
         UNCHANGED <<str, kept, strState>>
  PROVE  BufInv'
  BY DEF BufInv, StrSound, IsString, IsRecord, HeapSound, OffsetData

LEMMA CreationSound ==
  ASSUME BufInv,
         New \/ NewUsingPool \/ NewFrom \/ NewFromBlockUsingPool \/ NewFromCstrUsingPool
  PROVE  BufInv'
<1>1. \A fill \in Fills : fill \in Nat
  BY BufAssumption
<1>2. \A room \in 0 .. MaxLen : room \in Nat
  OBVIOUS
<1>3. \A t \in Sources : t \in Seq(Nat)
  BY BufAssumption
<1>4. CASE New
  <2>1. PICK room \in 0 .. MaxLen, fill \in Fills : Makes(Empty(room, fill))
    BY <1>4 DEF New
  <2>2. IsString(Empty(room, fill)) /\ HeapSound(Empty(room, fill))
    BY <1>1, <1>2, EmptyType
  <2> QED BY <2>1, <2>2, MakesSound
<1>5. CASE NewUsingPool
  <2>1. PICK room \in 0 .. MaxLen, fill \in Fills : Makes(EmptyPooled(room, fill))
    BY <1>5 DEF NewUsingPool
  <2>2. IsString(EmptyPooled(room, fill)) /\ HeapSound(EmptyPooled(room, fill))
    BY <1>1, <1>2, EmptyType DEF HeapSound
  <2> QED BY <2>1, <2>2, MakesSound
<1>6. CASE NewFrom
  <2>1. PICK t \in Sources : Makes(Holding(t))
    BY <1>6 DEF NewFrom
  <2>2. IsString(Holding(t)) /\ HeapSound(Holding(t))
    BY <1>3, HoldingType
  <2> QED BY <2>1, <2>2, MakesSound
<1>7. CASE NewFromBlockUsingPool
  <2>1. PICK t \in Sources, fill \in Fills : Makes(BlockPooled(t, fill))
    BY <1>7 DEF NewFromBlockUsingPool
  <2>2. IsString(BlockPooled(t, fill)) /\ HeapSound(BlockPooled(t, fill))
    BY <1>1, <1>3, PooledType DEF HeapSound
  <2> QED BY <2>1, <2>2, MakesSound
<1>8. CASE NewFromCstrUsingPool
  <2>1. PICK t \in Sources, fill \in Fills : Makes(CstrPooled(t, fill))
    BY <1>8 DEF NewFromCstrUsingPool
  <2>2. IsString(CstrPooled(t, fill)) /\ HeapSound(CstrPooled(t, fill))
    BY <1>1, <1>3, PooledType DEF HeapSound
  <2> QED BY <2>1, <2>2, MakesSound
<1> QED BY <1>4, <1>5, <1>6, <1>7, <1>8

LEMMA AssignSound == ASSUME BufInv, AssignBuf PROVE BufInv'
<1>1. PICK room \in 0 .. MaxLen, fill \in Fills :
        /\ str' = [kind |-> "buf", size |-> room, len |-> 0,
                   data |-> Bytes(room, <<Terminator>>, fill)]
        /\ strState' = IF room = 0 THEN "overflow" ELSE "ok"
  BY DEF AssignBuf
<1> DEFINE d == Bytes(room, <<Terminator>>, fill)
<1>2. d \in Seq(Nat) /\ Len(d) = room
  <2> DEFINE t == <<Terminator>>
  <2>1. room \in Nat /\ fill \in Nat /\ t \in Seq(Nat)
    BY BufAssumption DEF Terminator
  <2>2. d = Bytes(room, t, fill)
    OBVIOUS
  <2> HIDE DEF t, d
  <2> QED BY <2>1, <2>2, BytesType
<1> HIDE DEF d
<1>3. str' = [kind |-> "buf", size |-> room, len |-> 0, data |-> d]
  BY <1>1 DEF d
<1>4. IsString(str') /\ str'.kind = "buf"
  BY <1>2, <1>3 DEF IsString, IsRecord
<1> QED BY <1>1, <1>4 DEF AssignBuf, BufInv, StrSound, HeapSound

LEMMA EndSound == ASSUME BufInv, Free \/ FreeSub \/ ReleaseBuf PROVE BufInv'
<1>1. CASE Free
  BY <1>1, AbsentType, KeptBySound DEF Free, BufInv, StrSound
<1>2. CASE FreeSub
  BY <1>2, AbsentType, KeptBySound DEF FreeSub, BufInv, StrSound
<1>3. CASE ReleaseBuf
  BY <1>3, AbsentType DEF ReleaseBuf, BufInv, StrSound
<1> QED BY <1>1, <1>2, <1>3

LEMMA WritingSound == ASSUME BufInv, Ncpy \/ Ncat \/ Truncate \/ Trim PROVE BufInv'
<1>1. Usable /\ strState = "ok" /\ IsString(str) /\ HeapSound(str) /\ kept' = kept /\ sub' = sub
  BY DEF Ncpy, Ncat, Truncate, Trim, Ensured, Usable, BufInv, StrSound
<1>2. str.len \in Nat /\ str.data \in Seq(Nat)
  BY <1>1 DEF IsString, IsRecord
<1>3. CASE Ncpy
  <2>1. PICK t \in Sources : Ensured(Len(t), 0, Append(t, Terminator), Len(t))
    BY <1>3 DEF Ncpy
  <2>2. t \in Seq(Nat) /\ 0 + Len(t) = Len(t)
    BY BufAssumption
  <2>3. Outcome
    BY <1>1, <2>1, <2>2, EnsuredSound
  <2> QED BY <1>1, <2>3, StrChanged DEF Outcome
<1>4. CASE Ncat
  <2>1. PICK t \in Sources :
          Ensured(str.len + Len(t), str.len, Append(t, Terminator), str.len + Len(t))
    BY <1>4 DEF Ncat
  <2>2. t \in Seq(Nat)
    BY BufAssumption
  <2>3. Outcome
    BY <1>1, <2>1, <2>2, EnsuredSound
  <2> QED BY <1>1, <2>3, StrChanged DEF Outcome
<1>5. CASE Truncate
  <2>1. PICK pos \in 0 .. str.len : Writes(str, pos, <<Terminator>>, pos)
    BY <1>5 DEF Truncate
  <2>2. Append(<<>>, Terminator) = <<Terminator>> /\ <<>> \in Seq(Nat) /\ Len(<<>>) = 0
    OBVIOUS
  <2>3. pos \in Nat /\ pos + Len(<<>>) = pos
    BY <1>2, <2>2
  <2>4. Writes(str, pos, Append(<<>>, Terminator), pos + Len(<<>>))
    BY <2>1, <2>2, <2>3
  <2>5. str.kind = "heap" => str.size = Len(str.data) /\ pos + Len(<<>>) + 1 <= str.size
    BY <1>1, <1>2, <2>3 DEF HeapSound, IsString, IsRecord
  <2>6. \/ strState' = "ok" /\ IsString(str') /\ HeapSound(str')
        \/ strState' = "overflow" /\ str.kind # "heap" /\ str' = str
    BY <1>1, <2>2, <2>3, <2>4, <2>5, WritesSound DEF IsString
  <2> QED BY <1>1, <2>6, StrChanged DEF Outcome
<1>6. CASE Trim
  <2>1. PICK chars \in TrimSets :
          TrimTo({i \in 1 .. str.len : str.data[i] \notin chars \cup {Terminator}})
    BY <1>6 DEF Trim
  <2> DEFINE rest == {i \in 1 .. str.len : str.data[i] \notin chars \cup {Terminator}}
  <2>2. rest \in SUBSET (1 .. str.len) /\ TrimTo(rest)
    BY <2>1
  <2> HIDE DEF rest
  <2>3. \/ strState' = "ok" /\ IsString(str') /\ HeapSound(str')
        \/ strState' = "overflow" /\ str.kind # "heap" /\ str' = str
    BY <1>1, <2>2, TrimSound
  <2> QED BY <1>1, <2>3, StrChanged DEF Outcome
<1> QED BY <1>3, <1>4, <1>5, <1>6

(* A heap string has a terminator, and what is flipped is none.            *)
LEMMA FlipsSound ==
  ASSUME BufInv, NEW first \in Nat, NEW change \in Int, first + change > 0, first > 0,
         Flips(first, change)
  PROVE  BufInv'
<1>1. strState = "ok" /\ IsString(str) /\ HeapSound(str) /\ kept' = kept /\ sub' = sub
  BY DEF Flips, Usable, BufInv, StrSound
<1>2. str.len \in Nat /\ str.data \in Seq(Nat)
  BY <1>1 DEF IsString, IsRecord
<1>3. CASE Terminators(str) = {} /\ strState' = "overflow" /\ UNCHANGED str
  <2>1. str.kind # "heap"
    BY <1>1, <1>2, <1>3 DEF Terminators, HeapSound, IsString, IsRecord
  <2> QED BY <1>1, <1>3, <2>1, StrChanged DEF Outcome
<1>4. ASSUME NEW n \in Terminators(str), UNCHANGED strState,
             str' = [str EXCEPT !.data = [i \in 1 .. Len(@) |->
                   IF i <= n /\ @[i] \in first .. first + 31 THEN @[i] + change ELSE @[i]]]
      PROVE  BufInv'
  <2> DEFINE d == [i \in 1 .. Len(str.data) |->
                    IF i <= n /\ str.data[i] \in first .. first + 31
                    THEN str.data[i] + change ELSE str.data[i]]
  <2>1. str' = [str EXCEPT !.data = d]
    BY <1>4
  <2>2. d \in [1 .. Len(str.data) -> Nat]
    BY <1>2
  <2>3. \A i \in 1 .. Len(str.data) : str.data[i] = Terminator => d[i] = Terminator
    BY <1>2 DEF Terminator
  <2> HIDE DEF d
  <2>4. d \in Seq(Nat) /\ Len(d) = Len(str.data)
    <3>1. Len(str.data) \in Nat
      BY <1>2
    <3> DEFINE m == Len(str.data)
    <3>2. m \in Nat /\ d \in [1 .. m -> Nat]
      BY <2>2, <3>1
    <3> HIDE DEF m
    <3>3. d \in Seq(Nat) /\ Len(d) = m
      BY <3>2
    <3> QED BY <3>3 DEF m
  <2>5. IsString(str') /\ str'.data = d /\ str'.kind = str.kind /\ str'.size = str.size
        /\ str'.len = str.len
    BY <1>1, <2>1, <2>4 DEF IsString, IsRecord
  <2>6. HeapSound(str')
    <3>1. SUFFICES ASSUME str'.kind = "heap"
                   PROVE  /\ str'.size = Len(str'.data) /\ str'.len < str'.size
                          /\ d[str.len + 1] = Terminator
      BY <2>5 DEF HeapSound, OffsetData
    <3>2. /\ str.size = Len(str.data) /\ str.len < str.size
          /\ str.data[str.len + 1] = Terminator
      BY <1>1, <2>5, <3>1 DEF HeapSound, OffsetData
    <3>3. str.len + 1 \in 1 .. Len(str.data)
      BY <1>2, <3>2
    <3> QED BY <2>3, <2>4, <2>5, <3>2, <3>3
  <2> QED BY <1>1, <1>4, <2>5, <2>6, StrChanged DEF Outcome
<1> QED BY <1>3, <1>4 DEF Flips

LEMMA AdjustSound == ASSUME BufInv, AdjustLen PROVE BufInv'
<1>1. strState = "ok" /\ IsString(str) /\ HeapSound(str) /\ kept' = kept /\ sub' = sub
  BY DEF AdjustLen, Usable, BufInv, StrSound
<1>2. str.len \in Nat /\ str.data \in Seq(Nat)
  BY <1>1 DEF IsString, IsRecord
<1>3. CASE Terminators(str) = {} /\ strState' = "overread" /\ UNCHANGED str
  <2>1. str.kind # "heap"
    BY <1>1, <1>2, <1>3 DEF Terminators, HeapSound, IsString, IsRecord
  <2> QED BY <1>1, <1>3, <2>1, StrChanged DEF Outcome
<1>4. ASSUME NEW n \in Terminators(str), str' = [str EXCEPT !.len = n], UNCHANGED strState
      PROVE  BufInv'
  <2>1. n \in 0 .. Len(str.data) - 1 /\ n \in Nat /\ OffsetData(str, n) = Terminator
    BY <1>2 DEF Terminators
  <2>2. IsString(str')
    BY <1>1, <1>2, <1>4, <2>1 DEF IsString, IsRecord
  <2>3. HeapSound(str')
    BY <1>1, <1>2, <1>4, <2>1 DEF HeapSound, OffsetData, IsString, IsRecord
  <2> QED BY <1>1, <1>4, <2>2, <2>3, StrChanged DEF Outcome
<1> QED BY <1>3, <1>4 DEF AdjustLen

LEMMA PrintSound == ASSUME BufInv, Vsnprintf \/ Sprintf PROVE BufInv'
<1>1. strState = "ok" /\ sub' = sub /\ IsString(str) /\ HeapSound(str)
  BY DEF Vsnprintf, Sprintf, Usable, BufInv, StrSound
<1>2. CASE Vsnprintf
  <2>1. PICK t \in Sources, n \in 1 .. MaxLen : n <= str.size /\ Prints(str, t, n)
    BY <1>2 DEF Vsnprintf
  <2>2. t \in Seq(Nat) /\ n \in Nat \ {0} /\ Usable
    BY <1>2, BufAssumption DEF Vsnprintf
  <2> QED BY <1>1, <2>1, <2>2, PrintsSound
<1>3. CASE Sprintf
  <2>1. str = Absent /\ str.kind # "heap"
    BY <1>3, AbsentType DEF Sprintf
  <2>2. PICK t \in Sources, fill \in Fills :
          LET first == Empty(PrintRoom, fill)
          IN  \/ /\ t # <<>> /\ Len(t) < PrintRoom
                 /\ Writes(first, 0, Append(t, Terminator), Len(t))
                 /\ UNCHANGED kept
              \/ /\ Len(t) >= PrintRoom
                 /\ str' = Holding(t) /\ kept' = KeptBy(first)
                 /\ UNCHANGED strState
              \/ /\ t = <<>> \/ Len(t) >= PrintRoom
                 /\ kept' = KeptBy(first)
                 /\ UNCHANGED <<str, strState>>
    BY <1>3 DEF Sprintf
  <2> DEFINE first == Empty(PrintRoom, fill)
  <2>3. t \in Seq(Nat) /\ fill \in Nat /\ PrintRoom \in Nat
    BY BufAssumption
  <2>4. IsString(first) /\ HeapSound(first) /\ first.kind = "heap" /\ first.size = PrintRoom + 1
    BY <2>3, EmptyType
  <2> HIDE DEF first
  <2>5. CASE Len(t) < PrintRoom /\ Writes(first, 0, Append(t, Terminator), Len(t)) /\ UNCHANGED kept
    <3>1. first.size = Len(first.data) /\ 0 + Len(t) + 1 <= first.size
      BY <2>3, <2>4, <2>5 DEF HeapSound
    <3>2. Writes(first, 0, Append(t, Terminator), 0 + Len(t))
      BY <2>3, <2>5
    <3>3. strState' = "ok" /\ IsString(str') /\ HeapSound(str')
      BY <1>1, <2>3, <2>4, <3>1, <3>2, WritesSound DEF IsString
    <3> QED BY <1>1, <2>5, <3>3, StrChanged DEF Outcome
  <2>6. CASE str' = Holding(t) /\ kept' = KeptBy(first) /\ UNCHANGED strState
    <3>1. IsString(str') /\ HeapSound(str')
      BY <2>3, <2>6, HoldingType
    <3> QED BY <1>1, <2>6, <3>1, KeptBySound, StrChanged DEF Outcome
  <2>7. CASE kept' = KeptBy(first) /\ UNCHANGED <<str, strState>>
    BY <1>1, <2>7, KeptBySound, StrChanged DEF Outcome
  <2> QED BY <2>2, <2>5, <2>6, <2>7 DEF first
<1> QED BY <1>2, <1>3

LEMMA SubSound == ASSUME BufInv, Substr \/ Dup PROVE BufInv'
<1>1. strState = "ok" /\ IsString(str) /\ HeapSound(str) /\ kept' = kept /\ str' = str
  BY DEF Substr, Dup, Usable, BufInv, StrSound
<1>2. str.len \in Nat /\ str.data \in Seq(Nat) /\ str.len <= Len(str.data)
  BY <1>1 DEF IsString, IsRecord
<1>3. CASE Substr
  <2>1. PICK from \in 0 .. MaxLen \cup {SizeMax}, to \in 0 .. MaxLen \cup {SizeMax},
             fill \in Fills :
          LET n == SubstrLen(from, to, str.len)
              t == SubSeq(str.data, from + 1, from + n)
          IN  sub' \in {Holding(t), BlockPooled(t, fill)}
    BY <1>3 DEF Substr
  <2> DEFINE n == SubstrLen(from, to, str.len)
             t == SubSeq(str.data, from + 1, from + n)
  <2>2. from \in Nat /\ to \in Nat /\ fill \in Nat
    BY BufAssumption
  <2>3. n = 0 \/ (n \in Nat /\ from + n <= str.len)
    BY <1>2, <2>2 DEF SubstrLen
  <2>4. t \in Seq(Nat)
    <3> HIDE DEF n
    <3>1. CASE n = 0
      BY <2>2, <3>1
    <3>2. CASE n \in Nat /\ from + n <= str.len
      BY <1>2, <2>2, <3>2, SubSeqType
    <3> QED BY <2>3, <3>1, <3>2
  <2> HIDE DEF t
  <2>5. IsString(sub') /\ HeapSound(sub')
    BY <2>1, <2>2, <2>4, HoldingType, PooledType DEF t, HeapSound
  <2> QED BY <1>1, <1>3, <2>5, SubMade DEF Substr
<1>4. CASE Dup
  <2>1. CASE Terminators(str) = {} /\ strState' = "overread" /\ UNCHANGED sub
    <3>1. str.kind # "heap"
      BY <1>1, <1>2, <2>1 DEF Terminators, HeapSound, IsString, IsRecord
    <3> QED BY <1>1, <2>1, <3>1, StrChanged DEF Outcome
  <2>2. ASSUME NEW n \in Terminators(str), NEW fill \in Fills, UNCHANGED strState,
               sub' \in {Holding(SubSeq(str.data, 1, n)), CstrPooled(SubSeq(str.data, 1, n), fill)}
        PROVE  BufInv'
    <3>1. n \in Nat /\ n <= Len(str.data) /\ fill \in Nat
      BY <1>2, BufAssumption DEF Terminators
    <3>2. SubSeq(str.data, 1, n) \in Seq(Nat)
      BY <1>2, <3>1, SubSeqType
    <3>3. IsString(sub') /\ HeapSound(sub')
      BY <2>2, <3>1, <3>2, HoldingType, PooledType DEF HeapSound
    <3> QED BY <1>1, <2>2, <3>3, SubMade
  <2> QED BY <1>4, <2>1, <2>2 DEF Dup
<1> QED BY <1>3, <1>4

-----------------------------------------------------------------------------
LEMMA BufInit_Inv == BufInit => BufInv
  BY AbsentType DEF BufInit, BufInv, StrSound

LEMMA BufNext_Inv == BufInv /\ [BufNext]_bufVars => BufInv'
<1>1. SUFFICES ASSUME BufInv, [BufNext]_bufVars PROVE BufInv'
  OBVIOUS
<1>2. CASE ToUpper
  BY <1>1, <1>2, FlipsSound DEF ToUpper
<1>3. CASE ToLower
  BY <1>1, <1>3, FlipsSound DEF ToLower
<1>4. CASE UNCHANGED bufVars
  BY <1>1, <1>4 DEF bufVars, BufInv, StrSound, IsString, IsRecord, HeapSound, OffsetData
<1> QED BY <1>1, <1>2, <1>3, <1>4, CreationSound, AssignSound, EndSound, WritingSound,
           AdjustSound, PrintSound, SubSound DEF BufNext

(* For every text, every sequence of calls, every allocation and every     *)
(* growth that fails: a string on the heap is never read beyond its        *)
(* memory, keeps a terminator behind its characters and is given back,     *)
(* unless its capacity has a bit of the mark.  What can still go wrong is  *)
(* named by StrSound: it is written beyond its memory when its capacity    *)
(* has the masked bit, a growth without memory stores through NULL, and a  *)
(* print without memory leaves a length that is not its text's.            *)
THEOREM HeapStringsSound == BufSpec => []StrSound
<1>1. BufInv => StrSound
  BY DEF BufInv
<1> QED BY BufInit_Inv, BufNext_Inv, <1>1, PTL DEF BufSpec

-----------------------------------------------------------------------------
(* Comparison.                                                             *)

(* Induction over data: a set of numbers that is not empty has a least one. *)
LEMMA MinExists ==
  ASSUME NEW S \in SUBSET Nat, S # {}
  PROVE  Min(S) \in S /\ \A k \in S : Min(S) <= k
<1> DEFINE R == {ss \in Nat \X Nat : ss[1] < ss[2]}
<1>1. IsWellFoundedOn(R, Nat)
  BY NatLessThanWellFounded DEF OpToRel
<1> HIDE DEF R
<1>2. PICK m \in S : \A k \in S : ~(<<k, m>> \in R)
  BY <1>1, WFMin
<1>3. \A k \in S : ~(k < m)
  BY <1>2 DEF R
<1>4. m \in Nat /\ \A k \in S : k \in Nat /\ m <= k
  BY <1>3
<1> QED BY <1>4 DEF Min

LEMMA MinIs ==
  ASSUME NEW S \in SUBSET Nat, NEW m \in S, \A k \in S : m <= k
  PROVE  Min(S) = m
<1>1. S # {}
  OBVIOUS
<1>2. PICK n \in S : n = Min(S) /\ \A k \in S : n <= k
  BY <1>1, MinExists
<1>3. n \in Nat /\ m \in Nat /\ n <= m /\ m <= n
  BY <1>2
<1> QED BY <1>2, <1>3

LEMMA ContentType ==
  ASSUME NEW s, IsString(s)
  PROVE  /\ Content(s) \in Seq(Nat) /\ Len(Content(s)) = s.len /\ s.len \in Nat
         /\ \A i \in 1 .. s.len : Content(s)[i] = s.data[i] /\ s.data[i] \in Nat
<1>1. s.len \in Nat /\ s.data \in Seq(Nat) /\ s.len <= Len(s.data)
  BY DEF IsString, IsRecord
<1>2. \A i \in 1 .. s.len : s.data[i] \in Nat
  BY <1>1
<1>3. /\ SubSeq(s.data, 1, s.len) \in Seq(Nat)
      /\ Len(SubSeq(s.data, 1, s.len)) = IF 1 <= s.len THEN s.len - 1 + 1 ELSE 0
      /\ \A i \in 1 .. s.len - 1 + 1 : SubSeq(s.data, 1, s.len)[i] = s.data[1 + i - 1]
  BY <1>1, <1>2, SubSeqProperties
<1> QED BY <1>1, <1>2, <1>3 DEF Content

(* Where two texts are equal up to n, one comes before the other exactly   *)
(* when it ends there or has the smaller character behind.                 *)
LEMMA BeforeAt ==
  ASSUME NEW t \in Seq(Nat), NEW u \in Seq(Nat), NEW n \in Nat,
         n <= Len(t), n <= Len(u), \A i \in 1 .. n : t[i] = u[i],
         n < Len(t) /\ n < Len(u) => t[n + 1] # u[n + 1]
  PROVE  /\ Before(t, u) <=> n < Len(u) /\ (n = Len(t) \/ t[n + 1] < u[n + 1])
         /\ (t = u) <=> n = Len(t) /\ n = Len(u)
<1>1. SubSeq(t, 1, n) = SubSeq(u, 1, n)
  OBVIOUS
<1>2. ASSUME NEW k \in 0 .. Len(t), k < Len(u), SubSeq(t, 1, k) = SubSeq(u, 1, k),
             k = Len(t) \/ t[k + 1] < u[k + 1]
      PROVE  k = n
  <2>1. CASE k < n
    <3>1. t[k + 1] = u[k + 1] /\ k # Len(t) /\ t[k + 1] \in Nat
      BY <2>1
    <3> QED BY <1>2, <3>1
  <2>2. CASE k > n
    <3>1. n + 1 \in 1 .. k /\ n < Len(t) /\ n < Len(u)
      BY <1>2, <2>2
    <3>2. SubSeq(t, 1, k)[n + 1] = t[n + 1] /\ SubSeq(u, 1, k)[n + 1] = u[n + 1]
      BY <1>2, <3>1
    <3> QED BY <1>2, <3>1, <3>2
  <2> QED BY <1>2, <2>1, <2>2
<1>3. Before(t, u) => n < Len(u) /\ (n = Len(t) \/ t[n + 1] < u[n + 1])
  BY <1>2 DEF Before
<1>4. n < Len(u) /\ (n = Len(t) \/ t[n + 1] < u[n + 1]) => Before(t, u)
  BY <1>1 DEF Before
<1>5. n = Len(t) /\ n = Len(u) => t = u
  BY SeqEqual
<1>6. t = u => n = Len(t) /\ n = Len(u)
  OBVIOUS
<1> QED BY <1>3, <1>4, <1>5, <1>6

LEMMA CmpSound ==
  ASSUME NEW a, NEW b, IsString(a), IsString(b), HeapSound(a), HeapSound(b),
         a.kind = "heap", b.kind = "heap", ZeroFree(a), ZeroFree(b)
  PROVE  /\ (Cmp(a, b) = 0) <=> (Content(a) = Content(b))
         /\ (Cmp(a, b) < 0) <=> Before(Content(a), Content(b))
<1>1. PICK t \in Seq(Nat) : t = Content(a) /\ Len(t) = a.len
                            /\ \A i \in 1 .. a.len : t[i] = a.data[i] /\ t[i] \in Nat \ {0}
  <2>1. Content(a) \in Seq(Nat) /\ Len(Content(a)) = a.len
        /\ \A i \in 1 .. a.len : Content(a)[i] = a.data[i] /\ a.data[i] \in Nat
    BY ContentType
  <2>2. \A i \in 1 .. a.len : Content(a)[i] # 0
    BY DEF ZeroFree, Terminator
  <2> QED BY <2>1, <2>2
<1>2. PICK u \in Seq(Nat) : u = Content(b) /\ Len(u) = b.len
                            /\ \A i \in 1 .. b.len : u[i] = b.data[i] /\ u[i] \in Nat \ {0}
  <2>1. Content(b) \in Seq(Nat) /\ Len(Content(b)) = b.len
        /\ \A i \in 1 .. b.len : Content(b)[i] = b.data[i] /\ b.data[i] \in Nat
    BY ContentType
  <2>2. \A i \in 1 .. b.len : Content(b)[i] # 0
    BY DEF ZeroFree, Terminator
  <2> QED BY <2>1, <2>2
<1>3. a.len \in Nat /\ b.len \in Nat
  BY ContentType
<1>4. a.data[a.len + 1] = 0 /\ b.data[b.len + 1] = 0
  BY DEF HeapSound, OffsetData, Terminator
<1>5. PICK n \in {a.len, b.len} : n = Min({a.len, b.len}) /\ n <= a.len /\ n <= b.len
  <2>1. {a.len, b.len} \in SUBSET Nat /\ {a.len, b.len} # {}
    BY <1>3
  <2> QED BY <2>1, MinExists
<1> DEFINE D == {i \in 0 .. n - 1 : OffsetData(a, i) # OffsetData(b, i)}
<1>6. PICK at : /\ at = (IF D = {} THEN n ELSE Min(D))
                /\ Cmp(a, b) = a.data[at + 1] - b.data[at + 1]
  BY <1>5 DEF Cmp, OffsetData
<1>7. /\ at \in 0 .. n
      /\ \A i \in 1 .. at : t[i] = u[i]
      /\ at < n => t[at + 1] # u[at + 1]
  <2>1. CASE D = {}
    <3>1. \A i \in 1 .. n : i - 1 \in 0 .. n - 1 /\ (i - 1) + 1 = i
      BY <1>3, <1>5
    <3>2. \A i \in 1 .. n : a.data[i] = b.data[i]
      BY <2>1, <3>1 DEF OffsetData
    <3>3. at = n /\ n \in Nat
      BY <1>3, <1>5, <1>6, <2>1
    <3>4. \A i \in 1 .. n : i \in 1 .. a.len /\ i \in 1 .. b.len
      BY <1>3, <1>5
    <3> QED BY <1>1, <1>2, <3>2, <3>3, <3>4
  <2>2. CASE D # {}
    <3>1. D \in SUBSET Nat
      OBVIOUS
    <3>2. at \in D /\ \A k \in D : at <= k
      BY <1>6, <2>2, <3>1, MinExists
    <3>3. at \in 0 .. n - 1 /\ a.data[at + 1] # b.data[at + 1]
      BY <3>2 DEF OffsetData
    <3>4. ASSUME NEW i \in 1 .. at PROVE a.data[i] = b.data[i]
      <4>1. i - 1 \in 0 .. n - 1 /\ i - 1 < at /\ (i - 1) + 1 = i
        BY <1>3, <1>5, <3>3
      <4>2. i - 1 \notin D
        BY <3>2, <3>3, <4>1
      <4> QED BY <4>1, <4>2 DEF OffsetData
    <3>5. \A i \in 1 .. at + 1 : i \in 1 .. a.len /\ i \in 1 .. b.len
      BY <1>3, <1>5, <3>3
    <3>6. at + 1 \in 1 .. at + 1 /\ at \in 0 .. n /\ at < n
      BY <1>3, <1>5, <3>3
    <3>7. \A i \in 1 .. at : i \in 1 .. at + 1
      BY <3>3
    <3> QED BY <1>1, <1>2, <3>3, <3>4, <3>5, <3>6, <3>7
  <2> QED BY <2>1, <2>2
<1> HIDE DEF D
<1>8. PICK m \in Nat : /\ m = at /\ m <= a.len /\ m <= b.len
                       /\ m < a.len /\ m < b.len => m < n
  <2>1. at \in Nat /\ at <= n
    BY <1>3, <1>5, <1>7
  <2> QED BY <1>3, <1>5, <2>1
<1>9. /\ Before(t, u) <=> m < b.len /\ (m = a.len \/ t[m + 1] < u[m + 1])
      /\ (t = u) <=> m = a.len /\ m = b.len
  <2>1. \A i \in 1 .. m : t[i] = u[i]
    BY <1>7, <1>8
  <2>2. m < a.len /\ m < b.len => t[m + 1] # u[m + 1]
    BY <1>7, <1>8
  <2>3. m <= Len(t) /\ m <= Len(u) /\ (m < Len(t) /\ m < Len(u) => t[m + 1] # u[m + 1])
    BY <1>1, <1>2, <1>8, <2>2
  <2>4. /\ Before(t, u) <=> m < Len(u) /\ (m = Len(t) \/ t[m + 1] < u[m + 1])
        /\ (t = u) <=> m = Len(t) /\ m = Len(u)
    BY <2>1, <2>3, BeforeAt
  <2> QED BY <1>1, <1>2, <2>4
<1>10. /\ m = a.len => a.data[m + 1] = 0
       /\ m # a.len => m < a.len /\ a.data[m + 1] = t[m + 1] /\ t[m + 1] \in Nat \ {0}
  <2>1. m # a.len => m + 1 \in 1 .. a.len
    BY <1>3, <1>8
  <2> QED BY <1>1, <1>3, <1>4, <1>8, <2>1
<1>11. /\ m = b.len => b.data[m + 1] = 0
       /\ m # b.len => m < b.len /\ b.data[m + 1] = u[m + 1] /\ u[m + 1] \in Nat \ {0}
  <2>1. m # b.len => m + 1 \in 1 .. b.len
    BY <1>3, <1>8
  <2> QED BY <1>2, <1>3, <1>4, <1>8, <2>1
<1>12. m = a.len \/ m = b.len \/ t[m + 1] # u[m + 1]
  BY <1>3, <1>7, <1>8, <1>10, <1>11
<1>13. PICK x, y : x = a.data[m + 1] /\ y = b.data[m + 1] /\ Cmp(a, b) = x - y
  BY <1>6, <1>8
<1>14. /\ (Cmp(a, b) = 0) <=> m = a.len /\ m = b.len
       /\ (Cmp(a, b) < 0) <=> m < b.len /\ (m = a.len \/ t[m + 1] < u[m + 1])
  <2>1. CASE m = a.len /\ m = b.len
    BY <1>10, <1>11, <1>13, <2>1
  <2>2. CASE m = a.len /\ m # b.len
    BY <1>10, <1>11, <1>13, <2>2
  <2>3. CASE m # a.len /\ m = b.len
    BY <1>8, <1>10, <1>11, <1>13, <2>3
  <2>4. CASE m # a.len /\ m # b.len
    BY <1>10, <1>11, <1>12, <1>13, <2>4
  <2> QED BY <2>1, <2>2, <2>3, <2>4
<1> QED BY <1>1, <1>2, <1>9, <1>14

(* ina_str_cmp of two heap strings without zero bytes orders them as their *)
(* characters do, the shorter first (string.h: lexicographically).         *)
THEOREM CmpOrders == BufSpec => []CmpLexicographic
<1>1. BufInv => CmpLexicographic
  BY CmpSound DEF BufInv, StrSound, CmpLexicographic
<1> QED BY BufInit_Inv, BufNext_Inv, <1>1, PTL DEF BufSpec

-----------------------------------------------------------------------------
(* The text of a heap string: StrBuf implements StrText.                   *)

HeapText == IF strState = "ok" /\ str.kind = "heap" THEN Content(str) ELSE NoText

LEMMA TextHeld ==
  ASSUME NEW s, IsString(s)
  PROVE  Content(s) # NoText
<1>1. PICK t \in Seq(Nat) : t = Content(s)
  BY ContentType
<1>2. t # <<-1>>
  <2> SUFFICES ASSUME t = <<-1>> PROVE FALSE
    OBVIOUS
  <2>1. Len(t) = 1 /\ t[1] = -1
    OBVIOUS
  <2>2. 1 \in 1 .. Len(t)
    BY <2>1
  <2>3. t[1] \in Nat
    BY <2>2
  <2> QED BY <2>1, <2>3
<1> QED BY <1>1, <1>2 DEF NoText

LEMMA OverwriteKeeps ==
  ASSUME NEW data \in Seq(Nat), NEW offset \in Nat, NEW t \in Seq(Nat),
         NEW i \in 1 .. Len(data), i <= offset
  PROVE  Overwrite(data, offset, t)[i] = data[i]
  BY DEF Overwrite

LEMMA HoldingText ==
  ASSUME NEW t \in Seq(Nat)
  PROVE  Content(Holding(t)) = t
<1>1. PICK u \in Seq(Nat) : u = Content(Holding(t)) /\ Len(u) = Len(t)
                            /\ \A i \in 1 .. Len(t) : u[i] = Holding(t).data[i]
  BY HoldingType, ContentType DEF Holding
<1>2. Holding(t).data = Append(t, Terminator)
  BY DEF Holding
<1>3. \A i \in 1 .. Len(t) : u[i] = t[i]
  BY <1>1, <1>2
<1> QED BY <1>1, <1>3, SeqEqual

LEMMA WritesText ==
  ASSUME NEW s, IsRecord(s), s.kind = "heap", s.size = Len(s.data),
         NEW offset \in Nat, NEW t \in Seq(Nat), offset + Len(t) + 1 <= s.size,
         strState = "ok", Writes(s, offset, Append(t, Terminator), offset + Len(t))
  PROVE  /\ strState' = "ok" /\ str'.kind = "heap"
         /\ SubSeq(s.data, 1, offset) \in Seq(Nat)
         /\ Content(str') = SubSeq(s.data, 1, offset) \o t
<1> DEFINE u == Append(t, Terminator)
           d == Overwrite(s.data, offset, u)
<1>1. u \in Seq(Nat) /\ Len(u) = Len(t) + 1 /\ Len(t) \in Nat /\ \A i \in 1 .. Len(t) : u[i] = t[i]
  BY DEF Terminator
<1>2. s.data \in Seq(Nat) /\ Len(s.data) \in Nat
  BY DEF IsRecord
<1>3. str' = [s EXCEPT !.data = d, !.len = offset + Len(t)] /\ strState' = "ok"
  BY <1>1, <1>2 DEF Writes
<1>4. PICK v : v = str' /\ IsString(v)
  BY WritesSound
<1> HIDE DEF u
<1>5. d \in Seq(Nat) /\ Len(d) = Len(s.data)
      /\ \A i \in 1 .. Len(u) : offset + i <= Len(s.data) => d[offset + i] = u[i]
  BY <1>1, <1>2, OverwriteType
<1>6. \A i \in 1 .. Len(s.data) : i <= offset => d[i] = s.data[i]
  BY <1>1, <1>2, OverwriteKeeps
<1> HIDE DEF d
<1>7. v.data = d /\ v.len = offset + Len(t) /\ v.kind = "heap"
  BY <1>3, <1>4 DEF IsRecord
<1>8. PICK a \in Seq(Nat) : a = Content(v) /\ Len(a) = offset + Len(t)
                            /\ \A i \in 1 .. offset + Len(t) : a[i] = d[i]
  BY <1>4, <1>7, ContentType
<1>9. PICK b \in Seq(Nat) : b = SubSeq(s.data, 1, offset) /\ Len(b) = offset
                            /\ \A i \in 1 .. offset : b[i] = s.data[i]
  <2>5. \A i \in 1 .. offset : i \in 1 .. Len(s.data)
    BY <1>1, <1>2
  <2>1. \A i \in 1 .. offset : s.data[i] \in Nat
    BY <1>2, <2>5
  <2>2. /\ SubSeq(s.data, 1, offset) \in Seq(Nat)
        /\ Len(SubSeq(s.data, 1, offset)) = IF 1 <= offset THEN offset - 1 + 1 ELSE 0
        /\ \A i \in 1 .. offset - 1 + 1 : SubSeq(s.data, 1, offset)[i] = s.data[1 + i - 1]
    BY <2>1, SubSeqProperties
  <2>3. \A i \in 1 .. offset : i \in 1 .. offset - 1 + 1 /\ 1 + i - 1 = i
    OBVIOUS
  <2>4. Len(SubSeq(s.data, 1, offset)) = offset
    BY <2>2
  <2> QED BY <2>2, <2>3, <2>4
<1>10. PICK c \in Seq(Nat) :
          /\ c = b \o t /\ Len(c) = offset + Len(t)
          /\ \A i \in 1 .. offset + Len(t) :
                c[i] = IF i <= offset THEN b[i] ELSE t[i - offset]
  <2>1. /\ b \o t \in Seq(Nat) /\ Len(b \o t) = Len(b) + Len(t)
        /\ \A i \in 1 .. Len(b) + Len(t) :
              (b \o t)[i] = IF i <= Len(b) THEN b[i] ELSE t[i - Len(b)]
    BY ConcatProperties
  <2>2. Len(b) = offset
    BY <1>9
  <2>3. /\ b \o t \in Seq(Nat) /\ Len(b \o t) = offset + Len(t)
        /\ \A i \in 1 .. offset + Len(t) :
              (b \o t)[i] = IF i <= offset THEN b[i] ELSE t[i - offset]
    BY <2>1, <2>2
  <2> QED BY <2>3
<1>11. ASSUME NEW i \in 1 .. offset + Len(t) PROVE a[i] = c[i]
  <2>1. CASE i <= offset
    <3>1. i \in 1 .. offset /\ i \in 1 .. Len(s.data)
      BY <1>1, <1>2, <1>11, <2>1
    <3>2. c[i] = b[i] /\ b[i] = s.data[i]
      BY <1>9, <1>10, <1>11, <2>1, <3>1
    <3>3. a[i] = d[i] /\ d[i] = s.data[i]
      BY <1>6, <1>8, <1>11, <2>1, <3>1
    <3> QED BY <3>2, <3>3
  <2>2. CASE i > offset
    <3>1. i - offset \in 1 .. Len(t) /\ offset + (i - offset) = i
      BY <1>1, <2>2
    <3>2. i - offset \in 1 .. Len(u) /\ offset + (i - offset) <= Len(s.data)
      BY <1>1, <3>1
    <3>3. d[i] = u[i - offset]
      BY <1>5, <3>1, <3>2
    <3>4. a[i] = d[i] /\ u[i - offset] = t[i - offset]
      BY <1>1, <1>8, <1>11, <3>1
    <3>5. ~(i <= offset)
      BY <2>2
    <3>6. c[i] = t[i - offset]
      BY <1>10, <1>11, <3>5
    <3> QED BY <3>3, <3>4, <3>6
  <2> QED BY <1>11, <2>1, <2>2
<1>12. a = c
  BY <1>8, <1>10, <1>11, SeqEqual
<1> QED BY <1>3, <1>4, <1>7, <1>8, <1>9, <1>10, <1>12

(* A growth keeps the text, or has found no memory, or a capacity that was *)
(* misread.                                                                *)
LEMMA EnsuredText ==
  ASSUME BufInv, Usable, str.kind = "heap", NEW t \in Seq(Nat), NEW offset \in {0, str.len},
         Ensured(offset + Len(t), offset, Append(t, Terminator), offset + Len(t))
  PROVE  \/ strState' # "ok"
         \/ /\ strState' = "ok" /\ str'.kind = "heap"
            /\ Content(str') = SubSeq(str.data, 1, offset) \o t
<1> DEFINE n == offset + Len(t)
<1>1. IsString(str) /\ HeapSound(str) /\ strState = "ok" /\ offset \in Nat /\ n \in Nat
  BY DEF BufInv, Usable, StrSound, IsString, IsRecord
<1>2. CASE Enough(str, n) /\ Writes(str, offset, Append(t, Terminator), n)
  <2>1. Len(Append(t, Terminator)) = Len(t) + 1 /\ Len(t) \in Nat
    BY DEF Terminator
  <2>2. str.size = Len(str.data) /\ Len(str.data) \in Nat
    BY <1>1 DEF HeapSound, IsString, IsRecord
  <2>3. CASE n + 1 <= str.size
    BY <1>1, <1>2, <2>2, <2>3, WritesText DEF IsString
  <2>4. CASE ~(n + 1 <= str.size)
    <3>1. ~(offset + Len(Append(t, Terminator)) <= Len(str.data))
      BY <1>1, <2>1, <2>2, <2>4
    <3> QED BY <1>2, <3>1 DEF Writes
  <2> QED BY <2>3, <2>4
<1>3. ASSUME ~Enough(str, n), NEW fill \in Fills,
             Writes(Resized(str, n, fill), offset, Append(t, Terminator), n)
      PROVE  /\ strState' = "ok" /\ str'.kind = "heap"
             /\ Content(str') = SubSeq(str.data, 1, offset) \o t
  <2> DEFINE r == Resized(str, n, fill)
             size == Masked(str.size) - str.len + n
  <2>1. fill \in Nat
    BY BufAssumption
  <2>2. IsRecord(r) /\ r.kind = "heap" /\ r.size = Len(r.data) /\ r.size = size
        /\ n + 1 <= r.size
    BY <1>1, <1>3, <2>1, ResizedType
  <2>3. r.data = Bytes(size, str.data, fill)
    BY <1>1 DEF Resized, IsString, IsRecord
  <2>4. Writes(r, offset, Append(t, Terminator), n)
    BY <1>3
  <2> HIDE DEF r
  <2>5. /\ strState' = "ok" /\ str'.kind = "heap"
        /\ Content(str') = SubSeq(r.data, 1, offset) \o t
    BY <1>1, <2>2, <2>4, WritesText
  <2>6. \A i \in 1 .. offset : r.data[i] = str.data[i]
    <3>1. /\ str.len \in Nat /\ str.len <= Len(str.data) /\ offset <= Len(str.data)
          /\ Len(str.data) \in Nat /\ Len(t) \in Nat
      BY <1>1 DEF HeapSound, IsString, IsRecord
    <3>2. size \in Nat /\ offset <= size
      <4> HIDE DEF size
      <4>1. r.size \in Nat
        BY <2>2 DEF IsRecord
      <4> QED BY <1>1, <2>2, <3>1, <4>1
    <3> HIDE DEF size
    <3> QED BY <1>1, <2>3, <3>1, <3>2 DEF Bytes
  <2>7. SubSeq(r.data, 1, offset) = SubSeq(str.data, 1, offset)
    BY <1>1, <2>6
  <2> QED BY <2>5, <2>7
<1>4. CASE strState' \in {"fault", "foreign"}
  BY <1>4
<1> QED BY <1>2, <1>3, <1>4 DEF Ensured

(* What a call does to the text of a heap string.                          *)
LEMMA TextNew ==
  ASSUME BufInv,
         \/ New \/ NewUsingPool \/ NewFrom \/ NewFromBlockUsingPool
         \/ NewFromCstrUsingPool \/ AssignBuf
  PROVE  HeapText = NoText /\ HeapText' \in Sources \cup {<<>>, NoText}
<1>1. HeapText = NoText
  BY AbsentType DEF New, NewUsingPool, NewFrom, NewFromBlockUsingPool,
     NewFromCstrUsingPool, AssignBuf, Makes, HeapText
<1>5. IF strState' = "ok" /\ str'.kind = "heap"
      THEN HeapText' = Content(str') ELSE HeapText' = NoText
  BY DEF HeapText
<1>2. CASE New
  <2>1. PICK room \in 0 .. MaxLen, fill \in Fills : Makes(Empty(room, fill))
    BY <1>2 DEF New
  <2>2. str' = Empty(room, fill)
    BY <2>1 DEF Makes
  <2>3. Content(Empty(room, fill)) = <<>>
    <3>1. Content(Empty(room, fill)) = SubSeq(Empty(room, fill).data, 1, 0)
      BY DEF Content, Empty
    <3> QED BY <3>1, SubSeqEmpty
  <2> QED BY <1>1, <1>5, <2>2, <2>3
<1>3. CASE NewFrom
  <2>1. PICK t \in Sources : str' = Holding(t)
    BY <1>3 DEF NewFrom, Makes
  <2>2. t \in Seq(Nat)
    BY BufAssumption
  <2>3. Content(Holding(t)) = t
    BY <2>2, HoldingText
  <2> QED BY <1>1, <1>5, <2>1, <2>3
<1>4. CASE NewUsingPool \/ NewFromBlockUsingPool \/ NewFromCstrUsingPool \/ AssignBuf
  <2>1. str'.kind # "heap"
    <3>1. CASE NewUsingPool
      BY <3>1 DEF NewUsingPool, Makes, EmptyPooled
    <3>2. CASE NewFromBlockUsingPool
      <4>1. PICK t \in Sources, fill \in Fills : str' = BlockPooled(t, fill)
        BY <3>2 DEF NewFromBlockUsingPool, Makes
      <4>2. t \in Seq(Nat) /\ fill \in Nat
        BY BufAssumption
      <4>3. BlockPooled(t, fill).kind = "pool"
        BY <4>2, PooledType
      <4> QED BY <4>1, <4>3
    <3>3. CASE NewFromCstrUsingPool
      <4>1. PICK t \in Sources, fill \in Fills : str' = CstrPooled(t, fill)
        BY <3>3 DEF NewFromCstrUsingPool, Makes
      <4>2. t \in Seq(Nat) /\ fill \in Nat
        BY BufAssumption
      <4>3. CstrPooled(t, fill).kind = "pool"
        BY <4>2, PooledType
      <4> QED BY <4>1, <4>3
    <3>4. CASE AssignBuf
      BY <3>4 DEF AssignBuf
    <3> QED BY <1>4, <3>1, <3>2, <3>3, <3>4
  <2> QED BY <1>1, <1>5, <2>1
<1> QED BY <1>1, <1>2, <1>3, <1>4

(* What is left of c when the characters of out are trimmed.               *)
Trims(c, out, from, to) ==
    /\ \A i \in (1 .. from - 1) \cup (to + 1 .. Len(c)) : c[i] \in out
    /\ from <= to => c[from] \notin out /\ c[to] \notin out
    /\ from > to => \A i \in 1 .. Len(c) : c[i] \in out

LEMMA TextAfter ==
  /\ strState' = "ok" /\ str'.kind = "heap" => HeapText' = Content(str')
  /\ ~(strState' = "ok" /\ str'.kind = "heap") => HeapText' = NoText
  BY DEF HeapText

(* A call that goes wrong ends the text.                                   *)
LEMMA TextLost ==
  ASSUME HeapText # NoText, strState' # "ok"
  PROVE  Text!Next
<1>1. HeapText' = NoText
  BY DEF HeapText
<1> QED BY <1>1 DEF Text!Next, Text!Drop, Text!Holds, HeapText

LEMMA TextWritten ==
  ASSUME BufInv, str.kind = "heap", Ncpy \/ Ncat \/ Truncate \/ Trim
  PROVE  Text!Next
<1>1. Usable /\ strState = "ok" /\ IsString(str) /\ HeapSound(str)
  BY DEF Ncpy, Ncat, Truncate, Trim, Usable, BufInv, StrSound
<1>2. /\ str.len \in Nat /\ str.data \in Seq(Nat) /\ str.size = Len(str.data)
      /\ str.len + 1 <= str.size /\ Len(str.data) \in Nat
  BY <1>1 DEF IsString, IsRecord, HeapSound
<1>3. PICK c \in Seq(Nat) : /\ c = Content(str) /\ c = SubSeq(str.data, 1, str.len)
                            /\ Len(c) = str.len
                            /\ \A i \in 1 .. str.len : c[i] = str.data[i]
  BY <1>1, ContentType DEF Content
<1>4. HeapText = c /\ c # NoText
  BY <1>1, <1>3, TextHeld DEF HeapText
<1>5. CASE Ncpy
  <2>1. PICK t \in Sources : Ensured(Len(t), 0, Append(t, Terminator), Len(t))
    BY <1>5 DEF Ncpy
  <2>2. t \in Seq(Nat) /\ 0 + Len(t) = Len(t)
    BY BufAssumption
  <2>0. CASE strState' # "ok"
    BY <1>4, <2>0, TextLost
  <2>3. \/ strState' # "ok"
        \/ strState' = "ok" /\ str'.kind = "heap"
           /\ Content(str') = SubSeq(str.data, 1, 0) \o t
    BY <1>1, <2>1, <2>2, EnsuredText
  <2>4. SubSeq(str.data, 1, 0) \o t = t
    BY <2>2, SubSeqEmpty, ConcatEmptySeq
  <2>5. strState' = "ok" => HeapText' = t
    BY <2>3, <2>4, TextAfter
  <2> QED BY <1>4, <2>0, <2>5 DEF Text!Next, Text!Copy, Text!Holds, HeapText
<1>6. CASE Ncat
  <2>1. PICK t \in Sources :
          Ensured(str.len + Len(t), str.len, Append(t, Terminator), str.len + Len(t))
    BY <1>6 DEF Ncat
  <2>2. t \in Seq(Nat)
    BY BufAssumption
  <2>0. CASE strState' # "ok"
    BY <1>4, <2>0, TextLost
  <2>3. \/ strState' # "ok"
        \/ strState' = "ok" /\ str'.kind = "heap"
           /\ Content(str') = SubSeq(str.data, 1, str.len) \o t
    BY <1>1, <2>1, <2>2, EnsuredText
  <2>4. strState' = "ok" => HeapText' = HeapText \o t
    BY <1>3, <1>4, <2>3, TextAfter
  <2> QED BY <1>4, <2>0, <2>4 DEF Text!Next, Text!Concat, Text!Holds, HeapText
<1>7. CASE Truncate
  <2>1. PICK pos \in 0 .. str.len : Writes(str, pos, <<Terminator>>, pos)
    BY <1>7 DEF Truncate
  <2>2. Append(<<>>, Terminator) = <<Terminator>> /\ <<>> \in Seq(Nat) /\ Len(<<>>) = 0
    OBVIOUS
  <2>3. pos \in Nat /\ pos + Len(<<>>) = pos /\ pos + Len(<<>>) + 1 <= str.size
    BY <1>2, <2>2
  <2>4. Writes(str, pos, Append(<<>>, Terminator), pos + Len(<<>>))
    BY <2>1, <2>2, <2>3
  <2>5. /\ strState' = "ok" /\ str'.kind = "heap"
        /\ SubSeq(str.data, 1, pos) \in Seq(Nat)
        /\ Content(str') = SubSeq(str.data, 1, pos) \o <<>>
    BY <1>1, <1>2, <2>2, <2>3, <2>4, WritesText DEF IsString
  <2>6. SubSeq(str.data, 1, pos) \o <<>> = SubSeq(str.data, 1, pos)
    BY <2>5, ConcatEmptySeq
  <2>7. SubSeq(c, 1, pos) = SubSeq(str.data, 1, pos)
    <3>1. \A i \in 1 .. pos : c[i] = str.data[i]
      BY <1>2, <1>3
    <3> QED BY <2>3, <3>1
  <2>8. HeapText' = SubSeq(HeapText, 1, pos) /\ pos \in 0 .. Len(HeapText)
    BY <1>3, <1>4, <2>5, <2>6, <2>7, TextAfter
  <2> QED BY <1>4, <2>8 DEF Text!Next, Text!Truncate, Text!Holds, HeapText
<1>8. CASE Trim
  <2>1. PICK chars \in TrimSets :
          TrimTo({i \in 1 .. str.len : str.data[i] \notin chars \cup {Terminator}})
    BY <1>8 DEF Trim
  <2> DEFINE out == chars \cup {0}
             rest == {i \in 1 .. str.len : str.data[i] \notin out}
  <2>2. TrimTo(rest)
    BY <2>1 DEF Terminator
  <2>3. \A i \in 1 .. str.len : i \in rest <=> c[i] \notin out
    BY <1>3
  <2>4. \A i \in rest : i \in 1 .. str.len
    OBVIOUS
  <2> HIDE DEF rest
  <2>5. CASE rest = {} /\ Writes(str, 0, <<Terminator>>, 0)
    <3>1. Append(<<>>, Terminator) = <<Terminator>> /\ <<>> \in Seq(Nat) /\ 0 + Len(<<>>) = 0
          /\ 0 + Len(<<>>) + 1 <= str.size
      BY <1>2
    <3>2. Writes(str, 0, Append(<<>>, Terminator), 0 + Len(<<>>))
      BY <2>5, <3>1
    <3>3. /\ strState' = "ok" /\ str'.kind = "heap"
          /\ Content(str') = SubSeq(str.data, 1, 0) \o <<>>
      BY <1>1, <1>2, <3>1, <3>2, WritesText DEF IsString
    <3>4. SubSeq(str.data, 1, 0) \o <<>> = <<>> /\ SubSeq(c, 1, 0) = <<>>
      BY <3>1, SubSeqEmpty, ConcatEmptySeq
    <3>5. HeapText' = SubSeq(c, 1, 0)
      BY <3>3, <3>4, TextAfter
    <3>6. Trims(c, out, 1, 0)
      BY <1>2, <1>3, <2>3, <2>5 DEF Trims
    <3>7. 1 \in 1 .. Len(c) + 1 /\ 0 \in 0 .. Len(c)
      BY <1>2, <1>3
    <3> QED BY <1>4, <3>5, <3>6, <3>7 DEF Trims, Text!Next, Text!Trim, Text!Holds, HeapText
  <2>6. ASSUME NEW from \in rest, NEW to \in rest, \A i \in rest : from <= i /\ i <= to,
               Writes(str, 0, Append(SubSeq(str.data, from, to), Terminator), to - from + 1)
        PROVE  Text!Next
    <3>1. from \in 1 .. str.len /\ to \in 1 .. str.len /\ from <= to
      BY <2>4, <2>6
    <3>2. to <= Len(str.data)
      BY <1>2, <3>1
    <3>3. PICK t \in Seq(Nat) : t = SubSeq(str.data, from, to) /\ Len(t) = to - from + 1
      <4>1. from \in Nat \ {0} /\ to \in Int
        BY <3>1
      <4>2. SubSeq(str.data, from, to) \in Seq(Nat)
            /\ Len(SubSeq(str.data, from, to)) = to - from + 1
        BY <1>2, <3>1, <3>2, <4>1, SubSeqType
      <4> QED BY <4>2
    <3>4. 0 + Len(t) = to - from + 1 /\ 0 + Len(t) + 1 <= str.size
      BY <1>2, <3>1, <3>3
    <3>5. Writes(str, 0, Append(t, Terminator), 0 + Len(t))
      BY <2>6, <3>3, <3>4
    <3>6. /\ strState' = "ok" /\ str'.kind = "heap"
          /\ Content(str') = SubSeq(str.data, 1, 0) \o t
      BY <1>1, <1>2, <3>4, <3>5, WritesText DEF IsString
    <3>7. SubSeq(str.data, 1, 0) \o t = t
      BY SubSeqEmpty, ConcatEmptySeq
    <3>8. t = SubSeq(c, from, to)
      <4>1. \A i \in from .. to : c[i] = str.data[i]
        BY <1>2, <1>3, <3>1
      <4> QED BY <3>1, <3>3, <4>1
    <3>9. HeapText' = SubSeq(c, from, to)
      BY <3>6, <3>7, <3>8, TextAfter
    <3>10. Trims(c, out, from, to)
      <4>1. ASSUME NEW i \in (1 .. from - 1) \cup (to + 1 .. Len(c)) PROVE c[i] \in out
        <5>1. i \in 1 .. str.len /\ i \notin rest
          BY <1>2, <1>3, <2>6, <3>1, <4>1
        <5> QED BY <2>3, <5>1
      <4>2. c[from] \notin out /\ c[to] \notin out
        BY <2>3, <2>6, <3>1
      <4> QED BY <3>1, <4>1, <4>2 DEF Trims
    <3>11. from \in 1 .. Len(c) + 1 /\ to \in 0 .. Len(c)
      BY <1>2, <1>3, <3>1
    <3> QED BY <1>4, <3>9, <3>10, <3>11 DEF Trims, Text!Next, Text!Trim, Text!Holds, HeapText
  <2> QED BY <2>2, <2>5, <2>6 DEF TrimTo
<1> QED BY <1>5, <1>6, <1>7, <1>8

(* The length strlen finds in a sound heap string is at most its own.      *)
LEMMA StrlenInText ==
  ASSUME NEW s, IsString(s), HeapSound(s), s.kind = "heap"
  PROVE  /\ Terminators(s) # {}
         /\ \A n \in Terminators(s) : Strlen(s, n) =>
               /\ n \in 0 .. s.len /\ n < Len(s.data)
               /\ n < s.len => s.data[n + 1] = 0
<1>1. s.len \in Nat /\ s.data \in Seq(Nat) /\ s.len < Len(s.data) /\ Len(s.data) \in Nat
  BY DEF IsString, IsRecord, HeapSound
<1>2. s.len \in Terminators(s)
  BY <1>1 DEF HeapSound, Terminators
<1> QED BY <1>1, <1>2 DEF Strlen, Terminators, OffsetData, Terminator

LEMMA TextFlipped ==
  ASSUME BufInv, str.kind = "heap", ToUpper \/ ToLower
  PROVE  Text!Next
<1>1. PICK first \in {96, 64}, change \in {-32, 32}, upper \in BOOLEAN :
          /\ Flips(first, change)
          /\ upper => first = 96 /\ change = -32
          /\ ~upper => first = 64 /\ change = 32
  <2>1. CASE ToUpper
    BY <2>1 DEF ToUpper
  <2>2. CASE ToLower
    BY <2>2 DEF ToLower
  <2> QED BY <2>1, <2>2
<1>2. strState = "ok" /\ IsString(str) /\ HeapSound(str)
  BY <1>1 DEF Flips, Usable, BufInv, StrSound
<1>3. PICK c \in Seq(Nat) : c = Content(str) /\ Len(c) = str.len /\ str.len \in Nat
                            /\ \A i \in 1 .. str.len : c[i] = str.data[i]
  BY <1>2, ContentType
<1>4. HeapText = c /\ c # NoText
  BY <1>2, <1>3, TextHeld DEF HeapText
<1>5. PICK n \in Terminators(str) :
        /\ Strlen(str, n) /\ strState' = strState
        /\ str' = [str EXCEPT !.data = [i \in 1 .. Len(@) |->
              IF i <= n /\ @[i] \in first .. first + 31 THEN @[i] + change ELSE @[i]]]
  BY <1>1, <1>2, StrlenInText DEF Flips
<1>6. n \in 0 .. str.len /\ n < Len(str.data) /\ (n < str.len => str.data[n + 1] = 0)
  BY <1>2, <1>5, StrlenInText
<1> DEFINE d == [i \in 1 .. Len(str.data) |->
                   IF i <= n /\ str.data[i] \in first .. first + 31
                   THEN str.data[i] + change ELSE str.data[i]]
<1>7. str' = [str EXCEPT !.data = d]
  BY <1>5
<1>8. str.data \in Seq(Nat) /\ str.len <= Len(str.data) /\ Len(str.data) \in Nat
  BY <1>2 DEF IsString, IsRecord
<1>9. ASSUME NEW i \in 1 .. str.len
      PROVE  d[i] = IF i <= n /\ c[i] \in first .. first + 31 THEN c[i] + change ELSE c[i]
  <2>1. i \in 1 .. Len(str.data) /\ c[i] = str.data[i]
    BY <1>3, <1>8, <1>9
  <2> QED BY <2>1
<1> HIDE DEF d
<1>10. str'.data = d /\ str'.len = str.len /\ str'.kind = "heap" /\ strState' = "ok"
  BY <1>2, <1>5, <1>7 DEF IsString, IsRecord
<1>11. BufInv'
  BY <1>1, FlipsSound
<1>12. PICK v : v = str' /\ IsString(v)
  BY <1>11 DEF BufInv, IsString, IsRecord
<1>13. PICK e \in Seq(Nat) : e = Content(v) /\ Len(e) = str.len
                             /\ \A i \in 1 .. str.len : e[i] = d[i]
  BY <1>10, <1>12, ContentType
<1>14. HeapText' = e
  BY <1>10, <1>12, <1>13, TextAfter
<1> DEFINE f == [i \in 1 .. Len(c) |->
                IF i > n THEN c[i]
                ELSE IF upper /\ c[i] \in 96 .. 127 THEN c[i] - 32
                ELSE IF ~upper /\ c[i] \in 64 .. 95 THEN c[i] + 32
                ELSE c[i]]
<1>15. ASSUME NEW i \in 1 .. Len(c) PROVE e[i] = f[i]
  <2>1. i \in 1 .. str.len /\ c[i] \in Nat
    BY <1>3, <1>15
  <2>2. e[i] = IF i <= n /\ c[i] \in first .. first + 31 THEN c[i] + change ELSE c[i]
    BY <1>9, <1>13, <2>1
  <2>3. CASE upper
    <3>1. first = 96 /\ change = -32
      BY <1>1, <2>3
    <3> QED BY <1>6, <2>1, <2>2, <2>3, <3>1
  <2>4. CASE ~upper
    <3>1. first = 64 /\ change = 32
      BY <1>1, <2>4
    <3> QED BY <1>6, <2>1, <2>2, <2>4, <3>1
  <2> QED BY <2>3, <2>4
<1>16. e = f
  <2>1. e = [i \in 1 .. Len(c) |-> e[i]]
    BY <1>3, <1>13
  <2>2. f = [i \in 1 .. Len(c) |-> f[i]]
    OBVIOUS
  <2> HIDE DEF f
  <2> QED BY <1>15, <2>1, <2>2
<1>17. n \in 0 .. Len(HeapText) /\ (n < Len(HeapText) => HeapText[n + 1] = 0)
  BY <1>3, <1>4, <1>6
<1>18. Text!Recase <=>
         /\ HeapText # NoText
         /\ \E up \in BOOLEAN, m \in 0 .. Len(HeapText) :
               /\ m < Len(HeapText) => HeapText[m + 1] = 0
               /\ HeapText' = [i \in 1 .. Len(HeapText) |->
                     IF i > m THEN HeapText[i]
                     ELSE IF up /\ HeapText[i] \in 96 .. 127 THEN HeapText[i] - 32
                     ELSE IF ~up /\ HeapText[i] \in 64 .. 95 THEN HeapText[i] + 32
                     ELSE HeapText[i]]
  BY DEF Text!Recase, Text!Holds, HeapText
<1>19. HeapText' = [i \in 1 .. Len(HeapText) |->
                IF i > n THEN HeapText[i]
                ELSE IF upper /\ HeapText[i] \in 96 .. 127 THEN HeapText[i] - 32
                ELSE IF ~upper /\ HeapText[i] \in 64 .. 95 THEN HeapText[i] + 32
                ELSE HeapText[i]]
  BY <1>4, <1>14, <1>16
<1> QED BY <1>4, <1>17, <1>18, <1>19 DEF Text!Next

LEMMA TextAdjusted ==
  ASSUME BufInv, str.kind = "heap", AdjustLen
  PROVE  Text!Next
<1>1. strState = "ok" /\ IsString(str) /\ HeapSound(str)
  BY DEF AdjustLen, Usable, BufInv, StrSound
<1>2. PICK c \in Seq(Nat) : c = Content(str) /\ Len(c) = str.len /\ str.len \in Nat
                            /\ \A i \in 1 .. str.len : c[i] = str.data[i]
  BY <1>1, ContentType
<1>3. HeapText = c /\ c # NoText
  BY <1>1, <1>2, TextHeld DEF HeapText
<1>4. PICK n \in Terminators(str) :
        Strlen(str, n) /\ str' = [str EXCEPT !.len = n] /\ strState' = strState
  BY <1>1, StrlenInText DEF AdjustLen
<1>5. n \in 0 .. str.len
  BY <1>1, <1>4, StrlenInText
<1>6. str'.data = str.data /\ str'.len = n /\ str'.kind = "heap" /\ strState' = "ok"
  BY <1>1, <1>4 DEF IsString, IsRecord
<1>7. Content(str') = SubSeq(str.data, 1, n)
  BY <1>6 DEF Content
<1>8. SubSeq(c, 1, n) = SubSeq(str.data, 1, n)
  <2>1. \A i \in 1 .. n : c[i] = str.data[i]
    BY <1>2, <1>5
  <2> QED BY <1>5, <2>1
<1>9. HeapText' = SubSeq(HeapText, 1, n) /\ n \in 0 .. Len(HeapText)
  BY <1>2, <1>3, <1>5, <1>6, <1>7, <1>8, TextAfter
<1> QED BY <1>3, <1>9 DEF Text!Next, Text!Truncate, Text!Holds, HeapText

(* A string that is not on the heap stays there, whatever is written.      *)
LEMMA NoTextWritten ==
  ASSUME BufInv, str.kind # "heap",
         Ncpy \/ Ncat \/ Truncate \/ Trim \/ ToUpper \/ ToLower \/ AdjustLen
  PROVE  HeapText' = HeapText
<1>1. IsString(str)
  BY DEF BufInv
<1>2. HeapText = NoText
  BY DEF HeapText
<1>3. ASSUME NEW offset, NEW t, NEW n, Writes(str, offset, t, n) PROVE str'.kind = str.kind
  BY <1>1, <1>3 DEF Writes, IsString, IsRecord
<1>4. ASSUME Ncpy \/ Ncat PROVE str'.kind = str.kind
  BY <1>3, <1>4 DEF Ncpy, Ncat, Ensured
<1>5. ASSUME Truncate \/ Trim PROVE str'.kind = str.kind
  BY <1>3, <1>5 DEF Truncate, Trim, TrimTo
<1>6. ASSUME NEW d, str' = [str EXCEPT !.data = d] PROVE str'.kind = str.kind
  BY <1>1, <1>6 DEF IsString, IsRecord
<1>7. ASSUME NEW first, NEW change, Flips(first, change) PROVE str'.kind = str.kind
  BY <1>6, <1>7 DEF Flips
<1>8. ASSUME AdjustLen PROVE str'.kind = str.kind
  BY <1>1, <1>8 DEF AdjustLen, IsString, IsRecord
<1>9. ASSUME ToUpper \/ ToLower PROVE str'.kind = str.kind
  BY <1>7, <1>9 DEF ToUpper, ToLower
<1>10. str'.kind = str.kind
  BY <1>4, <1>5, <1>8, <1>9
<1> QED BY <1>2, <1>10, TextAfter

LEMMA TextEnded ==
  ASSUME BufInv, Free \/ FreeSub \/ ReleaseBuf \/ Substr \/ Dup
  PROVE  Text!Drop \/ HeapText' = HeapText
<1>1. CASE FreeSub \/ Substr
  BY <1>1 DEF FreeSub, Substr, HeapText
<1>2. CASE Dup
  <2>1. str' = str /\ Usable /\ IsString(str) /\ HeapSound(str)
    BY <1>2 DEF Dup, Usable, BufInv, StrSound
  <2>2. str.kind = "heap" => strState' = strState
    BY <1>2, <2>1, StrlenInText DEF Dup
  <2> QED BY <2>1, <2>2 DEF HeapText
<1>3. CASE Free \/ ReleaseBuf
  <2>1. str' = Absent
    BY <1>3 DEF Free, ReleaseBuf
  <2>2. HeapText' = NoText
    BY <2>1, AbsentType, TextAfter
  <2>3. HeapText = NoText \/ HeapText # NoText
    OBVIOUS
  <2> QED BY <2>2, <2>3 DEF Text!Drop, Text!Holds, HeapText
<1> QED BY <1>1, <1>2, <1>3

LEMMA TextPrinted ==
  ASSUME BufInv, Vsnprintf
  PROVE  Text!PrintWhole \/ Text!Drop \/ HeapText' = HeapText
<1>1. PICK t \in Sources, n \in 1 .. MaxLen : n <= str.size /\ Prints(str, t, n)
  BY DEF Vsnprintf
<1>2. Usable /\ strState = "ok" /\ IsString(str) /\ HeapSound(str)
  BY DEF Vsnprintf, Usable, BufInv, StrSound
<1>3. t \in Seq(Nat) /\ Len(t) \in Nat /\ n \in Nat \ {0}
  BY BufAssumption
<1>4. str.kind = "heap" => HeapText # NoText
  BY <1>2, TextHeld DEF HeapText
<1>5. str.kind # "heap" => HeapText = NoText
  BY DEF HeapText
<1>6. CASE HeapText' = t
  BY <1>6 DEF Text!PrintWhole, HeapText
<1>7. CASE HeapText' = NoText
  BY <1>4, <1>5, <1>7 DEF Text!Drop, Text!Holds, HeapText
<1>8. CASE Len(t) < n
  <2>1. Writes(str, 0, Append(t, Terminator), Len(t))
    BY <1>1, <1>8 DEF Prints
  <2>2. CASE str.kind = "heap"
    <3>1. str.size = Len(str.data) /\ 0 + Len(t) + 1 <= str.size
      BY <1>1, <1>2, <1>3, <1>8, <2>2 DEF HeapSound, IsString, IsRecord
    <3>2. Writes(str, 0, Append(t, Terminator), 0 + Len(t))
      BY <1>3, <2>1
    <3>3. /\ strState' = "ok" /\ str'.kind = "heap"
          /\ Content(str') = SubSeq(str.data, 1, 0) \o t
      BY <1>2, <1>3, <2>2, <3>1, <3>2, WritesText DEF IsString
    <3>4. SubSeq(str.data, 1, 0) \o t = t
      BY <1>3, SubSeqEmpty, ConcatEmptySeq
    <3> QED BY <1>6, <3>3, <3>4, TextAfter
  <2>3. CASE str.kind # "heap"
    <3>1. str'.kind = str.kind
      BY <1>2, <2>1 DEF Writes, IsString, IsRecord
    <3> QED BY <1>7, <2>3, <3>1, TextAfter
  <2> QED BY <2>2, <2>3
<1>9. CASE ~(Len(t) < n)
  <2>1. CASE strState' # "ok"
    BY <1>7, <2>1, TextAfter
  <2>2. CASE str' = Holding(t) /\ strState' = strState
    <3>1. str'.kind = "heap" /\ Content(str') = t
      BY <1>3, <2>2, HoldingType, HoldingText
    <3> QED BY <1>2, <1>6, <2>2, <3>1, TextAfter
  <2> QED BY <1>1, <1>9, <2>1, <2>2 DEF Prints
<1> QED BY <1>8, <1>9

LEMMA TextSprinted ==
  ASSUME BufInv, Sprintf
  PROVE  Text!PrintWhole \/ HeapText' = HeapText
<1>1. strState = "ok" /\ str.kind # "heap" /\ HeapText = NoText
  BY AbsentType DEF Sprintf, HeapText
<1>2. PICK t \in Sources, fill \in Fills :
        LET first == Empty(PrintRoom, fill)
        IN  \/ Len(t) < PrintRoom /\ Writes(first, 0, Append(t, Terminator), Len(t))
            \/ str' = Holding(t) /\ UNCHANGED strState
            \/ UNCHANGED <<str, strState>>
  BY DEF Sprintf
<1>3. t \in Seq(Nat) /\ Len(t) \in Nat /\ fill \in Nat /\ PrintRoom \in Nat
  BY BufAssumption
<1> DEFINE first == Empty(PrintRoom, fill)
<1>4. IsString(first) /\ HeapSound(first) /\ first.kind = "heap" /\ first.size = PrintRoom + 1
  BY <1>3, EmptyType
<1> HIDE DEF first
<1>5. CASE HeapText' = t
  BY <1>5 DEF Text!PrintWhole, HeapText
<1>6. CASE Len(t) < PrintRoom /\ Writes(first, 0, Append(t, Terminator), Len(t))
  <2>1. first.size = Len(first.data) /\ 0 + Len(t) + 1 <= first.size
    BY <1>3, <1>4, <1>6 DEF HeapSound
  <2>2. Writes(first, 0, Append(t, Terminator), 0 + Len(t))
    BY <1>3, <1>6
  <2>3. /\ strState' = "ok" /\ str'.kind = "heap"
        /\ Content(str') = SubSeq(first.data, 1, 0) \o t
    BY <1>1, <1>3, <1>4, <2>1, <2>2, WritesText DEF IsString
  <2>4. SubSeq(first.data, 1, 0) \o t = t
    BY <1>3, SubSeqEmpty, ConcatEmptySeq
  <2> QED BY <1>5, <2>3, <2>4, TextAfter
<1>7. CASE str' = Holding(t) /\ strState' = strState
  <2>1. str'.kind = "heap" /\ Content(str') = t
    BY <1>3, <1>7, HoldingType, HoldingText
  <2> QED BY <1>1, <1>5, <1>7, <2>1, TextAfter
<1>8. CASE UNCHANGED <<str, strState>>
  BY <1>8 DEF HeapText
<1> QED BY <1>2, <1>6, <1>7, <1>8 DEF first

LEMMA TextStep == BufInv /\ [BufNext]_bufVars => Text!Next \/ HeapText' = HeapText
<1> SUFFICES ASSUME BufInv, [BufNext]_bufVars PROVE Text!Next \/ HeapText' = HeapText
  OBVIOUS
<1>1. CASE \/ New \/ NewUsingPool \/ NewFrom \/ NewFromBlockUsingPool
           \/ NewFromCstrUsingPool \/ AssignBuf
  <2>1. HeapText = NoText /\ HeapText' \in Sources \cup {<<>>, NoText}
    BY <1>1, TextNew
  <2> QED BY <2>1 DEF Text!Next, Text!Create, Text!Holds, HeapText
<1>2. CASE Ncpy \/ Ncat \/ Truncate \/ Trim
  BY <1>2, TextWritten, NoTextWritten
<1>3. CASE ToUpper \/ ToLower
  BY <1>3, TextFlipped, NoTextWritten
<1>4. CASE AdjustLen
  BY <1>4, TextAdjusted, NoTextWritten
<1>5. CASE Free \/ FreeSub \/ ReleaseBuf \/ Substr \/ Dup
  BY <1>5, TextEnded DEF Text!Next
<1>6. CASE Vsnprintf
  BY <1>6, TextPrinted DEF Text!Next
<1>7. CASE Sprintf
  BY <1>7, TextSprinted DEF Text!Next
<1>8. CASE UNCHANGED bufVars
  BY <1>8 DEF bufVars, HeapText
<1> QED BY <1>1, <1>2, <1>3, <1>4, <1>5, <1>6, <1>7, <1>8 DEF BufNext

(* For every text, room, fill, allocation and growth that fails: what      *)
(* happens to the characters of a heap string is what StrText says of the  *)
(* call, which keeps all of a print where string.h has it cut at its       *)
(* limit.  A call that goes wrong ends the text.                           *)
THEOREM StringsImplementText == BufSpec => ImplementsText
<1>1. BufInit => Text!Init
  BY AbsentType DEF BufInit, Text!Init
<1>2. BufInv /\ [BufNext]_bufVars
        => [Text!Next]_(IF strState = "ok" /\ str.kind = "heap" THEN Content(str) ELSE NoText)
  BY TextStep DEF HeapText
<1> QED BY <1>1, <1>2, BufInit_Inv, BufNext_Inv, PTL DEF BufSpec, Text!Spec, ImplementsText
=============================================================================
