---------------------------- MODULE ValuesProofs ----------------------------
(***************************************************************************)
(* Theorems about Values, for columns of any values, however many and in   *)
(* any order: the running counts of the scan are what the values say.      *)
(***************************************************************************)
EXTENDS Values, FiniteSetTheorems, SequenceTheorems, WellFoundedInduction, TLAPS

----------------------------------------------------------------------------
(* Sets of numbers, and what a scan knows of one that grows. *)

(* n is the largest of S, 0 when there is none. *)
IsMost(n, S) == IF S = {} THEN n = 0 ELSE n \in S /\ \A m \in S : m <= n
Varies(S) == \E a, b \in S : a # b

LEMMA MostOfMore ==
  ASSUME NEW S \in SUBSET Nat, NEW n \in Nat, NEW m \in Nat, IsMost(n, S)
  PROVE  IsMost(Larger(n, m), S \cup {m})
<1>1. Larger(n, m) \in {n, m} /\ n <= Larger(n, m) /\ m <= Larger(n, m) /\ Larger(n, m) \in Nat
  BY DEF Larger
<1>2. CASE S = {}
  BY <1>2 DEF IsMost, Larger
<1>3. CASE S # {}
  <2>1. n \in S /\ \A k \in S : k <= n
    BY <1>3 DEF IsMost
  <2>2. \A k \in S \cup {m} : k <= Larger(n, m)
    BY <1>1, <2>1
  <2>3. QED
    BY <1>1, <2>1, <2>2 DEF IsMost
<1>4. QED
  BY <1>2, <1>3

LEMMA VariesOfMore ==
  ASSUME NEW S, NEW m, NEW x, S # {} => x \in S
  PROVE  Varies(S \cup {m}) <=> Varies(S) \/ (S # {} /\ m # x)
BY DEF Varies

LEMMA MaxIsMost ==
  ASSUME NEW S \in SUBSET Nat, NEW n \in Nat, S # {}, IsMost(n, S)
  PROVE  Max(S) = n
<1>1. n \in S /\ \A m \in S : n >= m
  BY DEF IsMost
<1>2. Max(S) \in S /\ \A m \in S : Max(S) >= m
  BY <1>1 DEF Max
<1>3. Max(S) \in Nat /\ Max(S) >= n /\ n >= Max(S)
  BY <1>1, <1>2
<1>4. QED
  BY <1>3

(* A finite set has one element, or varies. *)
LEMMA OneOrMany ==
  ASSUME NEW S, IsFiniteSet(S), S # {}
  PROVE  /\ Cardinality(S) = 1 <=> ~Varies(S)
         /\ Cardinality(S) > 1 <=> Varies(S)
<1>1. Cardinality(S) \in Nat /\ Cardinality(S) # 0
  BY FS_CardinalityType, FS_EmptySet
<1>2. ASSUME Cardinality(S) = 1 PROVE ~Varies(S)
  BY <1>2, FS_Singleton DEF Varies
<1>3. ASSUME ~Varies(S) PROVE Cardinality(S) = 1
  <2>1. PICK x : x \in S
    OBVIOUS
  <2>2. S = {x}
    BY <1>3, <2>1 DEF Varies
  <2>3. QED
    BY <2>2, FS_Singleton
<1>4. QED
  BY <1>1, <1>2, <1>3

LEMMA FirstIsIn ==
  ASSUME NEW S \in SUBSET Nat, S # {}
  PROVE  Min(S) \in S
<1> DEFINE R == OpToRel(<, Nat)
<1>0. IsWellFoundedOn(R, Nat)
  BY NatLessThanWellFounded
<1>1. \A y, x \in Nat : y < x => <<y, x>> \in R
  BY DEF OpToRel
<1> HIDE DEF R
<1>2. PICK x \in S : \A y \in S : ~(<<y, x>> \in R)
  BY <1>0, WFMin
<1>3. \A m \in S : x <= m
  <2>1. ASSUME NEW m \in S PROVE x <= m
    <3>1. ~(<<m, x>> \in R) /\ m \in Nat /\ x \in Nat
      BY <1>2
    <3>2. ~(m < x)
      BY <1>1, <3>1
    <3>3. QED
      BY <3>1, <3>2
  <2>2. QED
    BY <2>1
<1>4. QED
  BY <1>3 DEF Min

----------------------------------------------------------------------------
(* The types a column may have. *)

TypeNames == {"timestamptz", "timestamp", "date", "time", "boolean", "integer", "long", "decimal",
              "float", "character", "varchar", "text", "binary"}

LEMMA OrderIsSeq == Order \in Seq(TypeNames)
<1>1. Inferred \in [1 .. 13 -> TypeNames]
  BY DEF Inferred, TypeNames
<1>2. Inferred \in Seq(TypeNames)
  BY DEF Inferred, TypeNames
<1>3. SubSeq(Inferred, 1, 9) \in Seq(TypeNames)
  <2>1. \A i \in 1 .. 9 : Inferred[i] \in TypeNames
    BY <1>1
  <2>2. QED
    BY <2>1, SubSeqProperties
<1>4. <<"binary", "character", "varchar", "text">> \in Seq(TypeNames)
  BY DEF TypeNames
<1>5. <<"character", "varchar", "text">> \in Seq(TypeNames)
  BY DEF TypeNames
<1>6. FromCursor \in Seq(TypeNames)
  BY <1>3, <1>4, ConcatProperties DEF FromCursor
<1>7. QED
  BY <1>2, <1>5, <1>6 DEF Order

LEMMA FirstOfIsIn ==
  ASSUME NEW S \in SUBSET Types, S # {}
  PROVE  FirstOf(S) \in S
<1> DEFINE I == {i \in DOMAIN Order : Order[i] \in S}
<1>1. I \in SUBSET Nat
  BY OrderIsSeq, LenProperties
<1>2. I # {}
  BY DEF Types, Range
<1>3. Min(I) \in I
  BY <1>1, <1>2, FirstIsIn
<1>4. QED
  BY <1>3 DEF FirstOf

----------------------------------------------------------------------------
(* The invariant of the scan. *)

Accum == [failed : BOOLEAN, count : Nat, maxlen : Nat, varlen : BOOLEAN]
Digits == [maxprecision : Nat, scale : Nat, varscale : BOOLEAN, maxscale : Nat, max_int_digits : Nat]

(* Type t is tried against v, and takes it. *)
Tried(t, v) ==
  /\ infer_strings \/ ~IsStr(v) \/ t \in TextTypes
  /\ infer_strings \/ v.form # "bytes" \/ t \in TextTypes \cup {"binary"}
Takes(t, v) == is_match(t, v) /\ Tried(t, v)

IsValue(v) == v.len \in Nat /\ v.s \in Int /\ DigitsOf(v.m) \in Nat \ {0}

ScanTyped ==
  /\ rowcount \in Nat /\ nullrows \in Nat /\ nullrows <= rowcount
  /\ accums \in [Types -> Accum] /\ digits \in Digits
  /\ IsFiniteSet(Held) /\ \A v \in Held : IsValue(v)
  /\ Held = {} <=> rowcount = nullrows

(* A type is still live, with every value counted, just when it takes them all. *)
CountsTell ==
  \A t \in Types :
    /\ accums[t].count <= rowcount - nullrows
    /\ accums[t].failed = FALSE /\ accums[t].count = rowcount - nullrows <=> \A v \in Held : Takes(t, v)

Lengths == {v.len : v \in Held}
LengthsTell ==
  0 \notin Lengths =>
    \A t \in Types : (\A v \in Held : Takes(t, v)) =>
      /\ IsMost(accums[t].maxlen, Lengths)
      /\ accums[t].varlen = TRUE <=> Varies(Lengths)

Precisions == {Precision(v) : v \in Held}
ScalesHeld == {Scale(v) : v \in Held}
IntDigits == {Precision(v) - Scale(v) : v \in Held}
DigitsTell ==
  "decimal" \in Types /\ (\A v \in Held : Takes("decimal", v)) =>
    /\ IsMost(digits.maxprecision, Precisions)
    /\ IsMost(digits.maxscale, ScalesHeld)
    /\ IsMost(digits.max_int_digits, IntDigits)
    /\ Held # {} => digits.scale \in ScalesHeld
    /\ digits.varscale = TRUE <=> Varies(ScalesHeld)

ScanInv == ScanTyped /\ CountsTell /\ LengthsTell /\ DigitsTell

LEMMA NumbersOfValues ==
  ASSUME NEW v, IsValue(v)
  PROVE  /\ Precision(v) \in Nat /\ Precision(v) > 0 /\ Scale(v) \in Nat
         /\ Precision(v) - Scale(v) \in Nat
<1> DEFINE d == DigitsOf(v.m)
<1>1. d \in Nat /\ d > 0 /\ v.s \in Int
  BY DEF IsValue
<1> HIDE DEF d
<1>2. Precision(v) = IF v.s < 0 THEN d - v.s ELSE IF v.s > d THEN v.s + 1 ELSE d
  BY DEF Precision, d
<1>3. Scale(v) = IF 0 > v.s THEN 0 ELSE v.s
  BY DEF Scale, Larger
<1>4. QED
  BY <1>1, <1>2, <1>3

LEMMA ScanStarts == ColumnInit => ScanInv
<1> SUFFICES ASSUME ColumnInit PROVE ScanInv
  OBVIOUS
<1>1. Held = {}
  BY DEF ColumnInit, Held, EmptyBag, BagToSet, SetToBag
<1>2. IsFiniteSet(Held)
  BY <1>1, FS_EmptySet
<1>3. \A t \in Types : accums[t] = Fresh
  BY DEF ColumnInit
<1>4. Fresh \in Accum /\ NoDigits \in Digits
  BY DEF Fresh, Accum, NoDigits, Digits
<1>5. ScanTyped
  BY <1>1, <1>2, <1>4 DEF ScanTyped, ColumnInit
<1>6. CountsTell
  BY <1>1, <1>3 DEF CountsTell, ColumnInit, Fresh
<1>7. LengthsTell
  BY <1>1, <1>3 DEF LengthsTell, Lengths, IsMost, Varies, Fresh
<1>8. DigitsTell
  BY <1>1 DEF DigitsTell, Precisions, ScalesHeld, IntDigits, IsMost, Varies, NoDigits, ColumnInit
<1>9. QED
  BY <1>5, <1>6, <1>7, <1>8 DEF ScanInv

----------------------------------------------------------------------------
(* One value scanned. *)

(* What no step changes: the types, and what each of them takes. *)
LEMMA SettingsAreKept ==
  ASSUME conf' = conf, infer_strings' = infer_strings
  PROVE  Types' = Types /\ \A t, w : (Takes(t, w)' <=> Takes(t, w)) /\ (IsNull(w)' <=> IsNull(w))
<1>1. Order' = Order
  BY DEF Order
<1>2. Types' = Types
  BY <1>1 DEF Types, Range
<1>3. ASSUME NEW t, NEW w PROVE Takes(t, w)' <=> Takes(t, w)
  BY DEF Takes, Tried, is_match, TruthText
<1>4. ASSUME NEW w PROVE IsNull(w)' <=> IsNull(w)
  BY DEF IsNull
<1>5. QED
  BY <1>2, <1>3, <1>4

LEMMA HeldGrows ==
  ASSUME NEW v, eval_types(v)
  PROVE  Held' = IF IsNull(v) THEN Held ELSE Held \cup {v}
<1>1. BagToSet(seen)' = BagToSet(seen) \cup {v}
  BY DEF eval_types, BagToSet, SetToBag, (+)
<1>2. \A w : IsNull(w)' <=> IsNull(w)
  BY DEF eval_types, IsNull
<1>3. QED
  BY <1>1, <1>2 DEF Held

LEMMA NullIsCounted ==
  ASSUME ScanInv, NEW v, eval_types(v), IsNull(v)
  PROVE  ScanInv'
<1>1. Held' = Held
  BY HeldGrows
<1>2. /\ rowcount' = rowcount + 1 /\ nullrows' = nullrows + 1
      /\ accums' = accums /\ digits' = digits /\ conf' = conf /\ infer_strings' = infer_strings
  BY DEF eval_types
<1>3. Types' = Types /\ \A t, w : Takes(t, w)' <=> Takes(t, w)
  BY <1>2, SettingsAreKept
<1>4. rowcount \in Nat /\ nullrows \in Nat /\ rowcount' - nullrows' = rowcount - nullrows
  BY <1>2 DEF ScanInv, ScanTyped
<1>5. ScanTyped'
  BY <1>1, <1>2, <1>3, <1>4 DEF ScanInv, ScanTyped
<1>6. CountsTell'
  BY <1>1, <1>2, <1>3, <1>4 DEF ScanInv, CountsTell
<1>7. LengthsTell'
  BY <1>1, <1>2, <1>3 DEF ScanInv, LengthsTell, Lengths
<1>8. DigitsTell'
  BY <1>1, <1>2, <1>3 DEF ScanInv, DigitsTell, Precisions, ScalesHeld, IntDigits
<1>9. QED
  BY <1>5, <1>6, <1>7, <1>8 DEF ScanInv

(* The accumulators after a value: recorded by the live types that match it. *)
Recorded(t, v) ==
  IF accums[t].failed = FALSE /\ Takes(t, v) THEN Accum_record(accums[t], v)
  ELSE [accums[t] EXCEPT !.failed = @ \/ (accums[t].failed = FALSE /\ Tried(t, v))]

LEMMA RecordedByTakers ==
  ASSUME ScanTyped, NEW v, eval_types(v), ~IsNull(v)
  PROVE  /\ accums' = [t \in Types |-> Recorded(t, v)]
         /\ digits' = IF "decimal" \in Types /\ accums["decimal"].failed = FALSE /\ Takes("decimal", v)
                      THEN record_digits(digits, v) ELSE digits
<1> DEFINE live == Live(v)
           matched == {t \in live : is_match(t, v)}
<1>1. /\ accums' = [t \in Types |->
                      IF t \in matched THEN Accum_record(accums[t], v)
                      ELSE [accums[t] EXCEPT !.failed = @ \/ t \in live]]
      /\ digits' = IF "decimal" \in matched THEN record_digits(digits, v) ELSE digits
  BY DEF eval_types
<1>2. \A t \in Types : accums[t].failed \in BOOLEAN
  BY DEF ScanTyped, Accum
<1>3. \A t : t \in live <=> t \in Types /\ accums[t].failed = FALSE /\ Tried(t, v)
  BY <1>2 DEF Live, Tried
<1>4. \A t : t \in matched <=> t \in Types /\ accums[t].failed = FALSE /\ Takes(t, v)
  BY <1>3 DEF Takes
<1> HIDE DEF live, matched
<1>5. \A t \in Types : Recorded(t, v) = IF t \in matched THEN Accum_record(accums[t], v)
                                        ELSE [accums[t] EXCEPT !.failed = @ \/ t \in live]
  BY <1>3, <1>4 DEF Recorded
<1>6. QED
  BY <1>1, <1>4, <1>5

(* The fields of an accumulator. *)
LEMMA RecordedFields ==
  ASSUME NEW t \in Types, accums[t] \in Accum, NEW v, IsValue(v)
  PROVE  /\ Recorded(t, v) \in Accum
         /\ accums[t].failed = FALSE /\ Takes(t, v) =>
              /\ Recorded(t, v).failed = FALSE /\ Recorded(t, v).count = accums[t].count + 1
              /\ Recorded(t, v).maxlen = Larger(accums[t].maxlen, v.len)
              /\ Recorded(t, v).varlen = (accums[t].varlen \/ (accums[t].maxlen > 0 /\ v.len # accums[t].maxlen))
         /\ ~(accums[t].failed = FALSE /\ Takes(t, v)) => Recorded(t, v).count = accums[t].count
<1> DEFINE a == accums[t]
<1>1. a \in Accum /\ v.len \in Nat
  BY DEF IsValue
<1>2. CASE a.failed = FALSE /\ Takes(t, v)
  <2>1. Recorded(t, v) = [a EXCEPT !.count = @ + 1, !.varlen = @ \/ (a.maxlen > 0 /\ v.len # a.maxlen),
                                   !.maxlen = Larger(@, v.len)]
    BY <1>2 DEF Recorded, Accum_record
  <2> HIDE DEF a
  <2>2. /\ a.failed \in BOOLEAN /\ a.count \in Nat /\ a.maxlen \in Nat /\ a.varlen \in BOOLEAN
        /\ a = [failed |-> a.failed, count |-> a.count, maxlen |-> a.maxlen, varlen |-> a.varlen]
    BY <1>1 DEF Accum
  <2>3. Recorded(t, v) = [failed |-> a.failed, count |-> a.count + 1, maxlen |-> Larger(a.maxlen, v.len),
                          varlen |-> a.varlen \/ (a.maxlen > 0 /\ v.len # a.maxlen)]
    BY <2>1, <2>2
  <2>4. Larger(a.maxlen, v.len) \in Nat
    BY <1>1, <2>2 DEF Larger
  <2>5. Recorded(t, v) \in Accum
    BY <2>2, <2>3, <2>4 DEF Accum
  <2>6. QED
    BY <1>2, <2>3, <2>5 DEF a
<1>3. CASE ~(a.failed = FALSE /\ Takes(t, v))
  <2>1. Recorded(t, v) = [a EXCEPT !.failed = @ \/ (a.failed = FALSE /\ Tried(t, v))]
    BY <1>3 DEF Recorded
  <2> HIDE DEF a
  <2>2. Recorded(t, v) \in Accum /\ Recorded(t, v).count = a.count
    BY <1>1, <2>1 DEF Accum
  <2>3. QED
    BY <1>3, <2>2 DEF a
<1>4. QED
  BY <1>2, <1>3

LEMMA CountsStayTold ==
  ASSUME ScanInv, NEW v, IsValue(v), eval_types(v), ~IsNull(v)
  PROVE  CountsTell'
<1>1. Held' = Held \cup {v}
  BY HeldGrows
<1>2. Types' = Types /\ \A t, w : Takes(t, w)' <=> Takes(t, w)
  BY SettingsAreKept DEF eval_types
<1> DEFINE n == rowcount - nullrows
<1>3. n \in Nat /\ rowcount' - nullrows' = n + 1
  BY DEF ScanInv, ScanTyped, eval_types
<1> HIDE DEF n
<1>4. ASSUME NEW t \in Types
      PROVE  /\ accums'[t].count <= n + 1
             /\ accums'[t].failed = FALSE /\ accums'[t].count = n + 1 <=> \A w \in Held' : Takes(t, w)
  <2>1. accums[t] \in Accum /\ accums[t].count \in Nat /\ accums'[t] = Recorded(t, v)
    BY RecordedByTakers DEF ScanInv, ScanTyped, Accum
  <2>2. /\ accums[t].count <= n
        /\ accums[t].failed = FALSE /\ accums[t].count = n <=> \A w \in Held : Takes(t, w)
    BY DEF ScanInv, CountsTell, n
  <2>3. CASE accums[t].failed = FALSE /\ Takes(t, v)
    <3>0. Recorded(t, v).failed = FALSE /\ Recorded(t, v).count = accums[t].count + 1
      BY <2>1, <2>3, RecordedFields, Zenon
    <3>1. accums'[t].failed = FALSE /\ accums'[t].count = accums[t].count + 1
      BY <2>1, <3>0
    <3>2. accums'[t].count <= n + 1 /\ (accums'[t].count = n + 1 <=> accums[t].count = n)
      BY <1>3, <2>1, <2>2, <3>1
    <3>3. QED
      BY <1>1, <2>2, <2>3, <3>1, <3>2
  <2>4. CASE ~(accums[t].failed = FALSE /\ Takes(t, v))
    <3>0. Recorded(t, v).count = accums[t].count
      BY <2>1, <2>4, RecordedFields, Zenon
    <3>1. accums'[t].count = accums[t].count
      BY <2>1, <3>0
    <3>2. accums'[t].count <= n + 1 /\ accums'[t].count # n + 1
      BY <1>3, <2>1, <2>2, <3>1
    <3>3. QED
      BY <1>1, <2>2, <2>4, <3>2
  <2>5. QED
    BY <2>3, <2>4
<1>5. QED
  BY <1>2, <1>3, <1>4 DEF CountsTell

(* A type that takes every value has recorded each of them. *)
LEMMA TakerRecords ==
  ASSUME ScanInv, NEW v, eval_types(v), ~IsNull(v), NEW t \in Types, \A w \in Held \cup {v} : Takes(t, w)
  PROVE  accums[t].failed = FALSE /\ Takes(t, v) /\ \A w \in Held : Takes(t, w)
BY DEF ScanInv, CountsTell

LEMMA LengthsStayTold ==
  ASSUME ScanInv, NEW v, IsValue(v), eval_types(v), ~IsNull(v)
  PROVE  LengthsTell'
<1>1. Held' = Held \cup {v}
  BY HeldGrows
<1>2. Types' = Types /\ \A t, w : Takes(t, w)' <=> Takes(t, w)
  BY SettingsAreKept DEF eval_types
<1>3. Lengths' = Lengths \cup {v.len}
  BY <1>1 DEF Lengths
<1>4. v.len \in Nat /\ Lengths \in SUBSET Nat
  BY DEF IsValue, Lengths, ScanInv, ScanTyped
<1>5. ASSUME 0 \notin Lengths', NEW t \in Types, \A w \in Held' : Takes(t, w)
      PROVE  IsMost(accums'[t].maxlen, Lengths') /\ (accums'[t].varlen = TRUE <=> Varies(Lengths'))
  <2>1. accums[t].failed = FALSE /\ Takes(t, v) /\ \A w \in Held : Takes(t, w)
    BY <1>1, <1>5, TakerRecords
  <2>2. IsMost(accums[t].maxlen, Lengths) /\ (accums[t].varlen = TRUE <=> Varies(Lengths))
    BY <1>3, <1>5, <2>1 DEF ScanInv, LengthsTell
  <2>3. accums[t] \in Accum /\ accums[t].maxlen \in Nat /\ accums[t].varlen \in BOOLEAN
        /\ accums'[t] = Recorded(t, v)
    BY RecordedByTakers DEF ScanInv, ScanTyped, Accum
  <2>4. /\ accums'[t].maxlen = Larger(accums[t].maxlen, v.len)
        /\ accums'[t].varlen = (accums[t].varlen \/ (accums[t].maxlen > 0 /\ v.len # accums[t].maxlen))
    BY <2>1, <2>3, RecordedFields
  <2>5. IsMost(accums'[t].maxlen, Lengths')
    BY <1>3, <1>4, <2>2, <2>3, <2>4, MostOfMore
  <2>6. accums[t].maxlen > 0 <=> Lengths # {}
    <3>1. 0 \notin Lengths
      BY <1>3, <1>5
    <3>2. accums[t].maxlen \in Nat
      BY <2>3
    <3>3. QED
      BY <2>2, <3>1, <3>2 DEF IsMost
  <2>7. Lengths # {} => accums[t].maxlen \in Lengths
    BY <2>2 DEF IsMost
  <2>8. Varies(Lengths') <=> Varies(Lengths) \/ (Lengths # {} /\ v.len # accums[t].maxlen)
    BY <1>3, <2>7, VariesOfMore
  <2>9. QED
    BY <2>2, <2>3, <2>4, <2>5, <2>6, <2>8
<1>6. QED
  BY <1>2, <1>5 DEF LengthsTell

LEMMA DigitsStayTold ==
  ASSUME ScanInv, NEW v, IsValue(v), eval_types(v), ~IsNull(v)
  PROVE  DigitsTell'
<1>1. Held' = Held \cup {v}
  BY HeldGrows
<1>2. Types' = Types /\ \A t, w : Takes(t, w)' <=> Takes(t, w)
  BY SettingsAreKept DEF eval_types
<1> DEFINE p == Precision(v)
           s == Scale(v)
           i == Precision(v) - Scale(v)
<1>3. Precisions' = Precisions \cup {p} /\ ScalesHeld' = ScalesHeld \cup {s} /\ IntDigits' = IntDigits \cup {i}
  BY <1>1 DEF Precisions, ScalesHeld, IntDigits
<1>4. p \in Nat /\ p > 0 /\ s \in Nat /\ i \in Nat
  BY NumbersOfValues
<1>5. /\ Precisions \in SUBSET Nat /\ 0 \notin Precisions /\ ScalesHeld \in SUBSET Nat /\ IntDigits \in SUBSET Nat
      /\ Precisions = {} <=> Held = {}
      /\ ScalesHeld = {} <=> Held = {}
  BY NumbersOfValues DEF Precisions, ScalesHeld, IntDigits, ScanInv, ScanTyped
<1>6. ASSUME "decimal" \in Types, \A w \in Held' : Takes("decimal", w)
      PROVE  /\ IsMost(digits'.maxprecision, Precisions')
             /\ IsMost(digits'.maxscale, ScalesHeld')
             /\ IsMost(digits'.max_int_digits, IntDigits')
             /\ digits'.scale \in ScalesHeld'
             /\ digits'.varscale = TRUE <=> Varies(ScalesHeld')
  <2>1. accums["decimal"].failed = FALSE /\ Takes("decimal", v) /\ \A w \in Held : Takes("decimal", w)
    BY <1>1, <1>6, TakerRecords
  <2>2. /\ IsMost(digits.maxprecision, Precisions)
        /\ IsMost(digits.maxscale, ScalesHeld)
        /\ IsMost(digits.max_int_digits, IntDigits)
        /\ Held # {} => digits.scale \in ScalesHeld
        /\ digits.varscale = TRUE <=> Varies(ScalesHeld)
    BY <1>6, <2>1 DEF ScanInv, DigitsTell
  <2>3. digits' = record_digits(digits, v)
    BY <1>6, <2>1, RecordedByTakers DEF ScanInv
  <2>4. /\ digits'.maxprecision = Larger(digits.maxprecision, p)
        /\ digits'.maxscale = Larger(digits.maxscale, s)
        /\ digits'.max_int_digits = Larger(digits.max_int_digits, i)
        /\ digits'.scale = IF digits.maxprecision = 0 THEN s ELSE digits.scale
        /\ digits'.varscale = (digits.varscale \/ (digits.maxprecision > 0 /\ s # digits.scale))
    BY <2>3 DEF record_digits
  <2>5. /\ digits.maxprecision \in Nat /\ digits.maxscale \in Nat /\ digits.max_int_digits \in Nat
        /\ digits.varscale \in BOOLEAN
    BY DEF ScanInv, ScanTyped, Digits
  <2> HIDE DEF p, s, i
  <2>6. IsMost(digits'.maxprecision, Precisions')
    BY <1>3, <1>4, <1>5, <2>2, <2>4, <2>5, MostOfMore
  <2>7. IsMost(digits'.maxscale, ScalesHeld')
    BY <1>3, <1>4, <1>5, <2>2, <2>4, <2>5, MostOfMore
  <2>8. IsMost(digits'.max_int_digits, IntDigits')
    BY <1>3, <1>4, <1>5, <2>2, <2>4, <2>5, MostOfMore
  <2>9. (digits.maxprecision > 0 <=> Held # {}) /\ (digits.maxprecision = 0 <=> Held = {})
    BY <1>5, <2>2, <2>5 DEF IsMost
  <2>10. digits'.scale \in ScalesHeld'
    BY <1>3, <2>2, <2>4, <2>9
  <2>11. Varies(ScalesHeld') <=> Varies(ScalesHeld) \/ (ScalesHeld # {} /\ s # digits.scale)
    BY <1>3, <1>5, <2>2, VariesOfMore
  <2>12. digits'.varscale = TRUE <=> Varies(ScalesHeld')
    BY <1>5, <2>2, <2>4, <2>5, <2>9, <2>11
  <2>13. QED
    BY <2>6, <2>7, <2>8, <2>10, <2>12
<1>7. QED
  BY <1>2, <1>6 DEF DigitsTell

LEMMA ValueIsCounted ==
  ASSUME ScanInv, NEW v, IsValue(v), eval_types(v), ~IsNull(v)
  PROVE  ScanInv'
<1>1. Held' = Held \cup {v}
  BY HeldGrows
<1>2. Types' = Types
  BY SettingsAreKept DEF eval_types
<1>3. rowcount' = rowcount + 1 /\ nullrows' = nullrows
  BY DEF eval_types
<1>4. accums' \in [Types' -> Accum]
  <2>1. \A t \in Types : Recorded(t, v) \in Accum
    BY RecordedFields DEF ScanInv, ScanTyped
  <2>2. QED
    BY <1>2, <2>1, RecordedByTakers DEF ScanInv
<1>5. digits' \in Digits
  <2>1. /\ Precision(v) \in Nat /\ Scale(v) \in Nat /\ Precision(v) - Scale(v) \in Nat /\ digits \in Digits
    BY NumbersOfValues DEF ScanInv, ScanTyped
  <2>2. \A m, n \in Nat : Larger(m, n) \in Nat
    BY DEF Larger
  <2>3. record_digits(digits, v) \in Digits
    BY <2>1, <2>2 DEF record_digits, Digits
  <2>4. QED
    BY <2>1, <2>3, RecordedByTakers DEF ScanInv
<1>6. IsFiniteSet(Held')
  BY <1>1, FS_AddElement DEF ScanInv, ScanTyped
<1>7. \A w \in Held' : IsValue(w)
  BY <1>1 DEF ScanInv, ScanTyped
<1>8. /\ rowcount' \in Nat /\ nullrows' \in Nat /\ nullrows' <= rowcount' /\ rowcount' # nullrows'
  BY <1>3 DEF ScanInv, ScanTyped
<1>9. ScanTyped'
  BY <1>1, <1>4, <1>5, <1>6, <1>7, <1>8 DEF ScanTyped, IsValue
<1>10. QED
  BY <1>9, CountsStayTold, LengthsStayTold, DigitsStayTold DEF ScanInv

(* Whatever the values and their order, the running counts say what the values do. *)
THEOREM CountsSayWhatValuesDo == ColumnSpec => []ScanInv
<1>1. ScanInv /\ [ColumnNext]_columnVars => ScanInv'
  <2> SUFFICES ASSUME ScanInv, [ColumnNext]_columnVars PROVE ScanInv'
    OBVIOUS
  <2>1. CASE ColumnNext
    <3>1. PICK v \in FileValues \cup CursorValues : eval_types(v)
      BY <2>1 DEF ColumnNext, Scan
    <3>2. IsValue(v)
      BY ValuesAssumption DEF IsValue
    <3>3. QED
      BY <3>1, <3>2, NullIsCounted, ValueIsCounted
  <2>2. CASE UNCHANGED columnVars
    <3>1. /\ conf' = conf /\ infer_strings' = infer_strings /\ seen' = seen /\ rowcount' = rowcount
          /\ nullrows' = nullrows /\ accums' = accums /\ digits' = digits
      BY <2>2 DEF columnVars
    <3>2. Types' = Types /\ \A t, w : (Takes(t, w)' <=> Takes(t, w)) /\ (IsNull(w)' <=> IsNull(w))
      BY <3>1, SettingsAreKept
    <3>3. Held' = Held
      BY <3>1, <3>2 DEF Held
    <3>4. ScanTyped' /\ CountsTell'
      BY <3>1, <3>2, <3>3 DEF ScanInv, ScanTyped, CountsTell
    <3>5. LengthsTell' /\ DigitsTell'
      BY <3>1, <3>2, <3>3 DEF ScanInv, LengthsTell, DigitsTell, Lengths, Precisions, ScalesHeld, IntDigits
    <3>6. QED
      BY <3>4, <3>5 DEF ScanInv
  <2>3. QED
    BY <2>1, <2>2
<1>2. QED
  BY <1>1, ScanStarts, PTL DEF ColumnSpec

----------------------------------------------------------------------------
(* The type the counts choose. *)

(* The types the values leave to choose from. *)
Suits(u) ==
  /\ Matches(u)
  /\ u = "character" => OneLength
  /\ u = "decimal" => ~ManyScales \/ conf.exact_decimals \/ \E v \in Held : Precision(v) > ExactDigits

LEMMA SetsOfNumbers ==
  ASSUME ScanInv, Held # {}
  PROVE  /\ Lengths \in SUBSET Nat /\ Lengths # {} /\ (OneLength <=> ~Varies(Lengths))
         /\ ScalesHeld \in SUBSET Nat /\ ScalesHeld # {} /\ (ManyScales <=> Varies(ScalesHeld))
         /\ Precisions \in SUBSET Nat /\ Precisions # {} /\ IntDigits \in SUBSET Nat /\ IntDigits # {}
<1>1. IsFiniteSet(Held) /\ \A v \in Held : IsValue(v)
  BY DEF ScanInv, ScanTyped
<1>2. IsFiniteSet(Lengths) /\ IsFiniteSet(ScalesHeld)
  <2> DEFINE lens == [v \in Held |-> v.len]
             scales == [v \in Held |-> Scale(v)]
  <2>1. lens \in Surjection(Held, Lengths)
    BY DEF Surjection, Lengths
  <2>2. scales \in Surjection(Held, ScalesHeld)
    BY DEF Surjection, ScalesHeld
  <2> HIDE DEF lens, scales
  <2>3. QED
    BY <1>1, <2>1, <2>2, FS_Surjection
<1>3. /\ Lengths \in SUBSET Nat /\ ScalesHeld \in SUBSET Nat
      /\ Precisions \in SUBSET Nat /\ IntDigits \in SUBSET Nat
  BY <1>1, NumbersOfValues DEF Lengths, ScalesHeld, Precisions, IntDigits, IsValue
<1>4. Lengths # {} /\ ScalesHeld # {} /\ Precisions # {} /\ IntDigits # {}
  BY DEF Lengths, ScalesHeld, Precisions, IntDigits
<1>5. OneLength <=> ~Varies(Lengths)
  <2>1. Cardinality(Lengths) = 1 <=> ~Varies(Lengths)
    BY <1>2, <1>4, OneOrMany
  <2>2. QED
    BY <2>1 DEF OneLength, Lengths
<1>6. ManyScales <=> Varies(ScalesHeld)
  <2>1. Cardinality(ScalesHeld) > 1 <=> Varies(ScalesHeld)
    BY <1>2, <1>4, OneOrMany
  <2>2. QED
    BY <2>1 DEF ManyScales, ScalesHeld
<1>7. QED
  BY <1>3, <1>4, <1>5, <1>6

LEMMA FitsIsSuits ==
  ASSUME ScanInv, Held # {}, 0 \notin Lengths, NEW u \in Types
  PROVE  Fits(u) <=> Suits(u)
<1>1. Matches(u) <=> \A v \in Held : Takes(u, v)
  BY DEF Matches, Takes, Tried
<1>2. accums[u].failed \in BOOLEAN /\ accums[u].varlen \in BOOLEAN
  BY DEF ScanInv, ScanTyped, Accum
<1>3. ~accums[u].failed /\ accums[u].count = rowcount - nullrows <=> Matches(u)
  BY <1>1, <1>2 DEF ScanInv, CountsTell
<1>4. ASSUME Matches(u) PROVE ~accums[u].varlen <=> OneLength
  <2>1. accums[u].varlen = TRUE <=> Varies(Lengths)
    BY <1>1, <1>4 DEF ScanInv, LengthsTell
  <2>2. QED
    BY <1>2, <2>1, SetsOfNumbers
<1>5. ASSUME Matches(u), u = "decimal"
      PROVE  ~chooses_float(digits) <=>
               ~ManyScales \/ conf.exact_decimals \/ \E v \in Held : Precision(v) > ExactDigits
  <2>1. IsMost(digits.maxprecision, Precisions) /\ (digits.varscale = TRUE <=> Varies(ScalesHeld))
    BY <1>1, <1>5 DEF ScanInv, DigitsTell
  <2>2. digits.varscale <=> ManyScales
    BY <2>1, SetsOfNumbers DEF ScanInv, ScanTyped, Digits
  <2>3. digits.maxprecision \in Precisions /\ \A m \in Precisions : m <= digits.maxprecision
    BY <2>1, SetsOfNumbers DEF IsMost
  <2>4. ~(digits.maxprecision <= ExactDigits) <=> \E m \in Precisions : m > ExactDigits
    <3>1. ExactDigits \in Nat /\ Precisions \in SUBSET Nat
      BY ValuesAssumption, SetsOfNumbers
    <3>2. digits.maxprecision \in Nat /\ \A m \in Precisions : m \in Nat
      BY <2>3, <3>1
    <3> DEFINE n == digits.maxprecision
    <3>3. n \in Precisions /\ n \in Nat /\ (\A m \in Precisions : m \in Nat /\ m <= n)
      BY <2>3, <3>2
    <3> HIDE DEF n
    <3>4. ~(n <= ExactDigits) <=> \E m \in Precisions : m > ExactDigits
      BY <3>1, <3>3
    <3>5. QED
      BY <3>4 DEF n
  <2>5. (\E m \in Precisions : m > ExactDigits) <=> \E v \in Held : Precision(v) > ExactDigits
    BY DEF Precisions
  <2>6. QED
    BY <2>2, <2>4, <2>5 DEF chooses_float
<1>6. QED
  BY <1>3, <1>4, <1>5 DEF Fits, Suits

LEMMA CountsChooseTheType == ScanInv => TypeIsOrderFree
<1> SUFFICES ASSUME ScanInv, Held # {}, ~(\E v \in Held : v.len = 0) PROVE column_type = Described
  BY DEF TypeIsOrderFree
<1> DEFINE S == {u \in Types : Suits(u)}
           t == FirstOf(S)
<1>1. 0 \notin Lengths /\ nullrows # rowcount
  BY DEF Lengths, ScanInv, ScanTyped
<1>2. {u \in Types : Fits(u)} = S
  BY <1>1, FitsIsSuits
<1>3. column_type = [type |-> t,
           maxlen |-> IF t \in {"character", "varchar"} THEN accums[t].maxlen ELSE 0,
           precision |-> IF t = "decimal" THEN digits.max_int_digits + digits.maxscale ELSE 0,
           scale |-> IF t = "decimal" THEN digits.maxscale ELSE 0]
  BY <1>1, <1>2 DEF column_type
<1>4. Described = [type |-> t,
           maxlen |-> IF t \in {"character", "varchar"} THEN Max(Lengths) ELSE 0,
           precision |-> IF t = "decimal" THEN Max(ScalesHeld) + Max(IntDigits) ELSE 0,
           scale |-> IF t = "decimal" THEN Max(ScalesHeld) ELSE 0]
  BY DEF Described, Suits, Lengths, ScalesHeld, IntDigits
<1>5. t = "none" \/ (t \in Types /\ Matches(t))
  <2>1. S \in SUBSET Types
    OBVIOUS
  <2>2. CASE S = {}
    BY <2>2 DEF FirstOf
  <2>3. CASE S # {}
    BY <2>1, <2>3, FirstOfIsIn DEF Suits
  <2>4. QED
    BY <2>2, <2>3
<1> HIDE DEF t
<1>6. CASE t = "none"
  BY <1>3, <1>4, <1>6
<1>7. CASE t \in Types /\ Matches(t)
  <2>1. \A v \in Held : Takes(t, v)
    BY <1>7 DEF Matches, Takes, Tried
  <2>2. Max(Lengths) = accums[t].maxlen
    <3>1. IsMost(accums[t].maxlen, Lengths)
      BY <1>1, <1>7, <2>1 DEF ScanInv, LengthsTell
    <3>2. accums[t].maxlen \in Nat
      BY <1>7 DEF ScanInv, ScanTyped, Accum
    <3>3. QED
      BY <3>1, <3>2, SetsOfNumbers, MaxIsMost
  <2>3. ASSUME t = "decimal"
        PROVE  Max(ScalesHeld) = digits.maxscale /\ Max(IntDigits) = digits.max_int_digits
    <3>1. IsMost(digits.maxscale, ScalesHeld) /\ IsMost(digits.max_int_digits, IntDigits)
      BY <1>7, <2>1, <2>3 DEF ScanInv, DigitsTell
    <3>2. digits.maxscale \in Nat /\ digits.max_int_digits \in Nat
      BY DEF ScanInv, ScanTyped, Digits
    <3>3. QED
      BY <3>1, <3>2, SetsOfNumbers, MaxIsMost
  <2>4. t = "decimal" => Max(ScalesHeld) + Max(IntDigits) = digits.max_int_digits + digits.maxscale
    BY <2>3 DEF ScanInv, ScanTyped, Digits
  <2>5. QED
    BY <1>3, <1>4, <2>2, <2>3, <2>4
<1>8. QED
  BY <1>5, <1>6, <1>7

(* A column's type, its length and its precision are those of the values    *)
(* scanned, in whatever order the rows come and however many they are:      *)
(* Column.eval_types keeps only running counts, and column_type reads them. *)
THEOREM RowOrderDoesNotMatter == ColumnSpec => []TypeIsOrderFree
BY CountsSayWhatValuesDo, CountsChooseTheType, PTL
=============================================================================
