----------------------------- MODULE SlotProofs -----------------------------
(***************************************************************************)
(* The QSDK slot, as the kernel maps it and as sysupgrade leaves it.       *)
(*                                                                         *)
(* BootSlot, for command lines of any length and any capacity: an          *)
(* installed image writes the slot that was booted, the protected          *)
(* partitions stay read-only, and no argument is lost or truncated without *)
(* a panic.  What a line looks like after the filter is proved by          *)
(* induction over its words.                                               *)
(*                                                                         *)
(* SlotUpgrade, for every set of releases: whatever fails and whenever     *)
(* power is lost, an upgrade leaves no kernel beside the root of another   *)
(* release, except for a root volume that could not be removed, and its    *)
(* success means that the slot holds what was in the file.                 *)
(***************************************************************************)
EXTENDS BootSlot, SlotUpgrade, SequenceTheorems, FiniteSetTheorems, WellFoundedInduction, TLAPS

----------------------------------------------------------------------------
(* Induction over numbers and over lines, with a set for the predicate     *)

LEMMA NumberInduction ==
    ASSUME NEW S, 0 \in S, \A n \in Nat : n \in S => n + 1 \in S
    PROVE  Nat \subseteq S
  <1> SUFFICES ASSUME Nat \ S # {} PROVE FALSE
    OBVIOUS
  <1>1. PICK m \in Nat \ S : \A y \in Nat \ S : <<y, m>> \notin OpToRel(<, Nat)
    <2>1. Nat \ S \subseteq Nat
      OBVIOUS
    <2> QED
      BY <2>1, NatLessThanWellFounded, WFMin
  <1>2. m \in Nat /\ m # 0
    BY <1>1
  <1>3. m - 1 \in Nat /\ m - 1 < m /\ (m - 1) + 1 = m
    BY <1>2
  <1>4. <<m - 1, m>> \in OpToRel(<, Nat)
    BY <1>2, <1>3 DEF OpToRel
  <1>5. m - 1 \in S
    BY <1>1, <1>3, <1>4
  <1> QED
    BY <1>1, <1>3, <1>5

LEMMA LineInduction ==
    ASSUME NEW W, NEW S, <<>> \in S,
           \A a \in Seq(W), w \in W : a \in S => Append(a, w) \in S
    PROVE  Seq(W) \subseteq S
  <1> DEFINE Short == {n \in Nat : \A a \in Seq(W) : Len(a) = n => a \in S}
  <1>1. 0 \in Short
    <2>1. \A a \in Seq(W) : Len(a) = 0 => a = <<>>
      BY EmptySeq
    <2> QED
      BY <2>1
  <1>2. ASSUME NEW n \in Nat, n \in Short PROVE n + 1 \in Short
    <2>1. ASSUME NEW a \in Seq(W), Len(a) = n + 1 PROVE a \in S
      <3>1. a # <<>>
        BY <2>1, EmptySeq, <1>2
      <3>2. PICK b \in Seq(W), w \in W : a = Append(b, w)
        BY <3>1, SequenceEmptyOrAppend
      <3>3. Len(b) = n
        BY <2>1, <3>2, AppendProperties, LenProperties
      <3>4. b \in S
        BY <1>2, <3>3
      <3> QED
        BY <3>2, <3>4
    <2> QED
      BY <2>1
  <1>3. Nat \subseteq Short
    <2> HIDE DEF Short
    <2> QED
      BY <1>1, <1>2, NumberInduction
  <1> QED
    BY <1>3, LenProperties

----------------------------------------------------------------------------
(* The filter: its recursion is well defined, and what it does at the end  *)
(* of a line                                                               *)

Pass(a, f) ==
    f = [n \in 0..Len(a) |->
            IF n = 0 THEN <<>>
            ELSE IF a[n] \in Stripped THEN f[n - 1]
            ELSE Append(f[n - 1], a[n])]

LEMMA PassAt ==
    ASSUME NEW a, NEW f, Pass(a, f), Len(a) \in Nat
    PROVE  /\ f[0] = <<>>
           /\ \A n \in 1..Len(a) :
                 f[n] = IF a[n] \in Stripped THEN f[n - 1] ELSE Append(f[n - 1], a[n])
  <1> DEFINE g == [n \in 0..Len(a) |->
                      IF n = 0 THEN <<>>
                      ELSE IF a[n] \in Stripped THEN f[n - 1]
                      ELSE Append(f[n - 1], a[n])]
  <1>1. f = g
    BY DEF Pass
  <1>2. g[0] = <<>>
    OBVIOUS
  <1>3. ASSUME NEW n \in 1..Len(a)
        PROVE  g[n] = IF a[n] \in Stripped THEN f[n - 1] ELSE Append(f[n - 1], a[n])
    BY <1>3
  <1> HIDE DEF g
  <1> QED
    BY <1>1, <1>2, <1>3

LEMMA PassExists == \A a \in Seq(Word) : \E f : Pass(a, f)
  <1> DEFINE S == {a \in Seq(Word) : \E f : Pass(a, f)}
  <1>1. <<>> \in S
    <2> DEFINE g == [n \in 0..0 |-> <<>>]
    <2>1. Len(<<>>) = 0 /\ <<>> \in Seq(Word)
      BY EmptySeq
    <2>2. Pass(<<>>, g)
      BY <2>1 DEF Pass
    <2> QED
      BY <2>1, <2>2
  <1>2. ASSUME NEW a \in Seq(Word), NEW w \in Word, a \in S PROVE Append(a, w) \in S
    <2> DEFINE b == Append(a, w)
    <2>1. PICK f : Pass(a, f)
      BY <1>2
    <2> DEFINE g == [n \in 0..Len(a) + 1 |->
                        IF n <= Len(a) THEN f[n]
                        ELSE IF w \in Stripped THEN f[Len(a)] ELSE Append(f[Len(a)], w)]
    <2>2. /\ b \in Seq(Word) /\ Len(b) = Len(a) + 1 /\ Len(a) \in Nat
          /\ \A i \in 1..Len(a) : b[i] = a[i]
          /\ b[Len(a) + 1] = w
      BY AppendProperties, LenProperties
    <2> HIDE DEF b
    <2>3. ASSUME NEW n \in 0..Len(b)
          PROVE  g[n] = IF n = 0 THEN <<>>
                        ELSE IF b[n] \in Stripped THEN g[n - 1] ELSE Append(g[n - 1], b[n])
      <3>1. CASE n = 0
        BY <3>1, <2>1, <2>2, PassAt
      <3>2. CASE n \in 1..Len(a)
        <4>1. g[n] = f[n] /\ g[n - 1] = f[n - 1] /\ b[n] = a[n]
          BY <3>2, <2>2
        <4>2. f[n] = IF a[n] \in Stripped THEN f[n - 1] ELSE Append(f[n - 1], a[n])
          BY <3>2, <2>1, <2>2, PassAt
        <4> QED
          BY <4>1, <4>2, <3>2
      <3>3. CASE n = Len(a) + 1
        <4>1. g[n - 1] = f[Len(a)] /\ b[n] = w /\ n # 0
          BY <3>3, <2>2
        <4>2. g[n] = IF w \in Stripped THEN f[Len(a)] ELSE Append(f[Len(a)], w)
          BY <3>3, <2>2
        <4> QED
          BY <4>1, <4>2
      <3> QED
        BY <3>1, <3>2, <3>3, <2>2
    <2>4. Pass(b, g)
      BY <2>2, <2>3 DEF Pass
    <2> QED
      BY <2>2, <2>4 DEF b
  <1>3. Seq(Word) \subseteq S
    <2> HIDE DEF S
    <2> QED
      BY <1>1, <1>2, LineInduction
  <1> QED
    BY <1>3

(* The whole pass over a line, at every place.                             *)
LEMMA FilterPass ==
    ASSUME NEW a \in Seq(Word)
    PROVE  \E f : Pass(a, f) /\ Filter(a) = f[Len(a)]
  <1> DEFINE f == CHOOSE f : Pass(a, f)
  <1>1. Pass(a, f)
    BY PassExists
  <1>2. Filter(a) = f[Len(a)]
    BY DEF Filter, Pass
  <1> QED
    BY <1>1, <1>2

LEMMA FilterEmpty == Filter(<<>>) = <<>>
  <1>1. <<>> \in Seq(Word) /\ Len(<<>>) = 0
    BY EmptySeq
  <1>2. PICK f : Pass(<<>>, f) /\ Filter(<<>>) = f[0]
    BY <1>1, FilterPass
  <1> QED
    BY <1>1, <1>2, PassAt

LEMMA FilterAppend ==
    ASSUME NEW a \in Seq(Word), NEW w \in Word
    PROVE  Filter(Append(a, w)) = IF w \in Stripped THEN Filter(a) ELSE Append(Filter(a), w)
  <1> DEFINE b == Append(a, w)
  <1>1. /\ b \in Seq(Word) /\ Len(b) = Len(a) + 1 /\ Len(a) \in Nat /\ Len(b) \in Nat
        /\ \A i \in 1..Len(a) : b[i] = a[i]
        /\ b[Len(a) + 1] = w
    BY AppendProperties, LenProperties
  <1> HIDE DEF b
  <1>2. PICK f : Pass(a, f) /\ Filter(a) = f[Len(a)]
    BY FilterPass
  <1>3. PICK g : Pass(b, g) /\ Filter(b) = g[Len(b)]
    BY <1>1, FilterPass
  <1> DEFINE S == {n \in Nat : n <= Len(a) => f[n] = g[n]}
  <1>4. 0 \in S
    BY <1>1, <1>2, <1>3, PassAt
  <1>5. ASSUME NEW n \in Nat, n \in S PROVE n + 1 \in S
    <2> SUFFICES ASSUME n + 1 <= Len(a) PROVE f[n + 1] = g[n + 1]
      OBVIOUS
    <2>1. n + 1 \in 1..Len(a) /\ n + 1 \in 1..Len(b) /\ (n + 1) - 1 = n /\ f[n] = g[n]
      BY <1>1, <1>5
    <2>2. f[n + 1] = IF a[n + 1] \in Stripped THEN f[n] ELSE Append(f[n], a[n + 1])
      BY <2>1, <1>1, <1>2, PassAt
    <2>3. g[n + 1] = IF b[n + 1] \in Stripped THEN g[n] ELSE Append(g[n], b[n + 1])
      BY <2>1, <1>1, <1>3, PassAt
    <2> QED
      BY <2>1, <2>2, <2>3, <1>1
  <1>6. Nat \subseteq S
    <2> HIDE DEF S
    <2> QED
      BY <1>4, <1>5, NumberInduction
  <1>7. f[Len(a)] = g[Len(a)]
    BY <1>1, <1>6
  <1>8. g[Len(b)] = IF w \in Stripped THEN g[Len(a)] ELSE Append(g[Len(a)], w)
    <2>1. Len(b) \in 1..Len(b) /\ Len(b) - 1 = Len(a)
      BY <1>1
    <2> QED
      BY <2>1, <1>1, <1>3, PassAt
  <1> QED
    BY <1>2, <1>3, <1>7, <1>8 DEF b

----------------------------------------------------------------------------
(* Laws of the filter, each by induction over a line                       *)

Clean == Word \ Stripped

LEMMA FilterClean == \A a \in Seq(Word) : Filter(a) \in Seq(Clean)
  <1> DEFINE S == {a \in Seq(Word) : Filter(a) \in Seq(Clean)}
  <1>1. <<>> \in S
    BY EmptySeq, FilterEmpty
  <1>2. ASSUME NEW a \in Seq(Word), NEW w \in Word, a \in S PROVE Append(a, w) \in S
    <2>1. Append(a, w) \in Seq(Word)
      BY AppendProperties
    <2>2. CASE w \in Stripped
      BY <1>2, <2>1, <2>2, FilterAppend
    <2>3. CASE w \notin Stripped
      <3>1. w \in Clean
        BY <2>3 DEF Clean
      <3>2. Append(Filter(a), w) \in Seq(Clean)
        BY <1>2, <3>1, AppendProperties
      <3> QED
        BY <2>1, <2>3, <3>2, FilterAppend
    <2> QED
      BY <2>2, <2>3
  <1>3. Seq(Word) \subseteq S
    <2> HIDE DEF S
    <2> QED
      BY <1>1, <1>2, LineInduction
  <1> QED
    BY <1>3

LEMMA CleanLines == \A a \in Seq(Clean) : a \in Seq(Word)
  BY SeqMonotonic DEF Clean

(* A line that was filtered stays as it is.                                *)
LEMMA FilterKeeps == \A a \in Seq(Clean) : Filter(a) = a
  <1> DEFINE S == {a \in Seq(Clean) : Filter(a) = a}
  <1>1. <<>> \in S
    BY EmptySeq, FilterEmpty
  <1>2. ASSUME NEW a \in Seq(Clean), NEW w \in Clean, a \in S PROVE Append(a, w) \in S
    <2>1. Append(a, w) \in Seq(Clean)
      BY AppendProperties
    <2>2. a \in Seq(Word) /\ w \in Word /\ w \notin Stripped
      BY CleanLines DEF Clean
    <2> QED
      BY <1>2, <2>1, <2>2, FilterAppend
  <1>3. Seq(Clean) \subseteq S
    <2> HIDE DEF S
    <2> QED
      BY <1>1, <1>2, LineInduction
  <1> QED
    BY <1>3

(* Two lines one after the other are filtered one after the other.         *)
LEMMA FilterConcat ==
    ASSUME NEW a \in Seq(Word)
    PROVE  \A b \in Seq(Word) : Filter(a \o b) = Filter(a) \o Filter(b)
  <1> DEFINE S == {b \in Seq(Word) : Filter(a \o b) = Filter(a) \o Filter(b)}
  <1>0. Filter(a) \in Seq(Word)
    BY FilterClean, CleanLines
  <1>1. <<>> \in S
    <2>1. <<>> \in Seq(Word) /\ a \o <<>> = a /\ Filter(a) \o <<>> = Filter(a)
      BY EmptySeq, ConcatEmptySeq, <1>0
    <2> QED
      BY <2>1, FilterEmpty
  <1>2. ASSUME NEW b \in Seq(Word), NEW w \in Word, b \in S PROVE Append(b, w) \in S
    <2>1. /\ Append(b, w) \in Seq(Word)
          /\ Append(b, w) = b \o <<w>>
          /\ <<w>> \in Seq(Word)
      BY AppendProperties, AppendIsConcat
    <2>2. a \o b \in Seq(Word) /\ Filter(b) \in Seq(Word)
      BY ConcatProperties, FilterClean, CleanLines
    <2>3. a \o Append(b, w) = Append(a \o b, w)
      BY <2>1, <2>2, ConcatAssociative, AppendIsConcat
    <2>4. Filter(a \o Append(b, w)) =
            IF w \in Stripped THEN Filter(a) \o Filter(b) ELSE Append(Filter(a) \o Filter(b), w)
      BY <1>2, <2>2, <2>3, FilterAppend
    <2>5. Filter(Append(b, w)) = IF w \in Stripped THEN Filter(b) ELSE Append(Filter(b), w)
      BY FilterAppend
    <2>6. Append(Filter(a) \o Filter(b), w) = Filter(a) \o Append(Filter(b), w)
      <3>1. Filter(a) \o Filter(b) \in Seq(Word)
        BY <1>0, <2>2, ConcatProperties
      <3>2. Append(Filter(b), w) = Filter(b) \o <<w>>
        BY <2>2, AppendIsConcat
      <3>3. Append(Filter(a) \o Filter(b), w) = (Filter(a) \o Filter(b)) \o <<w>>
        BY <3>1, AppendIsConcat
      <3> QED
        BY <3>2, <3>3, <1>0, <2>1, <2>2, ConcatAssociative
    <2> QED
      BY <2>1, <2>4, <2>5, <2>6
  <1>3. Seq(Word) \subseteq S
    <2> HIDE DEF S
    <2> QED
      BY <1>1, <1>2, LineInduction
  <1> QED
    BY <1>3

(* To filter the line of U-Boot early, before bootargs-append is appended  *)
(* (early_init_dt_scan_chosen), changes nothing: it saves only room.       *)
THEOREM FilterTwice ==
    ASSUME NEW a \in Seq(Word), NEW b \in Seq(Word)
    PROVE  Filter(Filter(a) \o b) = Filter(a \o b)
  <1>1. Filter(a) \in Seq(Word) /\ Filter(Filter(a)) = Filter(a)
    BY FilterClean, FilterKeeps, CleanLines
  <1> QED
    BY <1>1, FilterConcat

(* The filtered line has the words to be kept, all of them, in their       *)
(* order: each is found where the number of kept words up to it says.      *)
Places(a) ==
    /\ Len(Filter(a)) = Cardinality(KeptAt(a))
    /\ \A k \in KeptAt(a) :
          /\ Cardinality(KeptAt(a) \cap 1..k) \in 1..Len(Filter(a))
          /\ Filter(a)[Cardinality(KeptAt(a) \cap 1..k)] = a[k]

LEMMA KeptFinite ==
    ASSUME NEW a \in Seq(Word)
    PROVE  IsFiniteSet(KeptAt(a)) /\ Cardinality(KeptAt(a)) \in Nat
  <1>1. KeptAt(a) \subseteq 1..Len(a) /\ Len(a) \in Nat
    BY LenProperties DEF KeptAt
  <1>2. IsFiniteSet(1..Len(a))
    BY <1>1, FS_Interval
  <1>3. IsFiniteSet(KeptAt(a))
    BY <1>1, <1>2, FS_Subset
  <1> QED
    BY <1>3, FS_CardinalityType

(* h3c_rt3000_filter_bootargs loses no argument that is to be kept and     *)
(* keeps their order, for a line of any length.                            *)
THEOREM FilterPlaces == \A a \in Seq(Word) : Places(a)
  <1> DEFINE S == {a \in Seq(Word) : Places(a)}
  <1>1. <<>> \in S
    <2>1. <<>> \in Seq(Word) /\ Len(<<>>) = 0
      BY EmptySeq
    <2>2. KeptAt(<<>>) = {}
      BY <2>1 DEF KeptAt
    <2> QED
      BY <2>1, <2>2, FilterEmpty, FS_EmptySet DEF Places
  <1>2. ASSUME NEW a \in Seq(Word), NEW w \in Word, a \in S PROVE Append(a, w) \in S
    <2> DEFINE b == Append(a, w)
    <2>1. /\ b \in Seq(Word) /\ Len(b) = Len(a) + 1 /\ Len(a) \in Nat
          /\ \A i \in 1..Len(a) : b[i] = a[i]
          /\ b[Len(a) + 1] = w
      BY AppendProperties, LenProperties
    <2>2. Filter(b) = IF w \in Stripped THEN Filter(a) ELSE Append(Filter(a), w)
      BY FilterAppend
    <2>3. Filter(a) \in Seq(Word)
      BY FilterClean, CleanLines
    <2> HIDE DEF b
    <2>4. Places(a)
      BY <1>2
    <2>5. CASE w \in Stripped
      <3>1. KeptAt(b) = KeptAt(a)
        BY <2>1, <2>5 DEF KeptAt
      <3>2. \A k \in KeptAt(a) : b[k] = a[k]
        BY <2>1 DEF KeptAt
      <3>3. Filter(b) = Filter(a)
        BY <2>2, <2>5
      <3>4. Places(b)
        BY <2>4, <3>1, <3>2, <3>3 DEF Places
      <3> QED
        BY <2>1, <3>4 DEF b
    <2>6. CASE w \notin Stripped
      <3> DEFINE n == Len(a) + 1
      <3>1. KeptAt(b) = KeptAt(a) \cup {n} /\ n \notin KeptAt(a)
        BY <2>1, <2>6 DEF KeptAt
      <3>2. Cardinality(KeptAt(b)) = Cardinality(KeptAt(a)) + 1
        BY <3>1, KeptFinite, FS_AddElement
      <3>3. /\ Filter(b) = Append(Filter(a), w) /\ Len(Filter(b)) = Len(Filter(a)) + 1
            /\ Filter(b)[Len(Filter(a)) + 1] = w
            /\ \A i \in 1..Len(Filter(a)) : Filter(b)[i] = Filter(a)[i]
            /\ Len(Filter(a)) \in Nat
        <4>1. Filter(b) = Append(Filter(a), w)
          BY <2>2, <2>6
        <4> QED
          BY <2>3, <4>1, AppendProperties, LenProperties
      <3>4. ASSUME NEW k \in KeptAt(a)
            PROVE  /\ Cardinality(KeptAt(b) \cap 1..k) \in 1..Len(Filter(b))
                   /\ Filter(b)[Cardinality(KeptAt(b) \cap 1..k)] = b[k]
        <4>1. KeptAt(b) \cap 1..k = KeptAt(a) \cap 1..k /\ b[k] = a[k]
          BY <2>1, <3>1 DEF KeptAt
        <4>2. /\ Cardinality(KeptAt(a) \cap 1..k) \in 1..Len(Filter(a))
              /\ Filter(a)[Cardinality(KeptAt(a) \cap 1..k)] = a[k]
          BY <2>4 DEF Places
        <4>3. Cardinality(KeptAt(a) \cap 1..k) \in 1..Len(Filter(b))
          BY <4>2, <3>3
        <4>4. Filter(b)[Cardinality(KeptAt(a) \cap 1..k)] = a[k]
          BY <4>2, <3>3
        <4> QED
          BY <4>1, <4>3, <4>4
      <3>5. KeptAt(b) \cap 1..n = KeptAt(b)
        BY <2>1 DEF KeptAt
      <3>6. /\ Cardinality(KeptAt(b) \cap 1..n) = Len(Filter(b))
            /\ Len(Filter(b)) = Len(Filter(a)) + 1 /\ b[n] = w
        BY <2>1, <2>4, <3>2, <3>3, <3>5 DEF Places
      <3>7. /\ Cardinality(KeptAt(b) \cap 1..n) \in 1..Len(Filter(b))
            /\ Filter(b)[Cardinality(KeptAt(b) \cap 1..n)] = b[n]
        BY <3>3, <3>6
      <3> HIDE DEF n
      <3>8. Places(b)
        BY <3>1, <3>4, <3>5, <3>6, <3>7 DEF Places
      <3> QED
        BY <2>1, <3>8 DEF b
    <2> QED
      BY <2>5, <2>6
  <1>3. Seq(Word) \subseteq S
    <2> HIDE DEF S
    <2> QED
      BY <1>1, <1>2, LineInduction
  <1> QED
    BY <1>3

(* Whether a line has a word of a key, and whether it has exactly one.     *)
Silent(a, key) == \A k \in 1..Len(a) : a[k] \notin key
Once(a, key, w) ==
    \E k \in 1..Len(a) : a[k] = w /\ \A j \in 1..Len(a) : a[j] \in key <=> j = k

LEMMA OnceAppend ==
    ASSUME NEW a \in Seq(Word), NEW v \in Word, NEW key, NEW w \in key
    PROVE  /\ Silent(Append(a, v), key) <=> Silent(a, key) /\ v \notin key
           /\ Once(Append(a, v), key, w) <=>
                 \/ v = w /\ Silent(a, key)
                 \/ v \notin key /\ Once(a, key, w)
  <1> DEFINE b == Append(a, v)
             n == Len(a) + 1
  <1>1. /\ Len(b) = n /\ Len(a) \in Nat
        /\ \A i \in 1..Len(a) : b[i] = a[i]
        /\ b[n] = v
    <2>1. Len(a) \in Nat
      BY LenProperties
    <2>2. /\ Len(Append(a, v)) = Len(a) + 1
          /\ \A i \in 1..Len(a) : Append(a, v)[i] = a[i]
          /\ Append(a, v)[Len(a) + 1] = v
      BY AppendProperties
    <2> QED
      BY <2>1, <2>2
  <1> HIDE DEF b
  <1>2. 1..n = 1..Len(a) \cup {n} /\ n \notin 1..Len(a)
    BY <1>1
  <1> HIDE DEF n
  <1>3. Silent(b, key) <=> Silent(a, key) /\ v \notin key
    BY <1>1, <1>2 DEF Silent
  <1>4. ASSUME Once(b, key, w) 
        PROVE (v = w /\ Silent(a, key)) \/ (v \notin key /\ Once(a, key, w))
    <2>1. PICK k \in 1..n : b[k] = w /\ \A j \in 1..n : b[j] \in key <=> j = k
      BY <1>1, <1>4 DEF Once
    <2>2. CASE k = n
      BY <2>1, <2>2, <1>1, <1>2 DEF Silent
    <2>3. CASE k \in 1..Len(a)
      <3>1. v \notin key
        BY <2>1, <2>3, <1>1, <1>2
      <3>2. a[k] = w /\ \A j \in 1..Len(a) : a[j] \in key <=> j = k
        BY <2>1, <2>3, <1>1, <1>2
      <3> QED
        BY <3>1, <3>2, <2>3 DEF Once
    <2> QED
      BY <2>1, <2>2, <2>3, <1>2
  <1>5. ASSUME v = w, Silent(a, key) PROVE Once(b, key, w)
    <2>1. b[n] = w /\ n \in 1..n /\ \A j \in 1..n : b[j] \in key <=> j = n
      BY <1>1, <1>2, <1>5 DEF Silent
    <2> QED
      BY <2>1, <1>1 DEF Once
  <1>6. ASSUME v \notin key, Once(a, key, w) PROVE Once(b, key, w)
    <2>1. PICK k \in 1..Len(a) : a[k] = w /\ \A j \in 1..Len(a) : a[j] \in key <=> j = k
      BY <1>6 DEF Once
    <2>2. k \in 1..n /\ b[k] = w /\ \A j \in 1..n : b[j] \in key <=> j = k
      BY <2>1, <1>1, <1>2, <1>6
    <2> QED
      BY <2>2, <1>1 DEF Once
  <1> QED
    BY <1>3, <1>4, <1>5, <1>6 DEF b

(* The filter neither removes nor adds a word of a key that is not about   *)
(* storage.                                                                *)
LEMMA FilterOnce ==
    ASSUME NEW key, key \cap Stripped = {}, NEW w \in key
    PROVE  \A a \in Seq(Word) : /\ Silent(Filter(a), key) <=> Silent(a, key)
                                /\ Once(Filter(a), key, w) <=> Once(a, key, w)
  <1> DEFINE S == {a \in Seq(Word) : /\ Silent(Filter(a), key) <=> Silent(a, key)
                                     /\ Once(Filter(a), key, w) <=> Once(a, key, w)}
  <1>1. <<>> \in S
    <2>1. <<>> \in Seq(Word) /\ Filter(<<>>) = <<>>
      BY EmptySeq, FilterEmpty
    <2>2. /\ Silent(Filter(<<>>), key) <=> Silent(<<>>, key)
          /\ Once(Filter(<<>>), key, w) <=> Once(<<>>, key, w)
      BY <2>1
    <2> QED
      BY <2>1, <2>2
  <1>2. ASSUME NEW a \in Seq(Word), NEW v \in Word, a \in S PROVE Append(a, v) \in S
    <2>1. Append(a, v) \in Seq(Word) /\ Filter(a) \in Seq(Word)
      BY AppendProperties, FilterClean, CleanLines
    <2>2. CASE v \in Stripped
      <3>1. v \notin key /\ v # w /\ Filter(Append(a, v)) = Filter(a)
        BY <2>2, FilterAppend
      <3>2. /\ Silent(Append(a, v), key) <=> Silent(a, key)
            /\ Once(Append(a, v), key, w) <=> Once(a, key, w)
        BY <3>1, OnceAppend
      <3> QED
        BY <1>2, <2>1, <3>1, <3>2
    <2>3. CASE v \notin Stripped
      <3>1. Filter(Append(a, v)) = Append(Filter(a), v)
        BY <2>3, FilterAppend
      <3>2. /\ Silent(Append(a, v), key) <=> Silent(a, key) /\ v \notin key
            /\ Once(Append(a, v), key, w) <=>
                  \/ v = w /\ Silent(a, key)
                  \/ v \notin key /\ Once(a, key, w)
        BY OnceAppend
      <3>3. /\ Silent(Append(Filter(a), v), key) <=> Silent(Filter(a), key) /\ v \notin key
            /\ Once(Append(Filter(a), v), key, w) <=>
                  \/ v = w /\ Silent(Filter(a), key)
                  \/ v \notin key /\ Once(Filter(a), key, w)
        BY <2>1, OnceAppend
      <3>4. /\ Silent(Filter(a), key) <=> Silent(a, key)
            /\ Once(Filter(a), key, w) <=> Once(a, key, w)
        BY <1>2
      <3>5. /\ Silent(Filter(Append(a, v)), key) <=> Silent(Append(a, v), key)
            /\ Once(Filter(Append(a, v)), key, w) <=> Once(Append(a, v), key, w)
        BY <3>1, <3>2, <3>3, <3>4
      <3> QED
        BY <2>1, <3>5
    <2> QED
      BY <2>2, <2>3
  <1>3. Seq(Word) \subseteq S
    <2> HIDE DEF S
    <2> QED
      BY <1>1, <1>2, LineInduction
  <1> QED
    BY <1>3

LEMMA ValueOnce ==
    ASSUME NEW a \in Seq(Word), NEW key, "none" \notin key, NEW w \in key
    PROVE  Value(a, key) = w <=> Once(a, key, w)
  <1> DEFINE hits == {k \in 1..Len(a) : a[k] \in key}
  <1>1. ASSUME Once(a, key, w) PROVE Value(a, key) = w
    <2>1. PICK k \in 1..Len(a) : a[k] = w /\ \A j \in 1..Len(a) : a[j] \in key <=> j = k
      BY <1>1 DEF Once
    <2>2. hits = {k}
      BY <2>1
    <2>3. (CHOOSE j \in hits : TRUE) = k
      BY <2>2
    <2> QED
      BY <2>1, <2>2, <2>3 DEF Value
  <1>2. ASSUME Value(a, key) = w PROVE Once(a, key, w)
    <2>1. PICK k \in hits : hits = {k}
      BY <1>2 DEF Value
    <2>2. (CHOOSE j \in hits : TRUE) = k
      BY <2>1
    <2>3. a[k] = w
      BY <1>2, <2>1, <2>2 DEF Value
    <2> QED
      BY <2>1, <2>3 DEF Once
  <1> QED
    BY <1>1, <1>2

(* What the kernel reads from the line it has built is what U-Boot says    *)
(* once on the whole of it.                                                *)
HandOver(a, b) ==
    CASE Once(a \o b, SlotWord, "slot=low") /\ Once(a \o b, SizeWord, "size=single") -> "single"
      [] Once(a \o b, SlotWord, "slot=low") /\ ~Once(a \o b, SizeWord, "size=single") -> "low"
      [] Once(a \o b, SlotWord, "slot=high") -> "high"
      [] OTHER -> "none"

LEMMA LineReadsHandOver ==
    ASSUME NEW a \in Seq(Word), NEW b \in Seq(Word)
    PROVE  LET line == Filter(a) \o b
           IN  /\ Single(line) <=> HandOver(a, b) = "single"
               /\ ~Single(line) => BootSlotOf(line) = HandOver(a, b)
               /\ BootSlotOf(line) \in {"low", "high", "none"}
  <1> DEFINE line == Filter(a) \o b
  <1>1. line \in Seq(Word) /\ a \o b \in Seq(Word) /\ Filter(line) = Filter(a \o b)
    BY FilterClean, CleanLines, ConcatProperties, FilterTwice
  <1> HIDE DEF line
  <1>2. ASSUME NEW key \in {SlotWord, SizeWord}, NEW w \in key
        PROVE  Value(line, key) = w <=> Once(a \o b, key, w)
    <2>1. key \cap Stripped = {} /\ "none" \notin key
      BY DEF SlotWord, SizeWord, Stripped
    <2>2. Once(line, key, w) <=> Once(Filter(line), key, w)
      BY <1>1, <2>1, FilterOnce
    <2>3. Once(a \o b, key, w) <=> Once(Filter(a \o b), key, w)
      BY <1>1, <2>1, FilterOnce
    <2>4. Value(line, key) = w <=> Once(line, key, w)
      BY <1>1, <2>1, ValueOnce
    <2> QED
      BY <1>1, <2>2, <2>3, <2>4
  <1>3. /\ Value(line, SlotWord) = "slot=low" <=> Once(a \o b, SlotWord, "slot=low")
        /\ Value(line, SlotWord) = "slot=high" <=> Once(a \o b, SlotWord, "slot=high")
        /\ Value(line, SizeWord) = "size=single" <=> Once(a \o b, SizeWord, "size=single")
    <2>1. "slot=low" \in SlotWord /\ "slot=high" \in SlotWord /\ "size=single" \in SizeWord
      BY DEF SlotWord, SizeWord
    <2> QED
      BY <1>2, <2>1
  <1>4. /\ BootSlotOf(line) = "low" <=> Once(a \o b, SlotWord, "slot=low")
        /\ BootSlotOf(line) = "high" <=> Once(a \o b, SlotWord, "slot=high")
        /\ BootSlotOf(line) \in {"low", "high", "none"}
    BY <1>3 DEF BootSlotOf
  <1>5. Single(line) <=> Once(a \o b, SlotWord, "slot=low") /\ Once(a \o b, SizeWord, "size=single")
    BY <1>3, <1>4 DEF Single
  <1>6. ~(Once(a \o b, SlotWord, "slot=low") /\ Once(a \o b, SlotWord, "slot=high"))
    BY <1>3
  <1>7. /\ Single(line) <=> HandOver(a, b) = "single"
        /\ ~Single(line) => BootSlotOf(line) = HandOver(a, b)
    BY <1>4, <1>5, <1>6 DEF HandOver
  <1> QED
    BY <1>4, <1>7 DEF line

----------------------------------------------------------------------------
(* Maps: turned to a slot, and behind the guards                           *)

(* The map of an installed image that was booted from s, and what the      *)
(* guards make of it.                                                      *)
MapOf(s) ==
    {Row("bootconfig", "bootconfig", TRUE), Row("rest", "rest", TRUE)} \cup
    (IF s = "single" THEN {Row("single", "rootfs", FALSE)}
     ELSE {Row(s, "rootfs", FALSE), Row(OtherSlot(s), "oem_rootfs", TRUE)})

PartsOf(s) == {Partition(r.name, r, r.name = "rootfs") : r \in MapOf(s)}

Own(i) == IF i \in {"A", "D"} THEN "low" ELSE "high"

LEMMA OwnMap == \A i \in Persistent : Storage(i) = MapOf(Own(i))
  <1>1. ASSUME NEW i \in {"A", "D"} PROVE Storage(i) = MapOf(Own(i))
    <2>1. Storage(i) = Around(TRUE) \cup {Row("low", "rootfs", FALSE), Row("high", "oem_rootfs", TRUE)}
      BY <1>1 DEF Storage
    <2>2. MapOf("low") = Around(TRUE) \cup {Row("low", "rootfs", FALSE), Row("high", "oem_rootfs", TRUE)}
      BY DEF MapOf, Around, OtherSlot
    <2> QED
      BY <1>1, <2>1, <2>2 DEF Own
  <1>2. ASSUME NEW i \in {"B", "C"} PROVE Storage(i) = MapOf(Own(i))
    <2>1. Storage(i) = Around(TRUE) \cup {Row("low", "oem_rootfs", TRUE), Row("high", "rootfs", FALSE)}
      BY <1>2 DEF Storage
    <2>2. MapOf("high") = Around(TRUE) \cup {Row("high", "rootfs", FALSE), Row("low", "oem_rootfs", TRUE)}
      BY DEF MapOf, Around, OtherSlot
    <2> QED
      BY <1>2, <2>1, <2>2 DEF Own
  <1> QED
    BY <1>1, <1>2 DEF Persistent

LEMMA MapSet ==
    /\ MapOf("single") = {Row("bootconfig", "bootconfig", TRUE), Row("rest", "rest", TRUE),
                          Row("single", "rootfs", FALSE)}
    /\ \A s \in {"low", "high"} :
          MapOf(s) = {Row("bootconfig", "bootconfig", TRUE), Row("rest", "rest", TRUE),
                      Row(s, "rootfs", FALSE), Row(OtherSlot(s), "oem_rootfs", TRUE)}
  BY DEF MapOf

(* Of the rows, the one of s is the only rootfs and the only writable one. *)
LEMMA MapRows ==
    ASSUME NEW s \in Slots
    PROVE  /\ \E r \in MapOf(s) : r.extent = s
           /\ \A r \in MapOf(s) :
                 /\ ~r.ro <=> r.name = "rootfs"
                 /\ r.name = "rootfs" <=> r.extent = s
                 /\ r.extent \in Slots => r.name \in {"rootfs", "oem_rootfs"}
           /\ \A r, q \in MapOf(s) : r.extent = q.extent => r = q
  <1> DEFINE b == Row("bootconfig", "bootconfig", TRUE)
             x == Row("rest", "rest", TRUE)
             f == Row(s, "rootfs", FALSE)
             o == Row(OtherSlot(s), "oem_rootfs", TRUE)
  <1>1. /\ b.extent = "bootconfig" /\ b.name = "bootconfig" /\ b.ro
        /\ x.extent = "rest" /\ x.name = "rest" /\ x.ro
        /\ f.extent = s /\ f.name = "rootfs" /\ ~f.ro
        /\ o.extent = OtherSlot(s) /\ o.name = "oem_rootfs" /\ o.ro
    BY DEF Row
  <1>2. \/ s = "single" /\ MapOf(s) = {b, x, f}
        \/ s # "single" /\ MapOf(s) = {b, x, f, o}
    BY MapSet DEF Slots
  <1>3. OtherSlot(s) \in {"low", "high"} /\ OtherSlot(s) # s
    BY DEF OtherSlot, Slots
  <1> HIDE DEF b, x, f, o
  <1>4. \E r \in MapOf(s) : r.extent = s
    BY <1>1, <1>2
  <1>5. ASSUME NEW r \in MapOf(s)
        PROVE  /\ ~r.ro <=> r.name = "rootfs"
               /\ r.name = "rootfs" <=> r.extent = s
               /\ r.extent \in Slots => r.name \in {"rootfs", "oem_rootfs"}
    BY <1>1, <1>2, <1>3 DEF Slots
  <1>6. ASSUME NEW r \in MapOf(s), NEW q \in MapOf(s), r.extent = q.extent PROVE r = q
    BY <1>1, <1>2, <1>3, <1>6 DEF Slots
  <1> QED
    BY <1>4, <1>5, <1>6

LEMMA MapNames ==
    ASSUME NEW s \in {"low", "high"}, NEW t \in {"low", "high"}, NEW name
    PROVE  Named(MapOf(s), t, name) <=> name = (IF t = s THEN "rootfs" ELSE "oem_rootfs")
  <1>1. t = s \/ t = OtherSlot(s)
    BY DEF OtherSlot
  <1>2. OtherSlot(s) # s
    BY DEF OtherSlot
  <1>3. \E r \in MapOf(s) : r.extent = t /\ r.name = IF t = s THEN "rootfs" ELSE "oem_rootfs"
    <2>1. CASE t = s
      BY <2>1, MapRows DEF Slots
    <2>2. CASE t = OtherSlot(s)
      <3>1. Row(t, "oem_rootfs", TRUE) \in MapOf(s)
        BY <2>2, MapSet
      <3> QED
        BY <1>2, <2>2, <3>1 DEF Row
    <2> QED
      BY <1>1, <2>1, <2>2
  <1>4. \A r, q \in MapOf(s) : r.extent = q.extent => r = q
    BY MapRows DEF Slots
  <1> QED
    BY <1>3, <1>4 DEF Named

(* The slots change places when the other one was booted.                  *)
LEMMA TurnedMap ==
    ASSUME NEW s \in {"low", "high"}, NEW t \in {"low", "high"}
    PROVE  SelectSlot(MapOf(s), t) = MapOf(t)
  <1>1. OtherSlot(t) \in {"low", "high"} /\ OtherSlot(t) # t
    BY DEF OtherSlot
  <1>2. CASE s = t
    <2>1. ~Named(MapOf(s), t, "oem_rootfs")
      BY <1>2, MapNames
    <2> QED
      BY <1>2, <2>1 DEF SelectSlot
  <1>3. CASE s # t
    <2>1. s = OtherSlot(t) /\ t = OtherSlot(s)
      BY <1>3 DEF OtherSlot
    <2>2. Named(MapOf(s), t, "oem_rootfs") /\ Named(MapOf(s), OtherSlot(t), "rootfs")
      BY <1>1, <1>3, <2>1, MapNames
    <2> DEFINE turn(r) == IF r.extent \in {"low", "high"} THEN [r EXCEPT !.extent = OtherSlot(@)] ELSE r
    <2>3. SelectSlot(MapOf(s), t) = {turn(r) : r \in MapOf(s)}
      BY <2>2 DEF SelectSlot
    <2>4. /\ turn(Row("bootconfig", "bootconfig", TRUE)) = Row("bootconfig", "bootconfig", TRUE)
          /\ turn(Row("rest", "rest", TRUE)) = Row("rest", "rest", TRUE)
          /\ turn(Row(s, "rootfs", FALSE)) = Row(t, "rootfs", FALSE)
          /\ turn(Row(t, "oem_rootfs", TRUE)) = Row(s, "oem_rootfs", TRUE)
      BY <2>1 DEF Row
    <2>5. /\ MapOf(s) = {Row("bootconfig", "bootconfig", TRUE), Row("rest", "rest", TRUE),
                         Row(s, "rootfs", FALSE), Row(t, "oem_rootfs", TRUE)}
          /\ MapOf(t) = {Row("bootconfig", "bootconfig", TRUE), Row("rest", "rest", TRUE),
                         Row(t, "rootfs", FALSE), Row(s, "oem_rootfs", TRUE)}
      BY <2>1 DEF MapOf
    <2> HIDE DEF turn
    <2> QED
      BY <2>3, <2>4, <2>5
  <1> QED
    BY <1>2, <1>3

LEMMA SingleMap == \A s \in {"low", "high"} : SingleSlot(MapOf(s)) = MapOf("single")
  <1> SUFFICES ASSUME NEW s \in {"low", "high"} PROVE SingleSlot(MapOf(s)) = MapOf("single")
    OBVIOUS
  <1>1. Named(MapOf(s), s, "rootfs") /\ Named(MapOf(s), OtherSlot(s), "oem_rootfs")
    BY MapNames DEF OtherSlot
  <1>2. {r \in MapOf(s) : r.extent \notin Slots} =
            {Row("bootconfig", "bootconfig", TRUE), Row("rest", "rest", TRUE)}
    BY DEF MapOf, Row, Slots, OtherSlot
  <1> QED
    BY <1>1, <1>2 DEF SingleSlot, MapOf

(* The map an installed image ends up with.                                *)
LEMMA OrientedMap ==
    ASSUME NEW i \in Persistent, NEW line, BootSlotOf(line) \in {"low", "high", "none"}
    PROVE  Oriented(i, line) =
             MapOf(IF Single(line) THEN "single"
                   ELSE IF BootSlotOf(line) # "none" THEN BootSlotOf(line) ELSE Own(i))
  <1>1. Storage(i) = MapOf(Own(i)) /\ Own(i) \in {"low", "high"} /\ Follows(i)
    BY OwnMap DEF Own, Follows
  <1> QED
    BY <1>1, TurnedMap, SingleMap DEF Oriented

(* The guards let exactly that slot be written.                            *)
LEMMA GuardedMap ==
    ASSUME NEW i \in Persistent, NEW s \in Slots
    PROVE  Guarded(MapOf(s), i) = PartsOf(s)
  <1> DEFINE m == MapOf(s)
  <1> HIDE DEF m
  <1>1. ASSUME NEW r \in m PROVE (~r.ro) = (r.name = "rootfs")
    BY MapRows DEF m
  <1>2. CASE i \in {"A", "B"}
    <2>1. Guarded(m, i) = {Partition(r.name, r, ~r.ro) : r \in m}
      BY <1>2 DEF Guarded, BoardC, BoardD
    <2> QED
      BY <2>1, <1>1 DEF PartsOf, m
  <1>3. CASE i = "C"
    <2>1. Guarded(m, i) = {Partition(NameC(m, r), r, WindowC(m, r, i) /\ ~r.ro) : r \in m}
      <3>1. i \in BoardC /\ i \notin BoardD
        BY <1>3 DEF BoardC, BoardD
      <3> QED
        BY <3>1 DEF Guarded
    <2>2. NamedSlots(m)
      <3>1. CASE s = "single"
        <4>1. Named(m, "single", "rootfs")
          BY <3>1, MapRows DEF Named, m
        <4> QED
          BY <4>1 DEF NamedSlots
      <3>2. CASE s \in {"low", "high"}
        <4>1. Named(m, s, "rootfs") /\ Named(m, OtherSlot(s), "oem_rootfs")
          BY <3>2, MapNames DEF OtherSlot, m
        <4> QED
          BY <4>1, <3>2 DEF NamedSlots
      <3> QED
        BY <3>1, <3>2 DEF Slots
    <2>3. ASSUME NEW r \in m
          PROVE  NameC(m, r) = r.name /\ (WindowC(m, r, i) /\ ~r.ro) = (r.name = "rootfs")
      <3>1. NameC(m, r) = r.name
        BY <2>2 DEF NameC
      <3>2. r.name = "rootfs" => r.extent \in Slots
        BY MapRows DEF m
      <3>3. r.extent \in Slots => (WindowC(m, r, i) <=> r.name = "rootfs")
        BY <2>2 DEF WindowC
      <3>4. (WindowC(m, r, i) /\ ~r.ro) <=> r.name = "rootfs"
        BY <1>1, <3>2, <3>3
      <3> QED
        BY <3>1, <3>4
    <2> QED
      BY <2>1, <2>3 DEF PartsOf, m
  <1>4. CASE i = "D"
    <2>1. Guarded(m, i) = {Partition(r.name, r, ShouldWrite(r, i) /\ ~r.ro) : r \in m}
      BY <1>4 DEF Guarded, BoardC, BoardD
    <2>2. ASSUME NEW r \in m PROVE (ShouldWrite(r, i) /\ ~r.ro) = (r.name = "rootfs")
      BY <1>1, <1>4 DEF ShouldWrite, Installer
    <2> QED
      BY <2>1, <2>2 DEF PartsOf, m
  <1> QED
    BY <1>2, <1>3, <1>4 DEF Persistent, m

----------------------------------------------------------------------------
(* The inductive invariant *)

Inputs ==
    /\ image \in Image /\ given \in Seq(Word) /\ append \in Seq(Word)
    /\ stage \in {"inherit", "append", "storage", "guard", "up", "panic", "refused"}

(* What the line is at each stage of an image with storage arguments, and  *)
(* the map that was made from it.                                          *)
Built ==
    HasStorage(image) =>
        /\ stage = "append" => cmdline = Filter(given)
        /\ stage = "storage" => cmdline = Filter(given) \o append
        /\ stage \in {"guard", "up"} =>
              /\ cmdline = Append(Filter(given \o append), "storage")
              /\ Fits(cmdline)
              /\ map = Oriented(image, Filter(given) \o append)

Foreign == ~HasStorage(image) /\ stage \in {"guard", "up"} => map \in {Nodes(image), Inherited}

Registered ==
    /\ stage = "up" => Accepts(map, image) /\ parts = Guarded(map, image)
    /\ stage # "up" => parts = {}

BootInv == Inputs /\ Built /\ Foreign /\ Registered

LEMMA InitBootInv == BootInit => BootInv
  <1> SUFFICES ASSUME BootInit PROVE BootInv
    OBVIOUS
  <1>1. Inputs
    BY LineAssumption DEF BootInit, Inputs
  <1>2. Built /\ Foreign /\ Registered
    BY DEF BootInit, Built, Foreign, Registered
  <1> QED
    BY <1>1, <1>2 DEF BootInv

LEMMA PanicBootInv == BootInv /\ Panic /\ stage # "up" => BootInv'
  BY DEF BootInv, Panic, Inputs, Built, Foreign, Registered

LEMMA InheritBootInv == BootInv /\ Inherit => BootInv'
  <1> SUFFICES ASSUME BootInv, Inherit PROVE BootInv'
    OBVIOUS
  <1>1. CASE Panic
    BY <1>1, PanicBootInv DEF Inherit
  <1>2. CASE stage' = "append"
    <2>1. /\ stage = "inherit" /\ UNCHANGED <<image, given, append, map, parts>>
          /\ HasStorage(image) => cmdline' = Filter(given)
      BY <1>2 DEF Inherit, Panic
    <2> QED
      BY <1>2, <2>1 DEF BootInv, Inputs, Built, Foreign, Registered
  <1> QED
    BY <1>1, <1>2 DEF Inherit

LEMMA AppendBootInv == BootInv /\ AppendArgs => BootInv'
  <1> SUFFICES ASSUME BootInv, AppendArgs PROVE BootInv'
    OBVIOUS
  <1>1. CASE Panic
    BY <1>1, PanicBootInv DEF AppendArgs
  <1>2. CASE stage' = "storage"
    <2>1. /\ stage = "append" /\ UNCHANGED <<image, given, append, map, parts>>
          /\ cmdline' = SubSeq(cmdline \o append, 1,
                               IF Fits(cmdline \o append) THEN Len(cmdline \o append) ELSE Capacity)
          /\ HasStorage(image) => Fits(cmdline \o append)
      BY <1>2 DEF AppendArgs, Panic
    <2>2. HasStorage(image) => cmdline' = Filter(given) \o append
      <3> SUFFICES ASSUME HasStorage(image) PROVE cmdline' = Filter(given) \o append
        OBVIOUS
      <3>1. cmdline = Filter(given) /\ cmdline \o append \in Seq(Word)
        BY <2>1, FilterClean, CleanLines, ConcatProperties DEF BootInv, Inputs, Built
      <3>2. cmdline' = SubSeq(cmdline \o append, 1, Len(cmdline \o append))
        BY <2>1
      <3> QED
        BY <3>1, <3>2, SubSeqFull
    <2> QED
      BY <1>2, <2>1, <2>2 DEF BootInv, Inputs, Built, Foreign, Registered
  <1> QED
    BY <1>1, <1>2 DEF AppendArgs

LEMMA StorageBootInv == BootInv /\ StorageArgs => BootInv'
  <1> SUFFICES ASSUME BootInv, StorageArgs PROVE BootInv'
    OBVIOUS
  <1>1. CASE Panic
    BY <1>1, PanicBootInv DEF StorageArgs
  <1>2. CASE stage' = "guard"
    <2>1. /\ stage = "storage" /\ UNCHANGED <<image, given, append, parts>>
          /\ ~HasStorage(image) => map' \in {Nodes(image), Inherited}
          /\ HasStorage(image) => /\ Fits(Append(Filter(cmdline), "storage"))
                                 /\ map' = Oriented(image, cmdline)
                                 /\ cmdline' = Append(Filter(cmdline), "storage")
      BY <1>2 DEF StorageArgs, Panic
    <2>2. HasStorage(image) => /\ cmdline = Filter(given) \o append
                              /\ Filter(cmdline) = Filter(given \o append)
      BY <2>1, FilterTwice DEF BootInv, Inputs, Built
    <2>3. Fits(cmdline)' <=> Len(cmdline') <= Capacity
      BY DEF Fits
    <2>4. HasStorage(image) => Fits(cmdline)'
      BY <2>1, <2>3 DEF Fits
    <2>5. Built'
      BY <1>2, <2>1, <2>2, <2>4 DEF Built
    <2> QED
      BY <1>2, <2>1, <2>5 DEF BootInv, Inputs, Foreign, Registered
  <1> QED
    BY <1>1, <1>2 DEF StorageArgs

LEMMA RegisterBootInv == BootInv /\ Register => BootInv'
  <1> SUFFICES ASSUME BootInv, Register PROVE BootInv'
    OBVIOUS
  <1>1. /\ stage = "guard" /\ UNCHANGED <<image, given, append, cmdline, map>>
        /\ \/ Accepts(map, image) /\ parts' = Guarded(map, image) /\ stage' = "up"
           \/ stage' = "refused" /\ parts' = parts
    BY DEF Register
  <1>2. Built' /\ Foreign'
    BY <1>1 DEF BootInv, Built, Foreign
  <1>3. Registered'
    BY <1>1 DEF BootInv, Registered
  <1> QED
    BY <1>1, <1>2, <1>3 DEF BootInv, Inputs

LEMMA BootInvariance == BootSpec => []BootInv
  <1>1. BootInit => BootInv
    BY InitBootInv
  <1>2. BootInv /\ [BootNext]_bootVars => BootInv'
    <2>1. ASSUME BootInv, UNCHANGED bootVars PROVE BootInv'
      BY <2>1 DEF bootVars, BootInv, Inputs, Built, Foreign, Registered, Fits
    <2> QED
      BY <2>1, InheritBootInv, AppendBootInv, StorageBootInv, RegisterBootInv DEF BootNext
  <1> QED
    BY <1>1, <1>2, PTL DEF BootSpec

----------------------------------------------------------------------------
(* What the invariant implies *)

LEMMA SaidOnce ==
    ASSUME NEW key, NEW w \in key
    PROVE  Said(w, key) <=> Once(given \o append, key, w)
  BY DEF Said, Once

LEMMA BootedIsHandedOver ==
    BootedSlot = IF HandOver(given, append) = "none" THEN Own(image) ELSE HandOver(given, append)
  <1>1. /\ Said("slot=low", SlotWord) <=> Once(given \o append, SlotWord, "slot=low")
        /\ Said("slot=high", SlotWord) <=> Once(given \o append, SlotWord, "slot=high")
        /\ Said("size=single", SizeWord) <=> Once(given \o append, SizeWord, "size=single")
    BY SaidOnce DEF SlotWord, SizeWord
  <1> QED
    BY <1>1 DEF BootedSlot, HandOver, Own

(* An installed image that is up runs on the map of the slot it was booted *)
(* from, and its partitions are what the guards make of that.              *)
LEMMA InstalledMap ==
    ASSUME BootInv, stage = "up", image \in Persistent
    PROVE  /\ BootedSlot \in Slots
           /\ map = MapOf(BootedSlot)
           /\ parts = PartsOf(BootedSlot)
  <1> DEFINE line == Filter(given) \o append
  <1>1. HasStorage(image)
    BY DEF HasStorage, Persistent
  <1>2. map = Oriented(image, line) /\ parts = Guarded(map, image)
    BY <1>1 DEF BootInv, Built, Registered
  <1>3. /\ Single(line) <=> HandOver(given, append) = "single"
        /\ ~Single(line) => BootSlotOf(line) = HandOver(given, append)
        /\ BootSlotOf(line) \in {"low", "high", "none"}
    BY LineReadsHandOver DEF BootInv, Inputs
  <1> HIDE DEF line
  <1>4. (IF Single(line) THEN "single"
         ELSE IF BootSlotOf(line) # "none" THEN BootSlotOf(line) ELSE Own(image)) = BootedSlot
    BY <1>3, BootedIsHandedOver
  <1>5. map = MapOf(BootedSlot)
    BY <1>2, <1>3, <1>4, OrientedMap
  <1>6. BootedSlot \in Slots
    BY <1>3, <1>4 DEF Own, Slots
  <1> QED
    BY <1>2, <1>5, <1>6, GuardedMap

LEMMA InstalledParts ==
    ASSUME NEW s \in Slots, NEW p \in PartsOf(s)
    PROVE  /\ p.writable <=> p.extent = s
           /\ p.name = "rootfs" <=> p.extent = s
           /\ \A q \in PartsOf(s) : q.extent = p.extent => q = p
  <1>1. PICK r \in MapOf(s) : p = Partition(r.name, r, r.name = "rootfs")
    BY DEF PartsOf
  <1>2. p.extent = r.extent /\ p.name = r.name /\ (p.writable <=> r.name = "rootfs")
    BY <1>1 DEF Partition
  <1>3. r.name = "rootfs" <=> r.extent = s
    BY MapRows
  <1>4. ASSUME NEW q \in PartsOf(s), q.extent = p.extent PROVE q = p
    <2>1. PICK t \in MapOf(s) : q = Partition(t.name, t, t.name = "rootfs")
      BY DEF PartsOf
    <2>2. t.extent = r.extent
      BY <1>2, <1>4, <2>1 DEF Partition
    <2>3. t = r
      BY <2>2, MapRows
    <2> QED
      BY <1>1, <2>1, <2>3
  <1> QED
    BY <1>2, <1>3, <1>4

LEMMA WritesTheBooted == BootInv => WritesTheBootedSlot
  <1> SUFFICES ASSUME BootInv, stage = "up", image \in Persistent
               PROVE  /\ WritableSlots = {BootedSlot}
                      /\ {p.extent : p \in {q \in parts : q.name = "rootfs"}} = {BootedSlot}
    BY DEF WritesTheBootedSlot
  <1> DEFINE s == BootedSlot
  <1>1. s \in Slots /\ parts = PartsOf(s)
    BY InstalledMap
  <1> HIDE DEF s
  <1>2. PICK p \in PartsOf(s) : p.extent = s
    <2>1. PICK r \in MapOf(s) : r.extent = s
      BY <1>1, MapRows
    <2>2. Partition(r.name, r, r.name = "rootfs") \in PartsOf(s)
      BY DEF PartsOf
    <2> QED
      BY <2>1, <2>2 DEF Partition
  <1>3. \A q \in PartsOf(s) : (q.writable <=> q.extent = s) /\ (q.name = "rootfs" <=> q.extent = s)
    BY <1>1, InstalledParts
  <1>4. WritableSlots = {s}
    BY <1>1, <1>2, <1>3 DEF WritableSlots
  <1>5. {q.extent : q \in {q \in parts : q.name = "rootfs"}} = {s}
    BY <1>1, <1>2, <1>3
  <1> QED
    BY <1>4, <1>5 DEF s

(* The D boards: what passes their validation has one rootfs, and only     *)
(* that and, for the installer, the selector can be written.               *)
LEMMA ProtectedD ==
    ASSUME NEW m, NEW i \in BoardD, ValidD(m, i),
           NEW p \in Guarded(m, i), p.writable
    PROVE  /\ i # "D ram"
           /\ p.extent \in Slots \/ (p.extent = "bootconfig" /\ i \in Installer)
           /\ \A q \in Guarded(m, i) :
                 q.writable /\ p.extent \in Slots /\ q.extent \in Slots => p = q
  <1>1. Guarded(m, i) = {Partition(r.name, r, ShouldWrite(r, i) /\ ~r.ro) : r \in m}
    <2>1. i \notin BoardC
      BY DEF BoardC, BoardD
    <2> QED
      BY <2>1 DEF Guarded
  <1>2. ASSUME NEW q \in Guarded(m, i), q.writable
        PROVE  \E r \in m : /\ q = Partition(r.name, r, ShouldWrite(r, i) /\ ~r.ro)
                            /\ q.extent = r.extent /\ ShouldWrite(r, i)
    <2>1. PICK r \in m : q = Partition(r.name, r, ShouldWrite(r, i) /\ ~r.ro)
      BY <1>1
    <2>2. q.extent = r.extent /\ (q.writable <=> ShouldWrite(r, i) /\ ~r.ro)
      BY <2>1 DEF Partition
    <2> QED
      BY <1>2, <2>1, <2>2
  <1>3. ASSUME NEW r \in m, ShouldWrite(r, i)
        PROVE  /\ r.extent \in Slots => r.name = "rootfs"
               /\ r.extent \notin Slots => r.extent = "bootconfig" /\ i \in Installer
               /\ i # "D ram"
    <2>1. r.extent \in {"bootconfig", "rest", "low", "high", "single"}
      BY DEF ValidD, WholeMap, Extents
    <2>2. r.extent \notin Slots => r.name = r.extent
      BY DEF ValidD
    <2> QED
      BY <1>3, <2>1, <2>2 DEF ShouldWrite, Slots
  <1>4. \A r, t \in m : r.name = "rootfs" /\ t.name = "rootfs" => r = t
    BY DEF ValidD
  <1>5. PICK r \in m : /\ p = Partition(r.name, r, ShouldWrite(r, i) /\ ~r.ro)
                       /\ p.extent = r.extent /\ ShouldWrite(r, i)
    BY <1>2
  <1>6. ASSUME NEW q \in Guarded(m, i), q.writable, p.extent \in Slots, q.extent \in Slots
        PROVE  p = q
    <2>1. PICK t \in m : /\ q = Partition(t.name, t, ShouldWrite(t, i) /\ ~t.ro)
                         /\ q.extent = t.extent /\ ShouldWrite(t, i)
      BY <1>2, <1>6
    <2>2. r = t
      BY <1>3, <1>4, <1>5, <1>6, <2>1
    <2> QED
      BY <1>5, <2>1, <2>2
  <1> QED
    BY <1>3, <1>5, <1>6

LEMMA ForeignRows ==
    ASSUME NEW i, NEW m \in {Nodes(i), Inherited}
    PROVE  /\ \A r \in m : r.name # "oem_rootfs" /\ r.extent # "single"
           /\ \A r, q \in m : r.extent = q.extent => r = q
  <1>1. PICK fb, fx, fl, fh \in BOOLEAN :
            m = {Row("bootconfig", "bootconfig", fb), Row("rest", "rest", fx),
                 Row("low", "rootfs", fl), Row("high", "rootfs_1", fh)}
    <2>1. Inherited = {Row("bootconfig", "bootconfig", FALSE), Row("rest", "rest", FALSE),
                       Row("low", "rootfs", FALSE), Row("high", "rootfs_1", FALSE)}
      BY DEF Inherited
    <2>2. Nodes(i) = {Row("bootconfig", "bootconfig", i = "C discovery"), Row("rest", "rest", TRUE),
                      Row("low", "rootfs", TRUE), Row("high", "rootfs_1", i = "C discovery")}
      BY DEF Nodes, Around
    <2>3. CASE m = Inherited
      BY <2>1, <2>3
    <2>4. CASE m = Nodes(i)
      BY <2>2, <2>4
    <2> QED BY <2>3, <2>4
  <1> DEFINE b == Row("bootconfig", "bootconfig", fb)
             x == Row("rest", "rest", fx)
             l == Row("low", "rootfs", fl)
             h == Row("high", "rootfs_1", fh)
  <1>2. /\ b.extent = "bootconfig" /\ b.name = "bootconfig"
        /\ x.extent = "rest" /\ x.name = "rest"
        /\ l.extent = "low" /\ l.name = "rootfs"
        /\ h.extent = "high" /\ h.name = "rootfs_1"
    BY DEF Row
  <1>3. m = {b, x, l, h}
    BY <1>1
  <1> HIDE DEF b, x, l, h
  <1> QED
    BY <1>2, <1>3

(* The C installer lives on the map of the old firmware, all of it         *)
(* writable, or on its own nodes: the window leaves it the high slot and   *)
(* the selector.                                                           *)
LEMMA ProtectedInstallerC ==
    ASSUME NEW m \in {Nodes("C installer"), Inherited}, NEW p \in Guarded(m, "C installer"), p.writable
    PROVE  /\ p.extent \in {"high", "bootconfig"}
           /\ \A q \in Guarded(m, "C installer") : q.extent = p.extent => p = q
  <1>1. Guarded(m, "C installer") =
            {Partition(NameC(m, r), r, WindowC(m, r, "C installer") /\ ~r.ro) : r \in m}
    <2>1. "C installer" \in BoardC /\ "C installer" \notin BoardD
      BY DEF BoardC, BoardD
    <2> QED
      BY <2>1 DEF Guarded
  <1>3. ~NamedSlots(m)
    <2>1. ASSUME NEW r \in m PROVE r.name # "oem_rootfs" /\ r.extent # "single"
      BY ForeignRows
    <2> QED
      BY <2>1 DEF NamedSlots, Named
  <1>4. PICK r \in m : p = Partition(NameC(m, r), r, WindowC(m, r, "C installer") /\ ~r.ro)
    BY <1>1
  <1>5. p.extent = r.extent /\ (p.writable <=> WindowC(m, r, "C installer") /\ ~r.ro)
    BY <1>4 DEF Partition
  <1>6. p.extent \in {"high", "bootconfig"}
    BY <1>3, <1>5 DEF WindowC
  <1>7. ASSUME NEW q \in Guarded(m, "C installer"), q.extent = p.extent PROVE p = q
    <2>1. PICK t \in m : q = Partition(NameC(m, t), t, WindowC(m, t, "C installer") /\ ~t.ro)
      BY <1>1
    <2>2. t.extent = r.extent
      BY <1>5, <1>7, <2>1 DEF Partition
    <2>3. t = r
      BY <2>2, ForeignRows
    <2> QED
      BY <1>4, <2>1, <2>3
  <1> QED
    BY <1>6, <1>7

LEMMA Protected == BootInv => ProtectedStayReadOnly
  <1> SUFFICES ASSUME BootInv PROVE ProtectedStayReadOnly
    OBVIOUS
  <1>0. stage # "up" => parts = {}
    BY DEF BootInv, Registered
  <1> SUFFICES ASSUME image \in BoardC \cup BoardD, stage = "up"
               PROVE  ProtectedStayReadOnly
    BY <1>0 DEF ProtectedStayReadOnly
  <1>1. Accepts(map, image) /\ parts = Guarded(map, image)
    BY DEF BootInv, Registered
  <1>2. CASE image \in BoardD
    <2>1. ValidD(map, image)
      BY <1>1, <1>2 DEF Accepts
    <2> QED
      BY <1>1, <1>2, <2>1, ProtectedD DEF ProtectedStayReadOnly
  <1>3. CASE image = "C"
    <2>1. image \in Persistent
      BY <1>3 DEF Persistent
    <2>2. BootedSlot \in Slots /\ parts = PartsOf(BootedSlot)
      BY <2>1, InstalledMap
    <2> QED
      BY <1>3, <2>2, InstalledParts DEF ProtectedStayReadOnly
  <1>4. CASE image = "C installer"
    <2>1. map \in {Nodes("C installer"), Inherited}
      BY <1>4 DEF BootInv, Foreign, HasStorage
    <2>2. ASSUME NEW p \in parts, NEW q \in parts, p.writable, q.writable,
                 p.extent \in Slots, q.extent \in Slots
          PROVE  p = q
      <3>1. p.extent \in {"high", "bootconfig"} /\ q.extent \in {"high", "bootconfig"}
        BY <1>1, <1>4, <2>1, <2>2, ProtectedInstallerC
      <3>2. p.extent = q.extent
        BY <2>2, <3>1 DEF Slots
      <3> QED
        BY <1>1, <1>4, <2>1, <2>2, <3>2, ProtectedInstallerC
    <2>3. ASSUME NEW p \in parts, p.writable
          PROVE  p.extent \in Slots \/ p.extent = "bootconfig"
      BY <1>1, <1>4, <2>1, <2>3, ProtectedInstallerC DEF Slots
    <2> QED
      BY <1>4, <2>2, <2>3 DEF ProtectedStayReadOnly, Installer
  <1>5. image # "C discovery"
    BY <1>1 DEF Accepts, ValidC, BoardC
  <1> QED
    BY <1>2, <1>3, <1>4, <1>5 DEF BoardC

LEMMA NothingLost == BootInv => KeptOrPanic
  <1> SUFFICES ASSUME BootInv, HasStorage(image), stage \in {"guard", "up"}
               PROVE  KeptOrPanic
    BY DEF KeptOrPanic
  <1> DEFINE all == given \o append
  <1>1. all \in Seq(Word)
    BY ConcatProperties DEF BootInv, Inputs
  <1>2. cmdline = Append(Filter(all), "storage") /\ Fits(cmdline)
    BY DEF BootInv, Built
  <1> HIDE DEF all
  <1>3. Filter(all) \in Seq(Word) /\ "storage" \in Word /\ Len(Filter(all)) \in Nat
    BY <1>1, FilterClean, CleanLines, LenProperties DEF Word
  <1>4. /\ Len(cmdline) = Len(Filter(all)) + 1
        /\ cmdline[Len(Filter(all)) + 1] = "storage"
        /\ \A j \in 1..Len(Filter(all)) : cmdline[j] = Filter(all)[j]
    BY <1>2, <1>3, AppendProperties
  <1>5. Places(all)
    BY <1>1, FilterPlaces
  <1>6. Len(cmdline) = Cardinality(KeptAt(all)) + 1 /\ cmdline[Len(cmdline)] = "storage"
    BY <1>4, <1>5 DEF Places
  <1>7. \A k \in KeptAt(all) : cmdline[Cardinality(KeptAt(all) \cap 1..k)] = all[k]
    BY <1>4, <1>5 DEF Places
  <1> QED
    BY <1>2, <1>6, <1>7 DEF KeptOrPanic, all

----------------------------------------------------------------------------
(* Theorems *)

(* However U-Boot's line and the device tree's are made up: the system     *)
(* writes, and calls rootfs, exactly the slot that was booted.             *)
THEOREM BootedSlotWritable == BootSpec => []WritesTheBootedSlot
  BY BootInvariance, WritesTheBooted, PTL

(* On the C and D boards loader, calibration, a second slot and, outside   *)
(* an installer, the selector stay read-only, whatever U-Boot passes.      *)
THEOREM ProtectedReadOnly == BootSpec => []ProtectedStayReadOnly
  BY BootInvariance, Protected, PTL

(* For every line and every capacity, the words that are not about storage *)
(* reach the kernel complete and in order, or the boot panics.             *)
THEOREM ArgumentsKept == BootSpec => []KeptOrPanic
  BY BootInvariance, NothingLost, PTL

----------------------------------------------------------------------------
(* SlotUpgrade: the inductive invariant                                    *)

(* What the loops of h3c_qsdk_do_upgrade have done so far.                 *)
Progress ==
    /\ up # "QSDK" => pc = "idle"
    /\ pc \in {"make", "keep"} => at \in 0..2
    /\ pc = "keep" => at = 2 /\ vol[2] = "empty"
    /\ pc \in {"update", "write"} => at \in 0..1
    /\ pc \in {"make", "update", "write", "keep"} =>
          \A v \in {0, 1} : v < at => vol[v] = MemberOf(img, v) /\ vol[v] # None
    /\ pc \in {"update", "write"} => MemberOf(img, at) # None

(* Volumes ubirmvol has been asked to remove hold no whole image, or are   *)
(* stuck.                                                                  *)
Removed ==
    pc = "remove" => \A v \in {0, 1} : v < at /\ vol[v] \in Release => v \in stuck

(* A success is over: nothing of the slot is touched before the restart.   *)
OkIsOver == result = "ok" => pc \in {"done", "idle"}

UpgradeInv ==
    /\ TypeOK /\ Progress /\ Removed /\ OkIsOver
    /\ OkMeansWhole /\ NoMixedBoot /\ WholeIsOldOrNew

LEMMA FileFacts ==
    ASSUME NEW i \in File
    PROVE  /\ i.kernel \in Member /\ i.root \in Member
           /\ i.kernel \in Release /\ i.root \in Release => i.kernel = i.root
           /\ \A v \in Volume : MemberOf(i, v) \in Payload
  <1>1. i.kernel \in Member /\ i.root \in Member
    BY DEF File, Member, None
  <1>2. i.kernel \in Release /\ i.root \in Release => i.kernel = i.root
    BY ReleaseAssumption DEF File, None
  <1> QED
    BY <1>1, <1>2 DEF MemberOf, Payload

LEMMA NoImageIsFile == NoImage \in File
  BY DEF NoImage, File

USE DEF Volume, None, Payload, MemberOf, Stage

Updates == Progress /\ Removed /\ OkIsOver /\ OkMeansWhole
Boots == NoMixedBoot /\ WholeIsOldOrNew

----------------------------------------------------------------------------
(* Initial states *)

LEMMA InitUpgradeInv == Init => UpgradeInv
  <1> SUFFICES ASSUME Init PROVE UpgradeInv
    OBVIOUS
  <1> USE ReleaseAssumption
  <1> PICK r \in Release, extra \in {None, "empty"} : vol = Slot(r, "kept", extra)
    BY DEF Init
  <1>1. vol \in [Volume -> Payload] /\ vol[0] = r /\ vol[1] = r
    BY DEF Slot, Member
  <1>2. TypeOK
    <2>1. at \in Volume
      BY DEF Init
    <2>2. up \in {"QSDK", "OEM", "off"} /\ pc \in Stage
      BY DEF Init
    <2>3. img \in File
      BY NoImageIsFile DEF Init
    <2>4. busy \subseteq Volume /\ stuck \subseteq Volume
      BY DEF Init
    <2>5. result \in {"none", "ok", "failed"}
      BY DEF Init
    <2>6. backup \in BOOLEAN /\ selector \in {0, 1}
      BY DEF Init
    <2> QED
      BY <1>1, <2>1, <2>2, <2>3, <2>4, <2>5, <2>6 DEF TypeOK
  <1>3. Updates
    BY DEF Init, Updates, Progress, Removed, OkIsOver, OkMeansWhole
  <1>4. Boots
    BY <1>1 DEF Init, Boots, NoMixedBoot, WholeIsOldOrNew, Bootable
  <1> QED
    BY <1>2, <1>3, <1>4 DEF UpgradeInv, Updates, Boots

----------------------------------------------------------------------------
(* Every action preserves the three parts of the invariant *)

LEMMA StepUpgradeInv == UpgradeInv /\ [Next]_vars => UpgradeInv'
  <1> SUFFICES ASSUME UpgradeInv, [Next]_vars PROVE TypeOK' /\ Updates' /\ Boots'
    BY DEF UpgradeInv, Updates, Boots
  <1> USE ReleaseAssumption
  <1>0. ASSUME NEW i \in File, NEW f \in BOOLEAN, NEW k \in BOOLEAN, NEW h \in SUBSET Volume,
               Start(i, f, k, h)
        PROVE TypeOK' /\ Updates' /\ Boots'
    <2>1. TypeOK'
      BY <1>0 DEF UpgradeInv, TypeOK, Start
    <2>2. Updates'
      BY <1>0 DEF UpgradeInv, Updates, Progress, Removed, OkIsOver, OkMeansWhole, Start
    <2>3. Boots'
      BY <1>0 DEF UpgradeInv, Boots, NoMixedBoot, WholeIsOldOrNew, Bootable, Start
    <2> QED
      BY <2>1, <2>2, <2>3
  <1>1. CASE Unblock
    <2>1. TypeOK'
      BY <1>1 DEF UpgradeInv, TypeOK, Unblock
    <2>2. Updates'
      BY <1>1 DEF UpgradeInv, TypeOK, Updates, Progress, Removed, OkIsOver, OkMeansWhole, WholeIsOldOrNew, Unblock
    <2>3. Boots'
      BY <1>1 DEF UpgradeInv, TypeOK, Updates, Progress, Removed, OkIsOver, Boots, NoMixedBoot, WholeIsOldOrNew, Bootable, Unblock
    <2> QED
      BY <2>1, <2>2, <2>3
  <1>2. CASE Remove
    <2>1. TypeOK'
      <3>1. vol' \in [Volume -> Payload]
        BY <1>2 DEF UpgradeInv, TypeOK, Remove, Member
      <3>2. at' \in Volume
        BY <1>2 DEF UpgradeInv, TypeOK, Progress, Remove
      <3>3. up' \in {"QSDK", "OEM", "off"} /\ pc' \in Stage /\ result' \in {"none", "ok", "failed"}
        BY <1>2 DEF UpgradeInv, TypeOK, Remove
      <3>4. busy' \subseteq Volume /\ stuck' \subseteq Volume
        BY <1>2 DEF UpgradeInv, TypeOK, Remove
      <3>5. selector' \in {0, 1} /\ img' \in File /\ backup' \in BOOLEAN
        BY <1>2 DEF UpgradeInv, TypeOK, Remove
      <3> QED
        BY <3>1, <3>2, <3>3, <3>4, <3>5 DEF TypeOK
    <2>2. Updates'
      BY <1>2 DEF UpgradeInv, TypeOK, Updates, Progress, Removed, OkIsOver, OkMeansWhole, WholeIsOldOrNew, Remove
    <2>3. Boots'
      BY <1>2 DEF UpgradeInv, TypeOK, Updates, Progress, Removed, OkIsOver, Boots, NoMixedBoot, WholeIsOldOrNew, Bootable, Remove
    <2> QED
      BY <2>1, <2>2, <2>3
  <1>3. CASE Make
    <2>1. TypeOK'
      BY <1>3 DEF UpgradeInv, TypeOK, Make, CanMake
    <2>2. Updates'
      BY <1>3 DEF UpgradeInv, TypeOK, Updates, Progress, Removed, OkIsOver, OkMeansWhole, WholeIsOldOrNew, Make, CanMake
    <2>3. Boots'
      BY <1>3 DEF UpgradeInv, TypeOK, Updates, Progress, Removed, OkIsOver, Boots, NoMixedBoot, WholeIsOldOrNew, Bootable, Make, CanMake
    <2> QED
      BY <2>1, <2>2, <2>3
  <1>4. CASE MakeFails \/ UpdateFails
    <2>1. TypeOK'
      BY <1>4 DEF UpgradeInv, TypeOK, MakeFails, UpdateFails, Fail
    <2>2. Updates'
      BY <1>4 DEF UpgradeInv, TypeOK, Updates, Progress, Removed, OkIsOver, OkMeansWhole, WholeIsOldOrNew, MakeFails, UpdateFails, Fail
    <2>3. Boots'
      BY <1>4 DEF UpgradeInv, TypeOK, Updates, Progress, Removed, OkIsOver, Boots, NoMixedBoot, WholeIsOldOrNew, Bootable, MakeFails, UpdateFails, Fail
    <2> QED
      BY <2>1, <2>2, <2>3
  <1>5. CASE Update
    <2>1. TypeOK'
      BY <1>5 DEF UpgradeInv, TypeOK, Update
    <2>2. Updates'
      BY <1>5 DEF UpgradeInv, TypeOK, Updates, Progress, Removed, OkIsOver, OkMeansWhole, WholeIsOldOrNew, Update
    <2>3. Boots'
      BY <1>5 DEF UpgradeInv, TypeOK, Updates, Progress, Removed, OkIsOver, Boots, NoMixedBoot, WholeIsOldOrNew, Bootable, Update
    <2> QED
      BY <2>1, <2>2, <2>3
  <1>6. CASE Write
    <2>1. TypeOK'
      <3>1. vol' \in [Volume -> Payload]
        <4>1. img \in File /\ at \in Volume
          BY DEF UpgradeInv, TypeOK
        <4>2. MemberOf(img, at) \in Payload
          BY <4>1, FileFacts
        <4> QED
          BY <1>6, <4>2 DEF UpgradeInv, TypeOK, Write
      <3>2. at' \in Volume
        <4>1. at \in 0..1 /\ at' = at + 1
          BY <1>6 DEF UpgradeInv, Progress, Write
        <4> QED
          BY <4>1
      <3>3. up' \in {"QSDK", "OEM", "off"} /\ pc' \in Stage /\ result' \in {"none", "ok", "failed"}
        BY <1>6 DEF UpgradeInv, TypeOK, Write
      <3>4. busy' \subseteq Volume /\ stuck' \subseteq Volume
        BY <1>6 DEF UpgradeInv, TypeOK, Write
      <3>5. selector' \in {0, 1} /\ img' \in File /\ backup' \in BOOLEAN
        BY <1>6 DEF UpgradeInv, TypeOK, Write
      <3> QED
        BY <3>1, <3>2, <3>3, <3>4, <3>5 DEF TypeOK
    <2>2. Updates'
      BY <1>6 DEF UpgradeInv, TypeOK, Updates, Progress, Removed, OkIsOver, OkMeansWhole, WholeIsOldOrNew, Write
    <2>3. Boots'
      <3>1. img \in File
        BY DEF UpgradeInv, TypeOK
      <3> QED
        BY <1>6, <3>1, FileFacts DEF UpgradeInv, TypeOK, Updates, Progress, Removed, OkIsOver, Boots, NoMixedBoot, WholeIsOldOrNew, Bootable, Write
    <2> QED
      BY <2>1, <2>2, <2>3
  <1>7. CASE Keep
    <2>1. TypeOK'
      BY <1>7 DEF UpgradeInv, TypeOK, Keep
    <2>2. Updates'
      BY <1>7 DEF UpgradeInv, TypeOK, Updates, Progress, Removed, OkIsOver, OkMeansWhole, WholeIsOldOrNew, Keep
    <2>3. Boots'
      BY <1>7 DEF UpgradeInv, TypeOK, Updates, Progress, Removed, OkIsOver, Boots, NoMixedBoot, WholeIsOldOrNew, Bootable, Keep
    <2> QED
      BY <2>1, <2>2, <2>3
  <1>8. CASE Reboot \/ PowerCut
    <2>1. TypeOK'
      <3>1. vol' \in [Volume -> Payload]
        BY <1>8 DEF UpgradeInv, TypeOK, Reboot, PowerCut, Down
      <3>2. at' \in Volume
        BY <1>8 DEF UpgradeInv, TypeOK, Progress, Reboot, PowerCut, Down
      <3>3. up' \in {"QSDK", "OEM", "off"} /\ pc' \in Stage /\ result' \in {"none", "ok", "failed"}
        BY <1>8 DEF UpgradeInv, TypeOK, Reboot, PowerCut, Down
      <3>4. busy' \subseteq Volume /\ stuck' \subseteq Volume
        BY <1>8 DEF UpgradeInv, TypeOK, Reboot, PowerCut, Down
      <3>5. selector' \in {0, 1} /\ img' \in File /\ backup' \in BOOLEAN
        BY <1>8 DEF UpgradeInv, TypeOK, Reboot, PowerCut, Down
      <3> QED
        BY <3>1, <3>2, <3>3, <3>4, <3>5 DEF TypeOK
    <2>2. Updates'
      BY <1>8 DEF UpgradeInv, TypeOK, Updates, Progress, Removed, OkIsOver, OkMeansWhole, WholeIsOldOrNew, Reboot, PowerCut, Down
    <2>3. Boots'
      BY <1>8 DEF UpgradeInv, TypeOK, Updates, Progress, Removed, OkIsOver, Boots, NoMixedBoot, WholeIsOldOrNew, Bootable, Reboot, PowerCut, Down
    <2> QED
      BY <2>1, <2>2, <2>3
  <1>9. CASE Boot \/ Select
    <2>1. TypeOK'
      <3>1. vol' \in [Volume -> Payload]
        BY <1>9 DEF UpgradeInv, TypeOK, Boot, Select
      <3>2. at' \in Volume
        BY <1>9 DEF UpgradeInv, TypeOK, Progress, Boot, Select
      <3>3. up' \in {"QSDK", "OEM", "off"} /\ pc' \in Stage /\ result' \in {"none", "ok", "failed"}
        BY <1>9 DEF UpgradeInv, TypeOK, Boot, Select
      <3>4. busy' \subseteq Volume /\ stuck' \subseteq Volume
        BY <1>9 DEF UpgradeInv, TypeOK, Boot, Select
      <3>5. selector' \in {0, 1} /\ img' \in File /\ backup' \in BOOLEAN
        BY <1>9 DEF UpgradeInv, TypeOK, Boot, Select
      <3> QED
        BY <3>1, <3>2, <3>3, <3>4, <3>5 DEF TypeOK
    <2>2. Updates'
      BY <1>9 DEF UpgradeInv, TypeOK, Updates, Progress, Removed, OkIsOver, OkMeansWhole, WholeIsOldOrNew, Boot, Select
    <2>3. Boots'
      BY <1>9 DEF UpgradeInv, TypeOK, Updates, Progress, Removed, OkIsOver, Boots, NoMixedBoot, WholeIsOldOrNew, Bootable, Boot, Select
    <2> QED
      BY <2>1, <2>2, <2>3
  <1>10. CASE Configure
    <2>1. TypeOK'
      BY <1>10 DEF UpgradeInv, TypeOK, Configure
    <2>2. Updates'
      BY <1>10 DEF UpgradeInv, TypeOK, Updates, Progress, Removed, OkIsOver, OkMeansWhole, WholeIsOldOrNew, Configure
    <2>3. Boots'
      BY <1>10 DEF UpgradeInv, TypeOK, Updates, Progress, Removed, OkIsOver, Boots, NoMixedBoot, WholeIsOldOrNew, Bootable, Configure
    <2> QED
      BY <2>1, <2>2, <2>3
  <1>11. CASE Rescue
    <2> PICK r \in Release, extra \in {None, "empty"} : vol' = Slot(r, "empty", extra)
      BY <1>11 DEF Rescue
    <2>0. vol' \in [Volume -> Payload] /\ vol'[0] = r /\ vol'[1] = r
      BY DEF Slot, Member
    <2>1. TypeOK'
      BY <1>11, <2>0 DEF UpgradeInv, TypeOK, Rescue
    <2>4. pc = "idle"
      BY <1>11 DEF UpgradeInv, Progress, Rescue
    <2>2. Updates'
      BY <1>11, <2>4 DEF Updates, Progress, Removed, OkIsOver, OkMeansWhole, Rescue
    <2>3. Boots'
      BY <1>11, <2>0, <2>4 DEF Boots, NoMixedBoot, WholeIsOldOrNew, Bootable, Rescue
    <2> QED
      BY <2>1, <2>2, <2>3
  <1>12. CASE UNCHANGED vars
    <2>1. TypeOK'
      BY <1>12 DEF UpgradeInv, TypeOK, vars
    <2>2. Updates'
      BY <1>12 DEF UpgradeInv, TypeOK, Updates, Progress, Removed, OkIsOver, OkMeansWhole, WholeIsOldOrNew, vars
    <2>3. Boots'
      BY <1>12 DEF UpgradeInv, TypeOK, Updates, Progress, Removed, OkIsOver, Boots, NoMixedBoot, WholeIsOldOrNew, Bootable, vars
    <2> QED
      BY <2>1, <2>2, <2>3
  <1> QED
    BY <1>0, <1>1, <1>2, <1>3, <1>4, <1>5, <1>6, <1>7, <1>8, <1>9, <1>10, <1>11, <1>12
       DEF Next, Step

----------------------------------------------------------------------------
(* Theorems *)

LEMMA UpgradeInvariance == Spec => []UpgradeInv
  BY InitUpgradeInv, StepUpgradeInv, PTL DEF Spec

(* Every variable of the upgrade stays in its set of values.               *)
THEOREM TypeCorrect == Spec => []TypeOK
  <1>1. UpgradeInv => TypeOK
    BY DEF UpgradeInv
  <1> QED
    BY <1>1, UpgradeInvariance, PTL

(* A return value of 0 means that the slot holds both members of the file. *)
THEOREM SuccessIsWhole == Spec => []OkMeansWhole
  <1>1. UpgradeInv => OkMeansWhole
    BY DEF UpgradeInv
  <1> QED
    BY <1>1, UpgradeInvariance, PTL

(* What boots is one release, unless ubirmvol left the old root in place.  *)
THEOREM OneReleaseBoots == Spec => []NoMixedBoot
  <1>1. UpgradeInv => NoMixedBoot
    BY DEF UpgradeInv
  <1> QED
    BY <1>1, UpgradeInvariance, PTL

(* While volumes are rebuilt, what is whole is untouched or new.           *)
THEOREM WholeVolumes == Spec => []WholeIsOldOrNew
  <1>1. UpgradeInv => WholeIsOldOrNew
    BY DEF UpgradeInv
  <1> QED
    BY <1>1, UpgradeInvariance, PTL

=============================================================================
