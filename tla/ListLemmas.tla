----------------------------- MODULE ListLemmas -----------------------------
(***************************************************************************)
(* Lemmas about lists.  Lists without repetitions: what one more or one    *)
(* fewer element does to the set of their elements, and to what comes      *)
(* before what.  Longer lists that begin like a list.  Elements of a set:  *)
(* how often they occur in a list.  Folds over a list of sizes: the total of a *)
(* list that got one more element is the total it had plus that element.   *)
(* Folds are defined by recursion on sets, so that needs an induction; it  *)
(* is made with the least element of a set of naturals.                    *)
(***************************************************************************)
EXTENDS Integers, Sequences, SequencesExt, WellFoundedInduction, SequenceTheorems,
        FiniteSets, FiniteSetTheorems, TLAPS

-----------------------------------------------------------------------------
(* Lists without repetitions.                                              *)

(* Taking the first element of a list.                                     *)
LEMMA TailIs ==
  ASSUME NEW T, NEW s \in Seq(T), s # <<>>
  PROVE  /\ Len(s) \in Nat \ {0} /\ Tail(s) \in Seq(T) /\ Len(Tail(s)) = Len(s) - 1
         /\ Head(s) \in T /\ Head(s) = s[1]
         /\ \A i \in 1 .. Len(s) - 1 : Tail(s)[i] = s[i + 1]
<1>1. Len(s) \in Nat /\ DOMAIN s = 1 .. Len(s)
  OBVIOUS
<1>2. Len(s) # 0
  BY EmptySeq
<1>3. Head(s) = s[1] /\ Head(s) \in T
  BY <1>1, <1>2
<1>4. Tail(s) \in Seq(T) /\ Len(Tail(s)) = Len(s) - 1
  BY HeadTailProperties
<1>5. \A i \in 1 .. Len(s) - 1 : Tail(s)[i] = s[i + 1]
  BY <1>1, <1>2
<1>6. QED BY <1>1, <1>2, <1>3, <1>4, <1>5

LEMMA TailOnce ==
  ASSUME NEW T, NEW s \in Seq(T), s # <<>>, IsInjective(s)
  PROVE  /\ IsInjective(Tail(s))
         /\ Range(Tail(s)) = Range(s) \ {Head(s)}
         /\ Head(s) \in Range(s)
<1>1. /\ Len(s) \in Nat \ {0} /\ Tail(s) \in Seq(T) /\ Len(Tail(s)) = Len(s) - 1
      /\ Head(s) = s[1]
      /\ \A i \in 1 .. Len(s) - 1 : Tail(s)[i] = s[i + 1]
  BY TailIs
<1>2. DOMAIN s = 1 .. Len(s) /\ DOMAIN Tail(s) = 1 .. Len(s) - 1
  BY <1>1
<1>3. \A i, j \in 1 .. Len(s) : s[i] = s[j] => i = j
  BY <1>2 DEF IsInjective
<1>4. IsInjective(Tail(s))
  BY <1>1, <1>2, <1>3 DEF IsInjective
<1>5. ASSUME NEW x \in Range(Tail(s)) PROVE x \in Range(s) \ {Head(s)}
  <2>1. PICK i \in 1 .. Len(s) - 1 : x = s[i + 1]
    BY <1>1, <1>2 DEF Range
  <2>2. i + 1 \in 1 .. Len(s) /\ 1 \in 1 .. Len(s) /\ i + 1 # 1
    BY <1>1
  <2>3. QED BY <1>1, <1>2, <1>3, <2>1, <2>2 DEF Range
<1>6. ASSUME NEW x \in Range(s) \ {Head(s)} PROVE x \in Range(Tail(s))
  <2>1. PICK i \in 1 .. Len(s) : x = s[i]
    BY <1>2 DEF Range
  <2>2. i # 1
    BY <1>1, <2>1
  <2>3. i - 1 \in 1 .. Len(s) - 1 /\ Tail(s)[i - 1] = x
    BY <1>1, <2>1, <2>2
  <2>4. QED BY <1>2, <2>3 DEF Range
<1>7. Head(s) \in Range(s)
  BY <1>1, <1>2 DEF Range
<1>8. QED BY <1>4, <1>5, <1>6, <1>7

(* Putting an element at the end of a list.                                *)
LEMMA AppendIs ==
  ASSUME NEW T, NEW s \in Seq(T), NEW x \in T
  PROVE  /\ Append(s, x) \in Seq(T) /\ Len(Append(s, x)) = Len(s) + 1
         /\ \A i \in 1 .. Len(s) : Append(s, x)[i] = s[i]
         /\ Append(s, x)[Len(s) + 1] = x
         /\ Len(s) \in Nat
  OBVIOUS

LEMMA AppendOnce ==
  ASSUME NEW T, NEW s \in Seq(T), NEW x \in T
  PROVE  /\ Range(Append(s, x)) = Range(s) \cup {x}
         /\ IsInjective(s) /\ x \notin Range(s) => IsInjective(Append(s, x))
<1> DEFINE a == Append(s, x)
<1>1. /\ a \in Seq(T) /\ Len(a) = Len(s) + 1 /\ Len(s) \in Nat
      /\ \A i \in 1 .. Len(s) : a[i] = s[i]
      /\ a[Len(s) + 1] = x
  BY AppendIs
<1> HIDE DEF a
<1>2. DOMAIN s = 1 .. Len(s) /\ DOMAIN a = 1 .. Len(s) + 1
  BY <1>1
<1>3. \A i \in 1 .. Len(s) + 1 : i \in 1 .. Len(s) \/ i = Len(s) + 1
  BY <1>1
<1>4. 1 .. Len(s) \subseteq 1 .. Len(s) + 1 /\ Len(s) + 1 \in 1 .. Len(s) + 1
  BY <1>1
<1>5. Range(a) = Range(s) \cup {x}
  <2>1. ASSUME NEW y \in Range(a) PROVE y \in Range(s) \cup {x}
    BY <1>1, <1>2, <1>3 DEF Range
  <2>2. ASSUME NEW y \in Range(s) \cup {x} PROVE y \in Range(a)
    BY <1>1, <1>2, <1>4 DEF Range
  <2>3. QED BY <2>1, <2>2
<1>6. ASSUME IsInjective(s), x \notin Range(s), NEW i \in DOMAIN a, NEW j \in DOMAIN a,
             a[i] = a[j]
      PROVE  i = j
  <2>1. \A k \in 1 .. Len(s) : s[k] \in Range(s)
    BY <1>2 DEF Range
  <2>2. \A k, l \in 1 .. Len(s) : s[k] = s[l] => k = l
    BY <1>2, <1>6 DEF IsInjective
  <2>3. QED BY <1>1, <1>2, <1>3, <1>6, <2>1, <2>2
<1>7. IsInjective(s) /\ x \notin Range(s) => IsInjective(a)
  BY <1>6 DEF IsInjective
<1>8. QED BY <1>5, <1>7 DEF a

(* Taking an element out, and putting one at the front.                    *)
LEMMA RemoveFirstIs ==
  ASSUME NEW T, NEW s \in Seq(T), IsInjective(s), NEW x, NEW k \in 1 .. Len(s), s[k] = x
  PROVE  /\ RemoveFirst(s, x) \in Seq(T) /\ DOMAIN RemoveFirst(s, x) = 1 .. Len(s) - 1
         /\ \A i \in 1 .. Len(s) - 1 :
              RemoveFirst(s, x)[i] = IF i < k THEN s[i] ELSE s[i + 1]
<1> DEFINE n == Len(s)
<1>a. /\ n \in Nat /\ DOMAIN s = 1 .. n
      /\ \A i \in 1 .. n : s[i] \in T
      /\ \A i, j \in 1 .. n : s[i] = s[j] => i = j
  BY DEF IsInjective
<1>b. k \in 1 .. n /\ s[k] = x
  OBVIOUS
<1> HIDE DEF n
<1> DEFINE r == RemoveAt(s, k)
           t == SubSeq(s, 1, k - 1)
           u == SubSeq(s, k + 1, n)
<1>1. {i \in 1 .. n : s[i] = x} = {k}
  BY <1>a, <1>b
<1>2. Min({k}) = k
  BY <1>a, <1>b DEF Min
<1>3. SelectInSeq(s, LAMBDA v : v = x) = k
  BY <1>1, <1>2 DEF SelectInSeq, n
<1>4. RemoveFirst(s, x) = r
  BY <1>b, <1>3 DEF RemoveFirst, n
<1>5. /\ k \in Int /\ k - 1 \in Int /\ k + 1 \in Int /\ n \in Int /\ 1 \in Int
      /\ \A i \in 1 .. k - 1 : s[i] \in T
      /\ \A i \in k + 1 .. n : s[i] \in T
  BY <1>a, <1>b
<1>6. /\ t \in Seq(T) /\ Len(t) = k - 1
      /\ \A i \in 1 .. k - 1 : t[i] = s[i]
  <2>1. /\ t \in Seq(T) /\ Len(t) = IF 1 <= k - 1 THEN (k - 1) - 1 + 1 ELSE 0
        /\ \A i \in 1 .. (k - 1) - 1 + 1 : t[i] = s[1 + i - 1]
    BY <1>5, SubSeqProperties
  <2>2. QED BY <1>a, <1>b, <2>1
<1>7. /\ u \in Seq(T) /\ Len(u) = n - k
      /\ \A i \in 1 .. n - k : u[i] = s[k + i]
  <2>1. /\ u \in Seq(T) /\ Len(u) = IF k + 1 <= n THEN n - (k + 1) + 1 ELSE 0
        /\ \A i \in 1 .. n - (k + 1) + 1 : u[i] = s[(k + 1) + i - 1]
    BY <1>5, SubSeqProperties
  <2>2. QED BY <1>a, <1>b, <2>1
<1>8. r = t \o u
  BY DEF RemoveAt, n
<1> HIDE DEF r, t, u
<1>9. /\ r \in Seq(T) /\ DOMAIN r = 1 .. n - 1
      /\ \A i \in 1 .. n - 1 : r[i] = IF i < k THEN s[i] ELSE s[i + 1]
  <2>1. /\ r \in Seq(T) /\ Len(r) = Len(t) + Len(u)
        /\ \A i \in 1 .. Len(t) + Len(u) :
             r[i] = IF i <= Len(t) THEN t[i] ELSE u[i - Len(t)]
    BY <1>6, <1>7, <1>8, ConcatProperties
  <2>2. Len(t) + Len(u) = n - 1
    BY <1>a, <1>b, <1>6, <1>7
  <2>3. ASSUME NEW i \in 1 .. n - 1
        PROVE  r[i] = IF i < k THEN s[i] ELSE s[i + 1]
    <3>1. CASE i < k
      <4>1. i \in 1 .. k - 1 /\ i <= Len(t)
        BY <1>a, <1>b, <1>6, <3>1
      <4>2. QED BY <1>6, <2>1, <2>2, <3>1, <4>1
    <3>2. CASE ~(i < k)
      <4>1. i - (k - 1) \in 1 .. n - k /\ ~(i <= k - 1) /\ k + (i - (k - 1)) = i + 1
        BY <1>a, <1>b, <3>2
      <4>2. r[i] = u[i - (k - 1)]
        BY <1>6, <2>1, <2>2, <4>1
      <4>3. QED BY <1>7, <3>2, <4>1, <4>2
    <3>3. QED BY <3>1, <3>2
  <2>4. QED BY <2>1, <2>2, <2>3

<1>10. QED BY <1>4, <1>9 DEF n

LEMMA RemoveFirstNone ==
  ASSUME NEW T, NEW s \in Seq(T), NEW x, x \notin Range(s)
  PROVE  RemoveFirst(s, x) = s
<1>1. \A i \in 1 .. Len(s) : s[i] # x
  BY DEF Range
<1>2. QED BY <1>1 DEF RemoveFirst

LEMMA RemoveFirstOnce ==
  ASSUME NEW T, NEW s \in Seq(T), IsInjective(s), NEW x
  PROVE  /\ RemoveFirst(s, x) \in Seq(T)
         /\ Range(RemoveFirst(s, x)) = Range(s) \ {x}
         /\ IsInjective(RemoveFirst(s, x))
<1> DEFINE n == Len(s)
<1>1. /\ n \in Nat /\ DOMAIN s = 1 .. n
      /\ \A i \in 1 .. n : s[i] \in T
      /\ \A i, j \in 1 .. n : s[i] = s[j] => i = j
  BY DEF IsInjective
<1> HIDE DEF n
<1>2. CASE \A i \in 1 .. n : s[i] # x
  <2>1. RemoveFirst(s, x) = s
    BY <1>2 DEF RemoveFirst, n
  <2>2. x \notin Range(s)
    BY <1>1, <1>2 DEF Range
  <2>3. QED BY <2>1, <2>2
<1>3. ASSUME NEW k \in 1 .. n, s[k] = x
      PROVE  /\ RemoveFirst(s, x) \in Seq(T)
             /\ Range(RemoveFirst(s, x)) = Range(s) \ {x}
             /\ IsInjective(RemoveFirst(s, x))
  <2> DEFINE r == RemoveFirst(s, x)
  <2>9. /\ r \in Seq(T) /\ DOMAIN r = 1 .. n - 1
        /\ \A i \in 1 .. n - 1 : r[i] = IF i < k THEN s[i] ELSE s[i + 1]
    BY <1>3, RemoveFirstIs DEF n
  <2> HIDE DEF r
  <2>10. \A i \in 1 .. n - 1 : /\ i < k => i \in 1 .. n
                               /\ ~(i < k) => i + 1 \in 1 .. n /\ i + 1 > k
    BY <1>1, <1>3
  <2>11. IsInjective(r)
    <3>1. ASSUME NEW i \in 1 .. n - 1, NEW j \in 1 .. n - 1, r[i] = r[j]
          PROVE  i = j
      <4>1. CASE i < k /\ j < k
        BY <1>1, <2>9, <2>10, <3>1, <4>1
      <4>2. CASE ~(i < k) /\ ~(j < k)
        <5>1. i + 1 = j + 1
          BY <1>1, <2>9, <2>10, <3>1, <4>2
        <5>2. QED BY <5>1
      <4>3. CASE i < k /\ ~(j < k)
        <5>1. i = j + 1
          BY <1>1, <2>9, <2>10, <3>1, <4>3
        <5>2. QED BY <1>3, <4>3, <5>1
      <4>4. CASE ~(i < k) /\ j < k
        <5>1. i + 1 = j
          BY <1>1, <2>9, <2>10, <3>1, <4>4
        <5>2. QED BY <1>3, <4>4, <5>1
      <4>5. QED BY <4>1, <4>2, <4>3, <4>4
    <3>2. QED BY <2>9, <3>1 DEF IsInjective
  <2>12. ASSUME NEW y \in Range(r) PROVE y \in Range(s) \ {x}
    <3>1. PICK i \in 1 .. n - 1 : y = r[i]
      BY <2>9 DEF Range
    <3>2. CASE i < k
      <4>1. i \in 1 .. n /\ y = s[i] /\ i # k
        BY <1>3, <2>9, <2>10, <3>1, <3>2
      <4>2. QED BY <1>1, <1>3, <4>1 DEF Range
    <3>3. CASE ~(i < k)
      <4>1. i + 1 \in 1 .. n /\ y = s[i + 1] /\ i + 1 # k
        BY <1>3, <2>9, <2>10, <3>1, <3>3
      <4>2. QED BY <1>1, <1>3, <4>1 DEF Range
    <3>4. QED BY <3>2, <3>3
  <2>13. ASSUME NEW y \in Range(s) \ {x} PROVE y \in Range(r)
    <3>1. PICK i \in 1 .. n : y = s[i]
      BY <1>1 DEF Range
    <3>2. i # k
      BY <1>3, <2>13, <3>1
    <3>3. CASE i < k
      <4>1. i \in 1 .. n - 1 /\ r[i] = y
        BY <1>1, <1>3, <2>9, <3>1, <3>3
      <4>2. QED BY <2>9, <4>1 DEF Range
    <3>4. CASE i > k
      <4>1. i - 1 \in 1 .. n - 1 /\ ~(i - 1 < k) /\ (i - 1) + 1 = i
        BY <1>1, <1>3, <3>4
      <4>2. r[i - 1] = y
        BY <2>9, <3>1, <4>1
      <4>3. QED BY <2>9, <4>1, <4>2 DEF Range
    <3>5. QED BY <1>1, <1>3, <3>2, <3>3, <3>4
  <2>14. Range(r) = Range(s) \ {x}
    BY <2>12, <2>13
  <2>15. QED BY <2>9, <2>11, <2>14 DEF r
<1>4. QED BY <1>2, <1>3

LEMMA HeadKept ==
  ASSUME NEW T, NEW s \in Seq(T), IsInjective(s), s # <<>>, NEW x, x # Head(s)
  PROVE  RemoveFirst(s, x) # <<>> /\ Head(RemoveFirst(s, x)) = Head(s)
<1>1. /\ Len(s) \in Nat \ {0} /\ Head(s) = s[1] /\ 1 \in 1 .. Len(s)
  BY TailIs
<1>2. CASE x \notin Range(s)
  BY <1>2, RemoveFirstNone
<1>3. ASSUME NEW k \in 1 .. Len(s), s[k] = x
      PROVE  RemoveFirst(s, x) # <<>> /\ Head(RemoveFirst(s, x)) = Head(s)
  <2> DEFINE r == RemoveFirst(s, x)
  <2>1. /\ r \in Seq(T) /\ DOMAIN r = 1 .. Len(s) - 1
        /\ \A i \in 1 .. Len(s) - 1 : r[i] = IF i < k THEN s[i] ELSE s[i + 1]
    BY <1>3, RemoveFirstIs
  <2>2. k # 1
    BY <1>1, <1>3
  <2>3. 1 \in 1 .. Len(s) - 1 /\ 1 < k
    BY <1>1, <2>2
  <2> HIDE DEF r
  <2>4. 1 \in DOMAIN r /\ r[1] = s[1]
    BY <2>1, <2>3
  <2>5. r # <<>>
    BY <2>4
  <2>6. Head(r) = r[1]
    BY <2>1, <2>5, TailIs
  <2>7. QED BY <1>1, <2>4, <2>5, <2>6 DEF r
<1>4. QED BY <1>2, <1>3 DEF Range

LEMMA ConsOnce ==
  ASSUME NEW T, NEW s \in Seq(T), IsInjective(s), NEW x \in T, x \notin Range(s)
  PROVE  /\ <<x>> \o s \in Seq(T)
         /\ Range(<<x>> \o s) = Range(s) \cup {x}
         /\ IsInjective(<<x>> \o s)
<1> DEFINE r == <<x>> \o s
           n == Len(s)
<1>1. /\ n \in Nat /\ DOMAIN s = 1 .. n
      /\ \A i, j \in 1 .. n : s[i] = s[j] => i = j
      /\ \A i \in 1 .. n : s[i] # x
  BY DEF IsInjective, Range
<1>2. /\ r \in Seq(T) /\ Len(r) = 1 + n
      /\ \A i \in 1 .. 1 + n : r[i] = IF i <= 1 THEN x ELSE s[i - 1]
  <2>1. <<x>> \in Seq(T) /\ Len(<<x>>) = 1 /\ <<x>>[1] = x
    OBVIOUS
  <2>2. /\ r \in Seq(T) /\ Len(r) = Len(<<x>>) + n
        /\ \A i \in 1 .. Len(<<x>>) + n :
             r[i] = IF i <= Len(<<x>>) THEN <<x>>[i] ELSE s[i - Len(<<x>>)]
    BY <2>1, ConcatProperties
  <2> HIDE DEF r, n
  <2>3. ASSUME NEW i \in 1 .. 1 + n
        PROVE  r[i] = IF i <= 1 THEN x ELSE s[i - 1]
    <3>1. i <= 1 => i = 1
      OBVIOUS
    <3>2. QED BY <2>1, <2>2, <3>1
  <2>4. QED BY <2>1, <2>2, <2>3
<1> HIDE DEF r, n
<1>3. DOMAIN r = 1 .. 1 + n
  BY <1>1, <1>2
<1>4. \A i \in 1 .. 1 + n : i = 1 \/ (~(i <= 1) /\ i - 1 \in 1 .. n)
  BY <1>1
<1>5. \A i \in 1 .. n : i + 1 \in 1 .. 1 + n /\ ~(i + 1 <= 1) /\ (i + 1) - 1 = i
  BY <1>1
<1>6. Range(r) = Range(s) \cup {x}
  <2>1. ASSUME NEW y \in Range(r) PROVE y \in Range(s) \cup {x}
    <3>1. PICK i \in 1 .. 1 + n : y = r[i]
      BY <1>3 DEF Range
    <3>2. y = x \/ (i - 1 \in 1 .. n /\ y = s[i - 1])
      BY <1>2, <1>4, <3>1
    <3>3. QED BY <1>1, <3>2 DEF Range
  <2>2. x \in Range(r)
    <3>1. 1 \in 1 .. 1 + n /\ r[1] = x
      BY <1>1, <1>2
    <3>2. QED BY <1>3, <3>1 DEF Range
  <2>3. ASSUME NEW y \in Range(s) PROVE y \in Range(r)
    <3>1. PICK i \in 1 .. n : y = s[i]
      BY <1>1 DEF Range
    <3>2. r[i + 1] = y /\ i + 1 \in 1 .. 1 + n
      BY <1>2, <1>5, <3>1
    <3>3. QED BY <1>3, <3>2 DEF Range
  <2>4. QED BY <2>1, <2>2, <2>3
<1>7. IsInjective(r)
  <2>1. ASSUME NEW i \in 1 .. 1 + n, NEW j \in 1 .. 1 + n, r[i] = r[j]
        PROVE  i = j
    <3>1. CASE i = 1 /\ j = 1
      BY <3>1
    <3>2. CASE i = 1 /\ j # 1
      BY <1>1, <1>2, <1>4, <2>1, <3>2
    <3>3. CASE i # 1 /\ j = 1
      BY <1>1, <1>2, <1>4, <2>1, <3>3
    <3>4. CASE i # 1 /\ j # 1
      <4>1. i - 1 = j - 1
        BY <1>1, <1>2, <1>4, <2>1, <3>4
      <4>2. QED BY <4>1
    <3>5. QED BY <3>1, <3>2, <3>3, <3>4
  <2>2. QED BY <1>3, <2>1 DEF IsInjective
<1>8. QED BY <1>2, <1>6, <1>7 DEF r

-----------------------------------------------------------------------------
(* How often an element of S occurs in a list.                             *)
CountIn(s, S) == Cardinality({i \in DOMAIN s : s[i] \in S})

LEMMA CountFinite ==
  ASSUME NEW T, NEW s \in Seq(T), NEW S
  PROVE  /\ IsFiniteSet({i \in DOMAIN s : s[i] \in S}) /\ CountIn(s, S) \in Nat
         /\ CountIn(s, S) = 0 <=> \A i \in DOMAIN s : s[i] \notin S
<1> DEFINE D == {i \in DOMAIN s : s[i] \in S}
<1>1. IsFiniteSet(DOMAIN s)
  <2>1. DOMAIN s = 1 .. Len(s) /\ Len(s) \in Int /\ 1 \in Int
    OBVIOUS
  <2>2. QED BY <2>1, FS_Interval
<1>2. IsFiniteSet(D) /\ Cardinality(D) \in Nat
  <2>1. D \in SUBSET DOMAIN s
    OBVIOUS
  <2> HIDE DEF D
  <2>2. QED BY <1>1, <2>1, FS_Subset, FS_CardinalityType
<1>3. Cardinality(D) = 0 <=> D = {}
  <2> HIDE DEF D
  <2>1. QED BY <1>2, FS_EmptySet
<1>4. QED BY <1>2, <1>3 DEF CountIn

LEMMA CountEmpty ==
  ASSUME NEW S
  PROVE  CountIn(<<>>, S) = 0
<1>1. <<>> \in Seq(Nat) /\ DOMAIN <<>> = {}
  OBVIOUS
<1>2. QED BY <1>1, CountFinite

LEMMA CountAppend ==
  ASSUME NEW T, NEW s \in Seq(T), NEW x \in T, NEW S
  PROVE  CountIn(Append(s, x), S) = CountIn(s, S) + (IF x \in S THEN 1 ELSE 0)
<1> DEFINE a == Append(s, x)
           D == {i \in DOMAIN s : s[i] \in S}
           E == {i \in DOMAIN a : a[i] \in S}
           n == Len(s)
<1>1. /\ a \in Seq(T) /\ Len(a) = n + 1 /\ n \in Nat
      /\ \A i \in 1 .. n : a[i] = s[i]
      /\ a[n + 1] = x
  BY AppendIs
<1>2. IsFiniteSet(D) /\ Cardinality(D) \in Nat
  BY CountFinite DEF CountIn
<1> HIDE DEF a
<1>3. DOMAIN s = 1 .. n /\ DOMAIN a = 1 .. n + 1
  BY <1>1
<1> HIDE DEF n
<1>4. 1 .. n + 1 = (1 .. n) \cup {n + 1} /\ n + 1 \notin 1 .. n
  BY <1>1
<1>5. n + 1 \notin D /\ E = IF x \in S THEN D \cup {n + 1} ELSE D
  BY <1>1, <1>3, <1>4
<1> HIDE DEF D, E
<1>6. x \in S => Cardinality(E) = Cardinality(D) + 1
  <2>1. Cardinality(D \cup {n + 1}) = Cardinality(D) + 1
    BY <1>2, <1>5, FS_AddElement
  <2>2. QED BY <1>5, <2>1
<1>7. Cardinality(E) = Cardinality(D) + (IF x \in S THEN 1 ELSE 0)
  BY <1>2, <1>5, <1>6
<1>8. QED BY <1>7 DEF CountIn, a, D, E

LEMMA CountTail ==
  ASSUME NEW T, NEW s \in Seq(T), s # <<>>, NEW S
  PROVE  CountIn(s, S) = CountIn(Tail(s), S) + (IF Head(s) \in S THEN 1 ELSE 0)
<1> DEFINE t == Tail(s)
           D == {i \in DOMAIN s : s[i] \in S}
           E == {i \in DOMAIN t : t[i] \in S}
           n == Len(s)
           F == D \ {1}
           f == [i \in E |-> i + 1]
<1>1. /\ n \in Nat \ {0} /\ t \in Seq(T) /\ Len(t) = n - 1 /\ Head(s) = s[1]
      /\ \A i \in 1 .. n - 1 : t[i] = s[i + 1]
  BY TailIs
<1> HIDE DEF t
<1>2. /\ IsFiniteSet(D) /\ Cardinality(D) \in Nat
      /\ IsFiniteSet(E) /\ Cardinality(E) \in Nat
  BY <1>1, CountFinite DEF CountIn
<1>3. DOMAIN s = 1 .. n /\ DOMAIN t = 1 .. n - 1
  BY <1>1
<1> HIDE DEF n
<1>4. /\ \A i \in 1 .. n - 1 : i + 1 \in 1 .. n /\ i + 1 # 1
      /\ \A i \in 1 .. n : i # 1 => i - 1 \in 1 .. n - 1 /\ (i - 1) + 1 = i
      /\ \A i, j \in 1 .. n - 1 : i + 1 = j + 1 => i = j
      /\ 1 \in 1 .. n
  BY <1>1
<1>5. f \in Bijection(E, F)
  <2>1. \A i \in E : i \in 1 .. n - 1 /\ f[i] = i + 1 /\ f[i] \in F
    BY <1>1, <1>3, <1>4
  <2>2. \A i, j \in E : f[i] = f[j] => i = j
    BY <1>4, <2>1
  <2>3. \A k \in F : \E i \in E : f[i] = k
    <3>1. ASSUME NEW k \in F PROVE k - 1 \in E /\ f[k - 1] = k
      BY <1>1, <1>3, <1>4
    <3>2. QED BY <3>1
  <2>4. f \in [E -> F]
    BY <2>1
  <2> HIDE DEF f, E, F
  <2>5. QED BY <2>2, <2>3, <2>4 DEF Bijection, Injection, Surjection, IsInjective
<1>6. 1 \in D <=> Head(s) \in S
  BY <1>1, <1>3, <1>4
<1> HIDE DEF D, E, f
<1>7. Cardinality(F) = Cardinality(E)
  BY <1>2, <1>5, FS_Bijection DEF ExistsBijection
<1>8. Cardinality(F) = IF 1 \in D THEN Cardinality(D) - 1 ELSE Cardinality(D)
  BY <1>2, FS_RemoveElement
<1>9. Cardinality(D) = Cardinality(E) + (IF Head(s) \in S THEN 1 ELSE 0)
  BY <1>2, <1>6, <1>7, <1>8
<1>10. QED BY <1>9 DEF CountIn, t, D, E

(* One list after another.                                                *)
LEMMA CountConcat ==
  ASSUME NEW T, NEW s \in Seq(T), NEW t \in Seq(T), NEW S
  PROVE  CountIn(s \o t, S) = CountIn(s, S) + CountIn(t, S)
<1> DEFINE n == Len(s)
           m == Len(t)
           r == s \o t
           C == {i \in DOMAIN s : s[i] \in S}
           D == {i \in DOMAIN t : t[i] \in S}
           E == {i \in DOMAIN r : r[i] \in S}
           F == {i \in E : i > n}
           f == [i \in D |-> i + n]
<1>1. /\ n \in Nat /\ m \in Nat /\ DOMAIN s = 1 .. n /\ DOMAIN t = 1 .. m
      /\ DOMAIN r = 1 .. n + m
      /\ \A i \in 1 .. n : r[i] = s[i]
      /\ \A i \in 1 .. m : r[i + n] = t[i]
  OBVIOUS
<1>2. IsFiniteSet(C) /\ IsFiniteSet(D)
  BY CountFinite
<1> HIDE DEF r, n, m
<1>3. f \in Bijection(D, F)
  <2>1. \A i \in D : i \in 1 .. m /\ f[i] = i + n /\ f[i] \in F
    BY <1>1
  <2>2. \A i, j \in D : f[i] = f[j] => i = j
    BY <1>1, <2>1
  <2>3. \A k \in F : \E i \in D : f[i] = k
    <3>1. ASSUME NEW k \in F PROVE k - n \in D /\ f[k - n] = k
      <4>1. k \in 1 .. n + m /\ k > n /\ r[k] \in S
        BY <1>1
      <4>2. k - n \in 1 .. m /\ (k - n) + n = k
        BY <1>1, <4>1
      <4>3. t[k - n] = r[k]
        BY <1>1, <4>2
      <4>4. QED BY <1>1, <4>1, <4>2, <4>3
    <3>2. QED BY <3>1
  <2>4. f \in [D -> F]
    BY <2>1
  <2> HIDE DEF f, D, F
  <2>5. QED BY <2>2, <2>3, <2>4 DEF Bijection, Injection, Surjection, IsInjective
<1>4. E = C \cup F /\ C \cap F = {}
  BY <1>1
<1> HIDE DEF C, D, E, F, f
<1>5. IsFiniteSet(F) /\ Cardinality(F) = Cardinality(D)
  BY <1>2, <1>3, FS_Bijection DEF ExistsBijection
<1>6. Cardinality(E) = Cardinality(C) + Cardinality(F) - Cardinality(C \cap F)
  BY <1>2, <1>4, <1>5, FS_Union
<1>7. Cardinality(C \cap F) = 0 /\ Cardinality(C) \in Nat /\ Cardinality(F) \in Nat
  BY <1>2, <1>4, <1>5, FS_EmptySet, FS_CardinalityType
<1>8. Cardinality(E) = Cardinality(C) + Cardinality(D)
  BY <1>5, <1>6, <1>7
<1>9. QED BY <1>8 DEF CountIn, r, C, D, E

(* A list without repetitions, of elements of a finite set.                *)
LEMMA OnceShort ==
  ASSUME NEW T, IsFiniteSet(T), NEW s \in Seq(T), IsInjective(s)
  PROVE  Len(s) <= Cardinality(T)
<1>1. s \in Injection(1 .. Len(s), T)
  BY DEF Injection, IsInjective
<1>2. Cardinality(1 .. Len(s)) = Len(s)
  <2>1. Len(s) \in Int /\ 1 \in Int /\ Len(s) \in Nat
    OBVIOUS
  <2>2. Cardinality(1 .. Len(s)) = IF 1 > Len(s) THEN 0 ELSE Len(s) - 1 + 1
    BY <2>1, FS_Interval
  <2>3. QED BY <2>1, <2>2
<1>3. Cardinality(1 .. Len(s)) <= Cardinality(T)
  BY <1>1, FS_Injection
<1>4. QED BY <1>2, <1>3

-----------------------------------------------------------------------------
(* Totals.                                                                 *)
Total(list) == FoldLeft(LAMBDA x, y : x + y, 0, list)

(* The recursion of FoldLeft, over the indices 1 .. n of a list.           *)
Adds(it, n, l) ==
  it = [s \in SUBSET (1 .. n) |->
          IF s = {} THEN 0 ELSE it[s \ {Max(s)}] + l[Max(s)]]

-----------------------------------------------------------------------------
(* A set of naturals that is not empty has a least element.                *)
LEMMA LeastNat ==
  ASSUME NEW S \in SUBSET Nat, S # {}
  PROVE  \E m \in S : \A n \in S : m <= n
<1>1. OpToRel(<, Nat) = {ss \in Nat \X Nat : ss[1] < ss[2]}
  BY DEF OpToRel
<1>2. \A x, y \in Nat : x < y => <<x, y>> \in {ss \in Nat \X Nat : ss[1] < ss[2]}
  OBVIOUS
<1>3. PICK m \in S : \A n \in S : ~ (<<n, m>> \in OpToRel(<, Nat))
  BY NatLessThanWellFounded, WFMin
<1>4. ASSUME NEW n \in S PROVE m <= n
  <2>1. ~(n < m)
    BY <1>1, <1>2, <1>3
  <2>2. QED BY <2>1
<1>5. QED BY <1>4

(* Induction: what holds of 0, and of n + 1 if of n, holds up to any bound. *)
LEMMA InductionTo ==
  ASSUME NEW P, NEW k \in Nat, 0 \in P,
         \A n \in 0 .. k - 1 : n \in P => n + 1 \in P
  PROVE  \A n \in 0 .. k : n \in P
<1> DEFINE S == {n \in 0 .. k : n \notin P}
<1>1. SUFFICES ASSUME S # {} PROVE FALSE
  OBVIOUS
<1>2. PICK m \in S : \A n \in S : m <= n
  <2>1. S \in SUBSET Nat
    OBVIOUS
  <2> HIDE DEF S
  <2>2. QED BY <1>1, <2>1, LeastNat
<1>3. m \in 1 .. k /\ m \notin P
  BY <1>2
<1>4. m - 1 \in 0 .. k - 1 /\ m - 1 \notin S
  BY <1>2, <1>3
<1>5. QED BY <1>3, <1>4

(* The largest element of a set of indices.                                *)
LEMMA MaxValue ==
  ASSUME NEW n \in Nat, NEW s \in SUBSET (1 .. n), s # {}
  PROVE  Max(s) \in s /\ \A x \in s : x <= Max(s)
<1> DEFINE S == {n - x : x \in s}
<1>1. S \in SUBSET Nat /\ S # {}
  OBVIOUS
<1>2. PICK m \in S : \A y \in S : m <= y
  BY <1>1, LeastNat
<1>3. PICK x \in s : m = n - x
  OBVIOUS
<1>4. \A y \in s : n - y \in S
  OBVIOUS
<1>5. ASSUME NEW y \in s PROVE x >= y
  <2>1. n - x <= n - y
    BY <1>2, <1>3, <1>4
  <2>2. x \in 1 .. n /\ y \in 1 .. n
    OBVIOUS
  <2>3. QED BY <2>1, <2>2
<1>6. Max(s) \in s /\ \A y \in s : Max(s) >= y
  BY <1>5 DEF Max
<1>7. QED BY <1>6

-----------------------------------------------------------------------------
(* The recursion has a solution, whatever the list.                        *)
LEMMA AddsExtended ==
  ASSUME NEW l, NEW n \in Nat, NEW g, Adds(g, n, l)
  PROVE  \E h : Adds(h, n + 1, l)
<1> DEFINE h == [s \in SUBSET (1 .. n + 1) |->
                   IF n + 1 \in s THEN g[s \ {n + 1}] + l[n + 1] ELSE g[s]]
<1>1. ASSUME NEW s \in SUBSET (1 .. n + 1)
      PROVE  h[s] = IF s = {} THEN 0 ELSE h[s \ {Max(s)}] + l[Max(s)]
  <2>1. CASE s = {}
    BY <2>1 DEF Adds
  <2>2. CASE n + 1 \in s
    <3>1. Max(s) = n + 1
      <4>1. n + 1 \in Nat
        OBVIOUS
      <4>2. Max(s) \in s /\ n + 1 <= Max(s)
        BY <2>2, <4>1, MaxValue
      <4>3. Max(s) \in 1 .. n + 1
        BY <4>2
      <4>4. QED BY <4>2, <4>3
    <3>2. s \ {n + 1} \in SUBSET (1 .. n + 1) /\ n + 1 \notin s \ {n + 1}
      OBVIOUS
    <3>3. h[s \ {n + 1}] = g[s \ {n + 1}]
      BY <3>2
    <3>4. QED BY <2>2, <3>1, <3>3
  <2>3. CASE s # {} /\ n + 1 \notin s
    <3>1. s \in SUBSET (1 .. n)
      BY <2>3
    <3>2. Max(s) \in s
      BY <2>3, <3>1, MaxValue
    <3>3. g[s] = g[s \ {Max(s)}] + l[Max(s)]
      BY <2>3, <3>1 DEF Adds
    <3>4. s \ {Max(s)} \in SUBSET (1 .. n + 1) /\ n + 1 \notin s \ {Max(s)}
      BY <2>3
    <3>5. h[s \ {Max(s)}] = g[s \ {Max(s)}]
      BY <3>4
    <3>6. QED BY <2>3, <3>3, <3>5
  <2>4. QED BY <2>1, <2>2, <2>3
<1>2. h = [s \in SUBSET (1 .. n + 1) |->
             IF s = {} THEN 0 ELSE h[s \ {Max(s)}] + l[Max(s)]]
  BY <1>1
<1>3. Adds(h, n + 1, l)
  BY <1>2 DEF Adds
<1>4. QED BY <1>3

LEMMA AddsExists ==
  ASSUME NEW l, NEW k \in Nat
  PROVE  \E it : Adds(it, k, l)
<1> DEFINE P == {n \in 0 .. k : \E it : Adds(it, n, l)}
<1>1. 0 \in P
  <2> DEFINE g == [s \in SUBSET (1 .. 0) |-> 0]
  <2>1. \A s \in SUBSET (1 .. 0) : s = {}
    OBVIOUS
  <2>2. g = [s \in SUBSET (1 .. 0) |->
               IF s = {} THEN 0 ELSE g[s \ {Max(s)}] + l[Max(s)]]
    BY <2>1
  <2>3. Adds(g, 0, l)
    BY <2>2 DEF Adds
  <2>4. QED BY <2>3
<1>2. \A n \in 0 .. k - 1 : n \in P => n + 1 \in P
  BY AddsExtended
<1>3. \A n \in 0 .. k : n \in P
  BY <1>1, <1>2, InductionTo
<1>4. QED BY <1>3

(* The values it has for the first indices.                                *)
LEMMA AddsNext ==
  ASSUME NEW l, NEW n \in Nat, NEW it, Adds(it, n, l), NEW k \in 0 .. n - 1
  PROVE  it[1 .. k + 1] = it[1 .. k] + l[k + 1]
<1>1. 1 .. k + 1 \in SUBSET (1 .. n) /\ 1 .. k + 1 # {}
  OBVIOUS
<1>2. Max(1 .. k + 1) = k + 1
  <2> DEFINE s == 1 .. k + 1
  <2>1. s \in SUBSET (1 .. n) /\ s # {} /\ k + 1 \in s
    BY <1>1
  <2>2. \A x \in s : x \in Int /\ x <= k + 1
    OBVIOUS
  <2> HIDE DEF s
  <2>3. Max(s) \in s /\ k + 1 <= Max(s)
    BY <2>1, MaxValue
  <2>4. Max(s) = k + 1
    BY <2>2, <2>3
  <2>5. QED BY <2>4 DEF s
<1>3. (1 .. k + 1) \ {k + 1} = 1 .. k
  OBVIOUS
<1>4. QED BY <1>1, <1>2, <1>3 DEF Adds

(* Two lists that begin alike have the same partial sums.                  *)
LEMMA AddsUnique ==
  ASSUME NEW l, NEW m, NEW n \in Nat, NEW p \in Nat, NEW k \in Nat, k <= n, k <= p,
         NEW f, NEW g, Adds(f, n, l), Adds(g, p, m),
         \A i \in 1 .. k : l[i] = m[i]
  PROVE  f[1 .. k] = g[1 .. k]
<1> DEFINE P == {j \in 0 .. k : f[1 .. j] = g[1 .. j]}
<1>1. 0 \in P
  <2>1. 1 .. 0 = {} /\ {} \in SUBSET (1 .. n) /\ {} \in SUBSET (1 .. p)
    OBVIOUS
  <2>2. f[{}] = 0 /\ g[{}] = 0
    BY <2>1 DEF Adds
  <2>3. QED BY <2>1, <2>2
<1>2. \A j \in 0 .. k - 1 : j \in P => j + 1 \in P
  <2>1. ASSUME NEW j \in 0 .. k - 1, j \in P PROVE j + 1 \in P
    <3>1. f[1 .. j + 1] = f[1 .. j] + l[j + 1] /\ g[1 .. j + 1] = g[1 .. j] + m[j + 1]
      BY AddsNext
    <3>2. QED BY <2>1, <3>1
  <2>2. QED BY <2>1
<1>3. k \in P
  <2> HIDE DEF P
  <2>1. \A j \in 0 .. k : j \in P
    BY <1>1, <1>2, InductionTo
  <2>2. QED BY <2>1
<1>4. QED BY <1>3

-----------------------------------------------------------------------------
(* FoldLeft is a solution of the recursion.                                *)
LEMMA TotalAdds ==
  ASSUME NEW l, NEW n \in Nat, DOMAIN l = 1 .. n
  PROVE  \E it : Adds(it, n, l) /\ Total(l) = it[1 .. n]
<1> DEFINE it == CHOOSE it : it =
                   [s \in SUBSET (DOMAIN l) |->
                      IF s = {} THEN 0 ELSE it[s \ {Max(s)}] + l[Max(s)]]
<1>1. Total(l) = it[DOMAIN l]
  BY Zenon DEF Total, FoldLeft, MapThenFoldSet
<1>2. \E i : i = [s \in SUBSET (DOMAIN l) |->
                    IF s = {} THEN 0 ELSE i[s \ {Max(s)}] + l[Max(s)]]
  <2>1. PICK i : Adds(i, n, l)
    BY AddsExists
  <2>2. i = [s \in SUBSET (DOMAIN l) |->
               IF s = {} THEN 0 ELSE i[s \ {Max(s)}] + l[Max(s)]]
    BY <2>1 DEF Adds
  <2>3. QED BY <2>2
<1>3. it = [s \in SUBSET (DOMAIN l) |->
              IF s = {} THEN 0 ELSE it[s \ {Max(s)}] + l[Max(s)]]
  BY <1>2, Zenon
<1>4. Adds(it, n, l)
  BY <1>3 DEF Adds
<1>5. QED BY <1>1, <1>4

(* The total of no sizes is 0.                                             *)
LEMMA TotalEmpty == Total(<<>>) = 0
<1>1. PICK it : Adds(it, 0, <<>>) /\ Total(<<>>) = it[1 .. 0]
  BY TotalAdds
<1>2. 1 .. 0 = {}
  OBVIOUS
<1>3. QED BY <1>1, <1>2 DEF Adds

(* One more size.                                                          *)
LEMMA TotalAppend ==
  ASSUME NEW S, NEW l \in Seq(S), NEW x \in S
  PROVE  Total(Append(l, x)) = Total(l) + x
<1> DEFINE n == Len(l)
           m == Append(l, x)
<1>1. /\ n \in Nat /\ n + 1 \in Nat /\ n \in 0 .. (n + 1) - 1
      /\ n <= n /\ n <= n + 1 /\ DOMAIN l = 1 .. n /\ DOMAIN m = 1 .. n + 1
      /\ \A i \in 1 .. n : m[i] = l[i]
      /\ m[n + 1] = x
  OBVIOUS
<1> SUFFICES Total(m) = Total(l) + x
  OBVIOUS
<1> HIDE DEF n, m
<1>2. PICK f : Adds(f, n, l) /\ Total(l) = f[1 .. n]
  BY <1>1, TotalAdds
<1>3. PICK g : Adds(g, n + 1, m) /\ Total(m) = g[1 .. n + 1]
  BY <1>1, TotalAdds
<1>4. g[1 .. n + 1] = g[1 .. n] + m[n + 1]
  BY <1>1, <1>3, AddsNext
<1>5. f[1 .. n] = g[1 .. n]
  BY <1>1, <1>2, <1>3, AddsUnique
<1>6. QED BY <1>1, <1>2, <1>3, <1>4, <1>5

-----------------------------------------------------------------------------
(* In a list, o comes before every b, if there is one.                     *)
Ahead(s, o, b) ==
  \E k \in DOMAIN s : s[k] = o /\ \A j \in DOMAIN s : s[j] = b => k < j

LEMMA AheadAlone ==
  ASSUME NEW T, NEW s \in Seq(T), NEW o \in Range(s), NEW b, b \notin Range(s)
  PROVE  Ahead(s, o, b)
BY DEF Ahead, Range

LEMMA AheadIn ==
  ASSUME NEW T, NEW s \in Seq(T), NEW o, NEW b, Ahead(s, o, b)
  PROVE  o \in Range(s) /\ o # b
<1>1. PICK k \in DOMAIN s : s[k] = o /\ \A j \in DOMAIN s : s[j] = b => k < j
  BY DEF Ahead
<1>2. k \in Nat
  OBVIOUS
<1>3. QED BY <1>1, <1>2 DEF Range

(* The head of a list is behind nothing.                                   *)
LEMMA AheadOfHead ==
  ASSUME NEW T, NEW s \in Seq(T), NEW o, NEW b, Ahead(s, o, b), s # <<>>
  PROVE  b # Head(s)
<1>1. PICK k \in 1 .. Len(s) : s[k] = o /\ \A j \in 1 .. Len(s) : s[j] = b => k < j
  BY DEF Ahead
<1>2. Len(s) \in Nat \ {0} /\ Head(s) = s[1] /\ 1 \in 1 .. Len(s)
  BY TailIs
<1>3. QED BY <1>1, <1>2

LEMMA AheadInTail ==
  ASSUME NEW T, NEW s \in Seq(T), NEW o, NEW b, Ahead(s, o, b), s # <<>>, o # Head(s)
  PROVE  Ahead(Tail(s), o, b)
<1> DEFINE t == Tail(s)
<1>1. /\ Len(s) \in Nat \ {0} /\ Head(s) = s[1] /\ t \in Seq(T) /\ Len(t) = Len(s) - 1
      /\ \A i \in 1 .. Len(s) - 1 : t[i] = s[i + 1]
  BY TailIs
<1> HIDE DEF t
<1>2. PICK k \in 1 .. Len(s) : s[k] = o /\ \A j \in 1 .. Len(s) : s[j] = b => k < j
  BY DEF Ahead
<1>3. k - 1 \in 1 .. Len(s) - 1 /\ (k - 1) + 1 = k
  <2>1. k # 1
    BY <1>1, <1>2
  <2>2. QED BY <1>1, <2>1
<1>4. k - 1 \in DOMAIN t /\ t[k - 1] = o
  BY <1>1, <1>2, <1>3
<1>5. ASSUME NEW j \in DOMAIN t, t[j] = b PROVE k - 1 < j
  <2>1. j \in 1 .. Len(s) - 1
    BY <1>1
  <2>2. j + 1 \in 1 .. Len(s) /\ s[j + 1] = b
    BY <1>1, <1>5, <2>1
  <2>3. k < j + 1
    BY <1>2, <2>2
  <2>4. QED BY <1>1, <2>1, <2>3
<1>6. QED BY <1>4, <1>5 DEF Ahead, t

(* It stays so when the list gets longer, and when something else is taken *)
(* out.                                                                    *)
Extends(s, t) == Len(s) <= Len(t) /\ \A i \in 1 .. Len(s) : t[i] = s[i]

LEMMA AheadExtended ==
  ASSUME NEW T, NEW s \in Seq(T), NEW t \in Seq(T), Extends(s, t), NEW o, NEW b, Ahead(s, o, b)
  PROVE  Ahead(t, o, b)
<1>1. /\ Len(s) \in Nat /\ Len(t) \in Nat /\ Len(s) <= Len(t)
      /\ \A i \in 1 .. Len(s) : t[i] = s[i] /\ i \in 1 .. Len(t)
  BY DEF Extends
<1>2. PICK k \in 1 .. Len(s) : s[k] = o /\ \A j \in 1 .. Len(s) : s[j] = b => k < j
  BY DEF Ahead
<1>3. k \in DOMAIN t /\ t[k] = o
  BY <1>1, <1>2
<1>4. ASSUME NEW j \in 1 .. Len(t), t[j] = b PROVE k < j
  <2>1. CASE j <= Len(s)
    <3>1. j \in 1 .. Len(s) /\ s[j] = b
      BY <1>1, <1>4, <2>1
    <3>2. QED BY <1>2, <3>1
  <2>2. CASE ~(j <= Len(s))
    BY <1>1, <2>2
  <2>3. QED BY <2>1, <2>2
<1>5. QED BY <1>1, <1>3, <1>4 DEF Ahead

LEMMA AheadRemoved ==
  ASSUME NEW T, NEW s \in Seq(T), IsInjective(s), NEW o, NEW b, Ahead(s, o, b),
         NEW x, x # o
  PROVE  Ahead(RemoveFirst(s, x), o, b)
<1>1. CASE x \notin Range(s)
  BY <1>1, RemoveFirstNone
<1>2. ASSUME NEW i \in 1 .. Len(s), s[i] = x PROVE Ahead(RemoveFirst(s, x), o, b)
  <2> DEFINE r == RemoveFirst(s, x)
             n == Len(s)
  <2>1. /\ n \in Nat /\ r \in Seq(T) /\ DOMAIN r = 1 .. n - 1
        /\ \A j \in 1 .. n - 1 : r[j] = IF j < i THEN s[j] ELSE s[j + 1]
    BY <1>2, RemoveFirstIs
  <2>2. PICK k \in 1 .. n : s[k] = o /\ \A j \in 1 .. n : s[j] = b => k < j
    BY DEF Ahead
  <2>3. i \in 1 .. n /\ k # i
    BY <1>2, <2>2
  <2> HIDE DEF r, n
  <2>4. PICK m \in 1 .. n - 1 : m = IF k < i THEN k ELSE k - 1
    BY <2>1, <2>2, <2>3
  <2>5. r[m] = o
    <3>1. CASE k < i
      BY <2>1, <2>2, <2>4, <3>1
    <3>2. CASE ~(k < i)
      <4>1. m = k - 1 /\ ~(m < i) /\ m + 1 = k
        BY <2>1, <2>3, <2>4, <3>2
      <4>2. QED BY <2>1, <2>2, <4>1
    <3>3. QED BY <3>1, <3>2
  <2>6. ASSUME NEW j \in 1 .. n - 1, r[j] = b PROVE m < j
    <3>1. CASE j < i
      <4>1. j \in 1 .. n /\ s[j] = b
        BY <2>1, <2>6, <3>1
      <4>2. k < j
        BY <2>2, <4>1
      <4>3. QED BY <2>1, <2>3, <2>4, <3>1, <4>2
    <3>2. CASE ~(j < i)
      <4>1. j + 1 \in 1 .. n /\ s[j + 1] = b
        BY <2>1, <2>6, <3>2
      <4>2. k < j + 1
        BY <2>2, <4>1
      <4>3. QED BY <2>1, <2>3, <2>4, <3>2, <4>2
    <3>3. QED BY <3>1, <3>2
  <2>7. QED BY <2>1, <2>4, <2>5, <2>6 DEF Ahead, r
<1>3. QED BY <1>1, <1>2 DEF Range

(* What is in a list, in the rest of it, and in a longer one.              *)
LEMMA TailIn ==
  ASSUME NEW T, NEW s \in Seq(T), s # <<>>
  PROVE  /\ Range(Tail(s)) \subseteq Range(s) /\ Head(s) \in Range(s)
         /\ \A x \in Range(s) : x = Head(s) \/ x \in Range(Tail(s))
<1>1. /\ Len(s) \in Nat \ {0} /\ Tail(s) \in Seq(T) /\ Len(Tail(s)) = Len(s) - 1
      /\ Head(s) \in T /\ Head(s) = s[1]
      /\ \A i \in 1 .. Len(s) - 1 : Tail(s)[i] = s[i + 1]
  BY TailIs
<1>2. ASSUME NEW x \in Range(Tail(s)) PROVE x \in Range(s)
  <2>1. PICK i \in 1 .. Len(s) - 1 : x = s[i + 1]
    BY <1>1 DEF Range
  <2>2. i + 1 \in DOMAIN s
    BY <1>1
  <2>3. QED BY <2>1, <2>2 DEF Range
<1>3. 1 \in DOMAIN s
  BY <1>1
<1>4. ASSUME NEW x \in Range(s), x # Head(s) PROVE x \in Range(Tail(s))
  <2>1. PICK i \in 1 .. Len(s) : x = s[i]
    BY DEF Range
  <2>2. i # 1
    BY <1>1, <1>4, <2>1
  <2>3. i - 1 \in 1 .. Len(s) - 1 /\ (i - 1) + 1 = i
    BY <1>1, <2>2
  <2>4. i - 1 \in DOMAIN Tail(s) /\ Tail(s)[i - 1] = x
    BY <1>1, <2>1, <2>3
  <2>5. QED BY <2>4 DEF Range
<1>5. QED BY <1>1, <1>2, <1>3, <1>4 DEF Range

LEMMA ConcatIs ==
  ASSUME NEW T, NEW s \in Seq(T), NEW t \in Seq(T)
  PROVE  /\ s \o t \in Seq(T) /\ Extends(s, s \o t)
         /\ Len(s \o t) = Len(s) + Len(t) /\ Len(s) \in Nat /\ Len(t) \in Nat
         /\ \A i \in 1 .. Len(t) : (s \o t)[Len(s) + i] = t[i]
         /\ \A i \in 1 .. Len(s) : (s \o t)[i] = s[i]
         /\ Range(s \o t) = Range(s) \cup Range(t)
<1>1. /\ Len(s) \in Nat /\ Len(t) \in Nat /\ DOMAIN s = 1 .. Len(s) /\ DOMAIN t = 1 .. Len(t)
      /\ s \o t \in Seq(T) /\ Len(s \o t) = Len(s) + Len(t)
      /\ \A i \in 1 .. Len(s) + Len(t) :
           (s \o t)[i] = IF i <= Len(s) THEN s[i] ELSE t[i - Len(s)]
  BY ConcatProperties
<1> DEFINE r == s \o t
           n == Len(s)
           m == Len(t)
<1>2. /\ n \in Nat /\ m \in Nat /\ DOMAIN s = 1 .. n /\ DOMAIN t = 1 .. m
      /\ r \in Seq(T) /\ Len(r) = n + m /\ DOMAIN r = 1 .. n + m
      /\ \A i \in 1 .. n + m : r[i] = IF i <= n THEN s[i] ELSE t[i - n]
  BY <1>1
<1> HIDE DEF r, n, m
<1>3. \A i \in 1 .. n : i \in 1 .. n + m /\ r[i] = s[i]
  BY <1>2
<1>4. \A i \in 1 .. m : n + i \in 1 .. n + m /\ r[n + i] = t[i]
  <2>1. \A i \in 1 .. m : n + i \in 1 .. n + m /\ ~(n + i <= n) /\ (n + i) - n = i
    BY <1>2
  <2>2. QED BY <1>2, <2>1
<1>5. ASSUME NEW x \in Range(r) PROVE x \in Range(s) \cup Range(t)
  <2>1. PICK i \in 1 .. n + m : x = r[i]
    BY <1>2 DEF Range
  <2>2. CASE i <= n
    <3>1. i \in DOMAIN s /\ r[i] = s[i]
      BY <1>2, <2>2
    <3>2. QED BY <2>1, <3>1 DEF Range
  <2>3. CASE ~(i <= n)
    <3>1. i - n \in DOMAIN t /\ r[i] = t[i - n]
      BY <1>2, <2>3
    <3>2. QED BY <2>1, <3>1 DEF Range
  <2>4. QED BY <2>2, <2>3
<1>6. ASSUME NEW x \in Range(s) \cup Range(t) PROVE x \in Range(r)
  <2>1. CASE x \in Range(s)
    <3>1. PICK i \in 1 .. n : x = s[i]
      BY <1>2, <2>1 DEF Range
    <3>2. i \in DOMAIN r /\ r[i] = x
      BY <1>2, <1>3, <3>1
    <3>3. QED BY <3>2 DEF Range
  <2>2. CASE x \in Range(t)
    <3>1. PICK i \in 1 .. m : x = t[i]
      BY <1>2, <2>2 DEF Range
    <3>2. n + i \in DOMAIN r /\ r[n + i] = x
      BY <1>2, <1>4, <3>1
    <3>3. QED BY <3>2 DEF Range
  <2>3. QED BY <2>1, <2>2
<1>7. Range(r) = Range(s) \cup Range(t)
  BY <1>5, <1>6
<1>8. Extends(s, r)
  BY <1>2, <1>3 DEF Extends, n
<1>9. QED BY <1>1, <1>2, <1>3, <1>4, <1>7, <1>8 DEF r, n, m

LEMMA AppendExtends ==
  ASSUME NEW T, NEW s \in Seq(T), NEW x \in T
  PROVE  Extends(s, Append(s, x))
<1>1. /\ Len(Append(s, x)) = Len(s) + 1 /\ Len(s) \in Nat
      /\ \A i \in 1 .. Len(s) : Append(s, x)[i] = s[i]
  BY AppendIs
<1>2. QED BY <1>1 DEF Extends

(* What is counted in a list.                                              *)
LEMMA CountNone ==
  ASSUME NEW T, NEW s \in Seq(T), NEW S
  PROVE  CountIn(s, S) = 0 <=> \A x \in Range(s) : x \notin S
<1>1. CountIn(s, S) = 0 <=> \A i \in DOMAIN s : s[i] \notin S
  BY CountFinite
<1>2. QED BY <1>1 DEF Range

LEMMA CountOnce ==
  ASSUME NEW T, NEW s \in Seq(T), NEW S, CountIn(s, S) <= 1,
         NEW i \in DOMAIN s, NEW j \in DOMAIN s, s[i] \in S, s[j] \in S
  PROVE  i = j
<1> DEFINE D == {k \in DOMAIN s : s[k] \in S}
<1>1. IsFiniteSet(D) /\ Cardinality(D) <= 1 /\ Cardinality(D) \in Nat
  BY CountFinite DEF CountIn
<1>2. i \in D /\ j \in D
  OBVIOUS
<1> HIDE DEF D
<1>3. SUFFICES ASSUME i # j PROVE FALSE
  OBVIOUS
<1>4. /\ IsFiniteSet(D \ {i}) /\ Cardinality(D \ {i}) = Cardinality(D) - 1
  BY <1>1, <1>2, FS_RemoveElement
<1>5. j \in D \ {i} /\ Cardinality(D \ {i}) \in Nat
  BY <1>2, <1>3, <1>4, FS_CardinalityType
<1>6. Cardinality(D \ {i}) = 0
  BY <1>1, <1>4, <1>5
<1>7. D \ {i} = {}
  BY <1>4, <1>6, FS_EmptySet
<1>8. QED BY <1>5, <1>7

(* The list of nothing.                                                    *)
LEMMA EmptyList == Range(<<>>) = {} /\ DOMAIN <<>> = {}
BY DEF Range

=============================================================================
