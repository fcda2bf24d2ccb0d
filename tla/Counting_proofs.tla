-------------------------- MODULE Counting_proofs --------------------------
(***************************************************************************)
(* Facts that the other proofs rest on: induction over numbers, the sums   *)
(* of module Sums for sequences of any length, and the sizes of finite     *)
(* sets.                                                                   *)
(***************************************************************************)
EXTENDS Sums, FiniteSetTheorems, TLAPS

(* A set of numbers that is not empty has a least one.                     *)
LEMMA LeastOf ==
  ASSUME NEW S \in SUBSET Nat, S # {}
  PROVE  \E n \in S : \A k \in S : n <= k
<1> DEFINE R == {p \in Nat \X Nat : p[1] < p[2]}
<1>1. IsWellFoundedOn(R, Nat)
  BY NatLessThanWellFounded DEF OpToRel
<1>2. PICK n \in S : \A k \in S : ~ (<<k, n>> \in R)
  BY <1>1, WFMin, Zenon
<1>3. \A k \in S : k < n => <<k, n>> \in R
  OBVIOUS
<1>4. \A k \in S : n <= k
  <2> SUFFICES ASSUME NEW k \in S PROVE n <= k
    OBVIOUS
  <2>1. ~(k < n)
    BY <1>2, <1>3, Zenon
  <2>2. k \in Nat /\ n \in Nat
    OBVIOUS
  <2> QED BY <2>1, <2>2
<1> QED BY <1>4

(* Induction, with a set for the predicate: what holds of 0, and of every  *)
(* number up to m if it holds of the one before, holds up to m.  (There is *)
(* no least number of which it does not.)                                  *)
LEMMA Climb ==
  ASSUME NEW m \in Nat, NEW T, 0 \in T,
         \A k \in 1..m : k - 1 \in T => k \in T
  PROVE  \A k \in 0..m : k \in T
<1> DEFINE Bad == {k \in 0..m : k \notin T}
<1> SUFFICES ASSUME Bad # {} PROVE FALSE
  OBVIOUS
<1>1. Bad \subseteq Nat
  OBVIOUS
<1> HIDE DEF Bad
<1>2. PICK k \in Bad : \A j \in Bad : k <= j
  BY <1>1, LeastOf, Zenon
<1> USE DEF Bad
<1>3. k \in 1..m /\ k \notin T
  OBVIOUS
<1>4. k - 1 \in T
  BY <1>2, <1>3
<1> QED BY <1>3, <1>4

-----------------------------------------------------------------------------
(* Finite sets *)

(* The empty set is the one of size 0.                                     *)
LEMMA EmptySize ==
  /\ IsFiniteSet({}) /\ Cardinality({}) = 0
  /\ \A S : IsFiniteSet(S) /\ Cardinality(S) = 0 => S = {}
BY FS_EmptySet, Zenon

(* A size is a number.                                                     *)
LEMMA SizeIsNat ==
  ASSUME NEW S, IsFiniteSet(S)
  PROVE  Cardinality(S) \in Nat
BY FS_CardinalityType, Zenon

(* An element more.                                                        *)
LEMMA AddOne ==
  ASSUME NEW S, IsFiniteSet(S), NEW x
  PROVE  /\ IsFiniteSet(S \cup {x})
         /\ x \notin S => Cardinality(S \cup {x}) = Cardinality(S) + 1
BY FS_AddElement, Zenon

(* An element less.                                                        *)
LEMMA TakeOne ==
  ASSUME NEW S, IsFiniteSet(S), NEW x \in S
  PROVE  /\ IsFiniteSet(S \ {x})
         /\ Cardinality(S \ {x}) = Cardinality(S) - 1
BY FS_RemoveElement, Zenon

(* A part of a finite set is not larger.                                   *)
LEMMA PartSize ==
  ASSUME NEW S, IsFiniteSet(S), NEW T \in SUBSET S
  PROVE  IsFiniteSet(T) /\ Cardinality(T) <= Cardinality(S)
BY FS_Subset, Zenon

(* A set of more than one element has another.                             *)
LEMMA Another ==
  ASSUME NEW S, IsFiniteSet(S), Cardinality(S) > 1, NEW a \in S
  PROVE  S \ {a} # {}
<1>1. Cardinality(S \ {a}) = Cardinality(S) - 1
  BY TakeOne
<1>2. Cardinality(S) \in Nat
  BY SizeIsNat
<1> QED BY <1>1, <1>2, EmptySize

(* There are finitely many numbers up to n.                                *)
LEMMA UpTo ==
  ASSUME NEW n \in Nat
  PROVE  IsFiniteSet(1..n)
BY FS_Interval

(* And of their number.                                                    *)
LEMMA IntervalSize ==
  ASSUME NEW n \in Nat
  PROVE  Cardinality(1..n) = n
BY FS_Interval

-----------------------------------------------------------------------------
(* Sums *)

(* The equation that PrefixSums chooses a solution of.                     *)
IsSums(s, w, m) ==
  s = [n \in 0..m |-> IF n = 0 THEN 0 ELSE s[n - 1] + w[n]]

(* It has one: the sums up to an index extend those up to the one before.  *)
LEMMA SumsExist ==
  ASSUME NEW w \in Seq(Nat)
  PROVE  \E s : IsSums(s, w, Len(w))
<1> DEFINE T == {k \in 0..Len(w) : \E s : IsSums(s, w, k)}
<1>1. 0 \in T
  <2> DEFINE z == [n \in 0..0 |-> 0]
  <2>1. z = [n \in 0..0 |-> IF n = 0 THEN 0 ELSE z[n - 1] + w[n]]
    OBVIOUS
  <2>2. IsSums(z, w, 0)
    BY <2>1 DEF IsSums
  <2> QED BY <2>2
<1>2. ASSUME NEW k \in 1..Len(w), k - 1 \in T PROVE k \in T
  <2>1. PICK t : IsSums(t, w, k - 1)
    BY <1>2
  <2> DEFINE s == [n \in 0..k |-> IF n = k THEN t[k - 1] + w[k] ELSE t[n]]
  <2>2. \A n \in 0..(k - 1) :
          t[n] = IF n = 0 THEN 0 ELSE t[n - 1] + w[n]
    BY <2>1 DEF IsSums
  <2>3. \A n \in 0..k : s[n] = IF n = 0 THEN 0 ELSE s[n - 1] + w[n]
    BY <2>2
  <2>4. s = [n \in 0..k |-> IF n = 0 THEN 0 ELSE s[n - 1] + w[n]]
    BY <2>3
  <2>5. IsSums(s, w, k)
    BY <2>4 DEF IsSums
  <2> QED BY <2>5
<1> HIDE DEF T
<1>3. Len(w) \in Nat
  OBVIOUS
<1>4. \A k \in 0..Len(w) : k \in T
  BY <1>1, <1>2, <1>3, Climb
<1> QED BY <1>3, <1>4 DEF T

(* PrefixSums, step by step.                                               *)
LEMMA SumsStep ==
  ASSUME NEW w \in Seq(Nat)
  PROVE  /\ PrefixSums(w) \in [0..Len(w) -> Nat]
         /\ PrefixSums(w)[0] = 0
         /\ \A n \in 1..Len(w) :
              PrefixSums(w)[n] = PrefixSums(w)[n - 1] + w[n]
<1> DEFINE s == PrefixSums(w)
           T == {n \in 0..Len(w) : s[n] \in Nat}
<1>1. IsSums(s, w, Len(w))
  BY SumsExist DEF IsSums, PrefixSums
<1> HIDE DEF s
<1>2. /\ s = [n \in 0..Len(w) |-> s[n]]
      /\ s[0] = 0
      /\ \A n \in 1..Len(w) : s[n] = s[n - 1] + w[n]
  <2>1. DOMAIN s = 0..Len(w)
        /\ \A n \in 0..Len(w) : s[n] = IF n = 0 THEN 0 ELSE s[n - 1] + w[n]
    BY <1>1 DEF IsSums
  <2>2. s = [n \in DOMAIN s |-> s[n]]
    BY <1>1 DEF IsSums
  <2> QED BY <2>1, <2>2
<1>3. 0 \in T
  BY <1>2
<1>4. ASSUME NEW n \in 1..Len(w), n - 1 \in T PROVE n \in T
  <2>1. s[n] = s[n - 1] + w[n] /\ s[n - 1] \in Nat /\ w[n] \in Nat
    BY <1>2, <1>4
  <2> QED BY <2>1
<1> HIDE DEF T
<1>5. Len(w) \in Nat
  OBVIOUS
<1>6. \A n \in 0..Len(w) : n \in T
  BY <1>3, <1>4, <1>5, Climb
<1> QED BY <1>2, <1>6 DEF T, s

(* They only grow.                                                         *)
LEMMA SumsGrow ==
  ASSUME NEW w \in Seq(Nat), NEW i \in 0..Len(w), NEW j \in i..Len(w)
  PROVE  PrefixSums(w)[i] <= PrefixSums(w)[j]
<1> DEFINE s == PrefixSums(w)
           T == {n \in 0..Len(w) : i <= n => s[i] <= s[n]}
<1>1. s \in [0..Len(w) -> Nat]
      /\ \A n \in 1..Len(w) : s[n] = s[n - 1] + w[n]
  BY SumsStep
<1> HIDE DEF s
<1>2. 0 \in T
  BY <1>1
<1>3. ASSUME NEW n \in 1..Len(w), n - 1 \in T PROVE n \in T
  <2>1. n \in 0..Len(w) /\ n - 1 \in 0..Len(w) /\ w[n] \in Nat
    OBVIOUS
  <2>2. s[n] = s[n - 1] + w[n] /\ s[n - 1] \in Nat /\ s[i] \in Nat
    BY <1>1, <2>1
  <2>3. CASE i = n
    BY <2>1, <2>2, <2>3
  <2>4. CASE i # n
    BY <1>3, <2>1, <2>2, <2>4
  <2> QED BY <2>3, <2>4
<1> HIDE DEF T
<1>4. Len(w) \in Nat /\ j \in 0..Len(w)
  OBVIOUS
<1>5. \A n \in 0..Len(w) : n \in T
  BY <1>2, <1>3, <1>4, Climb
<1> QED BY <1>4, <1>5 DEF T, s

(* The sums up to an index depend on the numbers up to it only.            *)
LEMMA SumsAgree ==
  ASSUME NEW v \in Seq(Nat), NEW w \in Seq(Nat), NEW m \in Nat,
         m <= Len(v), m <= Len(w), \A i \in 1..m : v[i] = w[i]
  PROVE  PrefixSums(v)[m] = PrefixSums(w)[m]
<1> DEFINE s == PrefixSums(v)
           t == PrefixSums(w)
           T == {n \in 0..m : s[n] = t[n]}
<1>1. /\ s[0] = 0 /\ \A n \in 1..Len(v) : s[n] = s[n - 1] + v[n]
      /\ t[0] = 0 /\ \A n \in 1..Len(w) : t[n] = t[n - 1] + w[n]
  BY SumsStep
<1> HIDE DEF s, t
<1>2. 0 \in T
  BY <1>1
<1>3. ASSUME NEW n \in 1..m, n - 1 \in T PROVE n \in T
  <2>1. n \in 1..Len(v) /\ n \in 1..Len(w) /\ v[n] = w[n]
    OBVIOUS
  <2>2. s[n] = s[n - 1] + v[n] /\ t[n] = t[n - 1] + w[n]
    BY <1>1, <2>1
  <2> QED BY <1>3, <2>1, <2>2
<1> HIDE DEF T
<1>4. \A n \in 0..m : n \in T
  BY <1>2, <1>3, Climb
<1> QED BY <1>4 DEF T, s, t

(* What the sum of no numbers is, and of zeros.                            *)
LEMMA TotalZero ==
  ASSUME NEW w \in Seq(Nat), \A i \in 1..Len(w) : w[i] = 0
  PROVE  Total(w) = 0
<1> DEFINE s == PrefixSums(w)
           T == {n \in 0..Len(w) : s[n] = 0}
<1>1. s[0] = 0 /\ \A n \in 1..Len(w) : s[n] = s[n - 1] + w[n]
  BY SumsStep
<1> HIDE DEF s
<1>2. 0 \in T
  BY <1>1
<1>3. ASSUME NEW n \in 1..Len(w), n - 1 \in T PROVE n \in T
  <2>1. s[n] = s[n - 1] + w[n] /\ w[n] = 0 /\ s[n - 1] = 0
    BY <1>1, <1>3
  <2> QED BY <2>1
<1> HIDE DEF T
<1>4. Len(w) \in Nat
  OBVIOUS
<1>5. \A n \in 0..Len(w) : n \in T
  BY <1>2, <1>3, <1>4, Climb
<1> QED BY <1>4, <1>5 DEF T, s, Total

(* A total is a number, and one more number adds itself to it.             *)
LEMMA TotalAppend ==
  ASSUME NEW w \in Seq(Nat), NEW x \in Nat
  PROVE  /\ Total(w) \in Nat
         /\ Total(Append(w, x)) = Total(w) + x
<1>1. PICK v \in Seq(Nat) : v = Append(w, x)
  <2>1. Append(w, x) \in Seq(Nat)
    OBVIOUS
  <2> QED BY <2>1
<1>2. /\ Len(w) \in Nat /\ Len(v) = Len(w) + 1 /\ v[Len(v)] = x
      /\ \A i \in 1..Len(w) : v[i] = w[i]
  BY <1>1
<1>3. PrefixSums(v)[Len(v)] = PrefixSums(v)[Len(w)] + x
  <2>1. Len(v) \in 1..Len(v) /\ Len(v) - 1 = Len(w)
    BY <1>2
  <2>2. \A n \in 1..Len(v) :
          PrefixSums(v)[n] = PrefixSums(v)[n - 1] + v[n]
    BY SumsStep
  <2> QED BY <1>2, <2>1, <2>2
<1>4. PrefixSums(v)[Len(w)] = PrefixSums(w)[Len(w)]
  <2>1. Len(w) <= Len(v) /\ Len(w) <= Len(w)
    BY <1>2
  <2> QED BY <1>2, <2>1, SumsAgree
<1>5. PrefixSums(w)[Len(w)] \in Nat
  <2>1. PrefixSums(w) \in [0..Len(w) -> Nat] /\ Len(w) \in 0..Len(w)
    BY <1>2, SumsStep
  <2> QED BY <2>1
<1> QED BY <1>1, <1>3, <1>4, <1>5 DEF Total

(* One number less takes itself from it, wherever in the sequence it was.  *)
LEMMA TotalRemove ==
  ASSUME NEW v \in Seq(Nat), NEW w \in Seq(Nat), NEW k \in 1..Len(w),
         Len(w) = Len(v) + 1,
         \A i \in 1..Len(v) : v[i] = IF i < k THEN w[i] ELSE w[i + 1]
  PROVE  Total(w) = Total(v) + w[k]
<1> DEFINE s == PrefixSums(v)
           t == PrefixSums(w)
           T == {n \in 0..Len(v) :
                   /\ n < k => t[n] = s[n]
                   /\ n >= k - 1 => t[n + 1] = s[n] + w[k]}
<1>1. Len(v) \in Nat /\ w[k] \in Nat
  OBVIOUS
<1>2. /\ s \in [0..Len(v) -> Nat] /\ t \in [0..Len(w) -> Nat]
      /\ s[0] = 0 /\ \A n \in 1..Len(v) : s[n] = s[n - 1] + v[n]
      /\ t[0] = 0 /\ \A n \in 1..Len(w) : t[n] = t[n - 1] + w[n]
  BY SumsStep
<1> HIDE DEF s, t
<1>3. 0 \in T
  <2>1. t[1] = t[0] + w[1]
    BY <1>1, <1>2
  <2> QED BY <1>1, <1>2, <2>1
<1>4. ASSUME NEW n \in 1..Len(v), n - 1 \in T PROVE n \in T
  <2>1. /\ n \in 1..Len(w) /\ n + 1 \in 1..Len(w)
        /\ n - 1 \in 0..Len(v) /\ n - 1 \in 0..Len(w) /\ n \in 0..Len(w)
        /\ (n + 1) - 1 = n /\ (n - 1) + 1 = n
        /\ w[n] \in Nat /\ w[n + 1] \in Nat
    BY <1>1
  <2>2. /\ s[n] = s[n - 1] + v[n] /\ t[n] = t[n - 1] + w[n]
        /\ t[n + 1] = t[n] + w[n + 1]
        /\ s[n - 1] \in Nat /\ t[n - 1] \in Nat /\ t[n] \in Nat
    BY <1>2, <2>1
  <2>3. /\ n - 1 < k => t[n - 1] = s[n - 1]
        /\ n - 1 >= k - 1 => t[n] = s[n - 1] + w[k]
    BY <1>4, <2>1
  <2>4. ASSUME n < k PROVE t[n] = s[n]
    <3>1. v[n] = w[n] /\ t[n - 1] = s[n - 1]
      BY <2>3, <2>4
    <3> QED BY <2>2, <3>1
  <2>5. ASSUME n >= k - 1 PROVE t[n + 1] = s[n] + w[k]
    <3>1. CASE n = k - 1
      BY <2>2, <2>4, <3>1
    <3>2. CASE n >= k
      <4>1. v[n] = w[n + 1] /\ t[n] = s[n - 1] + w[k]
        BY <2>3, <3>2
      <4>2. PICK a \in Nat, x \in Nat, p \in Nat :
              a = s[n - 1] /\ x = w[n + 1] /\ p = w[k]
        BY <1>1, <2>1, <2>2, Zenon
      <4>3. (a + p) + x = (a + x) + p
        OBVIOUS
      <4> QED BY <2>2, <4>1, <4>2, <4>3, Zenon
    <3> QED BY <2>5, <3>1, <3>2
  <2> QED BY <2>4, <2>5
<1> HIDE DEF T
<1>5. Len(v) \in T
  <2>1. \A n \in 0..Len(v) : n \in T
    BY <1>1, <1>3, <1>4, Climb
  <2> QED BY <1>1, <2>1
<1>6. t[Len(v) + 1] = s[Len(v)] + w[k]
  BY <1>1, <1>5 DEF T
<1> QED BY <1>6 DEF s, t, Total

(* What is added on both sides.                                            *)
LEMMA Balance ==
  ASSUME NEW a \in Nat, NEW b \in Nat, NEW x \in Nat, NEW p \in Nat,
         NEW q \in Nat, a + p = b + q
  PROVE  (a + x) + p = (b + x) + q
OBVIOUS

OnlyAt(v, w, k) ==
  Len(v) = Len(w) /\ \A i \in 1..Len(w) : i # k => v[i] = w[i]

(* A number that changes changes the total by as much.                     *)
LEMMA TotalChange ==
  ASSUME NEW v \in Seq(Nat), NEW w \in Seq(Nat), NEW k \in 1..Len(w),
         OnlyAt(v, w, k)
  PROVE  Total(v) + w[k] = Total(w) + v[k]
<1> DEFINE s == PrefixSums(v)
           t == PrefixSums(w)
           T == {n \in 0..Len(w) :
                   IF n < k THEN s[n] = t[n] ELSE s[n] + w[k] = t[n] + v[k]}
<1>1. Len(w) \in Nat /\ w[k] \in Nat /\ v[k] \in Nat /\ Len(v) = Len(w)
  BY DEF OnlyAt
<1>2. /\ s \in [0..Len(w) -> Nat] /\ t \in [0..Len(w) -> Nat]
      /\ s[0] = 0 /\ \A n \in 1..Len(w) : s[n] = s[n - 1] + v[n]
      /\ t[0] = 0 /\ \A n \in 1..Len(w) : t[n] = t[n - 1] + w[n]
  BY <1>1, SumsStep
<1> HIDE DEF s, t
<1>3. 0 \in T
  BY <1>1, <1>2
<1> HIDE DEF T
<1>4. ASSUME NEW n \in 1..Len(w), n - 1 \in T PROVE n \in T
  <2>1. /\ n - 1 \in 0..Len(w) /\ n \in 0..Len(w)
        /\ v[n] \in Nat /\ w[n] \in Nat
    BY <1>1
  <2>2. /\ s[n] = s[n - 1] + v[n] /\ t[n] = t[n - 1] + w[n]
        /\ s[n - 1] \in Nat /\ t[n - 1] \in Nat
    BY <1>2, <2>1
  <2>3. IF n - 1 < k THEN s[n - 1] = t[n - 1]
        ELSE s[n - 1] + w[k] = t[n - 1] + v[k]
    BY <1>4 DEF T
  <2>4. n # k => v[n] = w[n]
    BY DEF OnlyAt
  <2>5. IF n < k THEN s[n] = t[n] ELSE s[n] + w[k] = t[n] + v[k]
    <3>1. CASE n < k
      <4>1. v[n] = w[n] /\ s[n - 1] = t[n - 1]
        BY <2>3, <2>4, <3>1
      <4> QED BY <2>2, <3>1, <4>1, Zenon
    <3>2. CASE n = k
      <4>1. s[n - 1] = t[n - 1]
        BY <2>3, <3>2
      <4> QED BY <1>1, <2>2, <3>2, <4>1
    <3>3. CASE n > k
      <4>1. v[n] = w[n] /\ s[n - 1] + w[k] = t[n - 1] + v[k]
        BY <2>3, <2>4, <3>3
      <4>2. PICK a \in Nat, b \in Nat, x \in Nat, p \in Nat, q \in Nat :
              /\ a = s[n - 1] /\ b = t[n - 1] /\ x = w[n]
              /\ p = w[k] /\ q = v[k]
        BY <1>1, <2>1, <2>2, Zenon
      <4>3. a + p = b + q
        BY <4>1, <4>2, Zenon
      <4>4. (a + x) + p = (b + x) + q
        BY <4>3, Balance
      <4>5. s[n] + w[k] = t[n] + v[k]
        BY <2>2, <4>1, <4>2, <4>4, Zenon
      <4> QED BY <3>3, <4>5
    <3> QED BY <3>1, <3>2, <3>3
  <2> QED BY <2>1, <2>5 DEF T
<1>5. \A n \in 0..Len(w) : n \in T
  BY <1>1, <1>3, <1>4, Climb
<1> QED BY <1>1, <1>5 DEF T, s, t, Total

=============================================================================
