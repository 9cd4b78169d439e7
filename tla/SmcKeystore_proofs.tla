-------------------------- MODULE SmcKeystore_proofs --------------------------
(***************************************************************************)
(* Proofs about SmcKeystore for any plugins, offers and number of slots:   *)
(* what the sorting, the binary search and the list of names compute, then *)
(* the lifetime of the values, then what the driver is told, and that the  *)
(* store implements KeyDirectory.                                          *)
(***************************************************************************)
EXTENDS SmcKeystore, SequenceTheorems, FiniteSetTheorems, WellFoundedInduction, TLAPS

-----------------------------------------------------------------------------
(* Natural numbers.                                                        *)

(* A set of natural numbers that is not empty has a least one.             *)
LEMMA Least ==
  ASSUME NEW S \in SUBSET Nat, S # {}
  PROVE  \E i \in S : \A j \in S : i <= j
<1>1. \E i \in S : \A j \in S : <<j, i>> \notin OpToRel(<, Nat)
  BY WFMin, NatLessThanWellFounded
<1>2. PICK i \in S : \A j \in S : <<j, i>> \notin OpToRel(<, Nat)
  BY <1>1
<1>3. \A j \in S : ~ (j < i)
  BY <1>2 DEF OpToRel
<1>4. \A j \in S : i <= j
  BY <1>3
<1> QED
  BY <1>4

(* Induction over the natural numbers, for a set of them.                  *)
LEMMA SetInduction ==
  ASSUME NEW S \in SUBSET Nat, 0 \in S, \A n \in S : n + 1 \in S
  PROVE  S = Nat
<1> SUFFICES ASSUME Nat \ S # {} PROVE FALSE
  OBVIOUS
<1>1. PICK i \in Nat \ S : \A j \in Nat \ S : i <= j
  BY Least
<1>2. i - 1 \in S
  BY <1>1
<1> QED
  BY <1>1, <1>2

-----------------------------------------------------------------------------
(* Sorting.                                                                *)

Increasing(s) == \A i, j \in 1 .. Len(s) : i < j => s[i] < s[j]

(* How many of some names are less than one of them tells it from the      *)
(* others, and takes each value below their number.                        *)
LEMMA Ranks ==
  ASSUME NEW names \in SUBSET Nat, IsFiniteSet(names)
  PROVE  /\ Cardinality(names) \in Nat
         /\ \A n \in names : Cardinality({m \in names : m < n}) \in 0 .. Cardinality(names) - 1
         /\ \A n, k \in names :
              n < k => Cardinality({m \in names : m < n}) < Cardinality({m \in names : m < k})
         /\ \A r \in 0 .. Cardinality(names) - 1 :
              \E n \in names : Cardinality({m \in names : m < n}) = r
<1> DEFINE below(n) == {m \in names : m < n}
           rank == [n \in names |-> Cardinality(below(n))]
           last == Cardinality(names) - 1
<1>1. Cardinality(names) \in Nat
  BY FS_CardinalityType
<1>2. ASSUME NEW n \in names
      PROVE  IsFiniteSet(below(n)) /\ Cardinality(below(n)) \in 0 .. last
  <2>1. below(n) \in SUBSET names /\ n \in names \ below(n)
    OBVIOUS
  <2> HIDE DEF below
  <2>2. IsFiniteSet(below(n)) /\ Cardinality(below(n)) <= Cardinality(names)
        /\ Cardinality(below(n)) # Cardinality(names)
    BY <2>1, FS_Subset
  <2>3. Cardinality(below(n)) \in Nat
    BY <2>2, FS_CardinalityType
  <2> QED
    BY <1>1, <2>2, <2>3
<1>3. ASSUME NEW n \in names, NEW k \in names, n < k
      PROVE  Cardinality(below(n)) < Cardinality(below(k))
  <2>1. below(n) \in SUBSET below(k) /\ n \in below(k) \ below(n)
    <3>1. n \in Nat /\ k \in Nat /\ \A m \in names : m \in Nat
      OBVIOUS
    <3>2. \A m \in names : m < n => m < k
      BY <1>3, <3>1
    <3>3. \A m \in below(n) : m \in below(k)
      BY <3>2
    <3>4. n \in below(k) /\ n \notin below(n)
      BY <1>3, <3>1
    <3> HIDE DEF below
    <3> QED
      BY <3>3, <3>4
  <2>2. IsFiniteSet(below(n)) /\ IsFiniteSet(below(k))
        /\ Cardinality(below(n)) \in Nat /\ Cardinality(below(k)) \in Nat
    BY <1>1, <1>2
  <2> HIDE DEF below
  <2>3. Cardinality(below(n)) <= Cardinality(below(k))
        /\ Cardinality(below(n)) # Cardinality(below(k))
    BY <2>1, <2>2, FS_Subset
  <2> QED
    BY <2>2, <2>3
<1> HIDE DEF below
<1>4. rank \in [names -> 0 .. last]
  BY <1>2
<1>5. rank \in Injection(names, 0 .. last)
  <2>1. ASSUME NEW n \in names, NEW k \in names, rank[n] = rank[k] PROVE n = k
    <3>1. rank[n] = Cardinality(below(n)) /\ rank[k] = Cardinality(below(k))
          /\ rank[n] \in Nat
      BY <1>2, <1>1
    <3> HIDE DEF rank
    <3>2. Cardinality(below(n)) = Cardinality(below(k)) /\ Cardinality(below(n)) \in Nat
      BY <2>1, <3>1
    <3>3. ~ (n < k) /\ ~ (k < n)
      BY <1>3, <3>2
    <3>4. n \in Nat /\ k \in Nat
      OBVIOUS
    <3> QED
      BY <3>3, <3>4
  <2> QED
    BY <1>4, <2>1 DEF Injection, IsInjective
<1>6. IsFiniteSet(0 .. last) /\ Cardinality(0 .. last) = Cardinality(names)
  <2>1. 0 \in Int /\ last \in Int /\ last - 0 + 1 = Cardinality(names)
        /\ (0 > last => Cardinality(names) = 0)
    BY <1>1
  <2> HIDE DEF last
  <2> QED
    BY <2>1, FS_Interval
<1>7. rank \in Surjection(names, 0 .. last)
  BY <1>5, <1>6, FS_Injection
<1>8. ASSUME NEW r \in 0 .. last PROVE \E n \in names : Cardinality(below(n)) = r
  BY <1>7 DEF Surjection
<1> QED
  BY <1>1, <1>2, <1>3, <1>8 DEF below

(* Sorting keeps every name, and puts each once, in increasing order.      *)
LEMMA SortedNames ==
  ASSUME NEW names \in SUBSET Nat, IsFiniteSet(names)
  PROVE  /\ Sorted(names) \in Seq(names)
         /\ Len(Sorted(names)) = Cardinality(names)
         /\ ToSet(Sorted(names)) = names
         /\ Increasing(Sorted(names)) /\ IsInjective(Sorted(names))
<1> DEFINE s == Sorted(names)
           count == Cardinality(names)
           rank(n) == Cardinality({m \in names : m < n})
<1>1. /\ count \in Nat
      /\ \A n \in names : rank(n) \in 0 .. count - 1
      /\ \A n, k \in names : n < k => rank(n) < rank(k)
      /\ \A r \in 0 .. count - 1 : \E n \in names : rank(n) = r
  BY Ranks
<1>2. s = [i \in 1 .. count |-> CHOOSE n \in names : rank(n) = i - 1]
  BY DEF Sorted
<1> HIDE DEF s, count, rank
<1>3. ASSUME NEW i \in 1 .. count
      PROVE  s[i] \in names /\ s[i] \in Nat /\ rank(s[i]) = i - 1
  <2>1. \E n \in names : rank(n) = i - 1
    BY <1>1
  <2>2. s[i] = CHOOSE n \in names : rank(n) = i - 1
    BY <1>2
  <2> QED
    BY <2>1, <2>2
<1>4. s \in [1 .. count -> names]
  BY <1>2, <1>3
<1>5. s \in Seq(names) /\ Len(s) = count /\ DOMAIN s = 1 .. count
  BY <1>1, <1>4
<1>6. ASSUME NEW i \in 1 .. count, NEW j \in 1 .. count, i < j PROVE s[i] < s[j]
  <2>1. /\ s[i] \in names /\ s[j] \in names /\ s[i] \in Nat /\ s[j] \in Nat
        /\ rank(s[i]) = i - 1 /\ rank(s[j]) = j - 1
    BY <1>3
  <2>2. s[i] \in Nat /\ s[j] \in Nat /\ i - 1 < j - 1 /\ ~ (j - 1 < i - 1)
    BY <1>6, <2>1
  <2>3. ~ (s[j] < s[i]) /\ s[i] # s[j]
    BY <1>1, <2>1, <2>2
  <2> QED
    BY <2>2, <2>3
<1>7. ASSUME NEW n \in names PROVE n \in ToSet(s)
  <2>1. rank(n) + 1 \in 1 .. count
    BY <1>1
  <2>2. /\ s[rank(n) + 1] \in names /\ rank(s[rank(n) + 1]) = rank(n)
        /\ s[rank(n) + 1] \in Nat
    BY <1>1, <1>3, <2>1
  <2> DEFINE k == s[rank(n) + 1]
  <2>3. rank(n) \in Nat /\ n \in Nat /\ k \in Nat
    BY <1>1, <2>2
  <2> HIDE DEF k
  <2>4. ~ (n < k) /\ ~ (k < n)
    BY <1>1, <2>2, <2>3 DEF k
  <2>5. n = s[rank(n) + 1]
    BY <2>3, <2>4 DEF k
  <2> QED
    BY <1>5, <2>1, <2>5 DEF ToSet
<1>8. ToSet(s) = names
  BY <1>3, <1>5, <1>7 DEF ToSet
<1>9. IsInjective(s)
  <2> SUFFICES ASSUME NEW i \in 1 .. count, NEW j \in 1 .. count, s[i] = s[j]
               PROVE  i = j
    BY <1>5 DEF IsInjective
  <2>1. s[i] \in Nat /\ ~ (s[i] < s[j]) /\ ~ (s[j] < s[i])
    BY <1>3
  <2> QED
    BY <1>1, <1>6, <2>1
<1> QED
  BY <1>5, <1>6, <1>8, <1>9 DEF Increasing, s, count

-----------------------------------------------------------------------------
(* The binary search.                                                      *)

(* One round of the binary search: what it answers, or where it goes on,   *)
(* when `from` tells what the search of a smaller range answers.           *)
Round(s, name, from, range) ==
  LET start == range[1]
      end == range[2]
      curr == (start + end) \div 2
  IN IF start > end THEN 0
     ELSE IF s[curr + 1] = name THEN curr + 1
     ELSE IF s[curr + 1] > name THEN from[<<start, curr - 1>>]
     ELSE from[<<curr + 1, end>>]

Ranges(s) == (0 .. Len(s)) \X (-1 .. Len(s) - 1)
Width(range) == range[2] - range[1] + 1

(* Each round halves the range: it ends, and what it asks lies within.     *)
LEMMA RoundNarrows ==
  ASSUME NEW s \in Seq(Nat), NEW range \in Ranges(s), range[1] <= range[2]
  PROVE  LET curr == (range[1] + range[2]) \div 2
         IN /\ curr \in 0 .. Len(s) - 1 /\ range[1] <= curr /\ curr <= range[2]
            /\ <<range[1], curr - 1>> \in Ranges(s)
            /\ <<curr + 1, range[2]>> \in Ranges(s)
            /\ Width(<<range[1], curr - 1>>) < Width(range)
            /\ Width(<<curr + 1, range[2]>>) < Width(range)
<1> DEFINE a == range[1]
           b == range[2]
           curr == (a + b) \div 2
<1>1. a \in 0 .. Len(s) /\ b \in -1 .. Len(s) - 1 /\ Len(s) \in Nat /\ a <= b
  BY DEF Ranges
<1> HIDE DEF a, b
<1>2. curr \in Int /\ a <= curr /\ curr <= b
  BY <1>1
<1>3. range = <<a, b>>
  BY DEF Ranges, a, b
<1> HIDE DEF curr
<1>4. /\ curr \in 0 .. Len(s) - 1
      /\ <<a, curr - 1>> \in Ranges(s) /\ <<curr + 1, b>> \in Ranges(s)
  BY <1>1, <1>2 DEF Ranges
<1>5. /\ Width(<<a, curr - 1>>) < Width(<<a, b>>)
      /\ Width(<<curr + 1, b>>) < Width(<<a, b>>)
  BY <1>1, <1>2 DEF Width
<1>6. /\ Width(<<a, curr - 1>>) < Width(range)
      /\ Width(<<curr + 1, b>>) < Width(range)
  BY <1>3, <1>5
<1> QED
  BY <1>2, <1>4, <1>6 DEF a, b, curr

(* Two answers that agree on smaller ranges lead to the same.              *)
LEMMA RoundAgrees ==
  ASSUME NEW s \in Seq(Nat), NEW name \in Nat, NEW range \in Ranges(s), NEW f, NEW g,
         \A r \in Ranges(s) : Width(r) < Width(range) => f[r] = g[r]
  PROVE  Round(s, name, f, range) = Round(s, name, g, range)
<1>1. CASE range[1] > range[2]
  BY <1>1 DEF Round
<1>2. CASE range[1] <= range[2]
  BY <1>2, RoundNarrows DEF Round
<1> QED
  BY <1>1, <1>2 DEF Ranges

(* The search is well defined: some function answers every range as the    *)
(* round does that asks it for the smaller ones.                           *)
LEMMA SearchUnfolds ==
  ASSUME NEW s \in Seq(Nat), NEW name \in Nat
  PROVE  \E from : /\ from = [range \in Ranges(s) |-> Round(s, name, from, range)]
                   /\ SearchIn(s, name) = from[<<0, Len(s) - 1>>]
<1> DEFINE Answers(from, n) ==
             \A r \in Ranges(s) : Width(r) <= n => from[r] = Round(s, name, from, r)
           Deep == {n \in Nat : \E from : from = [r \in Ranges(s) |-> from[r]]
                                          /\ Answers(from, n)}
           step(from) == [r \in Ranges(s) |-> Round(s, name, from, r)]
<1>1. \A r \in Ranges(s) : Width(r) \in Int /\ Width(r) <= Len(s)
  BY DEF Ranges, Width
<1>2. 0 \in Deep
  <2> DEFINE from == [r \in Ranges(s) |-> 0]
  <2>1. ASSUME NEW r \in Ranges(s), Width(r) <= 0
        PROVE  from[r] = Round(s, name, from, r)
    BY <2>1 DEF Round, Ranges, Width
  <2> QED
    BY <2>1
<1>3. ASSUME NEW n \in Deep PROVE n + 1 \in Deep
  <2>1. PICK from : Answers(from, n)
    OBVIOUS
  <2>2. ASSUME NEW r \in Ranges(s), Width(r) <= n + 1
        PROVE  step(from)[r] = Round(s, name, step(from), r)
    <3>1. ASSUME NEW q \in Ranges(s), Width(q) < Width(r)
          PROVE  from[q] = step(from)[q]
      <4>1. Width(q) <= n
        BY <1>1, <2>2, <3>1
      <4> QED
        BY <2>1, <4>1
    <3>2. Round(s, name, from, r) = Round(s, name, step(from), r)
      BY <3>1, RoundAgrees
    <3> QED
      BY <3>2
  <2>3. Answers(step(from), n + 1)
    BY <2>2
  <2>4. step(from) = [r \in Ranges(s) |-> step(from)[r]]
    OBVIOUS
  <2> HIDE DEF step, Answers
  <2> QED
    BY <2>3, <2>4
<1>4. Len(s) \in Deep
  <2>1. Deep \in SUBSET Nat /\ Len(s) \in Nat
    OBVIOUS
  <2> HIDE DEF Deep
  <2>2. Deep = Nat
    BY <1>2, <1>3, <2>1, SetInduction
  <2> QED
    BY <2>1, <2>2
<1>5. PICK from : from = [r \in Ranges(s) |-> from[r]] /\ Answers(from, Len(s))
  BY <1>4
<1>6. from = [range \in Ranges(s) |-> Round(s, name, from, range)]
  BY <1>1, <1>5
<1>7. \E f : f = [range \in Ranges(s) |-> Round(s, name, f, range)]
  BY <1>6
<1> QED
  BY <1>7 DEF SearchIn, Round, Ranges

(* The binary search of getByName finds a name in a sorted list of any     *)
(* length exactly when it is there.                                        *)
THEOREM SearchFinds ==
  ASSUME NEW s \in Seq(Nat), Increasing(s), NEW name \in Nat
  PROVE  SearchIn(s, name) # 0 <=> name \in ToSet(s)
<1>1. PICK from : /\ from = [range \in Ranges(s) |-> Round(s, name, from, range)]
                  /\ SearchIn(s, name) = from[<<0, Len(s) - 1>>]
  BY SearchUnfolds
<1> DEFINE Within(r) == \E i \in r[1] .. r[2] : s[i + 1] = name
           Right == {n \in Nat : \A r \in Ranges(s) :
                       Width(r) <= n => (from[r] # 0 <=> Within(r))}
<1>2. 0 \in Right
  <2>1. ASSUME NEW r \in Ranges(s), Width(r) <= 0 PROVE from[r] = 0 /\ ~Within(r)
    <3>1. r[1] > r[2] /\ r[1] \in Int /\ r[2] \in Int
      BY <2>1 DEF Ranges, Width
    <3>2. from[r] = 0
      BY <1>1, <3>1 DEF Round
    <3> QED
      BY <3>1, <3>2
  <2> QED
    BY <2>1
<1>3. ASSUME NEW n \in Right PROVE n + 1 \in Right
  <2> SUFFICES ASSUME NEW r \in Ranges(s), Width(r) <= n + 1
               PROVE  from[r] # 0 <=> Within(r)
    OBVIOUS
  <2> DEFINE curr == (r[1] + r[2]) \div 2
             left == <<r[1], curr - 1>>
             right == <<curr + 1, r[2]>>
  <2>0. \A q \in Ranges(s) : Width(q) \in Int
    BY DEF Ranges, Width
  <2>1. r[1] \in 0 .. Len(s) /\ r[2] \in -1 .. Len(s) - 1 /\ Len(s) \in Nat
    BY DEF Ranges
  <2>2. CASE r[1] > r[2]
    BY <1>1, <2>1, <2>2 DEF Round
  <2>3. CASE r[1] <= r[2]
    <3>1. /\ curr \in 0 .. Len(s) - 1 /\ r[1] <= curr /\ curr <= r[2]
          /\ left \in Ranges(s) /\ right \in Ranges(s)
          /\ Width(left) < Width(r) /\ Width(right) < Width(r)
      BY <2>3, RoundNarrows
    <3>2. Width(left) \in Int /\ Width(right) \in Int /\ Width(r) \in Int
      BY <3>1, <2>0
    <3>3. /\ from[left] # 0 <=> Within(left)
          /\ from[right] # 0 <=> Within(right)
      <4>1. Width(left) <= n /\ Width(right) <= n
        BY <3>1, <3>2
      <4> HIDE DEF left, right, Within
      <4> QED
        BY <3>1, <4>1
    <3>4. from[r] = Round(s, name, from, r)
      BY <1>1
    <3>5. /\ left[1] = r[1] /\ left[2] = curr - 1
          /\ right[1] = curr + 1 /\ right[2] = r[2]
      OBVIOUS
    <3>6. from[r] = IF s[curr + 1] = name THEN curr + 1
                    ELSE IF s[curr + 1] > name THEN from[left] ELSE from[right]
      BY <2>1, <2>3, <3>4 DEF Round
    <3> HIDE DEF curr, left, right
    <3>7. \A i \in r[1] .. r[2] : i + 1 \in 1 .. Len(s) /\ s[i + 1] \in Nat
      BY <2>1
    <3>8. CASE s[curr + 1] = name
      BY <2>1, <3>1, <3>6, <3>8
    <3>9. CASE s[curr + 1] > name
      <4>1. ASSUME NEW i \in r[1] .. r[2], s[i + 1] = name PROVE i \in r[1] .. curr - 1
        <5>1. ~ (curr < i)
          <6>1. curr + 1 \in 1 .. Len(s) /\ i + 1 \in 1 .. Len(s)
                /\ s[curr + 1] \in Nat /\ s[i + 1] \in Nat
            BY <2>1, <3>1, <3>7
          <6>2. ~ (curr + 1 < i + 1)
            BY <3>9, <4>1, <6>1 DEF Increasing
          <6> QED
            BY <2>1, <3>1, <6>2
        <5> QED
          BY <2>1, <3>1, <3>9, <4>1, <5>1
      <4>2. Within(r) <=> Within(left)
        BY <2>1, <3>1, <3>5, <4>1
      <4> HIDE DEF Within
      <4> QED
        BY <2>1, <3>1, <3>3, <3>6, <3>7, <3>9, <4>2
    <3>10. CASE s[curr + 1] < name
      <4>1. ASSUME NEW i \in r[1] .. r[2], s[i + 1] = name PROVE i \in curr + 1 .. r[2]
        <5>1. ~ (i < curr)
          <6>1. curr + 1 \in 1 .. Len(s) /\ i + 1 \in 1 .. Len(s)
                /\ s[curr + 1] \in Nat /\ s[i + 1] \in Nat
            BY <2>1, <3>1, <3>7
          <6>2. ~ (i + 1 < curr + 1)
            BY <3>10, <4>1, <6>1 DEF Increasing
          <6> QED
            BY <2>1, <3>1, <6>2
        <5> QED
          BY <2>1, <3>1, <3>10, <4>1, <5>1
      <4>2. Within(r) <=> Within(right)
        <5>1. \A i \in curr + 1 .. r[2] : i \in r[1] .. r[2]
          BY <2>1, <3>1
        <5> QED
          BY <3>5, <4>1, <5>1
      <4> HIDE DEF Within
      <4> QED
        BY <2>1, <3>1, <3>3, <3>6, <3>7, <3>10, <4>2
    <3> QED
      BY <2>1, <3>1, <3>7, <3>8, <3>9, <3>10
  <2> QED
    BY <2>1, <2>2, <2>3
<1>4. Len(s) \in Right
  <2>1. Right \in SUBSET Nat /\ Len(s) \in Nat
    OBVIOUS
  <2> HIDE DEF Right
  <2>2. Right = Nat
    BY <1>2, <1>3, <2>1, SetInduction
  <2> QED
    BY <2>1, <2>2
<1> DEFINE all == <<0, Len(s) - 1>>
<1>5. all \in Ranges(s) /\ Width(all) <= Len(s) /\ Len(s) \in Nat
      /\ all[1] = 0 /\ all[2] = Len(s) - 1
  BY DEF Ranges, Width
<1> HIDE DEF all
<1>6. from[all] # 0 <=> Within(all)
  BY <1>4, <1>5
<1>7. Within(all) <=> name \in ToSet(s)
  <2>1. ASSUME NEW i \in 1 .. Len(s), s[i] = name
        PROVE  i - 1 \in 0 .. Len(s) - 1 /\ s[(i - 1) + 1] = name
    BY <2>1
  <2>2. DOMAIN s = 1 .. Len(s)
    OBVIOUS
  <2>3. ASSUME NEW i \in 0 .. Len(s) - 1, s[i + 1] = name
        PROVE  name \in ToSet(s)
    <3>1. i + 1 \in DOMAIN s
      BY <2>2
    <3> QED
      BY <2>3, <3>1 DEF ToSet
  <2>4. ASSUME name \in ToSet(s) PROVE \E i \in 0 .. Len(s) - 1 : s[i + 1] = name
    BY <2>1, <2>2, <2>4 DEF ToSet
  <2> QED
    BY <1>5, <2>3, <2>4
<1> QED
  BY <1>1, <1>6, <1>7 DEF all

-----------------------------------------------------------------------------
(* Lists of lists.                                                         *)

(* Two lists joined: what they hold, each once when neither repeats and    *)
(* they have nothing in common.                                            *)
LEMMA Joined ==
  ASSUME NEW S, NEW v \in Seq(S), NEW h \in Seq(S)
  PROVE  /\ v \o h \in Seq(S) /\ ToSet(v \o h) = ToSet(v) \cup ToSet(h)
         /\ IsInjective(v) /\ IsInjective(h) /\ ToSet(v) \cap ToSet(h) = {}
              => IsInjective(v \o h)
<1>1. /\ v \o h \in Seq(S) /\ DOMAIN (v \o h) = 1 .. Len(v) + Len(h)
      /\ Len(v) \in Nat /\ Len(h) \in Nat
      /\ DOMAIN v = 1 .. Len(v) /\ DOMAIN h = 1 .. Len(h)
      /\ \A i \in 1 .. Len(v) : (v \o h)[i] = v[i]
      /\ \A i \in Len(v) + 1 .. Len(v) + Len(h) : (v \o h)[i] = h[i - Len(v)]
  OBVIOUS
<1>2. ToSet(v \o h) = ToSet(v) \cup ToSet(h)
  <2>1. ASSUME NEW k \in ToSet(v) PROVE k \in ToSet(v \o h)
    BY <1>1, <2>1 DEF ToSet
  <2>2. ASSUME NEW k \in ToSet(h) PROVE k \in ToSet(v \o h)
    <3>1. PICK i \in 1 .. Len(h) : k = h[i]
      BY <1>1, <2>2 DEF ToSet
    <3>2. (v \o h)[i + Len(v)] = k /\ i + Len(v) \in DOMAIN (v \o h)
      BY <1>1, <3>1
    <3> QED
      BY <3>2 DEF ToSet
  <2>3. ASSUME NEW k \in ToSet(v \o h) PROVE k \in ToSet(v) \cup ToSet(h)
    BY <1>1, <2>3 DEF ToSet
  <2> QED
    BY <2>1, <2>2, <2>3
<1>3. ASSUME IsInjective(v), IsInjective(h), ToSet(v) \cap ToSet(h) = {}
      PROVE  IsInjective(v \o h)
  <2> SUFFICES ASSUME NEW i \in 1 .. Len(v) + Len(h), NEW j \in 1 .. Len(v) + Len(h),
                      (v \o h)[i] = (v \o h)[j]
               PROVE  i = j
    BY <1>1 DEF IsInjective
  <2>1. CASE i <= Len(v) /\ j <= Len(v)
    BY <1>1, <1>3, <2>1 DEF IsInjective
  <2>2. CASE i > Len(v) /\ j > Len(v)
    <3>1. h[i - Len(v)] = h[j - Len(v)]
          /\ i - Len(v) \in DOMAIN h /\ j - Len(v) \in DOMAIN h
      BY <1>1, <2>2
    <3>2. i - Len(v) = j - Len(v)
      BY <1>3, <3>1 DEF IsInjective
    <3> QED
      BY <1>1, <3>2
  <2>3. ASSUME NEW m \in 1 .. Len(v), NEW n \in 1 .. Len(v) + Len(h), n > Len(v)
        PROVE  (v \o h)[m] # (v \o h)[n]
    <3>1. (v \o h)[m] \in ToSet(v)
      BY <1>1 DEF ToSet
    <3>2. (v \o h)[n] = h[n - Len(v)] /\ n - Len(v) \in DOMAIN h
      BY <1>1, <2>3
    <3>3. (v \o h)[n] \in ToSet(h)
      BY <3>2 DEF ToSet
    <3> QED
      BY <1>3, <3>1, <3>3
  <2> QED
    BY <1>1, <2>1, <2>2, <2>3
<1> QED
  BY <1>1, <1>2, <1>3

(* The lists of a list, joined one after the other, and when `flat` has    *)
(* what the first i of them come to.                                       *)
Chain(seqs, flat, i) == IF i = 1 THEN seqs[i] ELSE flat[i - 1] \o seqs[i]
Flattens(flat, seqs) == flat = [i \in 1 .. Len(seqs) |-> Chain(seqs, flat, i)]

(* FlattenSeq is well defined.                                             *)
LEMMA FlattenUnfolds ==
  ASSUME NEW S, NEW seqs \in Seq(S), Len(seqs) # 0
  PROVE  \E flat : Flattens(flat, seqs) /\ FlattenSeq(seqs) = flat[Len(seqs)]
<1> DEFINE Upto(flat, n) ==
             \A i \in 1 .. Len(seqs) : i <= n => flat[i] = Chain(seqs, flat, i)
           Deep == {n \in Nat : \E flat : flat = [i \in 1 .. Len(seqs) |-> flat[i]]
                                          /\ Upto(flat, n)}
           step(flat) == [i \in 1 .. Len(seqs) |-> Chain(seqs, flat, i)]
<1>1. 0 \in Deep
  <2> DEFINE flat == [i \in 1 .. Len(seqs) |-> <<>>]
  <2>1. flat = [i \in 1 .. Len(seqs) |-> flat[i]]
    OBVIOUS
  <2>2. \A i \in 1 .. Len(seqs) : ~ (i <= 0)
    OBVIOUS
  <2>3. Upto(flat, 0)
    BY <2>2
  <2> QED
    BY <2>1, <2>3
<1>2. ASSUME NEW n \in Deep PROVE n + 1 \in Deep
  <2>1. PICK flat : Upto(flat, n)
    OBVIOUS
  <2>2. ASSUME NEW i \in 1 .. Len(seqs), i <= n + 1
        PROVE  step(flat)[i] = Chain(seqs, step(flat), i)
    <3>1. CASE i = 1
      BY <3>1 DEF Chain
    <3>2. CASE i # 1
      <4>1. i - 1 \in 1 .. Len(seqs) /\ i - 1 <= n
        BY <2>2, <3>2
      <4>2. flat[i - 1] = step(flat)[i - 1]
        BY <2>1, <4>1
      <4> QED
        BY <3>2, <4>2 DEF Chain
    <3> QED
      BY <3>1, <3>2
  <2>3. Upto(step(flat), n + 1)
    BY <2>2
  <2>4. step(flat) = [i \in 1 .. Len(seqs) |-> step(flat)[i]]
    OBVIOUS
  <2> HIDE DEF step, Upto
  <2> QED
    BY <2>3, <2>4
<1>3. Len(seqs) \in Deep
  <2>1. Deep \in SUBSET Nat /\ Len(seqs) \in Nat
    OBVIOUS
  <2> HIDE DEF Deep
  <2>2. Deep = Nat
    BY <1>1, <1>2, <2>1, SetInduction
  <2> QED
    BY <2>1, <2>2
<1>4. PICK flat : /\ flat = [i \in 1 .. Len(seqs) |-> flat[i]]
                  /\ Upto(flat, Len(seqs))
  BY <1>3
<1>5. Flattens(flat, seqs)
  <2>1. \A i \in 1 .. Len(seqs) : flat[i] = Chain(seqs, flat, i)
    BY <1>4
  <2> QED
    BY <1>4, <2>1 DEF Flattens
<1>6. \E f : Flattens(f, seqs)
  BY <1>5
<1> HIDE DEF Upto, Deep, step
<1> QED
  BY <1>6 DEF FlattenSeq, Flattens, Chain

(* What joining the lists comes to is a list of the same elements.         *)
LEMMA FlattenType ==
  ASSUME NEW S, NEW seqs \in Seq(Seq(S)) PROVE FlattenSeq(seqs) \in Seq(S)
<1>1. CASE Len(seqs) = 0
  BY <1>1 DEF FlattenSeq
<1>2. CASE Len(seqs) # 0
  <2>1. PICK flat : Flattens(flat, seqs) /\ FlattenSeq(seqs) = flat[Len(seqs)]
    BY <1>2, FlattenUnfolds
  <2> DEFINE Typed == {n \in Nat : \A i \in 1 .. Len(seqs) : i <= n => flat[i] \in Seq(S)}
  <2>2. 0 \in Typed
    OBVIOUS
  <2>3. ASSUME NEW n \in Typed PROVE n + 1 \in Typed
    <3> SUFFICES ASSUME NEW i \in 1 .. Len(seqs), i <= n + 1 PROVE flat[i] \in Seq(S)
      OBVIOUS
    <3>1. flat[i] = Chain(seqs, flat, i)
      BY <2>1 DEF Flattens
    <3> HIDE DEF Typed
    <3>3. seqs[i] \in Seq(S)
      OBVIOUS
    <3>2. ASSUME i # 1 PROVE flat[i - 1] \in Seq(S)
      <4>1. i - 1 \in 1 .. Len(seqs) /\ i - 1 <= n
        BY <3>2 DEF Typed
      <4> QED
        BY <4>1 DEF Typed
    <3> QED
      BY <3>1, <3>2, <3>3 DEF Chain
  <2>4. Len(seqs) \in Typed
    <3>1. Typed \in SUBSET Nat /\ Len(seqs) \in Nat
      OBVIOUS
    <3> HIDE DEF Typed
    <3>2. Typed = Nat
      BY <2>2, <2>3, <3>1, SetInduction
    <3> QED
      BY <3>1, <3>2
  <2> QED
    BY <1>2, <2>1, <2>4
<1> QED
  BY <1>1, <1>2

(* A list with one more at its end, by its indices.                        *)
LEMMA AppendIs ==
  ASSUME NEW S, NEW s \in Seq(S), NEW x \in S
  PROVE  Append(s, x) = [i \in 1 .. Len(s) + 1 |-> IF i = Len(s) + 1 THEN x ELSE s[i]]
<1> DEFINE t == [i \in 1 .. Len(s) + 1 |-> IF i = Len(s) + 1 THEN x ELSE s[i]]
<1>1. t \in Seq(S) /\ Len(t) = Len(s) + 1
      /\ \A i \in 1 .. Len(s) + 1 : t[i] = IF i = Len(s) + 1 THEN x ELSE s[i]
  OBVIOUS
<1> HIDE DEF t
<1>2. /\ Append(s, x) \in Seq(S) /\ Len(Append(s, x)) = Len(s) + 1
      /\ \A i \in 1 .. Len(s) + 1 :
           Append(s, x)[i] = IF i = Len(s) + 1 THEN x ELSE s[i]
  OBVIOUS
<1>3. Append(s, x) = t
  BY <1>1, <1>2, SeqEqual
<1> QED
  BY <1>3 DEF t

(* A list more at the end is joined at the end.                            *)
LEMMA FlattenAppend ==
  ASSUME NEW S, NEW seqs \in Seq(Seq(S)), NEW x \in Seq(S)
  PROVE  FlattenSeq(Append(seqs, x)) = FlattenSeq(seqs) \o x
<1> DEFINE more == Append(seqs, x)
           len == Len(seqs)
<1>1. /\ more \in Seq(Seq(S)) /\ len \in Nat /\ Len(more) = len + 1
      /\ \A i \in 1 .. len : more[i] = seqs[i]
      /\ more[len + 1] = x
  OBVIOUS
<1> HIDE DEF more
<1>2. PICK g : Flattens(g, more) /\ FlattenSeq(more) = g[len + 1]
  <2>1. Len(more) # 0
    BY <1>1
  <2> QED
    BY <1>1, <2>1, FlattenUnfolds
<1>3. CASE len = 0
  <2>1. seqs = <<>> /\ FlattenSeq(seqs) = <<>>
    BY <1>3 DEF FlattenSeq
  <2>2. g[1] = x
    BY <1>1, <1>2, <1>3 DEF Flattens, Chain
  <2>3. <<>> \o x = x
    OBVIOUS
  <2> QED
    BY <1>2, <1>3, <2>1, <2>2, <2>3 DEF more
<1>4. CASE len # 0
  <2>1. PICK f : Flattens(f, seqs) /\ FlattenSeq(seqs) = f[len]
    BY <1>4, FlattenUnfolds
  <2> DEFINE Same == {n \in Nat : \A i \in 1 .. len : i <= n => f[i] = g[i]}
  <2>2. 0 \in Same
    OBVIOUS
  <2>3. ASSUME NEW n \in Same PROVE n + 1 \in Same
    <3> SUFFICES ASSUME NEW i \in 1 .. len, i <= n + 1 PROVE f[i] = g[i]
      OBVIOUS
    <3>1. i \in 1 .. Len(seqs) /\ i \in 1 .. Len(more)
      BY <1>1
    <3>2. f[i] = Chain(seqs, f, i) /\ g[i] = Chain(more, g, i)
      BY <1>2, <2>1, <3>1 DEF Flattens
    <3>3. ASSUME i # 1 PROVE f[i - 1] = g[i - 1]
      <4>1. i - 1 \in 1 .. len /\ i - 1 <= n
        BY <1>1, <3>3
      <4> QED
        BY <4>1
    <3> QED
      BY <1>1, <3>2, <3>3 DEF Chain
  <2>4. len \in Same
    <3>1. Same \in SUBSET Nat
      OBVIOUS
    <3> HIDE DEF Same
    <3>2. Same = Nat
      BY <2>2, <2>3, <3>1, SetInduction
    <3> QED
      BY <1>1, <3>2
  <2>5. f[len] = g[len]
    BY <1>1, <1>4, <2>4
  <2>6. g[len + 1] = g[len] \o x
    <3>1. len + 1 \in 1 .. Len(more) /\ len + 1 # 1 /\ (len + 1) - 1 = len
      BY <1>1, <1>4
    <3>2. g[len + 1] = Chain(more, g, len + 1)
      BY <1>2, <3>1 DEF Flattens
    <3> QED
      BY <1>1, <3>1, <3>2 DEF Chain
  <2> QED
    BY <1>2, <2>1, <2>5, <2>6 DEF more
<1> QED
  BY <1>3, <1>4

-----------------------------------------------------------------------------
(* The lifetime of the values.                                             *)

BaseKeys == Base["visible"] \cup Base["hidden"]

AllOver(p) == Overrides(p, "visible") \cup Overrides(p, "hidden")

LoaderStates ==
  [pc : {"idle", "collected", "overriding", "replacing", "done"},
   ovr : Seq(Keys), org : Values \cup {None}, backup : SUBSET Values,
   result : {None, "Invalid", "NoMemory", "NoSpace", "Success"}]

Shape ==
  /\ storage \in [BaseKeys -> Values]
  /\ data \in [Plugins -> [Parts -> SUBSET Keys]]
  /\ slots \in [1 .. PluginMax -> Plugins \cup {None}]
  /\ loader \in [Plugins -> LoaderStates]

(* What a plugin has still to override, it overrides once.                 *)
ToDo ==
  \A p \in Plugins : /\ ToSet(loader[p].ovr) \subseteq AllOver(p)
                     /\ IsInjective(loader[p].ovr)

(* How a submission goes on: the overrides are out of the plugin, the      *)
(* original in its hands is the store's own, and its backups are originals *)
(* it has replaced.                                                        *)
Emptied(p) == \A s \in Parts : data[p][s] \cap AllOver(p) = {}

BackedUp(p) ==
  \A v \in loader[p].backup :
    \E k \in BaseKeys : v = <<Store, k>> /\ storage[k] = <<p, k>>

Submitting(p) ==
  /\ loader[p].pc = "idle" => loader[p].ovr = <<>>
  /\ loader[p].pc # "done" => loader[p].result = None
  /\ loader[p].pc \in {"collected", "overriding", "replacing"} => Emptied(p)
  /\ loader[p].pc = "replacing" =>
       loader[p].ovr # <<>> /\ loader[p].org = <<Store, Head(loader[p].ovr)>>
  /\ BackedUp(p)

Submission == \A p \in Plugins : Submitting(p)

(* Behind each of the store's names is its own value or that of a plugin   *)
(* that got as far as overriding it.                                       *)
Held ==
  \A k \in BaseKeys :
    \/ storage[k] = <<Store, k>>
    \/ \E p \in Plugins :
         /\ storage[k] = <<p, k>> /\ k \in AllOver(p)
         /\ k \notin ToSet(loader[p].ovr)
         /\ loader[p].pc \in {"overriding", "replacing", "done"}
         /\ loader[p].result \in {None, "Success"}

(* A deleted value is an original that was replaced, or one that a refused *)
(* plugin had lost.                                                        *)
Deletion(v) ==
  \/ \E k \in BaseKeys : v = <<Store, k>> /\ storage[k] # v
  \/ \E p \in Plugins, k \in Keys :
       /\ v = <<p, k>>
       /\ loader[p].pc = "done" /\ loader[p].result \in {"NoMemory", "NoSpace"}
       /\ \A s \in Parts : k \notin data[p][s]

Gone == \A v \in freed : Deletion(v)

IInv == Shape /\ ToDo /\ Submission /\ Held /\ Gone

-----------------------------------------------------------------------------
(* Facts about the constants.                                              *)

(* Where the keys are.                                                      *)
LEMMA KeysOK ==
  /\ BaseKeys \subseteq Keys
  /\ \A p \in Plugins : AllOver(p) \subseteq BaseKeys
  /\ \A p \in Plugins, s \in Parts : Offers[p][s] \subseteq Keys
BY DEF BaseKeys, AllOver, Overrides, Keys, Parts

(* What the plugins bring are keys.                                         *)
LEMMA OffersTyped == Offers \in [Plugins -> [Parts -> SUBSET Keys]]
BY KeysOK, ConstantsAssumption

(* No two plugins override the same key.                                   *)
LEMMA OneOverrider ==
  ASSUME NEW p \in Plugins, NEW q \in Plugins, NEW k \in AllOver(p),
         k \in AllOver(q)
  PROVE  p = q
<1>1. PICK s \in Parts : k \in Offers[p][s]
  BY DEF AllOver, Overrides, Parts
<1>2. PICK t \in Parts : k \in Offers[q][t]
  BY DEF AllOver, Overrides, Parts
<1> QED
  BY <1>1, <1>2, ConstantsAssumption

(* A list of keys in order: each of them once, and the search finds those. *)
LEMMA SortedKeys ==
  ASSUME NEW names \in SUBSET Keys
  PROVE  /\ Sorted(names) \in Seq(Keys) /\ ToSet(Sorted(names)) = names
         /\ IsInjective(Sorted(names))
         /\ \A key \in Keys : SearchIn(Sorted(names), key) # 0 <=> key \in names
<1>1. names \in SUBSET Nat /\ IsFiniteSet(names)
  BY ConstantsAssumption, FS_Subset
<1>2. /\ Sorted(names) \in Seq(names) /\ ToSet(Sorted(names)) = names
      /\ Increasing(Sorted(names)) /\ IsInjective(Sorted(names))
  BY <1>1, SortedNames
<1>3. Sorted(names) \in Seq(Keys) /\ Sorted(names) \in Seq(Nat)
  BY <1>1, <1>2, SeqMonotonic
<1>4. ASSUME NEW key \in Keys
      PROVE  SearchIn(Sorted(names), key) # 0 <=> key \in names
  <2>1. key \in Nat
    BY ConstantsAssumption
  <2> QED
    BY <1>2, <1>3, <2>1, SearchFinds
<1> QED
  BY <1>2, <1>3, <1>4

(* The overrides are collected once each.                                  *)
LEMMA CollectedOnce ==
  ASSUME NEW p \in Plugins
  PROVE  /\ AllOverrides(p) \in Seq(Keys)
         /\ ToSet(AllOverrides(p)) = AllOver(p)
         /\ IsInjective(AllOverrides(p))
<1> DEFINE v == Sorted(Overrides(p, "visible"))
           h == Sorted(Overrides(p, "hidden"))
<1>1. /\ Overrides(p, "visible") \in SUBSET Keys
      /\ Overrides(p, "hidden") \in SUBSET Keys
  BY KeysOK DEF AllOver, BaseKeys
<1>2. /\ v \in Seq(Keys) /\ h \in Seq(Keys)
      /\ ToSet(v) = Overrides(p, "visible") /\ ToSet(h) = Overrides(p, "hidden")
      /\ IsInjective(v) /\ IsInjective(h)
  BY <1>1, SortedKeys
<1>3. ToSet(v) \cap ToSet(h) = {}
  BY <1>2, ConstantsAssumption DEF Overrides
<1>4. AllOverrides(p) = v \o h
  BY DEF AllOverrides
<1> HIDE DEF v, h
<1> QED
  BY <1>2, <1>3, <1>4, Joined DEF AllOver

(* Taking the first of what is to do leaves the others, each still once.   *)
LEMMA TailToDo ==
  ASSUME NEW ovr \in Seq(Keys), ovr # <<>>, IsInjective(ovr)
  PROVE  /\ Head(ovr) \in ToSet(ovr) /\ Tail(ovr) \in Seq(Keys)
         /\ ToSet(Tail(ovr)) \subseteq ToSet(ovr)
         /\ Head(ovr) \notin ToSet(Tail(ovr)) /\ IsInjective(Tail(ovr))
<1>1. /\ Len(ovr) \in Nat /\ Len(ovr) >= 1 /\ DOMAIN ovr = 1 .. Len(ovr)
      /\ Head(ovr) = ovr[1] /\ Tail(ovr) \in Seq(Keys)
      /\ DOMAIN Tail(ovr) = 1 .. Len(ovr) - 1
      /\ \A i \in 1 .. Len(ovr) - 1 : Tail(ovr)[i] = ovr[i + 1]
  OBVIOUS
<1>2. \A i \in 1 .. Len(ovr) - 1 : i + 1 \in 1 .. Len(ovr) /\ i + 1 # 1
  BY <1>1
<1>3. ToSet(Tail(ovr)) \subseteq ToSet(ovr) /\ Head(ovr) \in ToSet(ovr)
  BY <1>1, <1>2 DEF ToSet
<1>4. Head(ovr) \notin ToSet(Tail(ovr))
  BY <1>1, <1>2 DEF ToSet, IsInjective
<1>5. IsInjective(Tail(ovr))
  <2> SUFFICES ASSUME NEW i \in 1 .. Len(ovr) - 1, NEW j \in 1 .. Len(ovr) - 1,
                      Tail(ovr)[i] = Tail(ovr)[j]
               PROVE  i = j
    BY <1>1 DEF IsInjective
  <2>1. i + 1 = j + 1
    BY <1>1, <1>2 DEF IsInjective
  <2> QED
    BY <2>1
<1> QED
  BY <1>1, <1>3, <1>4, <1>5

-----------------------------------------------------------------------------
(* The steps of a submission.                                              *)

(* A step of another plugin, and one that replaces only values of the      *)
(* store, leave a submission as it is.                                     *)
LEMMA OthersKeep ==
  ASSUME NEW q \in Plugins, Submitting(q), loader'[q] = loader[q],
         Emptied(q) => Emptied(q)', BackedUp(q)'
  PROVE  Submitting(q)'
BY DEF Submitting

(* Its backups, when no value is replaced.                                  *)
LEMMA BackupsKept ==
  ASSUME NEW q \in Plugins, BackedUp(q), loader'[q].backup = loader[q].backup,
         storage' = storage
  PROVE  BackedUp(q)'
BY DEF BackedUp

(* Its storages, when nothing is added to them.                             *)
LEMMA EmptiedKept ==
  ASSUME NEW q \in Plugins, Emptied(q), \A s \in Parts : data'[q][s] \subseteq data[q][s]
  PROVE  Emptied(q)'
BY DEF Emptied

(* The invariant holds at first.                                            *)
LEMMA InitInv == Init => IInv
<1> SUFFICES ASSUME Init PROVE IInv
  OBVIOUS
<1> USE KeysOK, ConstantsAssumption DEF Init
<1>1. Shape
  <2>1. storage \in [BaseKeys -> Values]
    BY DEF BaseKeys, Values
  <2>2. data \in [Plugins -> [Parts -> SUBSET Keys]]
    BY OffersTyped
  <2>3. loader \in [Plugins -> LoaderStates]
    BY DEF LoaderStates
  <2> QED
    BY <2>1, <2>2, <2>3 DEF Shape
<1>2. ToDo
  BY DEF ToDo, ToSet, IsInjective
<1>3. Submission /\ Held /\ Gone
  BY DEF Submission, Submitting, BackedUp, Held, Gone, BaseKeys
<1> QED
  BY <1>1, <1>2, <1>3 DEF IInv

(* A plugin that has ended with an error has lost no more than the values  *)
(* that are deleted.                                                       *)
LEMMA RefusedKeeps ==
  ASSUME IInv, NEW p \in Plugins,
         RefuseVersion(p) \/ CollectFails(p) \/ NoSpace(p)
  PROVE  IInv'
<1> USE DEF IInv
<1>1. PICK result \in {"Invalid", "NoMemory", "NoSpace"}, taken \in SUBSET Keys :
        /\ loader' = [loader EXCEPT ![p].pc = "done", ![p].result = result]
        /\ data' = [data EXCEPT ![p] = Remaining(p, taken)]
                \/ (data' = data /\ \A s \in Parts : data[p][s] \cap taken = {})
        /\ freed' = freed \cup OwnValues(p, taken)
        /\ result = "Invalid" => taken = {}
  <2>1. CASE RefuseVersion(p)
    <3>1. freed' = freed \cup OwnValues(p, {})
      BY <2>1 DEF RefuseVersion, OwnValues
    <3> QED
      BY <2>1, <3>1 DEF RefuseVersion, Finish
  <2>2. CASE CollectFails(p)
    <3>1. PICK n \in 0 .. Len(AllOverrides(p)) - 1 :
            LET taken == ToSet(SubSeq(AllOverrides(p), 1, n))
            IN /\ data' = [data EXCEPT ![p] = Remaining(p, taken)]
               /\ freed' = freed \cup OwnValues(p, taken)
      BY <2>2 DEF CollectFails
    <3>2. ToSet(SubSeq(AllOverrides(p), 1, n)) \subseteq Keys
      <4>1. AllOverrides(p) \in Seq(Keys) /\ n \in 0 .. Len(AllOverrides(p))
        BY CollectedOnce
      <4>2. SubSeq(AllOverrides(p), 1, n) \in Seq(Keys)
        BY <4>1
      <4> QED
        BY <4>2 DEF ToSet
    <3> QED
      BY <2>2, <3>1, <3>2 DEF CollectFails, Finish
  <2>3. CASE NoSpace(p)
    <3>1. ToSet(loader[p].ovr) \subseteq AllOver(p) /\ AllOver(p) \subseteq Keys
      BY KeysOK DEF ToDo
    <3>2. \A s \in Parts : data[p][s] \cap ToSet(loader[p].ovr) = {}
      BY <2>3, <3>1 DEF NoSpace, Submission, Submitting, Emptied
    <3> QED
      BY <2>3, <3>1, <3>2 DEF NoSpace, Finish
  <2> QED
    BY <2>1, <2>2, <2>3
<1>2. /\ loader[p].pc \in {"idle", "collected"} /\ storage' = storage
      /\ slots' = slots
  BY DEF RefuseVersion, CollectFails, NoSpace
<1>3. /\ loader' \in [Plugins -> LoaderStates]
      /\ loader'[p].pc = "done" /\ loader'[p].result = result
      /\ loader'[p].ovr = loader[p].ovr /\ loader'[p].backup = loader[p].backup
      /\ \A q \in Plugins \ {p} : loader'[q] = loader[q]
  BY <1>1 DEF Shape, LoaderStates
<1>4. /\ data' \in [Plugins -> [Parts -> SUBSET Keys]]
      /\ \A q \in Plugins, s \in Parts : data'[q][s] \subseteq data[q][s]
      /\ \A s \in Parts : data'[p][s] \cap taken = {}
  <2>1. data \in [Plugins -> [Parts -> SUBSET Keys]]
    BY DEF Shape
  <2>2. CASE data' = data /\ \A s \in Parts : data[p][s] \cap taken = {}
    BY <2>1, <2>2
  <2>3. CASE data' = [data EXCEPT ![p] = Remaining(p, taken)]
    <3>1. /\ Remaining(p, taken) \in [Parts -> SUBSET Keys]
          /\ \A s \in Parts : Remaining(p, taken)[s] = data[p][s] \ taken
      BY <2>1 DEF Remaining
    <3> QED
      BY <2>1, <2>3, <3>1
  <2> QED
    BY <1>1, <2>2, <2>3
<1>5. Shape' /\ ToDo'
  <2>1. Shape'
    BY <1>2, <1>3, <1>4 DEF Shape
  <2>2. ToDo'
    BY <1>3 DEF ToDo
  <2> QED
    BY <2>1, <2>2
<1>6. Submission'
  <2>1. ASSUME NEW q \in Plugins \ {p} PROVE Submitting(q)'
    BY <1>2, <1>3, <1>4, OthersKeep, BackupsKept, EmptiedKept DEF Submission, Submitting
  <2>2. BackedUp(p)'
    BY <1>2, <1>3, BackupsKept DEF Submission, Submitting
  <2>3. Submitting(p)'
    BY <1>3, <2>2 DEF Submission, Submitting, Emptied
  <2> QED
    BY <2>1, <2>3 DEF Submission
<1>7. Held'
  BY <1>2, <1>3 DEF Held
<1>8. Gone'
  <2>1. ASSUME NEW v \in freed PROVE Deletion(v)'
    <3>1. loader[p].pc # "done"
      BY <1>2
    <3>2. Deletion(v)
      BY DEF Gone
    <3> QED
      BY <1>2, <1>3, <1>4, <3>1, <3>2 DEF Deletion
  <2>2. ASSUME NEW v \in OwnValues(p, taken) PROVE Deletion(v)'
    <3>1. PICK k \in taken : v = <<p, k>>
      BY <2>2 DEF OwnValues
    <3>2. result \in {"NoMemory", "NoSpace"}
      BY <1>1, <3>1
    <3>3. \A s \in Parts : k \notin data'[p][s]
      BY <1>4, <3>1
    <3> QED
      BY <1>1, <1>3, <3>1, <3>2, <3>3 DEF Deletion
  <2> QED
    BY <1>1, <2>1, <2>2 DEF Gone
<1> QED
  BY <1>5, <1>6, <1>7, <1>8

(* The overrides go out of the plugin before it can be found.              *)
LEMMA CollectKeeps ==
  ASSUME IInv, NEW p \in Plugins, Collect(p) PROVE IInv'
<1> USE DEF IInv
<1>1. /\ loader[p].pc = "idle"
      /\ data' = [data EXCEPT ![p] = Remaining(p, AllOver(p))]
      /\ loader' = [loader EXCEPT ![p].pc = "collected", ![p].ovr = AllOverrides(p)]
      /\ storage' = storage /\ slots' = slots /\ freed' = freed
  BY CollectedOnce DEF Collect
<1>2. /\ loader' \in [Plugins -> LoaderStates]
      /\ loader'[p].pc = "collected" /\ loader'[p].result = loader[p].result
      /\ loader'[p].ovr = AllOverrides(p) /\ loader'[p].backup = loader[p].backup
      /\ \A q \in Plugins \ {p} : loader'[q] = loader[q]
  BY <1>1, CollectedOnce DEF Shape, LoaderStates
<1>3. /\ data' \in [Plugins -> [Parts -> SUBSET Keys]]
      /\ \A q \in Plugins, s \in Parts : data'[q][s] \subseteq data[q][s]
      /\ \A s \in Parts : data'[p][s] \cap AllOver(p) = {}
  BY <1>1 DEF Shape, Remaining
<1>4. Shape'
  BY <1>1, <1>2, <1>3 DEF Shape
<1>5. ToDo'
  BY <1>2, CollectedOnce DEF ToDo
<1>6. Submission'
  <2>1. ASSUME NEW q \in Plugins \ {p} PROVE Submitting(q)'
    BY <1>1, <1>2, <1>3, OthersKeep, BackupsKept, EmptiedKept DEF Submission, Submitting
  <2>2. BackedUp(p)'
    BY <1>1, <1>2, BackupsKept DEF Submission, Submitting
  <2>3. Submitting(p)'
    BY <1>1, <1>2, <1>3, <2>2 DEF Submission, Submitting, Emptied
  <2> QED
    BY <2>1, <2>3 DEF Submission
<1>7. Held'
  BY <1>1, <1>2 DEF Held
<1>8. Gone'
  BY <1>1, <1>2, <1>3 DEF Gone, Deletion
<1> QED
  BY <1>4, <1>5, <1>6, <1>7, <1>8

(* Taking a slot.                                                           *)
LEMMA PublishKeeps ==
  ASSUME IInv, NEW p \in Plugins, Publish(p) PROVE IInv'
<1> USE DEF IInv
<1>1. /\ loader[p].pc = "collected"
      /\ loader' = [loader EXCEPT ![p].pc = "overriding"]
      /\ slots' \in [1 .. PluginMax -> Plugins \cup {None}]
      /\ storage' = storage /\ data' = data /\ freed' = freed
  BY DEF Publish, Step, Shape
<1>2. /\ loader' \in [Plugins -> LoaderStates]
      /\ loader'[p].pc = "overriding" /\ loader'[p].result = loader[p].result
      /\ loader'[p].ovr = loader[p].ovr /\ loader'[p].backup = loader[p].backup
      /\ \A q \in Plugins \ {p} : loader'[q] = loader[q]
  BY <1>1 DEF Shape, LoaderStates
<1>3. Shape' /\ ToDo'
  BY <1>1, <1>2 DEF Shape, ToDo
<1>4. Submission'
  <2>1. ASSUME NEW q \in Plugins \ {p} PROVE Submitting(q)'
    BY <1>1, <1>2, OthersKeep, BackupsKept, EmptiedKept DEF Submission, Submitting
  <2>2. BackedUp(p)'
    BY <1>1, <1>2, BackupsKept DEF Submission, Submitting
  <2>3. Submitting(p)'
    BY <1>1, <1>2, <2>2 DEF Submission, Submitting, Emptied
  <2> QED
    BY <2>1, <2>3 DEF Submission
<1>5. Held'
  BY <1>1, <1>2 DEF Held
<1>6. Gone'
  BY <1>1, <1>2 DEF Gone, Deletion
<1> QED
  BY <1>3, <1>4, <1>5, <1>6

(* What is loaded is the store's own value: nobody else overrides the key. *)
LEMMA OriginalIsOwn ==
  ASSUME IInv, NEW p \in Plugins, loader[p].ovr # <<>>
  PROVE  /\ Head(loader[p].ovr) \in AllOver(p)
         /\ storage[Head(loader[p].ovr)] = <<Store, Head(loader[p].ovr)>>
<1> DEFINE k == Head(loader[p].ovr)
<1>1. k \in ToSet(loader[p].ovr) /\ k \in AllOver(p)
  BY TailToDo DEF IInv, Shape, LoaderStates, ToDo
<1>2. k \in BaseKeys
  BY <1>1, KeysOK
<1>3. ASSUME NEW q \in Plugins, storage[k] = <<q, k>>, k \in AllOver(q),
             k \notin ToSet(loader[q].ovr)
      PROVE  FALSE
  BY <1>1, <1>3, OneOverrider
<1> QED
  BY <1>1, <1>2, <1>3 DEF IInv, Held

(* Loading the value that will be replaced.                                 *)
LEMMA LoadOriginalKeeps ==
  ASSUME IInv, NEW p \in Plugins, LoadOriginal(p) PROVE IInv'
<1> USE DEF IInv
<1> DEFINE k == Head(loader[p].ovr)
<1>1. /\ loader[p].pc = "overriding" /\ loader[p].ovr # <<>>
      /\ loader' = [loader EXCEPT ![p].pc = "replacing", ![p].org = storage[k]]
      /\ storage' = storage /\ data' = data /\ freed' = freed /\ slots' = slots
  BY DEF LoadOriginal
<1>2. k \in AllOver(p) /\ storage[k] = <<Store, k>> /\ storage[k] \in Values
  BY <1>1, OriginalIsOwn, KeysOK DEF Shape
<1> HIDE DEF k
<1>3. /\ loader' \in [Plugins -> LoaderStates]
      /\ loader'[p].pc = "replacing" /\ loader'[p].result = loader[p].result
      /\ loader'[p].ovr = loader[p].ovr /\ loader'[p].backup = loader[p].backup
      /\ loader'[p].org = <<Store, k>>
      /\ \A q \in Plugins \ {p} : loader'[q] = loader[q]
  BY <1>1, <1>2 DEF Shape, LoaderStates
<1>4. Shape' /\ ToDo'
  BY <1>1, <1>3 DEF Shape, ToDo
<1>5. Submission'
  <2>1. ASSUME NEW q \in Plugins \ {p} PROVE Submitting(q)'
    BY <1>1, <1>3, OthersKeep, BackupsKept, EmptiedKept DEF Submission, Submitting
  <2>2. BackedUp(p)'
    BY <1>1, <1>3, BackupsKept DEF Submission, Submitting
  <2>3. Submitting(p)'
    BY <1>1, <1>3, <2>2 DEF Submission, Submitting, Emptied, k
  <2> QED
    BY <2>1, <2>3 DEF Submission
<1>6. Held'
  BY <1>1, <1>3 DEF Held
<1>7. Gone'
  BY <1>1, <1>3 DEF Gone, Deletion
<1> QED
  BY <1>4, <1>5, <1>6, <1>7

(* The original is a backup from the moment it can not be found any more.  *)
LEMMA StoreNewKeeps ==
  ASSUME IInv, NEW p \in Plugins, StoreNew(p) PROVE IInv'
<1> USE DEF IInv
<1> DEFINE k == Head(loader[p].ovr)
<1>1. /\ loader[p].pc = "replacing" /\ loader[p].ovr # <<>>
      /\ loader[p].org = <<Store, k>>
      /\ storage' = [storage EXCEPT ![k] = <<p, k>>]
      /\ loader' = [loader EXCEPT ![p].pc = "overriding",
                                  ![p].ovr = Tail(loader[p].ovr), ![p].org = None,
                                  ![p].backup = @ \cup {loader[p].org}]
      /\ data' = data /\ freed' = freed /\ slots' = slots
  BY DEF StoreNew, Replaced, Submission, Submitting
<1>2. /\ k \in AllOver(p) /\ storage[k] = <<Store, k>> /\ k \in BaseKeys
      /\ k \in Keys /\ <<p, k>> \in Values /\ <<Store, k>> \in Values
  BY <1>1, OriginalIsOwn, KeysOK DEF Values
<1>3. /\ Tail(loader[p].ovr) \in Seq(Keys) /\ k \notin ToSet(Tail(loader[p].ovr))
      /\ ToSet(Tail(loader[p].ovr)) \subseteq ToSet(loader[p].ovr)
      /\ IsInjective(Tail(loader[p].ovr))
  BY <1>1, TailToDo DEF Shape, LoaderStates, ToDo
<1> HIDE DEF k
<1>4. /\ loader' \in [Plugins -> LoaderStates]
      /\ loader'[p].pc = "overriding" /\ loader'[p].result = loader[p].result
      /\ loader'[p].ovr = Tail(loader[p].ovr)
      /\ loader'[p].backup = loader[p].backup \cup {<<Store, k>>}
      /\ \A q \in Plugins \ {p} : loader'[q] = loader[q]
  <2>1. loader \in [Plugins -> LoaderStates] /\ loader[p].backup \in SUBSET Values
    BY DEF Shape, LoaderStates
  <2>2. loader[p].backup \cup {loader[p].org} \in SUBSET Values
    BY <1>1, <1>2, <2>1
  <2> DEFINE new == [loader[p] EXCEPT !.pc = "overriding",
                       !.ovr = Tail(loader[p].ovr), !.org = None,
                       !.backup = loader[p].backup \cup {loader[p].org}]
  <2>3. new \in LoaderStates
    BY <1>3, <2>1, <2>2 DEF LoaderStates
  <2>4. new.pc = "overriding" /\ new.result = loader[p].result
        /\ new.ovr = Tail(loader[p].ovr)
        /\ new.backup = loader[p].backup \cup {<<Store, k>>}
    BY <1>1, <2>1 DEF LoaderStates
  <2>5. loader' = [loader EXCEPT ![p] = new]
    BY <1>1, <2>1
  <2> HIDE DEF new
  <2> QED
    BY <2>1, <2>3, <2>4, <2>5
<1>5. /\ storage' \in [BaseKeys -> Values] /\ storage'[k] = <<p, k>>
      /\ \A j \in BaseKeys \ {k} : storage'[j] = storage[j]
  BY <1>1, <1>2 DEF Shape
<1>6. Shape' /\ ToDo'
  BY <1>1, <1>3, <1>4, <1>5 DEF Shape, ToDo
<1>7. \A q \in Plugins \ {p} : k \notin AllOver(q)
  BY <1>2, OneOverrider
<1>8. Submission'
  <2>1. ASSUME NEW q \in Plugins, NEW v \in loader'[q].backup
        PROVE  \E j \in BaseKeys : v = <<Store, j>> /\ storage'[j] = <<q, j>>
    <3>1. CASE v \in loader[q].backup
      <4>1. PICK j \in BaseKeys : v = <<Store, j>> /\ storage[j] = <<q, j>>
        BY <3>1 DEF Submission, Submitting, BackedUp
      <4>2. j # k
        BY <1>2, <4>1, ConstantsAssumption
      <4> QED
        BY <1>5, <4>1, <4>2
    <3>2. CASE q = p /\ v = <<Store, k>>
      BY <1>2, <1>5, <3>2
    <3> QED
      BY <1>4, <2>1, <3>1, <3>2
  <2>2. \A q \in Plugins : BackedUp(q)'
    BY <2>1 DEF BackedUp
  <2>3. ASSUME NEW q \in Plugins \ {p} PROVE Submitting(q)'
    BY <1>1, <1>4, <2>2, OthersKeep DEF Submission, Emptied
  <2>4. Submitting(p)'
    BY <1>1, <1>4, <2>2 DEF Submission, Submitting, Emptied
  <2> QED
    BY <2>3, <2>4 DEF Submission
<1>9. Held'
  <2>1. loader[p].result = None
    BY <1>1 DEF Submission, Submitting
  <2>2. ASSUME NEW j \in BaseKeys, j # k, NEW q \in Plugins,
               storage[j] = <<q, j>>, j \in AllOver(q), j \notin ToSet(loader[q].ovr),
               loader[q].pc \in {"overriding", "replacing", "done"},
               loader[q].result \in {None, "Success"}
        PROVE  /\ storage'[j] = <<q, j>> /\ j \notin ToSet(loader'[q].ovr)
               /\ loader'[q].pc \in {"overriding", "replacing", "done"}
               /\ loader'[q].result \in {None, "Success"}
    BY <1>3, <1>4, <1>5, <2>2
  <2>3. ASSUME NEW j \in BaseKeys, j # k, storage[j] = <<Store, j>>
        PROVE  storage'[j] = <<Store, j>>
    BY <1>5, <2>3
  <2> QED
    BY <1>2, <1>3, <1>4, <1>5, <2>1, <2>2, <2>3 DEF Held
<1>10. Gone'
  <2> SUFFICES ASSUME NEW v \in freed PROVE Deletion(v)'
    BY <1>1 DEF Gone
  <2>1. Deletion(v)
    BY DEF Gone
  <2>2. ASSUME NEW j \in BaseKeys, v = <<Store, j>>, storage[j] # v
        PROVE  storage'[j] # v
    BY <1>2, <1>5, <2>2
  <2>3. ASSUME NEW q \in Plugins, loader[q].pc = "done"
        PROVE  loader'[q] = loader[q]
    BY <1>1, <1>4, <2>3
  <2> QED
    BY <1>1, <2>1, <2>2, <2>3 DEF Deletion
<1> QED
  BY <1>6, <1>8, <1>9, <1>10

(* What is deleted at the end are originals that were replaced.            *)
LEMMA CompleteKeeps ==
  ASSUME IInv, NEW p \in Plugins, Complete(p) PROVE IInv'
<1> USE DEF IInv
<1>1. /\ loader[p].pc = "overriding" /\ loader[p].ovr = <<>>
      /\ freed' = freed \cup loader[p].backup
      /\ loader' = [loader EXCEPT ![p].pc = "done", ![p].result = "Success",
                                  ![p].backup = {}]
      /\ storage' = storage /\ data' = data /\ slots' = slots
  BY DEF Complete, Deleted
<1>2. /\ loader' \in [Plugins -> LoaderStates]
      /\ loader'[p].pc = "done" /\ loader'[p].result = "Success"
      /\ loader'[p].ovr = loader[p].ovr /\ loader'[p].backup = {}
      /\ \A q \in Plugins \ {p} : loader'[q] = loader[q]
  <2> DEFINE new == [loader[p] EXCEPT !.pc = "done", !.result = "Success",
                                      !.backup = {}]
  <2>1. loader \in [Plugins -> LoaderStates]
    BY DEF Shape
  <2>2. /\ new \in LoaderStates /\ new.pc = "done" /\ new.result = "Success"
        /\ new.ovr = loader[p].ovr /\ new.backup = {}
    BY <2>1 DEF LoaderStates
  <2>3. loader' = [loader EXCEPT ![p] = new]
    BY <1>1, <2>1
  <2> HIDE DEF new
  <2> QED
    BY <2>1, <2>2, <2>3
<1>3. Shape' /\ ToDo'
  BY <1>1, <1>2 DEF Shape, ToDo
<1>4. Submission'
  <2>1. ASSUME NEW q \in Plugins \ {p} PROVE Submitting(q)'
    BY <1>1, <1>2, OthersKeep, BackupsKept, EmptiedKept DEF Submission, Submitting
  <2>2. BackedUp(p)'
    BY <1>2 DEF BackedUp
  <2>3. Submitting(p)'
    BY <1>2, <2>2 DEF Submission, Submitting, Emptied
  <2> QED
    BY <2>1, <2>3 DEF Submission
<1>5. Held'
  BY <1>1, <1>2 DEF Held
<1>6. Gone'
  <2>1. ASSUME NEW v \in freed PROVE Deletion(v)'
    <3>1. Deletion(v)
      BY DEF Gone
    <3> QED
      BY <1>1, <1>2, <3>1 DEF Deletion
  <2>2. ASSUME NEW v \in loader[p].backup PROVE Deletion(v)'
    <3>1. PICK k \in BaseKeys : v = <<Store, k>> /\ storage[k] = <<p, k>>
      BY <2>2 DEF Submission, Submitting, BackedUp
    <3>2. storage[k] # v
      BY <3>1, ConstantsAssumption
    <3> QED
      BY <1>1, <3>1, <3>2 DEF Deletion
  <2> QED
    BY <1>1, <2>1, <2>2 DEF Gone
<1> QED
  BY <1>3, <1>4, <1>5, <1>6

(* The driver's accesses change nothing that is stored.                    *)
LEMMA AccessLeaves ==
  ASSUME IInv, Access \/ UNCHANGED vars PROVE IInv'
<1>1. UNCHANGED <<storage, data, slots, loader, freed>>
  BY DEF Access, Begin, LoadValue, Refuse, ReadAccess, Copy, Update, Inform,
         NameByIndex, vars
<1>2. Shape' /\ ToDo'
  BY <1>1 DEF IInv, Shape, ToDo
<1>3. Submission'
  BY <1>1, OthersKeep, BackupsKept, EmptiedKept DEF IInv, Submission, Submitting
<1>4. Held' /\ Gone'
  BY <1>1 DEF IInv, Held, Gone, Deletion
<1> QED
  BY <1>2, <1>3, <1>4 DEF IInv

-----------------------------------------------------------------------------
(* Where plugins are found, and what of theirs.                            *)

(* A plugin is in a slot from the exchange that takes it on: one slot each, *)
(* and no empty one before.                                                *)
Published(p) ==
  loader[p].pc \in {"overriding", "replacing"} \/ loader[p].result = "Success"

InSlots ==
  /\ \A i, j \in 1 .. PluginMax : slots[i] = slots[j] /\ i # j => slots[i] = None
  /\ \A i, j \in 1 .. PluginMax : slots[j] # None /\ i < j => slots[i] # None
  /\ \A p \in Plugins : (\E i \in 1 .. PluginMax : slots[i] = p) <=> Published(p)

(* A plugin that can be found holds what it brought but for its overrides. *)
Stocked(p) ==
  /\ \A s \in Parts : data[p][s] \subseteq Offers[p][s]
  /\ loader[p].pc = "idle" => data[p] = Offers[p]
  /\ loader[p].pc = "collected" \/ Published(p) =>
       \A s \in Parts : data[p][s] = Offers[p][s] \ AllOver(p)

(* Its overrides stand behind the store's names, those excepted that are   *)
(* still to do, and none is when the submission has succeeded.             *)
Overriding(p) ==
  /\ loader[p].pc = "collected" => ToSet(loader[p].ovr) = AllOver(p)
  /\ loader[p].result = "Success" => loader[p].pc = "done" /\ loader[p].ovr = <<>>
  /\ Published(p) =>
       \A k \in AllOver(p) \ ToSet(loader[p].ovr) : storage[k] = <<p, k>>

Layout == InSlots /\ \A p \in Plugins : Stocked(p) /\ Overriding(p)

(* The list of names holds each visible name once.                         *)
Listed == Names \in Seq(Keys) /\ ToSet(Names) = Visible /\ IsInjective(Names)

(* The driver's access.                                                    *)
DriverStates ==
  [pc : {"idle", "found", "loaded", "answer"},
   op : {None, "read", "write", "info", "name"}, key : Keys \cup {None},
   holder : Plugins \cup {Store, None}, value : Values \cup {None},
   since : SUBSET Plugins, count : Nat]

(* What it looked up exists, and what it was told of names and their       *)
(* number stays true, since the list only grows.                           *)
Lasting ==
  /\ driver \in DriverStates /\ unlocked \in BOOLEAN
  /\ driver.pc = "found" =>
       /\ driver.key \in Keys
       /\ driver.holder # Store => driver.holder \in Plugins
       /\ driver.holder = Store => driver.key \in BaseKeys
  /\ driver.op = "name" => driver.key \in Visible
  /\ driver.count <= Len(Names)

(* It is on its way to the value of the plugin that owns the key, when that *)
(* submission had succeeded before the access began.                       *)
Aimed ==
  /\ driver.since \subseteq Ready
  /\ driver.pc # "idle" /\ driver.op # "name" =>
       \A p \in driver.since, s \in Parts : driver.key \in Offers[p][s] =>
         /\ driver.pc = "found" => Pointer(driver.holder, driver.key) = <<p, driver.key>>
         /\ driver.pc \in {"loaded", "answer"} => driver.value = <<p, driver.key>>

KInv == IInv /\ Layout /\ Listed /\ Lasting /\ Aimed

(* The invariant holds at first.                                            *)
LEMMA InitLayout == Init => Layout
BY ConstantsAssumption
   DEF Init, Layout, InSlots, Published, Stocked, Overriding

(* What a step of a submission leaves of the others: they stay where they  *)
(* are, and a value replaced behind one of their names would be their own. *)
LEMMA OthersLaid ==
  ASSUME NEW p \in Plugins, NEW q \in Plugins, Stocked(q), Overriding(q),
         loader'[q] = loader[q], data'[q] = data[q],
         \A k \in AllOver(q) : storage'[k] = storage[k]
  PROVE  Stocked(q)' /\ Overriding(q)'
BY DEF Stocked, Overriding, Published

(* A plugin that is turned away was in no slot and takes none.             *)
LEMMA RefusedLayout ==
  ASSUME IInv, Layout, NEW p \in Plugins,
         RefuseVersion(p) \/ CollectFails(p) \/ NoSpace(p)
  PROVE  Layout'
<1>1. /\ loader[p].pc \in {"idle", "collected"} /\ loader'[p].pc = "done"
      /\ loader'[p].result \in {"Invalid", "NoMemory", "NoSpace"}
      /\ \A q \in Plugins \ {p} : loader'[q] = loader[q] /\ data'[q] = data[q]
      /\ \A s \in Parts : data'[p][s] \subseteq data[p][s]
      /\ storage' = storage /\ slots' = slots /\ loader[p].result = None
  BY DEF IInv, Shape, LoaderStates, RefuseVersion, CollectFails, NoSpace, Finish,
         Remaining, Submission, Submitting
<1>2. \A q \in Plugins : Published(q)' <=> Published(q)
  BY <1>1, ConstantsAssumption DEF Published
<1>3. InSlots'
  BY <1>1, <1>2 DEF Layout, InSlots
<1>4. ASSUME NEW q \in Plugins \ {p} PROVE Stocked(q)' /\ Overriding(q)'
  BY <1>1, OthersLaid DEF Layout
<1>5. Stocked(p)' /\ Overriding(p)'
  BY <1>1, ConstantsAssumption DEF Layout, Stocked, Overriding, Published
<1> QED
  BY <1>3, <1>4, <1>5 DEF Layout

(* The overrides are taken out of what the plugin brought.                 *)
LEMMA CollectLayout ==
  ASSUME IInv, Layout, NEW p \in Plugins, Collect(p) PROVE Layout'
<1>1. /\ loader[p].pc = "idle" /\ loader'[p].pc = "collected"
      /\ loader'[p].result = None /\ loader[p].result = None
      /\ ToSet(loader'[p].ovr) = AllOver(p)
      /\ \A q \in Plugins \ {p} : loader'[q] = loader[q] /\ data'[q] = data[q]
      /\ \A s \in Parts : data'[p][s] = data[p][s] \ AllOver(p)
      /\ storage' = storage /\ slots' = slots
  BY CollectedOnce
     DEF IInv, Shape, LoaderStates, Collect, Remaining, Submission, Submitting
<1>2. \A q \in Plugins : Published(q)' <=> Published(q)
  BY <1>1, ConstantsAssumption DEF Published
<1>3. InSlots'
  BY <1>1, <1>2 DEF Layout, InSlots
<1>4. ASSUME NEW q \in Plugins \ {p} PROVE Stocked(q)' /\ Overriding(q)'
  BY <1>1, OthersLaid DEF Layout
<1>5. Stocked(p)'
  BY <1>1 DEF Layout, Stocked
<1>6. Overriding(p)'
  BY <1>1, ConstantsAssumption DEF Overriding, Published
<1> QED
  BY <1>3, <1>4, <1>5, <1>6 DEF Layout

(* The slot taken is the first empty one, and the plugin is in no other.   *)
LEMMA PublishLayout ==
  ASSUME IInv, Layout, NEW p \in Plugins, Publish(p) PROVE Layout'
<1>1. PICK i \in 1 .. PluginMax :
        TakesSlot(i) /\ slots' = [slots EXCEPT ![i] = p]
  BY DEF Publish
<1>2. /\ loader[p].pc = "collected" /\ loader'[p].pc = "overriding"
      /\ loader'[p].ovr = loader[p].ovr /\ loader'[p].result = None
      /\ loader[p].result = None
      /\ \A q \in Plugins \ {p} : loader'[q] = loader[q]
      /\ storage' = storage /\ data' = data
  BY DEF IInv, Shape, LoaderStates, Publish, Step, Submission, Submitting
<1>3. /\ slots'[i] = p /\ slots[i] = None /\ p # None
      /\ \A j \in 1 .. PluginMax : j # i => slots'[j] = slots[j]
      /\ \A j \in 1 .. i - 1 : slots[j] # None
  BY <1>1, ConstantsAssumption DEF IInv, Shape, TakesSlot
<1>4. ~Published(p) /\ Published(p)'
      /\ \A q \in Plugins \ {p} : Published(q)' <=> Published(q)
  BY <1>2, ConstantsAssumption DEF Published
<1>5. \A j \in 1 .. PluginMax : slots[j] # p
  BY <1>4 DEF Layout, InSlots
<1>6. InSlots'
  <2>1. ASSUME NEW j \in 1 .. PluginMax, NEW m \in 1 .. PluginMax,
               slots'[j] = slots'[m], j # m
        PROVE  slots'[j] = None
    BY <1>3, <1>5, <2>1 DEF Layout, InSlots
  <2>2. ASSUME NEW j \in 1 .. PluginMax, NEW m \in 1 .. PluginMax,
               slots'[m] # None, j < m
        PROVE  slots'[j] # None
    BY <1>3, <2>2 DEF Layout, InSlots
  <2>3. ASSUME NEW q \in Plugins
        PROVE  (\E j \in 1 .. PluginMax : slots'[j] = q) <=> Published(q)'
    <3>1. CASE q = p
      BY <1>3, <1>4, <3>1
    <3>2. CASE q # p
      <4>1. ASSUME NEW j \in 1 .. PluginMax PROVE slots'[j] = q <=> slots[j] = q
        BY <1>3, <3>2, ConstantsAssumption
      <4> QED
        BY <1>4, <3>2, <4>1 DEF Layout, InSlots
    <3> QED
      BY <3>1, <3>2
  <2> QED
    BY <2>1, <2>2, <2>3 DEF InSlots
<1>7. ASSUME NEW q \in Plugins \ {p} PROVE Stocked(q)' /\ Overriding(q)'
  BY <1>2, OthersLaid DEF Layout
<1>8. Stocked(p)'
  BY <1>2 DEF Layout, Stocked
<1>9. Overriding(p)'
  BY <1>2, ConstantsAssumption DEF Layout, Overriding
<1> QED
  BY <1>6, <1>7, <1>8, <1>9 DEF Layout

(* Overriding replaces the plugin's own names and moves no plugin.         *)
LEMMA OverridingLayout ==
  ASSUME IInv, Layout, NEW p \in Plugins,
         LoadOriginal(p) \/ StoreNew(p) \/ Complete(p)
  PROVE  Layout'
<1>1. /\ slots' = slots /\ data' = data /\ Published(p) /\ Published(p)'
      /\ loader'[p].pc # "idle" /\ loader'[p].pc # "collected"
      /\ \A q \in Plugins \ {p} : loader'[q] = loader[q]
      /\ loader'[p].result = "Success" => loader'[p].pc = "done" /\ loader'[p].ovr = <<>>
  BY ConstantsAssumption
     DEF IInv, Shape, LoaderStates, LoadOriginal, StoreNew, Complete, Published,
         Submission, Submitting
<1>2. \A q \in Plugins : Published(q)' <=> Published(q)
  BY <1>1 DEF Published
<1>3. InSlots'
  BY <1>1, <1>2 DEF Layout, InSlots
<1>4. ASSUME NEW q \in Plugins, NEW k \in AllOver(q) \ ToSet(loader'[q].ovr), Published(q)
      PROVE  storage'[k] = <<q, k>>
  <2>1. CASE LoadOriginal(p) \/ Complete(p)
    <3>1. storage' = storage /\ loader'[p].ovr = loader[p].ovr
      BY <2>1 DEF IInv, Shape, LoaderStates, LoadOriginal, Complete
    <3> QED
      BY <1>1, <1>4, <3>1 DEF Layout, Overriding
  <2>2. CASE StoreNew(p)
    <3> DEFINE h == Head(loader[p].ovr)
    <3>1. /\ loader[p].ovr \in Seq(Keys) /\ loader[p].ovr # <<>>
          /\ storage' = [storage EXCEPT ![h] = <<p, h>>]
          /\ loader'[p].ovr = Tail(loader[p].ovr)
          /\ IsInjective(loader[p].ovr) /\ ToSet(loader[p].ovr) \subseteq AllOver(p)
      BY <2>2 DEF IInv, Shape, LoaderStates, StoreNew, Replaced, ToDo, Submission,
                  Submitting
    <3>2. h \in AllOver(p) /\ h \in BaseKeys /\ k \in BaseKeys
      BY <3>1, TailToDo, KeysOK
    <3> HIDE DEF h
    <3>3. storage'[h] = <<p, h>> /\ (k # h => storage'[k] = storage[k])
      BY <3>1, <3>2 DEF IInv, Shape
    <3>4. CASE k = h
      BY <3>2, <3>3, <3>4, OneOverrider
    <3>5. CASE k # h
      <4>1. ASSUME NEW j \in ToSet(loader[p].ovr), j # h
            PROVE  j \in ToSet(Tail(loader[p].ovr))
        <5>1. PICK n \in DOMAIN loader[p].ovr : j = loader[p].ovr[n]
          BY <4>1 DEF ToSet
        <5>2. n # 1
          BY <3>1, <4>1, <5>1 DEF h
        <5>3. /\ n - 1 \in DOMAIN Tail(loader[p].ovr)
              /\ Tail(loader[p].ovr)[n - 1] = j
          BY <3>1, <5>1, <5>2
        <5> QED
          BY <5>3 DEF ToSet
      <4>2. k \notin ToSet(loader[q].ovr)
        BY <1>1, <1>4, <3>1, <3>5, <4>1
      <4> QED
        BY <1>4, <3>3, <3>5, <4>2 DEF Layout, Overriding
    <3> QED
      BY <3>4, <3>5
  <2> QED
    BY <2>1, <2>2
<1>5. ASSUME NEW q \in Plugins PROVE Overriding(q)'
  <2>1. Published(q)' =>
          \A k \in AllOver(q) \ ToSet(loader'[q].ovr) : storage'[k] = <<q, k>>
    BY <1>2, <1>4
  <2>2. /\ loader'[q].pc = "collected" => ToSet(loader'[q].ovr) = AllOver(q)
        /\ loader'[q].result = "Success" => loader'[q].pc = "done" /\ loader'[q].ovr = <<>>
    BY <1>1 DEF Layout, Overriding
  <2> QED
    BY <2>1, <2>2 DEF Overriding
<1>6. ASSUME NEW q \in Plugins PROVE Stocked(q)'
  <2>1. CASE q = p
    BY <1>1, <2>1 DEF Layout, Stocked
  <2>2. CASE q # p
    BY <1>1, <1>2, <2>2 DEF Layout, Stocked
  <2> QED
    BY <2>1, <2>2
<1> QED
  BY <1>3, <1>5, <1>6 DEF Layout

(* The driver's accesses change nothing of it.                             *)
LEMMA AccessLayout ==
  ASSUME Layout, UNCHANGED <<storage, data, slots, loader>> PROVE Layout'
BY DEF Layout, InSlots, Published, Stocked, Overriding

-----------------------------------------------------------------------------
(* What a search leads to.                                                 *)

(* The slots a search reaches are those that are taken.                    *)
Taken ==
  /\ Reached = {i \in 1 .. PluginMax : slots[i] # None}
  /\ \A i \in Reached : slots[i] \in Plugins

LEMMA ReachedSlots == Shape /\ InSlots => Taken
<1> SUFFICES ASSUME Shape, InSlots PROVE Taken
  OBVIOUS
<1>1. PluginMax \in Nat
  BY ConstantsAssumption
<1>2. ASSUME NEW n \in 1 .. PluginMax, slots[n] # None, NEW i \in 1 .. n
      PROVE  slots[i] # None
  BY <1>1, <1>2 DEF InSlots
<1>3. Reached = {i \in 1 .. PluginMax : slots[i] # None}
  BY <1>1, <1>2 DEF Reached
<1> QED
  BY <1>3 DEF Shape, Taken

(* The base names of a storage, as the search sees them.                   *)
LEMMA BaseSearch ==
  ASSUME NEW part \in Parts, NEW key \in Keys
  PROVE  SearchIn(BaseNames[part], key) # 0 <=> key \in Base[part]
<1>1. BaseNames[part] = Sorted(Base[part]) /\ Base[part] \in SUBSET Keys
  BY KeysOK DEF BaseNames, BaseKeys, Parts
<1> QED
  BY <1>1, SortedKeys

(* A search ends at the store when it has the name, else at the one plugin *)
(* in the slots that has it, else at none.                                 *)
LEMMA FoundWhereItIs ==
  ASSUME Shape, Layout, NEW part \in Parts, NEW key \in Keys
  PROVE  /\ key \in Base[part] => Find(part, key) = Store
         /\ key \notin Base[part] =>
              \A i \in Reached : key \in data[slots[i]][part] => Find(part, key) = slots[i]
         /\ key \notin Base[part] =>
              \/ Find(part, key) = None
              \/ \E i \in Reached : Find(part, key) = slots[i] /\ key \in data[slots[i]][part]
<1> DEFINE holders == {i \in Reached :
                         SearchIn(Sorted(data[slots[i]][part]), key) # 0}
           first == CHOOSE i \in holders : \A j \in holders : i <= j
<1>1. CASE key \in Base[part]
  BY <1>1, BaseSearch DEF Find
<1>2. CASE key \notin Base[part]
  <2>1. Find(part, key) = IF holders = {} THEN None ELSE slots[first]
    BY <1>2, BaseSearch DEF Find
  <2>2. \A i \in Reached : slots[i] \in Plugins
    BY ReachedSlots DEF Taken, Layout
  <2>3. ASSUME NEW i \in Reached
        PROVE  i \in holders <=> key \in data[slots[i]][part]
    <3>1. data[slots[i]][part] \in SUBSET Keys
      BY <2>2 DEF Shape
    <3> QED
      BY <3>1, SortedKeys
  <2>4. holders \in SUBSET Nat /\ holders \subseteq Reached
    BY ConstantsAssumption DEF Reached
  <2>5. ASSUME holders # {} PROVE first \in holders
    BY <2>4, <2>5, Least
  <2>6. ASSUME NEW i \in holders, NEW j \in holders PROVE slots[i] = slots[j]
    <3>1. slots[i] \in Plugins /\ slots[j] \in Plugins
      BY <2>2, <2>4
    <3>2. key \in Offers[slots[i]][part] /\ key \in Offers[slots[j]][part]
      BY <2>3, <2>4, <3>1 DEF Layout, Stocked
    <3> QED
      BY <3>1, <3>2, ConstantsAssumption
  <2> HIDE DEF holders, first
  <2> QED
    BY <1>2, <2>1, <2>3, <2>4, <2>5, <2>6
<1> QED
  BY <1>1, <1>2

(* What a search ends at is of the type it should be.                      *)
LEMMA FoundAny ==
  ASSUME Shape, Layout, NEW key \in Keys, FindAny(key) # None
  PROVE  /\ FindAny(key) # Store => FindAny(key) \in Plugins
         /\ FindAny(key) = Store => key \in BaseKeys
<1>1. PICK part \in Parts : FindAny(key) = Find(part, key)
  BY DEF FindAny, Parts
<1>2. CASE key \in Base[part]
  BY <1>1, <1>2, FoundWhereItIs DEF BaseKeys, Parts
<1>3. CASE key \notin Base[part]
  <2>1. PICK i \in Reached : Find(part, key) = slots[i]
    BY <1>1, <1>3, FoundWhereItIs
  <2>2. slots[i] \in Plugins
    BY ReachedSlots DEF Taken, Layout
  <2> QED
    BY <1>1, <2>1, <2>2, ConstantsAssumption
<1> QED
  BY <1>2, <1>3

(* A visible name is found, at the store or at the plugin that has it.     *)
LEMMA VisibleFound ==
  ASSUME Shape, Layout, NEW name \in Visible
  PROVE  name \in Keys /\ Find("visible", name) # None
<1>1. CASE name \in Base["visible"]
  <2>1. name \in Keys /\ Store # None
    BY <1>1, KeysOK, ConstantsAssumption DEF BaseKeys, Values, Keys, Parts
  <2> QED
    BY <1>1, <2>1, FoundWhereItIs DEF Parts
<1>2. CASE name \notin Base["visible"]
  <2>1. PICK i \in Reached : name \in data[slots[i]]["visible"]
    BY <1>2 DEF Visible
  <2>2. slots[i] \in Plugins
    BY ReachedSlots DEF Taken, Layout
  <2>3. name \in Keys
    BY <2>1, <2>2 DEF Shape, Parts
  <2> QED
    BY <1>2, <2>1, <2>2, <2>3, FoundWhereItIs, ConstantsAssumption DEF Parts
<1> QED
  BY <1>1, <1>2

(* An access to a key of a plugin whose submission succeeded is led to the *)
(* value of that plugin.                                                   *)
LEMMA LedToOwner ==
  ASSUME IInv, Layout, NEW p \in Ready, NEW s \in Parts, NEW key \in Offers[p][s]
  PROVE  Pointer(FindAny(key), key) = <<p, key>> /\ FindAny(key) # None
<1>1. p \in Plugins /\ Published(p) /\ loader[p].ovr = <<>> /\ key \in Keys
      /\ p # None /\ p # Store
  BY KeysOK, ConstantsAssumption DEF Ready, Published, Layout, Overriding
<1>2. PICK i \in Reached : slots[i] = p
  BY <1>1, ReachedSlots, ConstantsAssumption DEF Taken, IInv, Layout, InSlots
<1>3. \A j \in Reached : slots[j] \in Plugins
  BY ReachedSlots DEF Taken, IInv, Layout
<1>4. ASSUME s = "hidden" PROVE Find("visible", key) = None
  <2>1. key \notin Base["visible"]
    BY <1>1, <1>4, ConstantsAssumption
  <2>2. ASSUME NEW j \in Reached, key \in data[slots[j]]["visible"] PROVE FALSE
    <3>1. slots[j] \in Plugins /\ key \in Offers[slots[j]]["visible"]
      BY <1>3, <2>2 DEF Layout, Stocked, Parts
    <3>2. <<slots[j], "visible">> # <<p, s>>
      BY <1>4
    <3> QED
      BY <1>1, <3>1, <3>2, ConstantsAssumption DEF Parts
  <2> QED
    BY <1>1, <2>1, <2>2, FoundWhereItIs DEF IInv, Parts
<1>5. CASE key \in Base[s]
  <2>1. Find(s, key) = Store
    BY <1>1, <1>5, FoundWhereItIs DEF IInv
  <2>2. FindAny(key) = Store /\ Store # None
    BY <1>4, <2>1, ConstantsAssumption DEF FindAny, Parts, Values
  <2>3. key \in AllOver(p) /\ key \notin ToSet(loader[p].ovr)
    BY <1>1, <1>5 DEF AllOver, Overrides, Parts, ToSet
  <2>4. storage[key] = <<p, key>>
    BY <1>1, <2>3 DEF Layout, Overriding
  <2> QED
    BY <2>2, <2>4 DEF Pointer
<1>6. CASE key \notin Base[s]
  <2>1. key \notin AllOver(p)
    <3>1. ASSUME NEW t \in Parts, key \in Offers[p][t] \cap Base[t] PROVE FALSE
      <4>1. t # s
        BY <1>6, <3>1
      <4>2. <<p, t>> # <<p, s>>
        BY <4>1
      <4> QED
        BY <1>1, <3>1, <4>2, ConstantsAssumption
    <3> QED
      BY <3>1 DEF AllOver, Overrides, Parts
  <2>2. key \in data[slots[i]][s]
    BY <1>1, <1>2, <2>1 DEF Layout, Stocked
  <2>3. Find(s, key) = p
    BY <1>1, <1>2, <1>6, <2>2, FoundWhereItIs DEF IInv
  <2>4. FindAny(key) = p
    BY <1>1, <1>4, <2>3 DEF FindAny, Parts
  <2> QED
    BY <1>1, <2>4 DEF Pointer
<1> QED
  BY <1>5, <1>6

-----------------------------------------------------------------------------
(* The list of names.                                                      *)

(* Where a search ends, by the slots whose plugin has the key.             *)
Ending(in, part, key, holders) ==
  IF SearchIn(BaseNames[part], key) # 0 THEN Store
  ELSE IF holders = {} THEN None
  ELSE in[CHOOSE i \in holders : \A j \in holders : i <= j]

(* What a search and the list of names read is the storages of the plugins *)
(* in the slots.                                                           *)
LEMMA NamesKept ==
  ASSUME slots' = slots, \A i \in Reached : data'[slots[i]] = data[slots[i]]
  PROVE  /\ Reached' = Reached /\ Names' = Names /\ Visible' = Visible
         /\ \A part, key : Find(part, key)' = Find(part, key)
<1>1. Reached' = Reached
  BY DEF Reached
<1>2. [i \in Reached' |-> Sorted(data'[slots'[i]]["visible"])]
        = [i \in Reached |-> Sorted(data[slots[i]]["visible"])]
  BY <1>1
<1>3. Names' = Names
  BY <1>2 DEF Names
<1>4. Visible' = Visible
  <2>1. {data'[slots'[i]]["visible"] : i \in Reached'}
          = {data[slots[i]]["visible"] : i \in Reached}
    BY <1>1
  <2> QED
    BY <2>1 DEF Visible
<1>5. ASSUME NEW part, NEW key PROVE Find(part, key)' = Find(part, key)
  <2> DEFINE holders == {i \in Reached :
                           SearchIn(Sorted(data[slots[i]][part]), key) # 0}
  <2>1. holders' = holders
    BY <1>1
  <2>2. /\ Find(part, key) = Ending(slots, part, key, holders)
        /\ Find(part, key)' = Ending(slots', part, key, holders')
    BY DEF Find, Ending
  <2> HIDE DEF holders
  <2> QED
    BY <2>1, <2>2
<1> QED
  BY <1>1, <1>3, <1>4, <1>5

(* Nothing but the exchange that takes a slot moves the list.              *)
LEMMA OthersKeepNames ==
  ASSUME IInv, Layout, NEW p \in Plugins, LoadPlugin(p), ~Publish(p)
  PROVE  slots' = slots /\ \A i \in Reached : data'[slots[i]] = data[slots[i]]
<1>1. slots' = slots
  BY DEF LoadPlugin, RefuseVersion, Collect, CollectFails, NoSpace, LoadOriginal,
         StoreNew, Complete
<1>2. CASE data' = data
  BY <1>1, <1>2
<1>3. CASE data' # data
  <2>1. /\ loader[p].pc = "idle" /\ loader[p].result = None
        /\ \A q \in Plugins \ {p} : data'[q] = data[q]
    BY <1>3 DEF LoadPlugin, RefuseVersion, Collect, CollectFails, NoSpace,
                LoadOriginal, StoreNew, Complete, IInv, Shape, Submission, Submitting
  <2>2. ~Published(p)
    BY <2>1, ConstantsAssumption DEF Published
  <2>3. \A i \in Reached : slots[i] \in Plugins \ {p}
    BY <2>2, ReachedSlots DEF Taken, IInv, Layout, InSlots
  <2> QED
    BY <1>1, <2>1, <2>3
<1> QED
  BY <1>2, <1>3

(* Taking a slot appends the visible names of the plugin, all of them new. *)
LEMMA PublishAppends ==
  ASSUME IInv, Layout, NEW p \in Plugins, Publish(p)
  PROVE  /\ Names' = Names \o Sorted(data[p]["visible"])
         /\ Visible' = Visible \cup data[p]["visible"]
         /\ Visible \cap data[p]["visible"] = {}
         /\ Reached \subseteq Reached' /\ slots' = [i \in DOMAIN slots |-> slots'[i]]
         /\ \A i \in Reached : slots'[i] = slots[i]
<1>1. PICK i \in 1 .. PluginMax :
        TakesSlot(i) /\ slots' = [slots EXCEPT ![i] = p]
  BY DEF Publish
<1>2. /\ slots'[i] = p /\ slots[i] = None /\ p # None
      /\ \A j \in 1 .. PluginMax : j # i => slots'[j] = slots[j]
      /\ \A j \in 1 .. i - 1 : slots[j] # None
      /\ slots' = [j \in DOMAIN slots |-> slots'[j]]
  BY <1>1, ConstantsAssumption DEF IInv, Shape, TakesSlot
<1>3. PluginMax \in Nat
  BY ConstantsAssumption
<1>4. Reached = 1 .. i - 1
  <2>1. Reached = {j \in 1 .. PluginMax : slots[j] # None}
    BY ReachedSlots DEF Taken, IInv, Layout
  <2>2. \A j \in 1 .. PluginMax : slots[j] # None => j < i
    BY <1>2, <1>3 DEF Layout, InSlots
  <2> QED
    BY <1>2, <1>3, <2>1, <2>2
<1>5. Reached' = 1 .. i
  <2>1. Shape' /\ InSlots'
    BY PublishKeeps, PublishLayout DEF IInv, Layout
  <2>2. Reached' = {j \in 1 .. PluginMax : slots'[j] # None}
    <3>1. (Shape /\ InSlots => Taken)'
      BY ReachedSlots, PTL
    <3> QED
      BY <2>1, <3>1 DEF Taken
  <2>3. \A j \in 1 .. PluginMax : slots'[j] # None <=> j \in 1 .. i
    BY <1>2, <1>3, <1>4 DEF Layout, InSlots
  <2> QED
    BY <1>3, <2>2, <2>3
<1>6. data' = data
  BY DEF Publish
<1>7. \A j \in 1 .. i - 1 : slots'[j] = slots[j] /\ slots[j] \in Plugins \ {p}
  <2>1. ~Published(p)
    BY ConstantsAssumption DEF Publish, Published, IInv, Submission, Submitting
  <2>2. \A j \in 1 .. PluginMax : slots[j] # p
    BY <2>1 DEF Layout, InSlots
  <2> QED
    BY <1>2, <1>3, <1>4, <2>2, ReachedSlots DEF Taken, IInv, Layout
<1> DEFINE lists == [j \in Reached |-> Sorted(data[slots[j]]["visible"])]
           new == Sorted(data[p]["visible"])
<1>8. new \in Seq(Keys) /\ \A j \in 1 .. i - 1 : Sorted(data[slots[j]]["visible"]) \in Seq(Keys)
  <2>1. \A q \in Plugins : data[q]["visible"] \in SUBSET Keys
    BY DEF IInv, Shape, Parts
  <2> QED
    BY <1>7, <2>1, SortedKeys
<1>9. lists \in Seq(Seq(Keys)) /\ Len(lists) = i - 1
  BY <1>3, <1>4, <1>8
<1>10. [j \in Reached' |-> Sorted(data'[slots'[j]]["visible"])] = Append(lists, new)
  <2>1. \A j \in 1 .. i : Sorted(data'[slots'[j]]["visible"]) =
                           IF j = i THEN new ELSE lists[j]
    BY <1>2, <1>4, <1>6, <1>7
  <2>2. Append(lists, new) = [j \in 1 .. i |-> IF j = i THEN new ELSE lists[j]]
    <3> HIDE DEF lists, new
    <3>1. Len(lists) + 1 = i
      BY <1>3, <1>9
    <3>2. new \in Seq(Keys) /\ lists \in Seq(Seq(Keys))
      BY <1>8, <1>9
    <3>3. Append(lists, new) = [j \in 1 .. Len(lists) + 1 |->
                                  IF j = Len(lists) + 1 THEN new ELSE lists[j]]
      BY <3>2, AppendIs
    <3> QED
      BY <3>1, <3>3
  <2> HIDE DEF lists, new
  <2> QED
    BY <1>5, <2>1, <2>2
<1>11. Names' = BaseNames["visible"] \o FlattenSeq(Append(lists, new))
  BY <1>10 DEF Names
<1>12. FlattenSeq(Append(lists, new)) = FlattenSeq(lists) \o new
  <2> HIDE DEF lists, new
  <2> QED
    BY <1>8, <1>9, FlattenAppend
<1>13. Names = BaseNames["visible"] \o FlattenSeq(lists)
  BY DEF Names
<1>14. Visible' = Visible \cup data[p]["visible"]
  <2>1. {data'[slots'[j]]["visible"] : j \in 1 .. i}
          = {data[slots[j]]["visible"] : j \in 1 .. i - 1} \cup {data[p]["visible"]}
    BY <1>2, <1>3, <1>6, <1>7
  <2> QED
    BY <1>4, <1>5, <2>1 DEF Visible
<1>15. Visible \cap data[p]["visible"] = {}
  <2>1. data[p]["visible"] = Offers[p]["visible"] \ AllOver(p)
    BY DEF Publish, Layout, Stocked, Parts
  <2>2. data[p]["visible"] \cap Base["visible"] = {}
    BY <2>1 DEF AllOver, Overrides
  <2>3. ASSUME NEW j \in 1 .. i - 1
        PROVE  data[slots[j]]["visible"] \cap data[p]["visible"] = {}
    <3>1. slots[j] \in Plugins /\ <<slots[j], "visible">> # <<p, "visible">>
      BY <1>7
    <3>2. data[slots[j]]["visible"] \subseteq Offers[slots[j]]["visible"]
      BY <3>1 DEF Layout, Stocked, Parts
    <3> QED
      BY <2>1, <3>1, <3>2, ConstantsAssumption DEF Parts
  <2> QED
    BY <1>4, <2>2, <2>3 DEF Visible
<1>16. Names' = Names \o new
  <2>1. BaseNames["visible"] \in Seq(Keys)
    <3>1. Base["visible"] \in SUBSET Keys
      BY KeysOK DEF BaseKeys
    <3> QED
      BY <3>1, SortedKeys DEF BaseNames, Parts
  <2> HIDE DEF lists, new
  <2>2. FlattenSeq(lists) \in Seq(Keys)
    BY <1>9, FlattenType
  <2>3. new \in Seq(Keys)
    BY <1>8
  <2>4. (BaseNames["visible"] \o FlattenSeq(lists)) \o new
          = BaseNames["visible"] \o (FlattenSeq(lists) \o new)
    <3>1. \A a, b, c \in Seq(Keys) : (a \o b) \o c = a \o (b \o c)
      BY ConcatAssociative
    <3> QED
      BY <2>1, <2>2, <2>3, <3>1, Zenon
  <2> QED
    BY <1>11, <1>12, <1>13, <2>4
<1> QED
  BY <1>2, <1>4, <1>5, <1>7, <1>14, <1>15, <1>16

(* No slot is reached before the first plugin has one.                     *)
LEMMA FirstNamesListed ==
  ASSUME Init
  PROVE  Names = Sorted(Base["visible"]) /\ Visible = Base["visible"]
<1>1. Reached = {}
  BY ConstantsAssumption DEF Init, Reached
<1>2. Base["visible"] \in SUBSET Keys
  BY KeysOK DEF BaseKeys
<1>3. [i \in Reached |-> Sorted(data[slots[i]]["visible"])] = <<>>
  BY <1>1
<1>4. FlattenSeq(<<>>) = <<>>
  BY DEF FlattenSeq
<1>5. Sorted(Base["visible"]) \o <<>> = Sorted(Base["visible"])
  BY <1>2, SortedKeys, ConcatEmptySeq
<1>6. Names = Sorted(Base["visible"])
  BY <1>3, <1>4, <1>5 DEF Names, BaseNames, Parts
<1>7. Visible = Base["visible"]
  BY <1>1 DEF Visible
<1> QED
  BY <1>6, <1>7

(* The list is right at first.                                             *)
LEMMA InitListed == Init => Listed
<1>1. Base["visible"] \in SUBSET Keys
  BY KeysOK DEF BaseKeys
<1> QED
  BY <1>1, SortedKeys, FirstNamesListed DEF Listed

(* The list stays right and only grows.                                    *)
LEMMA ListGrows ==
  ASSUME IInv, Layout, Listed, [Next]_vars
  PROVE  Listed' /\ Visible \subseteq Visible' /\ Len(Names) <= Len(Names')
<1>1. Len(Names) \in Nat
  BY DEF Listed
<1>2. ASSUME slots' = slots, \A i \in Reached : data'[slots[i]] = data[slots[i]]
      PROVE  Listed' /\ Visible \subseteq Visible' /\ Len(Names) <= Len(Names')
  BY <1>1, <1>2, NamesKept DEF Listed
<1>3. ASSUME NEW p \in Plugins, Publish(p)
      PROVE  Listed' /\ Visible \subseteq Visible' /\ Len(Names) <= Len(Names')
  <2> DEFINE new == Sorted(data[p]["visible"])
  <2>1. /\ Names' = Names \o new /\ Visible' = Visible \cup data[p]["visible"]
        /\ Visible \cap data[p]["visible"] = {}
    BY <1>3, PublishAppends
  <2>2. data[p]["visible"] \in SUBSET Keys
    BY DEF IInv, Shape, Parts
  <2>3. new \in Seq(Keys) /\ ToSet(new) = data[p]["visible"] /\ IsInjective(new)
    BY <2>2, SortedKeys
  <2> HIDE DEF new
  <2>4. /\ Names \o new \in Seq(Keys) /\ Len(Names \o new) = Len(Names) + Len(new)
        /\ ToSet(Names \o new) = ToSet(Names) \cup ToSet(new)
    BY <2>3, Joined, ConcatProperties DEF Listed
  <2>5. IsInjective(Names \o new)
    BY <2>1, <2>3, Joined DEF Listed
  <2>6. Len(new) \in Nat
    BY <2>3
  <2> QED
    BY <1>1, <2>1, <2>3, <2>4, <2>5, <2>6 DEF Listed
<1>4. CASE Access \/ UNCHANGED vars
  <2>1. slots' = slots /\ data' = data
    BY <1>4 DEF Access, Begin, LoadValue, Refuse, ReadAccess, Copy, Update, Inform,
                NameByIndex, vars
  <2> QED
    BY <1>2, <2>1
<1>5. ASSUME NEW p \in Plugins, LoadPlugin(p), ~Publish(p)
      PROVE  Listed' /\ Visible \subseteq Visible' /\ Len(Names) <= Len(Names')
  BY <1>2, <1>5, OthersKeepNames
<1> QED
  BY <1>3, <1>4, <1>5 DEF Next

-----------------------------------------------------------------------------
(* What the driver is told.                                                *)

(* The driver does not access anything at first.                           *)
LEMMA InitDriver == Init => Lasting /\ Aimed
<1> SUFFICES ASSUME Init PROVE Lasting /\ Aimed
  OBVIOUS
<1>1. driver = Idle /\ unlocked = FALSE
  BY DEF Init
<1>2. Len(Names) \in Nat
  BY InitListed DEF Listed
<1>3. Idle \in DriverStates
  BY DEF Idle, DriverStates
<1>4. Idle.pc = "idle" /\ Idle.op # "name" /\ Idle.since = {} /\ Idle.count = 0
  BY ConstantsAssumption DEF Idle
<1>5. unlocked \in BOOLEAN
  BY <1>1
<1>6. driver.pc = "idle" /\ driver.op # "name" /\ driver.since = {} /\ driver.count = 0
  BY <1>1, <1>4
<1>7. driver \in DriverStates
  BY <1>1, <1>3
<1>8. Lasting
  BY <1>2, <1>5, <1>6, <1>7 DEF Lasting
<1>9. Aimed
  BY <1>6 DEF Aimed
<1> QED
  BY <1>8, <1>9

(* A submission takes nothing from an access under way: what was listed    *)
(* stays listed, and the value it is led to stays that of its owner.       *)
LEMMA LoadKeepsDriver ==
  ASSUME IInv, Layout, Listed, Lasting, Aimed, NEW p \in Plugins, LoadPlugin(p)
  PROVE  Lasting' /\ Aimed'
<1>1. driver' = driver /\ unlocked' = unlocked
  BY DEF LoadPlugin, RefuseVersion, Collect, CollectFails, Publish, NoSpace,
         LoadOriginal, StoreNew, Complete
<1>2. Visible \subseteq Visible' /\ Len(Names) <= Len(Names')
      /\ Len(Names) \in Nat /\ Len(Names') \in Nat
  BY ListGrows DEF Next, Listed
<1>3. Lasting'
  <2>1. driver.count <= Len(Names')
    BY <1>2 DEF Lasting, DriverStates
  <2> QED
    BY <1>1, <1>2, <2>1 DEF Lasting
<1>4. Ready \subseteq Ready'
  <2>1. loader[p].pc # "done" /\ \A q \in Plugins \ {p} : loader'[q] = loader[q]
    BY DEF IInv, Shape, LoadPlugin, RefuseVersion, Collect, CollectFails, Publish,
           NoSpace, LoadOriginal, StoreNew, Complete, Step, Finish
  <2>2. loader[p].result # "Success"
    BY <2>1 DEF Layout, Overriding
  <2> QED
    BY <2>1, <2>2 DEF Ready
<1>5. ASSUME NEW q \in driver.since, NEW s \in Parts, driver.key \in Offers[q][s],
             driver.pc = "found", Pointer(driver.holder, driver.key) = <<q, driver.key>>
      PROVE  Pointer(driver.holder, driver.key)' = <<q, driver.key>>
  <2>1. CASE driver.holder # Store
    BY <1>1, <1>5, <2>1 DEF Pointer
  <2>2. CASE driver.holder = Store /\ storage' = storage
    BY <1>1, <1>5, <2>2 DEF Pointer
  <2>3. CASE driver.holder = Store /\ storage' # storage
    <3>1. StoreNew(p)
      BY <2>3 DEF LoadPlugin, RefuseVersion, Collect, CollectFails, Publish, NoSpace,
                  LoadOriginal, Complete
    <3> DEFINE h == Head(loader[p].ovr)
    <3>2. /\ loader[p].pc = "replacing" /\ loader[p].ovr # <<>>
          /\ storage' = [storage EXCEPT ![h] = <<p, h>>]
      BY <3>1 DEF StoreNew, Replaced, IInv, Submission, Submitting
    <3>3. h \in AllOver(p)
      BY <3>2, TailToDo DEF IInv, Shape, LoaderStates, ToDo
    <3>4. PICK t \in Parts : h \in Offers[p][t]
      BY <3>3 DEF AllOver, Overrides, Parts
    <3>5. q \in Plugins /\ q # p
      BY <3>2, ConstantsAssumption DEF Aimed, Ready, Layout, Overriding
    <3>6. h # driver.key
      <4>1. <<q, s>> # <<p, t>>
        BY <3>5
      <4> QED
        BY <1>5, <3>4, <3>5, <4>1, ConstantsAssumption
    <3> HIDE DEF h
    <3>7. storage'[driver.key] = storage[driver.key]
      <4>1. driver.key \in BaseKeys
        BY <1>5, <2>3 DEF Lasting
      <4> QED
        BY <3>2, <3>6, <4>1 DEF IInv, Shape
    <3> QED
      BY <1>1, <1>5, <2>3, <3>7 DEF Pointer
  <2> QED
    BY <2>1, <2>2, <2>3
<1>6. Aimed'
  BY <1>1, <1>4, <1>5 DEF Aimed
<1> QED
  BY <1>3, <1>6

(* The steps of an access.                                                 *)
LEMMA AccessKeepsDriver ==
  ASSUME IInv, Layout, Listed, Lasting, Aimed, Access
  PROVE  Lasting' /\ Aimed'
<1>1. slots' = slots /\ data' = data /\ storage' = storage /\ loader' = loader
  BY DEF Access, Begin, LoadValue, Refuse, ReadAccess, Copy, Update, Inform,
         NameByIndex
<1>2. /\ Names' = Names /\ Visible' = Visible /\ Ready' = Ready
      /\ Len(Names) \in Nat /\ Names \in Seq(Keys)
  BY <1>1, NamesKept DEF Listed, Ready
<1>3. driver \in DriverStates /\ unlocked \in BOOLEAN
  BY DEF Lasting
<1>4. ASSUME driver' = Idle, unlocked' \in BOOLEAN PROVE Lasting' /\ Aimed'
  <2>1. Idle \in DriverStates
    BY DEF Idle, DriverStates
  <2>2. Idle.pc = "idle" /\ Idle.op # "name" /\ Idle.since = {} /\ Idle.count = 0
    BY ConstantsAssumption DEF Idle
  <2> QED
    BY <1>2, <1>4, <2>1, <2>2 DEF Lasting, Aimed
<1>5. ASSUME NEW op \in {"read", "write", "info"}, NEW key \in Keys, Begin(op, key)
      PROVE  Lasting' /\ Aimed'
  <2>1. CASE FindAny(key) = None
    BY <1>4, <1>5, <2>1 DEF Begin
  <2>2. CASE FindAny(key) # None
    <3> DEFINE h == FindAny(key)
    <3>1. /\ driver' = [driver EXCEPT !.pc = "found", !.op = op, !.key = key,
                                      !.holder = h, !.since = Ready]
          /\ unlocked' = FALSE
      BY <1>5, <2>2 DEF Begin
    <3>2. (h # Store => h \in Plugins) /\ (h = Store => key \in BaseKeys)
      BY <2>2, FoundAny DEF IInv
    <3>3. ASSUME NEW p \in Ready, NEW s \in Parts, key \in Offers[p][s]
          PROVE  Pointer(h, key) = <<p, key>>
      BY <3>3, LedToOwner
    <3> HIDE DEF h
    <3>4. /\ driver' \in DriverStates /\ driver'.pc = "found" /\ driver'.op = op
          /\ driver'.key = key /\ driver'.holder = h /\ driver'.since = Ready
          /\ driver'.count = driver.count
      BY <1>3, <3>1, <3>2 DEF DriverStates, Ready
    <3>5. Lasting'
      BY <1>2, <3>1, <3>2, <3>4 DEF Lasting
    <3>6. \A k, g : Pointer(g, k)' = Pointer(g, k)
      BY <1>1 DEF Pointer
    <3>7. Pointer(driver.holder, driver.key)' = Pointer(h, key)
      BY <1>1, <3>4 DEF Pointer
    <3>8. Aimed'
      BY <1>2, <3>3, <3>4, <3>7 DEF Aimed
    <3> QED
      BY <3>5, <3>8
  <2> QED
    BY <2>1, <2>2
<1>6. CASE LoadValue
  <2> DEFINE v == Pointer(driver.holder, driver.key)
  <2>1. /\ driver.pc = "found" /\ driver' = [driver EXCEPT !.pc = "loaded", !.value = v]
        /\ unlocked' = unlocked
    BY <1>6 DEF LoadValue
  <2>2. v \in Values
    BY <2>1, ConstantsAssumption DEF Lasting, Pointer, IInv, Shape, Values
  <2> HIDE DEF v
  <2>3. /\ driver' \in DriverStates /\ driver'.pc = "loaded" /\ driver'.op = driver.op
        /\ driver'.key = driver.key /\ driver'.since = driver.since
        /\ driver'.value = v /\ driver'.count = driver.count
    BY <1>3, <2>1, <2>2 DEF DriverStates
  <2>4. Lasting'
    BY <1>2, <2>1, <2>3 DEF Lasting
  <2>5. Aimed'
    BY <1>2, <2>1, <2>3 DEF Aimed, v
  <2> QED
    BY <2>4, <2>5
<1>7. CASE Refuse \/ Copy \/ Update \/ Inform
  BY <1>3, <1>4, <1>7 DEF Refuse, Copy, Update, Inform
<1>8. CASE ReadAccess
  <2>1. /\ driver.pc = "loaded" /\ unlocked' = unlocked
        /\ driver' = [driver EXCEPT !.pc = "answer",
                        !.count = IF driver.value = <<Store, KeyCount>>
                                  THEN Len(Names) ELSE driver.count]
    BY <1>3, <1>8 DEF ReadAccess, DriverStates
  <2>2. /\ driver' \in DriverStates /\ driver'.pc = "answer" /\ driver'.op = driver.op
        /\ driver'.key = driver.key /\ driver'.since = driver.since
        /\ driver'.value = driver.value /\ driver'.count \in {Len(Names), driver.count}
    BY <1>2, <1>3, <2>1 DEF DriverStates
  <2>3. Lasting'
    BY <1>2, <2>1, <2>2 DEF Lasting
  <2>4. Aimed'
    BY <1>2, <2>1, <2>2 DEF Aimed
  <2> QED
    BY <2>3, <2>4
<1>9. ASSUME NEW i \in 1 .. Cardinality(Keys), NameByIndex(i)
      PROVE  Lasting' /\ Aimed'
  <2>1. Names[i] \in Keys /\ Names[i] \in Visible
    BY <1>2, <1>9 DEF NameByIndex, Listed, ToSet
  <2>2. /\ driver' \in DriverStates /\ driver'.pc = "answer" /\ driver'.op = "name"
        /\ driver'.key = Names[i] /\ driver'.since = driver.since
        /\ driver'.count = driver.count /\ unlocked' = unlocked
    BY <1>3, <1>9, <2>1 DEF NameByIndex, DriverStates
  <2>3. Lasting'
    BY <1>2, <2>1, <2>2 DEF Lasting
  <2> QED
    BY <1>2, <2>2, <2>3 DEF Aimed
<1> QED
  BY <1>5, <1>6, <1>7, <1>8, <1>9 DEF Access

-----------------------------------------------------------------------------
(* The theorems.                                                           *)

(* The invariant is inductive.                                             *)
LEMMA InvariantHolds == Spec => []KInv
<1>1. Init => KInv
  BY InitInv, InitLayout, InitListed, InitDriver DEF KInv
<1>2. KInv /\ [Next]_vars => KInv'
  <2> SUFFICES ASSUME KInv, [Next]_vars PROVE KInv'
    OBVIOUS
  <2> USE DEF KInv
  <2>1. ASSUME NEW p \in Plugins, LoadPlugin(p) PROVE KInv'
    <3>1. IInv'
      BY <2>1, RefusedKeeps, CollectKeeps, PublishKeeps, LoadOriginalKeeps,
         StoreNewKeeps, CompleteKeeps DEF LoadPlugin
    <3>2. Layout'
      BY <2>1, RefusedLayout, CollectLayout, PublishLayout, OverridingLayout
         DEF LoadPlugin
    <3> QED
      BY <2>1, <3>1, <3>2, ListGrows, LoadKeepsDriver
  <2>2. CASE Access
    <3>1. UNCHANGED <<storage, data, slots, loader>>
      BY <2>2 DEF Access, Begin, LoadValue, Refuse, ReadAccess, Copy, Update, Inform,
                  NameByIndex
    <3> QED
      BY <2>2, <3>1, AccessLeaves, AccessLayout, ListGrows, AccessKeepsDriver
  <2>3. CASE UNCHANGED vars
    <3>1. Lasting' /\ Aimed'
      BY <2>3, NamesKept DEF vars, Lasting, Aimed, Ready, Pointer
    <3>2. UNCHANGED <<storage, data, slots, loader>>
      BY <2>3 DEF vars
    <3> QED
      BY <2>3, <3>1, <3>2, AccessLeaves, AccessLayout, ListGrows
  <2> QED
    BY <2>1, <2>2, <2>3 DEF Next
<1> QED
  BY <1>1, <1>2, PTL DEF Spec

(* Every variable of the store keeps its type, no plugin takes two slots   *)
(* and the slots are filled from the front (loadPlugin's exchange).        *)
THEOREM TypeCorrect == Spec => []TypeOK
<1>1. KInv => TypeOK
  <2> SUFFICES ASSUME KInv PROVE TypeOK
    OBVIOUS
  <2>1. ASSUME NEW v \in freed PROVE v \in Values
    <3>1. Deletion(v)
      BY DEF KInv, IInv, Gone
    <3> QED
      BY <3>1, KeysOK DEF Deletion, Values
  <2> QED
    BY <2>1 DEF KInv, IInv, Shape, BaseKeys, LoaderStates, Layout, InSlots,
                Lasting, DriverStates, TypeOK
<1> QED
  BY <1>1, InvariantHolds, PTL

(* No search leads to a value that was deleted (loadPlugin), for any       *)
(* plugins that are loaded at once and any outcome of their submissions.   *)
THEOREM NothingDeletedIsFound == Spec => []ReachableAlive
<1>1. KInv => ReachableAlive
  <2> SUFFICES ASSUME KInv, NEW key \in Keys, FindAny(key) # None
               PROVE  Pointer(FindAny(key), key) \notin freed
    BY DEF ReachableAlive
  <2> USE DEF KInv, IInv
  <2>1. CASE FindAny(key) = Store
    <3>1. Pointer(FindAny(key), key) = storage[key] /\ key \in BaseKeys
      BY <2>1, FoundAny DEF Pointer
    <3>2. ASSUME Deletion(storage[key]) PROVE FALSE
      <4>1. CASE storage[key] = <<Store, key>>
        BY <3>2, <4>1, ConstantsAssumption DEF Deletion
      <4>2. ASSUME NEW p \in Plugins, storage[key] = <<p, key>>,
                   loader[p].result \in {None, "Success"}
            PROVE  FALSE
        <5>1. PICK q \in Plugins : q = p /\ loader[q].result \in {"NoMemory", "NoSpace"}
                                  /\ loader[q].pc = "done"
          BY <3>2, <4>2, ConstantsAssumption DEF Deletion
        <5> QED
          BY <4>2, <5>1, ConstantsAssumption
      <4> QED
        BY <3>1, <4>1, <4>2 DEF Held
    <3> QED
      BY <3>1, <3>2 DEF Gone
  <2>2. CASE FindAny(key) # Store
    <3>1. PICK part \in Parts : FindAny(key) = Find(part, key)
      BY DEF FindAny, Parts
    <3>2. PICK i \in Reached : FindAny(key) = slots[i] /\ key \in data[slots[i]][part]
      BY <2>2, <3>1, FoundWhereItIs
    <3>3. FindAny(key) \in Plugins
      BY <2>2, FoundAny
    <3>4. Pointer(FindAny(key), key) = <<FindAny(key), key>>
      BY <2>2 DEF Pointer
    <3>5. ASSUME Deletion(<<FindAny(key), key>>) PROVE FALSE
      BY <3>1, <3>2, <3>3, <3>5, ConstantsAssumption DEF Deletion
    <3> QED
      BY <3>4, <3>5 DEF Gone
  <2> QED
    BY <2>1, <2>2
<1> QED
  BY <1>1, InvariantHolds, PTL

(* Every name of the list is found by its name, and a count the driver was *)
(* given or a name it read is never taken back (getByIndex, getByName and  *)
(* getPublicKeyAmount).                                                    *)
THEOREM ListedNamesAreFound == Spec => []NamesAreFound
<1>1. KInv => NamesAreFound
  BY VisibleFound DEF KInv, IInv, Listed, Lasting, NamesAreFound
<1> QED
  BY <1>1, InvariantHolds, PTL

(* Walking the indices meets each visible key once, whatever plugins are   *)
(* being loaded and however many (getByIndex).                             *)
THEOREM EachNameOnce == Spec => []EnumeratedOnce
<1>1. KInv => EnumeratedOnce
  BY DEF KInv, Listed, EnumeratedOnce
<1> QED
  BY <1>1, InvariantHolds, PTL

(* An access that began after a submission succeeded is answered by that   *)
(* plugin's value, for its own keys and for those it overrides (loadPlugin *)
(* and getByName).                                                         *)
THEOREM OwnersAnswer == Spec => []OverrideAnswers
<1>1. KInv => OverrideAnswers
  BY DEF KInv, Aimed, OverrideAnswers
<1> QED
  BY <1>1, InvariantHolds, PTL

(* The values behind the visible names.                                    *)
Current == [k \in Visible |-> Pointer(Find("visible", k), k)]

(* Where each search ends, for the names of any state.                     *)
FoundWell ==
  \A part \in Parts, key \in Keys :
    /\ key \in Base[part] => Find(part, key) = Store
    /\ key \notin Base[part] =>
         \A i \in Reached : key \in data[slots[i]][part] => Find(part, key) = slots[i]

LEMMA SearchesEndWell == KInv => FoundWell
BY FoundWhereItIs DEF KInv, IInv, FoundWell

(* Taking a slot moves the value of no name that was listed.               *)
LEMMA PublishExtends ==
  ASSUME KInv, KInv', NEW p \in Plugins, Publish(p)
  PROVE  Directory!Extend \/ UNCHANGED <<Names, Current>>
<1> DEFINE new == Sorted(data[p]["visible"])
<1>1. /\ Names' = Names \o new
      /\ Visible' = Visible \cup data[p]["visible"]
      /\ Reached \subseteq Reached' /\ \A i \in Reached : slots'[i] = slots[i]
  BY PublishAppends DEF KInv
<1>2. data' = data /\ storage' = storage
  BY DEF Publish
<1>3. data[p]["visible"] \in SUBSET Keys
  BY DEF KInv, IInv, Shape, Parts
<1>4. new \in Seq(Keys) /\ ToSet(new) = data[p]["visible"]
  BY <1>3, SortedKeys
<1>5. FoundWell /\ FoundWell'
  <2>1. FoundWell
    BY SearchesEndWell
  <2>2. (KInv => FoundWell)'
    BY SearchesEndWell, PTL
  <2> QED
    BY <2>1, <2>2
<1>6. ASSUME NEW k \in Visible
      PROVE  Pointer(Find("visible", k), k)' = Pointer(Find("visible", k), k)
  <2>1. k \in Keys /\ "visible" \in Parts
    BY VisibleFound DEF KInv, IInv, Parts
  <2>2. Find("visible", k)' = Find("visible", k)
    <3>1. CASE k \in Base["visible"]
      BY <1>5, <2>1, <3>1 DEF FoundWell
    <3>2. CASE k \notin Base["visible"]
      <4>1. PICK i \in Reached : k \in data[slots[i]]["visible"]
        BY <3>2 DEF Visible
      <4>2. Find("visible", k) = slots[i]
        BY <1>5, <2>1, <3>2, <4>1 DEF FoundWell
      <4>3. i \in Reached' /\ k \in data'[slots'[i]]["visible"]
        BY <1>1, <1>2, <4>1
      <4>4. Find("visible", k)' = slots'[i]
        BY <1>5, <2>1, <3>2, <4>3 DEF FoundWell
      <4> QED
        BY <1>1, <4>2, <4>4
    <3> QED
      BY <3>1, <3>2
  <2> QED
    BY <1>2, <2>2 DEF Pointer
<1>7. /\ Current = [k \in Visible |-> Pointer(Find("visible", k), k)]
      /\ Current' = [k \in Visible' |-> Pointer(Find("visible", k), k)']
  BY DEF Current
<1>8. DOMAIN Current = Visible /\ DOMAIN Current' = Visible'
      /\ \A k \in Visible : Current'[k] = Current[k]
  BY <1>1, <1>6, <1>7
<1> HIDE DEF new
<1>9. CASE data[p]["visible"] = {}
  <2>1. new = <<>>
    <3>1. ASSUME Len(new) # 0 PROVE FALSE
      <4>1. 1 \in DOMAIN new
        BY <1>4, <3>1
      <4>2. new[1] \in ToSet(new)
        BY <4>1 DEF ToSet
      <4> QED
        BY <1>4, <1>9, <4>2
    <3> QED
      BY <1>4, <3>1
  <2>2. Names' = Names
    BY <1>1, <2>1, ConcatEmptySeq DEF KInv, Listed
  <2>3. Visible' = Visible
    BY <1>1, <1>9
  <2>4. Current' = Current
    BY <1>6, <1>7, <2>3
  <2> QED
    BY <2>2, <2>4
<1>10. CASE data[p]["visible"] # {}
  <2>1. new # <<>>
    BY <1>4, <1>10 DEF ToSet
  <2>2. Names \in Seq(Keys)
    BY DEF KInv, Listed
  <2>3. IsStrictPrefix(Names, Names \o new)
    <3> HIDE DEF KInv
    <3> DEFINE n == Names
    <3>1. n \in Seq(Keys) /\ n \o new \in Seq(Keys)
          /\ Len(n \o new) = Len(n) + Len(new) /\ Len(n) \in Nat /\ Len(new) \in Nat
          /\ \A i \in 1 .. Len(n) : (n \o new)[i] = n[i]
      BY <1>4, <2>2
    <3> HIDE DEF n
    <3>2. Len(new) > 0
      BY <1>4, <2>1
    <3>3. Len(n) <= Len(n \o new) /\ n # n \o new
      BY <3>1, <3>2
    <3>4. SubSeq(n, 1, Len(n)) = SubSeq(n \o new, 1, Len(n))
      <4>1. /\ SubSeq(n, 1, Len(n)) = [i \in 1 .. Len(n) |-> n[i]]
            /\ SubSeq(n \o new, 1, Len(n)) = [i \in 1 .. Len(n) |-> (n \o new)[i]]
        BY <3>1
      <4> QED
        BY <3>1, <4>1
    <3> QED
      BY <3>3, <3>4 DEF IsStrictPrefix, IsPrefix, n
  <2>4. IsStrictPrefix(Names, Names')
    BY <1>1, <2>3
  <2>5. DOMAIN Current' = ToSet(Names')
    BY <1>8 DEF KInv, Listed
  <2>6. \E was \in {Current}, now \in {Current'} :
          DOMAIN now = ToSet(Names') /\ \A k \in DOMAIN was : now[k] = was[k]
    BY <1>8, <2>5
  <2> QED
    BY <2>4, <2>6, Zenon
       DEF Directory!Extend, Directory!IsStrictPrefix, Directory!IsPrefix,
           Directory!ToSet, IsStrictPrefix, IsPrefix, ToSet, Current
<1> QED
  BY <1>9, <1>10

(* A stored value is the one value that moves.                             *)
LEMMA StoreNewOverrides ==
  ASSUME KInv, NEW p \in Plugins, StoreNew(p) PROVE Directory!Override
<1> DEFINE h == Head(loader[p].ovr)
<1>1. /\ slots' = slots /\ data' = data
      /\ storage' = [storage EXCEPT ![h] = Replaced(p, h)]
  BY DEF StoreNew
<1> HIDE DEF h
<1>2. /\ Names' = Names /\ Visible' = Visible
      /\ \A part, key : Find(part, key)' = Find(part, key)
  BY <1>1, NamesKept
<1>3. ASSUME NEW k \in Visible, k # h
      PROVE  Pointer(Find("visible", k), k)' = Pointer(Find("visible", k), k)
  <2>1. storage'[k] = storage[k] \/ Find("visible", k) # Store
    <3>1. CASE Find("visible", k) = Store
      <4>1. FindAny(k) = Store /\ k \in Keys
        BY <3>1, VisibleFound, ConstantsAssumption DEF FindAny, KInv, IInv
      <4>2. k \in BaseKeys
        BY <4>1, FoundAny, ConstantsAssumption DEF KInv, IInv
      <4> QED
        BY <1>1, <1>3, <4>2 DEF KInv, IInv, Shape
    <3> QED
      BY <3>1
  <2> QED
    BY <1>2, <2>1 DEF Pointer
<1>4. \E name \in Visible : \A k \in Visible \ {name} : k # h
  <2>1. KeyCount \in Visible
    BY ConstantsAssumption DEF Visible
  <2> QED
    BY <2>1
<1>5. /\ Current = [k \in Visible |-> Pointer(Find("visible", k), k)]
      /\ Current' = [k \in Visible' |-> Pointer(Find("visible", k), k)']
  BY DEF Current
<1>6. DOMAIN Current = Visible /\ DOMAIN Current' = Visible
      /\ \A k \in Visible : k # h => Current'[k] = Current[k]
  BY <1>2, <1>3, <1>5
<1>7. \E was \in {Current}, now \in {Current'} :
        /\ DOMAIN now = DOMAIN was
        /\ \E name \in DOMAIN was : \A k \in DOMAIN was \ {name} : now[k] = was[k]
  BY <1>4, <1>6
<1> QED
  BY <1>2, <1>7, Zenon DEF Directory!Override, Current

(* The store implements the directory: every index means the same name for *)
(* ever, and a value changes only by an override, one at a time, whatever  *)
(* plugins are being loaded (loadPlugin, getByIndex, getByName).           *)
THEOREM StoreIsDirectory == Spec => DirectorySpec
<1>1. Init => Directory!Init
  <2> SUFFICES ASSUME Init PROVE Directory!Init
    OBVIOUS
  <2>1. Names = Sorted(Base["visible"]) /\ Visible = Base["visible"]
    BY FirstNamesListed
  <2>2. ASSUME NEW k \in Base["visible"]
        PROVE  Pointer(Find("visible", k), k) = <<Store, k>>
    <3>1. k \in Keys /\ "visible" \in Parts
      BY KeysOK DEF BaseKeys, Parts
    <3>2. Find("visible", k) = Store
      BY <3>1, BaseSearch DEF Find
    <3> QED
      BY <3>2 DEF Pointer, Init
  <2> QED
    BY <2>1, <2>2 DEF Directory!Init
<1>2. KInv /\ KInv' /\ [Next]_vars => [Directory!Next]_(Directory!vars)
  <2> SUFFICES ASSUME KInv, KInv', [Next]_vars PROVE [Directory!Next]_(Directory!vars)
    OBVIOUS
  <2>1. ASSUME slots' = slots, storage' = storage,
               \A i \in Reached : data'[slots[i]] = data[slots[i]]
        PROVE  UNCHANGED Directory!vars
    <3>1. /\ Names' = Names /\ Visible' = Visible
          /\ \A k : Pointer(Find("visible", k), k)' = Pointer(Find("visible", k), k)
      BY <2>1, NamesKept DEF Pointer
    <3> QED
      BY <3>1 DEF Directory!vars
  <2>2. ASSUME NEW p \in Plugins, Publish(p) PROVE [Directory!Next]_(Directory!vars)
    BY <2>2, PublishExtends DEF Directory!Next, Directory!vars, Current
  <2>3. ASSUME NEW p \in Plugins, StoreNew(p) PROVE Directory!Next
    BY <2>3, StoreNewOverrides DEF Directory!Next
  <2>4. ASSUME NEW p \in Plugins, LoadPlugin(p), ~Publish(p), ~StoreNew(p)
        PROVE  UNCHANGED Directory!vars
    <3>1. storage' = storage
      BY <2>4 DEF LoadPlugin, RefuseVersion, Collect, CollectFails, NoSpace,
                  LoadOriginal, Complete
    <3> QED
      BY <2>1, <2>4, <3>1, OthersKeepNames DEF KInv
  <2>5. CASE Access \/ UNCHANGED vars
    <3>1. slots' = slots /\ data' = data /\ storage' = storage
      BY <2>5 DEF Access, Begin, LoadValue, Refuse, ReadAccess, Copy, Update, Inform,
                  NameByIndex, vars
    <3> QED
      BY <2>1, <3>1
  <2> QED
    BY <2>2, <2>3, <2>4, <2>5 DEF Next
<1> QED
  BY <1>1, <1>2, InvariantHolds, PTL DEF Spec, DirectorySpec, Directory!Spec
=============================================================================
