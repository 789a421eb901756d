----------------------------- MODULE ListLemmas -----------------------------
(***************************************************************************)
(* What the list operations of the models return.                          *)
(***************************************************************************)
EXTENDS SequencesExt, Orders, FiniteSetTheorems, SequenceTheorems, TLAPS

\* Removing one element closes the gap it leaves.
LEMMA RemoveAtProperties ==
  ASSUME NEW S, NEW s \in Seq(S), NEW i \in 1..Len(s)
  PROVE  /\ RemoveAt(s, i) \in Seq(S)
         /\ Len(RemoveAt(s, i)) = Len(s) - 1
         /\ \A j \in 1..Len(s) - 1 :
              RemoveAt(s, i)[j] = IF j < i THEN s[j] ELSE s[j + 1]
<1> DEFINE before == SubSeq(s, 1, i - 1)
           after  == SubSeq(s, i + 1, Len(s))
<1>1. Len(s) \in Nat /\ \A j \in 1..Len(s) : s[j] \in S
  BY ElementOfSeq, LenProperties
<1>2. before \in Seq(S) /\ Len(before) = i - 1 /\ \A j \in 1..i - 1 : before[j] = s[j]
  <2>1. \A j \in 1..i - 1 : s[j] \in S
    BY <1>1
  <2> QED
    BY <1>1, <2>1, SubSeqProperties
<1>3. after \in Seq(S) /\ Len(after) = Len(s) - i /\ \A j \in 1..Len(s) - i : after[j] = s[i + j]
  <2>1. \A j \in i + 1..Len(s) : s[j] \in S
    BY <1>1
  <2> QED
    BY <1>1, <2>1, SubSeqProperties
<1>4. RemoveAt(s, i) = before \o after
  BY DEF RemoveAt
<1>5. /\ before \o after \in Seq(S)
      /\ Len(before \o after) = Len(before) + Len(after)
      /\ \A j \in 1..Len(before) + Len(after) :
           (before \o after)[j] = IF j <= Len(before) THEN before[j] ELSE after[j - Len(before)]
  BY <1>2, <1>3, ConcatProperties
<1> HIDE DEF before, after
<1>6. ASSUME NEW j \in 1..Len(s) - 1
      PROVE  RemoveAt(s, i)[j] = IF j < i THEN s[j] ELSE s[j + 1]
  <2>1. CASE j < i
    <3>1. j \in 1..Len(before) + Len(after) /\ j <= Len(before)
      BY <1>1, <1>2, <1>3, <2>1
    <3>2. RemoveAt(s, i)[j] = before[j]
      BY <1>4, <1>5, <3>1
    <3> QED
      BY <1>1, <1>2, <2>1, <3>2
  <2>2. CASE j >= i
    <3>1. RemoveAt(s, i)[j] = after[j - (i - 1)]
      <4>1. j \in 1..Len(before) + Len(after) /\ ~(j <= Len(before))
        BY <1>1, <1>2, <1>3, <2>2
      <4> QED
        BY <1>2, <1>4, <1>5, <4>1
    <3>2. j - (i - 1) \in 1..Len(s) - i /\ i + (j - (i - 1)) = j + 1
      BY <1>1, <2>2
    <3>3. after[j - (i - 1)] = s[j + 1]
      BY <1>3, <3>2
    <3> QED
      BY <3>1, <3>3, <2>2
  <2> QED
    BY <2>1, <2>2, <1>1
<1> QED
  BY <1>1, <1>2, <1>3, <1>4, <1>5, <1>6

StrictOn(R, S) ==
  /\ \A x \in S : <<x, x>> \notin R
  /\ \A x, y, z \in S : <<x, y>> \in R /\ <<y, z>> \in R => <<x, z>> \in R
  /\ \A x, y \in S : x # y => <<x, y>> \in R \/ <<y, x>> \in R

Below(x, S, R) == {y \in S : <<y, x>> \in R}

\* The more come before, the later in the order.
LEMMA RanksGrow ==
  ASSUME NEW S, IsFiniteSet(S), NEW R, StrictOn(R, S)
  PROVE  /\ Cardinality(S) \in Nat
         /\ \A x \in S : Cardinality(Below(x, S, R)) \in 0 .. Cardinality(S) - 1
         /\ \A x, y \in S : <<x, y>> \in R =>
              Cardinality(Below(x, S, R)) < Cardinality(Below(y, S, R))
<1>1. Cardinality(S) \in Nat BY FS_CardinalityType
<1>2. ASSUME NEW x \in S
      PROVE  IsFiniteSet(Below(x, S, R)) /\ Cardinality(Below(x, S, R)) \in Nat
  <2>1. Below(x, S, R) \in SUBSET S BY DEF Below
  <2>2. IsFiniteSet(Below(x, S, R)) BY <2>1, FS_Subset
  <2> QED BY <2>2, FS_CardinalityType
<1>3. ASSUME NEW x \in S
      PROVE  Cardinality(Below(x, S, R)) \in 0 .. Cardinality(S) - 1
  <2>1. Below(x, S, R) \in SUBSET (S \ {x}) BY DEF Below, StrictOn
  <2>2. IsFiniteSet(S \ {x}) /\ Cardinality(S \ {x}) = Cardinality(S) - 1
    BY FS_RemoveElement
  <2>3. Cardinality(Below(x, S, R)) <= Cardinality(S) - 1 BY <2>1, <2>2, FS_Subset
  <2> QED BY <1>1, <1>2, <2>3
<1>4. ASSUME NEW x \in S, NEW y \in S, <<x, y>> \in R
      PROVE  Cardinality(Below(x, S, R)) < Cardinality(Below(y, S, R))
  <2>1. x \notin Below(x, S, R) BY DEF Below, StrictOn
  <2>2. Cardinality(Below(x, S, R) \cup {x}) = Cardinality(Below(x, S, R)) + 1
    BY <1>2, <2>1, FS_AddElement
  <2>3. (Below(x, S, R) \cup {x}) \in SUBSET Below(y, S, R)
    BY <1>4 DEF Below, StrictOn
  <2>4. Cardinality(Below(x, S, R) \cup {x}) <= Cardinality(Below(y, S, R))
    BY <1>2, <2>3, FS_Subset
  <2> QED BY <1>2, <2>2, <2>4
<1> QED BY <1>1, <1>3, <1>4

\* Every number of predecessors occurs.
LEMMA EveryPlaceIsTaken ==
  ASSUME NEW S, IsFiniteSet(S), NEW R, StrictOn(R, S)
  PROVE  \A n \in 1 .. Cardinality(S) : \E x \in S : Cardinality(Below(x, S, R)) = n - 1
<1> DEFINE f == [x \in S |-> Cardinality(Below(x, S, R)) + 1]
           T == 1 .. Cardinality(S)
<1>1. Cardinality(S) \in Nat BY FS_CardinalityType
<1>2. ASSUME NEW x \in S PROVE f[x] \in T
  <2>1. Cardinality(Below(x, S, R)) \in 0 .. Cardinality(S) - 1 BY RanksGrow
  <2> QED BY <1>1, <2>1
<1>3. \A x, y \in S : f[x] = f[y] => x = y
  <2> SUFFICES ASSUME NEW x \in S, NEW y \in S, x # y PROVE f[x] # f[y]
    OBVIOUS
  <2>1. /\ Cardinality(Below(x, S, R)) \in 0 .. Cardinality(S) - 1
        /\ Cardinality(Below(y, S, R)) \in 0 .. Cardinality(S) - 1
    BY RanksGrow
  <2>2. <<x, y>> \in R \/ <<y, x>> \in R BY DEF StrictOn
  <2>3. Cardinality(Below(x, S, R)) < Cardinality(Below(y, S, R))
        \/ Cardinality(Below(y, S, R)) < Cardinality(Below(x, S, R))
    BY <2>2, RanksGrow
  <2> QED BY <1>1, <2>1, <2>3
<1>4. f \in Injection(S, T) BY <1>2, <1>3 DEF Injection, IsInjective
<1>5. IsFiniteSet(T) /\ Cardinality(T) = Cardinality(S)
  <2>1. IsFiniteSet(T) /\ Cardinality(T) = IF 1 > Cardinality(S) THEN 0 ELSE Cardinality(S) - 1 + 1
    BY <1>1, FS_Interval
  <2> QED BY <1>1, <2>1
<1> HIDE DEF f, T
<1>6. f \in Surjection(S, T) BY <1>4, <1>5, FS_Injection
<1>7. \A n \in T : \E x \in S : f[x] = n BY <1>6 DEF Surjection
<1> USE DEF f, T
<1> SUFFICES ASSUME NEW n \in 1 .. Cardinality(S)
             PROVE  \E x \in S : Cardinality(Below(x, S, R)) = n - 1
  OBVIOUS
<1>8. PICK x \in S : f[x] = n BY <1>7
<1>9. Cardinality(Below(x, S, R)) \in 0 .. Cardinality(S) - 1 BY RanksGrow
<1> QED BY <1>1, <1>8, <1>9

\* A list that has at place n a member with n - 1 predecessors.
Lists(o, S, R) ==
  /\ o \in [1 .. Cardinality(S) -> S]
  /\ \A n \in 1 .. Cardinality(S) : Cardinality(Below(o[n], S, R)) = n - 1

LEMMA ListsInOrder ==
  ASSUME NEW S, IsFiniteSet(S), NEW R, StrictOn(R, S), NEW o, Lists(o, S, R)
  PROVE  /\ Cardinality(S) \in Nat /\ o \in Seq(S) /\ Len(o) = Cardinality(S)
         /\ \A i, j \in 1 .. Cardinality(S) : i < j => <<o[i], o[j]>> \in R /\ o[i] # o[j]
         /\ \A x \in S : /\ Cardinality(Below(x, S, R)) + 1 \in 1 .. Cardinality(S)
                         /\ o[Cardinality(Below(x, S, R)) + 1] = x
<1> DEFINE n == Cardinality(S)
           rank(x) == Cardinality(Below(x, S, R))
<1>1. n \in Nat BY RanksGrow
<1>2. \A x \in S : rank(x) \in 0 .. n - 1 BY RanksGrow
<1>3. \A i \in 1 .. n : o[i] \in S /\ rank(o[i]) = i - 1 BY DEF Lists
<1>4. ASSUME NEW x \in S, NEW y \in S, rank(x) <= rank(y), x # y PROVE <<x, y>> \in R
  <2>1. rank(x) \in Nat /\ rank(y) \in Nat BY <1>1, <1>2
  <2>2. ~(<<y, x>> \in R)
    <3> SUFFICES ASSUME <<y, x>> \in R PROVE FALSE OBVIOUS
    <3>1. rank(y) < rank(x) BY RanksGrow
    <3> QED BY <1>4, <2>1, <3>1
  <2> QED BY <1>4, <2>2 DEF StrictOn
<1>5. ASSUME NEW i \in 1 .. n, NEW j \in 1 .. n, i < j
      PROVE  <<o[i], o[j]>> \in R /\ o[i] # o[j]
  <2>1. /\ o[i] \in S /\ o[j] \in S /\ rank(o[i]) = i - 1 /\ rank(o[j]) = j - 1
    BY <1>3
  <2>2. rank(o[i]) <= rank(o[j]) /\ rank(o[i]) # rank(o[j]) BY <1>1, <1>5, <2>1
  <2>3. o[i] # o[j] BY <2>2
  <2> HIDE DEF rank, n
  <2> QED BY <1>4, <2>1, <2>2, <2>3
<1>6. ASSUME NEW x \in S PROVE rank(x) + 1 \in 1 .. n /\ o[rank(x) + 1] = x
  <2>1. rank(x) + 1 \in 1 .. n BY <1>1, <1>2
  <2>2. /\ o[rank(x) + 1] \in S /\ rank(o[rank(x) + 1]) = (rank(x) + 1) - 1 BY <1>3, <2>1
  <2>0. rank(x) \in Int BY <1>1, <1>2
  <2>3. rank(o[rank(x) + 1]) = rank(x) BY <2>0, <2>2
  <2>4. ASSUME NEW y \in S, y # x PROVE rank(y) # rank(x)
    <3>1. <<x, y>> \in R \/ <<y, x>> \in R BY <2>4 DEF StrictOn
    <3>2. rank(x) < rank(y) \/ rank(y) < rank(x) BY <3>1, RanksGrow
    <3>3. rank(x) \in Nat /\ rank(y) \in Nat BY <1>1, <1>2
    <3> QED BY <3>2, <3>3
  <2> QED BY <2>1, <2>2, <2>3, <2>4
<1>7. o \in Seq(S) /\ Len(o) = n
  <2>1. o \in [1 .. n -> S] BY DEF Lists
  <2> QED BY <1>1, <2>1, IsASeq
<1> QED BY <1>1, <1>5, <1>6, <1>7

\* The same list, described by any property that says so.
LEMMA ListsAreUnique ==
  ASSUME NEW S, IsFiniteSet(S), NEW R, StrictOn(R, S), NEW o, Lists(o, S, R),
         NEW m \in Nat, NEW f \in [1 .. m -> S],
         \A i, j \in 1 .. m : i < j => <<f[i], f[j]>> \in R,
         \A x \in S : \E i \in 1 .. m : f[i] = x
  PROVE  m = Cardinality(S) /\ o = f
<1>1. \A i, j \in 1 .. m : <<f[i], f[j]>> \in R => i < j
  <2> SUFFICES ASSUME NEW i \in 1 .. m, NEW j \in 1 .. m, <<f[i], f[j]>> \in R, ~(i < j)
               PROVE  FALSE
    OBVIOUS
  <2>1. f[i] \in S /\ f[j] \in S OBVIOUS
  <2>2. i = j \/ <<f[j], f[i]>> \in R OBVIOUS
  <2> QED BY <2>1, <2>2 DEF StrictOn
<1>2. ASSUME NEW i \in 1 .. m
      PROVE  Cardinality(Below(f[i], S, R)) = i - 1
  <2> DEFINE g == [j \in 1 .. i - 1 |-> f[j]]
             T == Below(f[i], S, R)
  <2>1. \A j \in 1 .. i - 1 : j \in 1 .. m /\ j < i /\ g[j] = f[j] OBVIOUS
  <2>2. \A j \in 1 .. i - 1 : g[j] \in T BY <2>1 DEF Below
  <2>3. \A x \in T : \E j \in 1 .. i - 1 : g[j] = x
    <3> SUFFICES ASSUME NEW x \in T PROVE \E j \in 1 .. i - 1 : g[j] = x OBVIOUS
    <3>1. x \in S /\ <<x, f[i]>> \in R BY DEF Below
    <3>2. PICK j \in 1 .. m : f[j] = x BY <3>1
    <3>3. j < i BY <1>1, <3>1, <3>2
    <3>4. j \in 1 .. i - 1 BY <3>3
    <3> QED BY <3>2, <3>4
  <2>4. \A j, k \in 1 .. i - 1 : g[j] = g[k] => j = k
    <3> SUFFICES ASSUME NEW j \in 1 .. i - 1, NEW k \in 1 .. i - 1, j < k
                 PROVE  g[j] # g[k]
      OBVIOUS
    <3>1. <<f[j], f[k]>> \in R /\ f[j] \in S BY <2>1
    <3>2. <<f[j], f[j]>> \notin R BY <3>1 DEF StrictOn
    <3> QED BY <2>1, <3>1, <3>2
  <2>5. g \in [1 .. i - 1 -> T] BY <2>2
  <2>6. g \in Bijection(1 .. i - 1, T)
    <3> HIDE DEF g, T
    <3> QED BY <2>3, <2>4, <2>5 DEF Bijection, Injection, Surjection, IsInjective
  <2>7. ExistsBijection(1 .. i - 1, T) BY <2>6 DEF ExistsBijection
  <2>8. i - 1 \in Nat OBVIOUS
  <2> HIDE DEF T
  <2>9. Cardinality(T) = i - 1 BY <2>7, <2>8, FS_CountingElements
  <2> QED BY <2>9 DEF T
<1>3. \A i, j \in 1 .. m : f[i] = f[j] => i = j
  <2> SUFFICES ASSUME NEW i \in 1 .. m, NEW j \in 1 .. m, i < j PROVE f[i] # f[j]
    OBVIOUS
  <2>1. <<f[i], f[j]>> \in R /\ f[i] \in S OBVIOUS
  <2> QED BY <2>1 DEF StrictOn
<1>4. f \in Bijection(1 .. m, S)
  BY <1>3 DEF Bijection, Injection, Surjection, IsInjective
<1>5. Cardinality(S) = m
  <2>1. ExistsBijection(1 .. m, S) BY <1>4 DEF ExistsBijection
  <2> QED BY <2>1, FS_CountingElements
<1>6. ASSUME NEW i \in 1 .. m PROVE o[i] = f[i]
  <2>1. f[i] \in S /\ Cardinality(Below(f[i], S, R)) = i - 1 BY <1>2
  <2>2. o[Cardinality(Below(f[i], S, R)) + 1] = f[i] BY <2>1, ListsInOrder
  <2>3. o[(i - 1) + 1] = f[i] BY <2>1, <2>2
  <2>4. (i - 1) + 1 = i OBVIOUS
  <2> QED BY <2>3, <2>4
<1>7. o \in [1 .. m -> S] BY <1>5 DEF Lists
<1> QED BY <1>5, <1>6, <1>7

(***************************************************************************)
(* Ascending lists of numbers, and what stands at some places of a list.   *)
(***************************************************************************)
LEMMA AscendLists ==
  ASSUME NEW T, IsFiniteSet(T), T \subseteq Int
  PROVE  \E R : /\ StrictOn(R, T) /\ Lists(Ascend(T), T, R)
                /\ \A x, y \in T : <<x, y>> \in R <=> x < y
<1> DEFINE R == {p \in T \X T : p[1] < p[2]}
           o == Ascend(T)
<1>1. \A x, y \in T : <<x, y>> \in R <=> x < y OBVIOUS
<1>2. StrictOn(R, T) BY <1>1 DEF StrictOn
<1>3. \A x \in T : {y \in T : y < x} = Below(x, T, R) BY <1>1 DEF Below
<1> HIDE DEF R
<1>4. ASSUME NEW n \in 1 .. Cardinality(T)
      PROVE  o[n] \in T /\ Cardinality({y \in T : y < o[n]}) = n - 1
  <2>1. \E x \in T : Cardinality(Below(x, T, R)) = n - 1 BY <1>2, EveryPlaceIsTaken
  <2>2. \E x \in T : Cardinality({y \in T : y < x}) = n - 1 BY <1>3, <2>1
  <2>3. o[n] = CHOOSE x \in T : Cardinality({y \in T : y < x}) = n - 1
    BY DEF Ascend, Ordered
  <2> HIDE DEF o
  <2> QED BY <2>2, <2>3
<1>5. o = [n \in 1 .. Cardinality(T) |-> o[n]] BY DEF Ascend, Ordered
<1> HIDE DEF o
<1>6. o \in [1 .. Cardinality(T) -> T] BY <1>4, <1>5
<1>7. \A n \in 1 .. Cardinality(T) : Cardinality(Below(o[n], T, R)) = n - 1
  BY <1>3, <1>4
<1>8. Lists(o, T, R) BY <1>6, <1>7 DEF Lists
<1> QED BY <1>1, <1>2, <1>8 DEF o

LEMMA AscendFacts ==
  ASSUME NEW T, IsFiniteSet(T), T \subseteq Int
  PROVE  /\ Cardinality(T) \in Nat /\ Ascend(T) \in Seq(T) /\ Len(Ascend(T)) = Cardinality(T)
         /\ \A i \in 1 .. Cardinality(T) : Ascend(T)[i] \in T
         /\ \A i, j \in 1 .. Cardinality(T) : i < j => Ascend(T)[i] < Ascend(T)[j]
         /\ \A x \in T : \E i \in 1 .. Cardinality(T) : Ascend(T)[i] = x
<1>1. PICK R : /\ StrictOn(R, T) /\ Lists(Ascend(T), T, R)
               /\ \A x, y \in T : <<x, y>> \in R <=> x < y
  BY AscendLists
<1>2. /\ Cardinality(T) \in Nat /\ Ascend(T) \in Seq(T) /\ Len(Ascend(T)) = Cardinality(T)
      /\ \A i, j \in 1 .. Cardinality(T) : i < j => <<Ascend(T)[i], Ascend(T)[j]>> \in R
      /\ \A x \in T : /\ Cardinality(Below(x, T, R)) + 1 \in 1 .. Cardinality(T)
                      /\ Ascend(T)[Cardinality(Below(x, T, R)) + 1] = x
  BY <1>1, ListsInOrder
<1>3. \A i \in 1 .. Cardinality(T) : Ascend(T)[i] \in T BY <1>1 DEF Lists
<1> QED BY <1>1, <1>2, <1>3

LEMMA AscendIsUnique ==
  ASSUME NEW T, IsFiniteSet(T), T \subseteq Int, NEW m \in Nat, NEW f \in [1 .. m -> T],
         \A i, j \in 1 .. m : i < j => f[i] < f[j],
         \A x \in T : \E i \in 1 .. m : f[i] = x
  PROVE  m = Cardinality(T) /\ Ascend(T) = f
<1>1. PICK R : /\ StrictOn(R, T) /\ Lists(Ascend(T), T, R)
               /\ \A x, y \in T : <<x, y>> \in R <=> x < y
  BY AscendLists
<1>2. \A i, j \in 1 .. m : i < j => <<f[i], f[j]>> \in R BY <1>1
<1>3. \A x \in T : \E i \in 1 .. m : f[i] = x OBVIOUS
<1>4. StrictOn(R, T) /\ Lists(Ascend(T), T, R) BY <1>1
<1> QED BY ONLY <1>2, <1>3, <1>4, IsFiniteSet(T), m \in Nat, f \in [1 .. m -> T], ListsAreUnique

LEMMA ConcatLists ==
  ASSUME NEW S, NEW s \in Seq(S), NEW u \in Seq(S), NEW k \in Nat, NEW m \in Nat,
         Len(s) = k, Len(u) = m
  PROVE  /\ s \o u \in Seq(S) /\ Len(s \o u) = k + m
         /\ \A i \in 1 .. k + m : (s \o u)[i] = IF i <= k THEN s[i] ELSE u[i - k]
  BY ConcatProperties

LEMMA PlacesInConcat ==
  \A s, u \in Seq(Int) : \A i \in 1 .. Len(s) + Len(u) :
    (s \o u)[i] = IF i <= Len(s) THEN s[i] ELSE u[i - Len(s)]
  BY ConcatProperties

\* Two sets, one below the other.
LEMMA AscendJoins ==
  ASSUME NEW A, IsFiniteSet(A), A \subseteq Int, NEW B, IsFiniteSet(B), B \subseteq Int,
         \A a \in A, b \in B : a < b
  PROVE  /\ Cardinality(A \cup B) = Cardinality(A) + Cardinality(B)
         /\ Ascend(A \cup B) = Ascend(A) \o Ascend(B)
<1> DEFINE T == A \cup B
           f == Ascend(A) \o Ascend(B)
           k == Cardinality(A)
           m == Cardinality(B)
<1>1. /\ k \in Nat /\ Ascend(A) \in Seq(A) /\ Len(Ascend(A)) = k
      /\ \A i \in 1 .. k : Ascend(A)[i] \in A
      /\ \A i, j \in 1 .. k : i < j => Ascend(A)[i] < Ascend(A)[j]
      /\ \A x \in A : \E i \in 1 .. k : Ascend(A)[i] = x
  BY AscendFacts
<1>2. /\ m \in Nat /\ Ascend(B) \in Seq(B) /\ Len(Ascend(B)) = m
      /\ \A i \in 1 .. m : Ascend(B)[i] \in B
      /\ \A i, j \in 1 .. m : i < j => Ascend(B)[i] < Ascend(B)[j]
      /\ \A x \in B : \E i \in 1 .. m : Ascend(B)[i] = x
  BY AscendFacts
<1>3. IsFiniteSet(T) /\ T \subseteq Int BY FS_Union
<1>4. Ascend(A) \in Seq(Int) /\ Ascend(B) \in Seq(Int) BY <1>1, <1>2, SeqMonotonic
<1>5. /\ f \in Seq(Int) /\ Len(f) = k + m
      /\ \A i \in 1 .. k + m : f[i] = IF i <= k THEN Ascend(A)[i] ELSE Ascend(B)[i - k]
  <2>1. k \in Nat /\ m \in Nat /\ Len(Ascend(A)) = k /\ Len(Ascend(B)) = m
    BY <1>1, <1>2
  <2>2. /\ (Ascend(A) \o Ascend(B)) \in Seq(Int)
        /\ Len(Ascend(A) \o Ascend(B)) = Cardinality(A) + Cardinality(B)
    BY <1>4, <2>1, ConcatLists
  <2>3. \A i \in 1 .. k + m : (Ascend(A) \o Ascend(B))[i]
                              = IF i <= k THEN Ascend(A)[i] ELSE Ascend(B)[i - k]
    <3> DEFINE a == Ascend(A)
               b == Ascend(B)
    <3>1. a \in Seq(Int) /\ b \in Seq(Int) /\ Len(a) = k /\ Len(b) = m BY <1>4, <2>1
    <3> HIDE DEF a, b, k, m
    <3>2. \A i \in 1 .. Len(a) + Len(b) :
            (a \o b)[i] = IF i <= Len(a) THEN a[i] ELSE b[i - Len(a)]
      BY ONLY <3>1, ConcatProperties
    <3>3. \A i \in 1 .. k + m : (a \o b)[i] = IF i <= k THEN a[i] ELSE b[i - k]
      BY ONLY <3>1, <3>2
    <3> QED BY <3>3 DEF a, b
  <2> QED BY <2>2, <2>3
<1>6. f \in [1 .. k + m -> T]
  <2>1. f \in [1 .. k + m -> Int] BY <1>5, LenProperties
  <2>2. ASSUME NEW i \in 1 .. k + m PROVE f[i] \in T
    <3>1. CASE i <= k
      <4>1. i \in 1 .. k BY <1>1, <1>2, <3>1
      <4> QED BY <1>1, <1>5, <3>1, <4>1
    <3>2. CASE ~(i <= k)
      <4>1. i - k \in 1 .. m BY <1>1, <1>2, <3>2
      <4> QED BY <1>2, <1>5, <3>2, <4>1
    <3> QED BY <3>1, <3>2
  <2> QED BY <2>1, <2>2
<1> HIDE DEF f, k, m
<1>7. \A i \in 1 .. k : i \in 1 .. k + m /\ f[i] = Ascend(A)[i] BY <1>1, <1>2, <1>5
<1>8. \A i \in 1 .. m : i + k \in 1 .. k + m /\ f[i + k] = Ascend(B)[i]
  <2> SUFFICES ASSUME NEW i \in 1 .. m
               PROVE  i + k \in 1 .. k + m /\ f[i + k] = Ascend(B)[i]
    OBVIOUS
  <2>1. i + k \in 1 .. k + m /\ ~(i + k <= k) /\ (i + k) - k = i BY <1>1, <1>2
  <2> QED BY <1>5, <2>1
<1>9. ASSUME NEW i \in 1 .. k + m, NEW j \in 1 .. k + m, i < j PROVE f[i] < f[j]
  <2>1. CASE j <= k
    <3>1. i \in 1 .. k /\ j \in 1 .. k BY <1>1, <1>2, <1>9, <2>1
    <3> QED BY <1>1, <1>7, <1>9, <3>1
  <2>2. CASE i <= k /\ ~(j <= k)
    <3>1. i \in 1 .. k /\ j - k \in 1 .. m BY <1>1, <1>2, <1>9, <2>2
    <3>2. f[i] \in A /\ f[j] \in B BY <1>1, <1>2, <1>5, <2>2, <3>1
    <3> QED BY <3>2
  <2>3. CASE ~(i <= k)
    <3>1. i - k \in 1 .. m /\ j - k \in 1 .. m /\ i - k < j - k /\ ~(j <= k)
      BY <1>1, <1>2, <1>9, <2>3
    <3>2. f[i] = Ascend(B)[i - k] /\ f[j] = Ascend(B)[j - k] BY <1>5, <2>3, <3>1
    <3> QED BY <1>2, <3>1, <3>2
  <2> QED BY <2>1, <2>2, <2>3
<1>10. \A x \in T : \E i \in 1 .. k + m : f[i] = x
  <2> SUFFICES ASSUME NEW x \in T PROVE \E i \in 1 .. k + m : f[i] = x OBVIOUS
  <2>1. CASE x \in A
    <3>1. PICK i \in 1 .. k : Ascend(A)[i] = x BY <1>1, <2>1
    <3> QED BY <1>7, <3>1
  <2>2. CASE x \in B
    <3>1. PICK i \in 1 .. m : Ascend(B)[i] = x BY <1>2, <2>2
    <3> QED BY <1>8, <3>1
  <2> QED BY <2>1, <2>2
<1>11. k + m \in Nat BY <1>1, <1>2
<1> HIDE DEF T
<1>12. k + m = Cardinality(T) /\ Ascend(T) = f
  BY ONLY <1>3, <1>6, <1>9, <1>10, <1>11, AscendIsUnique
<1> QED BY <1>12 DEF T, f, k, m

LEMMA AtFacts ==
  ASSUME NEW S, NEW s \in Seq(S), NEW P, P \subseteq DOMAIN s
  PROVE  /\ IsFiniteSet(P) /\ P \subseteq Int /\ Cardinality(P) \in Nat
         /\ PlacedAt(s, P) \in Seq(S) /\ Len(PlacedAt(s, P)) = Cardinality(P)
         /\ \A n \in 1 .. Cardinality(P) : PlacedAt(s, P)[n] = s[Ascend(P)[n]]
         /\ \A n \in 1 .. Cardinality(P) : Ascend(P)[n] \in P
<1>1. Len(s) \in Nat /\ DOMAIN s = 1 .. Len(s) /\ \A i \in 1 .. Len(s) : s[i] \in S
  BY LenProperties, ElementOfSeq
<1>2. IsFiniteSet(P) /\ P \subseteq Int
  <2>1. IsFiniteSet(1 .. Len(s)) BY <1>1, FS_Interval
  <2> QED BY <1>1, <2>1, FS_Subset
<1>3. /\ Cardinality(P) \in Nat
      /\ \A i \in 1 .. Cardinality(P) : Ascend(P)[i] \in P
  BY <1>2, AscendFacts
<1>4. \A n \in 1 .. Cardinality(P) : s[Ascend(P)[n]] \in S BY <1>1, <1>3
<1>5. PlacedAt(s, P) = [n \in 1 .. Cardinality(P) |-> s[Ascend(P)[n]]] BY DEF PlacedAt
<1>6. PlacedAt(s, P) \in [1 .. Cardinality(P) -> S] BY <1>4, <1>5
<1>7. PlacedAt(s, P) \in Seq(S) /\ Len(PlacedAt(s, P)) = Cardinality(P)
  BY <1>3, <1>6, IsASeq
<1> QED BY <1>2, <1>3, <1>5, <1>7

\* What stands at the first and at later places.
LEMMA AtJoins ==
  ASSUME NEW S, NEW s \in Seq(S), NEW P, NEW Q, P \cup Q \subseteq DOMAIN s,
         \A p \in P, q \in Q : p < q
  PROVE  PlacedAt(s, P \cup Q) = PlacedAt(s, P) \o PlacedAt(s, Q)
<1>1. /\ IsFiniteSet(P) /\ P \subseteq Int /\ Cardinality(P) \in Nat
      /\ PlacedAt(s, P) \in Seq(S) /\ Len(PlacedAt(s, P)) = Cardinality(P)
      /\ \A n \in 1 .. Cardinality(P) : PlacedAt(s, P)[n] = s[Ascend(P)[n]]
  BY AtFacts
<1>2. /\ IsFiniteSet(Q) /\ Q \subseteq Int /\ Cardinality(Q) \in Nat
      /\ PlacedAt(s, Q) \in Seq(S) /\ Len(PlacedAt(s, Q)) = Cardinality(Q)
      /\ \A n \in 1 .. Cardinality(Q) : PlacedAt(s, Q)[n] = s[Ascend(Q)[n]]
  BY AtFacts
<1>3. /\ PlacedAt(s, P \cup Q) \in Seq(S) /\ Len(PlacedAt(s, P \cup Q)) = Cardinality(P \cup Q)
      /\ \A n \in 1 .. Cardinality(P \cup Q) : PlacedAt(s, P \cup Q)[n] = s[Ascend(P \cup Q)[n]]
  BY AtFacts
<1>4. /\ Cardinality(P \cup Q) = Cardinality(P) + Cardinality(Q)
      /\ Ascend(P \cup Q) = Ascend(P) \o Ascend(Q)
  BY <1>1, <1>2, AscendJoins
<1>5. /\ Ascend(P) \in Seq(Int) /\ Len(Ascend(P)) = Cardinality(P)
      /\ Ascend(Q) \in Seq(Int) /\ Len(Ascend(Q)) = Cardinality(Q)
  <2>1. Ascend(P) \in Seq(P) /\ Len(Ascend(P)) = Cardinality(P) BY <1>1, AscendFacts
  <2>2. Ascend(Q) \in Seq(Q) /\ Len(Ascend(Q)) = Cardinality(Q) BY <1>2, AscendFacts
  <2> QED BY <1>1, <1>2, <2>1, <2>2, SeqMonotonic
<1>6. \A i \in 1 .. Cardinality(P) + Cardinality(Q) :
        Ascend(P \cup Q)[i] = IF i <= Cardinality(P) THEN Ascend(P)[i]
                              ELSE Ascend(Q)[i - Cardinality(P)]
  <2> DEFINE a == Ascend(P)
             b == Ascend(Q)
             k == Cardinality(P)
             m == Cardinality(Q)
  <2>1. /\ k \in Nat /\ m \in Nat /\ a \in Seq(Int) /\ b \in Seq(Int)
        /\ Len(a) = k /\ Len(b) = m
    BY <1>1, <1>2, <1>5
  <2> HIDE DEF a, b, k, m
  <2>2. \A i \in 1 .. Len(a) + Len(b) :
          (a \o b)[i] = IF i <= Len(a) THEN a[i] ELSE b[i - Len(a)]
    BY ONLY <2>1, ConcatProperties
  <2>3. \A i \in 1 .. k + m : (a \o b)[i] = IF i <= k THEN a[i] ELSE b[i - k]
    BY ONLY <2>1, <2>2
  <2> QED BY <1>4, <2>3 DEF a, b, k, m
<1>7. /\ PlacedAt(s, P) \o PlacedAt(s, Q) \in Seq(S)
      /\ Len(PlacedAt(s, P) \o PlacedAt(s, Q)) = Cardinality(P) + Cardinality(Q)
      /\ \A i \in 1 .. Cardinality(P) + Cardinality(Q) :
           (PlacedAt(s, P) \o PlacedAt(s, Q))[i] = IF i <= Cardinality(P) THEN PlacedAt(s, P)[i]
                                                  ELSE PlacedAt(s, Q)[i - Cardinality(P)]
  <2> DEFINE a == PlacedAt(s, P)
             b == PlacedAt(s, Q)
             k == Cardinality(P)
             m == Cardinality(Q)
  <2>1. /\ k \in Nat /\ m \in Nat /\ a \in Seq(S) /\ b \in Seq(S) /\ Len(a) = k /\ Len(b) = m
    BY <1>1, <1>2
  <2> HIDE DEF a, b, k, m
  <2>2. a \o b \in Seq(S) /\ Len(a \o b) = k + m BY ONLY <2>1, ConcatProperties
  <2>3. \A i \in 1 .. Len(a) + Len(b) :
          (a \o b)[i] = IF i <= Len(a) THEN a[i] ELSE b[i - Len(a)]
    BY ONLY <2>1, ConcatProperties
  <2>4. \A i \in 1 .. k + m : (a \o b)[i] = IF i <= k THEN a[i] ELSE b[i - k]
    BY ONLY <2>1, <2>3
  <2> QED BY <2>2, <2>4 DEF a, b, k, m
<1>8. ASSUME NEW i \in 1 .. Cardinality(P) + Cardinality(Q)
      PROVE  PlacedAt(s, P \cup Q)[i] = (PlacedAt(s, P) \o PlacedAt(s, Q))[i]
  <2>1. PlacedAt(s, P \cup Q)[i] = s[Ascend(P \cup Q)[i]] BY <1>3, <1>4
  <2>2. CASE i <= Cardinality(P)
    <3>1. i \in 1 .. Cardinality(P) BY <1>1, <1>2, <2>2
    <3> QED BY <1>1, <1>6, <1>7, <2>1, <2>2, <3>1
  <2>3. CASE ~(i <= Cardinality(P))
    <3>1. i - Cardinality(P) \in 1 .. Cardinality(Q) BY <1>1, <1>2, <2>3
    <3> QED BY <1>2, <1>6, <1>7, <2>1, <2>3, <3>1
  <2> QED BY <2>2, <2>3
<1> QED BY <1>3, <1>4, <1>7, <1>8, SeqEqual

\* Places that exist in both lists, with the same there.
LEMMA AtAgrees ==
  ASSUME NEW S, NEW s \in Seq(S), NEW u \in Seq(S), NEW P, P \subseteq DOMAIN s,
         \A i \in P : s[i] = u[i]
  PROVE  PlacedAt(s, P) = PlacedAt(u, P)
<1>1. \A n \in 1 .. Cardinality(P) : Ascend(P)[n] \in P BY AtFacts
<1> QED BY <1>1 DEF PlacedAt

LEMMA AtOnePlace ==
  ASSUME NEW S, NEW s \in Seq(S), NEW i \in DOMAIN s
  PROVE  PlacedAt(s, {i}) = <<s[i]>>
<1>1. Cardinality({i}) = 1 /\ IsFiniteSet({i}) BY FS_Singleton
<1>2. /\ PlacedAt(s, {i}) \in Seq(S) /\ Len(PlacedAt(s, {i})) = 1
      /\ \A n \in 1 .. 1 : PlacedAt(s, {i})[n] = s[Ascend({i})[n]]
      /\ \A n \in 1 .. 1 : Ascend({i})[n] \in {i}
  <2> DEFINE P == {i}
  <2>1. P \subseteq DOMAIN s OBVIOUS
  <2> HIDE DEF P
  <2>2. /\ PlacedAt(s, P) \in Seq(S) /\ Len(PlacedAt(s, P)) = Cardinality(P)
        /\ \A n \in 1 .. Cardinality(P) : PlacedAt(s, P)[n] = s[Ascend(P)[n]]
        /\ \A n \in 1 .. Cardinality(P) : Ascend(P)[n] \in P
    BY <2>1, AtFacts
  <2> QED BY <1>1, <2>2 DEF P
<1>3. s[i] \in S BY LenProperties, ElementOfSeq
<1> QED BY <1>2, <1>3

LEMMA AtNoPlace ==
  ASSUME NEW s PROVE PlacedAt(s, {}) = <<>>
<1>1. Cardinality({}) = 0 BY FS_EmptySet
<1>2. 1 .. 0 = {} OBVIOUS
<1> QED BY <1>1, <1>2 DEF PlacedAt

-----------------------------------------------------------------------------
\* Every set of naturals has a smallest member.
LEMMA SmallestMember ==
  ASSUME NEW T, T \subseteq Nat, T # {}
  PROVE  \E x \in T : \A y \in T : ~(y < x)
<1> DEFINE R == OpToRel(<, Nat)
<1>1. \E x \in T : \A y \in T : ~(<<y, x>> \in R)
  BY WFMin, NatLessThanWellFounded DEF OpToRel
<1>2. \A x \in Nat, y \in Nat : y < x => <<y, x>> \in R
  BY DEF OpToRel
<1> QED BY <1>1, <1>2

\* Induction over a set of naturals.
LEMMA NaturalsAreReached ==
  ASSUME NEW S, 0 \in S, \A n \in Nat : n \in S => n + 1 \in S
  PROVE  Nat \subseteq S
<1> SUFFICES ASSUME Nat \ S # {} PROVE FALSE
  OBVIOUS
<1>1. PICK x \in Nat \ S : \A y \in Nat \ S : ~(y < x)
  BY SmallestMember
<1>2. x # 0 OBVIOUS
<1>3. x - 1 \in Nat /\ x - 1 < x BY <1>2
<1>4. x - 1 \in S BY <1>1, <1>3
<1>5. (x - 1) + 1 \in S BY <1>3, <1>4
<1> QED BY <1>1, <1>5

LEMMA MinIsSmallest ==
  ASSUME NEW S, S \subseteq Nat, S # {}
  PROVE  Min(S) \in S /\ \A x \in S : Min(S) <= x
<1>1. PICK x \in S : \A y \in S : ~(y < x)
  BY SmallestMember
<1>2. \A y \in S : x <= y BY <1>1
<1> QED BY <1>2 DEF Min

LEMMA MaxIsGreatest ==
  ASSUME NEW S, S \subseteq Nat, S # {}, NEW b \in Nat, \A x \in S : x <= b
  PROVE  Max(S) \in S /\ \A x \in S : x <= Max(S)
<1> DEFINE T == {b - x : x \in S}
<1>1. T \subseteq Nat /\ T # {}
  <2>1. \A x \in S : b - x \in Nat OBVIOUS
  <2>2. PICK x \in S : TRUE OBVIOUS
  <2>3. b - x \in T OBVIOUS
  <2> QED BY <2>1, <2>3
<1>2. PICK z \in T : \A y \in T : ~(y < z)
  BY <1>1, SmallestMember
<1>3. PICK x \in S : z = b - x OBVIOUS
<1>4. \A y \in S : x >= y
  <2> TAKE y \in S
  <2>1. b - y \in T OBVIOUS
  <2> QED BY <1>2, <1>3, <2>1
<1> QED BY <1>4 DEF Max

LEMMA TopOfInterval ==
  ASSUME NEW n \in Nat \ {0}
  PROVE  Max(1 .. n) = n /\ (1 .. n) \ {n} = 1 .. (n - 1)
<1>1. \A x \in 1 .. n : (\A y \in 1 .. n : x >= y) => x = n OBVIOUS
<1>2. n \in 1 .. n /\ \A y \in 1 .. n : n >= y OBVIOUS
<1> QED BY <1>1, <1>2 DEF Max

\* A growing map of a set of numbers lists its image in the order of the set.
Grows(g, K, Q) ==
  /\ IsFiniteSet(K) /\ K \subseteq Int /\ \A k \in K : g[k] \in Int
  /\ \A j, k \in K : j < k => g[j] < g[k]
  /\ \A k \in K : g[k] \in Q
  /\ \A x \in Q : \E k \in K : g[k] = x

LEMMA AscendMaps ==
  ASSUME NEW g, NEW K, NEW Q, Grows(g, K, Q)
  PROVE  /\ IsFiniteSet(Q) /\ Q \subseteq Int /\ Cardinality(Q) = Cardinality(K)
         /\ \A n \in 1 .. Cardinality(K) : Ascend(Q)[n] = g[Ascend(K)[n]]
<1>0. /\ IsFiniteSet(K) /\ K \subseteq Int /\ \A k \in K : g[k] \in Int
      /\ \A j, k \in K : j < k => g[j] < g[k]
      /\ \A k \in K : g[k] \in Q
      /\ \A x \in Q : \E k \in K : g[k] = x
  BY DEF Grows
<1> DEFINE m == Cardinality(K)
           a == Ascend(K)
           f == [n \in 1 .. m |-> g[a[n]]]
<1>1. m \in Nat /\ (\A n \in 1 .. m : a[n] \in K)
      /\ (\A i, j \in 1 .. m : i < j => a[i] < a[j])
      /\ \A x \in K : \E i \in 1 .. m : a[i] = x
  BY <1>0, AscendFacts
<1> HIDE DEF a, m
<1>2. Q \subseteq Int BY <1>0
<1>3. IsFiniteSet(Q)
  <2> DEFINE h == [k \in K |-> g[k]]
  <2>1. h \in [K -> Q] BY <1>0
  <2>2. h \in Surjection(K, Q) BY <1>0, <2>1 DEF Surjection
  <2> QED BY <1>0, <2>2, FS_Surjection
<1>4. f \in [1 .. m -> Q] BY <1>0, <1>1
<1>5. \A i, j \in 1 .. m : i < j => f[i] < f[j] BY <1>0, <1>1
<1>6. \A x \in Q : \E i \in 1 .. m : f[i] = x
  <2> SUFFICES ASSUME NEW x \in Q PROVE \E i \in 1 .. m : f[i] = x OBVIOUS
  <2>1. PICK k \in K : g[k] = x BY <1>0
  <2>2. PICK i \in 1 .. m : a[i] = k BY <1>1
  <2> QED BY <2>1, <2>2
<1> HIDE DEF f
<1>7. m = Cardinality(Q) /\ Ascend(Q) = f
  BY ONLY <1>1, <1>2, <1>3, <1>4, <1>5, <1>6, AscendIsUnique
<1> QED BY <1>2, <1>3, <1>7 DEF f, m, a

LEMMA MaxIs ==
  ASSUME NEW S, NEW m \in S, m \in Int, S \subseteq Int, \A x \in S : x <= m
  PROVE  Max(S) = m
<1>1. \E x \in S : \A y \in S : x >= y OBVIOUS
<1>2. Max(S) \in S /\ \A y \in S : Max(S) >= y BY <1>1 DEF Max
<1>3. Max(S) \in Int /\ Max(S) >= m /\ Max(S) <= m BY <1>2
<1> QED BY ONLY <1>3, m \in Int

\* Disjoint parts: what a sum over them counts.
Parted(S, Part) ==
  /\ IsFiniteSet(S)
  /\ \A x \in S : IsFiniteSet(Part[x])
  /\ \A x, y \in S : x # y => Part[x] \cap Part[y] = {}

Joint(S, Part) == UNION {Part[x] : x \in S}

LEMMA PartsJoin ==
  ASSUME NEW S, NEW Part, Parted(S, Part), NEW s \in SUBSET S, NEW x \in s
  PROVE  /\ IsFiniteSet(Joint(s \ {x}, Part)) /\ IsFiniteSet(Part[x]) /\ IsFiniteSet(Joint(s, Part))
         /\ Cardinality(Joint(s \ {x}, Part)) \in Nat /\ Cardinality(Part[x]) \in Nat
         /\ Cardinality(Joint(s, Part)) = Cardinality(Part[x]) + Cardinality(Joint(s \ {x}, Part))
<1>1. /\ IsFiniteSet(S) /\ \A y \in S : IsFiniteSet(Part[y])
      /\ \A y, z \in S : y # z => Part[y] \cap Part[z] = {}
  BY DEF Parted
<1> DEFINE A == Part[x]
           B == Joint(s \ {x}, Part)
           t == s \ {x}
           F == {Part[y] : y \in t}
<1>2. IsFiniteSet(B)
  <2>1. t \in SUBSET S OBVIOUS
  <2>2. IsFiniteSet(t) BY <1>1, <2>1, FS_Subset
  <2>3. IsFiniteSet(F)
    <3> DEFINE h == [y \in t |-> Part[y]]
    <3>1. h \in Surjection(t, F) BY DEF Surjection
    <3> HIDE DEF h, F, t
    <3> QED BY <2>2, <3>1, FS_Surjection
  <2>4. \A X \in F : IsFiniteSet(X) BY <1>1
  <2>5. B = UNION F BY DEF Joint
  <2> HIDE DEF F, B
  <2> QED BY <2>3, <2>4, <2>5, FS_UNION
<1>3. IsFiniteSet(A) BY <1>1
<1>4. A \cap B = {} BY <1>1 DEF Joint
<1>5. Joint(s, Part) = A \cup B BY DEF Joint
<1> HIDE DEF A, B
<1>6. IsFiniteSet(A \cup B) /\ Cardinality(A \cup B) = Cardinality(A) + Cardinality(B) - Cardinality(A \cap B)
  BY ONLY <1>2, <1>3, FS_Union
<1>7. Cardinality(A) \in Nat /\ Cardinality(B) \in Nat BY <1>2, <1>3, FS_CardinalityType
<1>8. Cardinality(A \cap B) = 0 BY <1>4, FS_EmptySet
<1>9. Cardinality(A \cup B) = Cardinality(A) + Cardinality(B) BY ONLY <1>6, <1>7, <1>8
<1> QED BY <1>2, <1>3, <1>5, <1>6, <1>7, <1>9 DEF A, B

LEMMA NoParts ==
  ASSUME NEW Part PROVE Cardinality(Joint({}, Part)) = 0
<1>1. Joint({}, Part) = {} BY DEF Joint
<1> QED BY <1>1, FS_EmptySet

\* A sum, taken in any order, is the number of members of the parts.
LEMMA SumCounts ==
  ASSUME NEW S, NEW Part, Parted(S, Part), NEW g,
         \A s \in SUBSET S :
           IF s = {} THEN g[s] = 0
           ELSE \E x \in s : g[s] = Cardinality(Part[x]) + g[s \ {x}]
  PROVE  g[S] = Cardinality(Joint(S, Part))
<1> DEFINE N == {n \in Nat : \A s \in SUBSET S : Cardinality(s) = n => g[s] = Cardinality(Joint(s, Part))}
<1>0. IsFiniteSet(S) BY DEF Parted
<1>1. 0 \in N
  <2> SUFFICES ASSUME NEW s \in SUBSET S, Cardinality(s) = 0 PROVE g[s] = Cardinality(Joint(s, Part))
    OBVIOUS
  <2>1. IsFiniteSet(s) BY <1>0, FS_Subset
  <2>2. s = {} BY <2>1, FS_EmptySet
  <2> QED BY <2>2, NoParts
<1>2. \A n \in Nat : n \in N => n + 1 \in N
  <2> SUFFICES ASSUME NEW n \in Nat, n \in N, NEW s \in SUBSET S, Cardinality(s) = n + 1
               PROVE  g[s] = Cardinality(Joint(s, Part))
    OBVIOUS
  <2>1. IsFiniteSet(s) BY <1>0, FS_Subset
  <2>2. s # {} BY FS_EmptySet
  <2>3. PICK x \in s : g[s] = Cardinality(Part[x]) + g[s \ {x}] BY <2>2
  <2>4. Cardinality(s \ {x}) = n
    <3>1. Cardinality(s \ {x}) = Cardinality(s) - 1 BY <2>1, FS_RemoveElement
    <3> QED BY <3>1
  <2>5. s \ {x} \in SUBSET S OBVIOUS
  <2>6. g[s \ {x}] = Cardinality(Joint(s \ {x}, Part)) BY <2>4, <2>5
  <2>7. Cardinality(Joint(s, Part)) = Cardinality(Part[x]) + Cardinality(Joint(s \ {x}, Part))
    BY PartsJoin
  <2> QED BY <2>3, <2>6, <2>7
<1>3. Cardinality(S) \in Nat BY <1>0, FS_CardinalityType
<1>4. Cardinality(S) \in N
  <2> HIDE DEF N
  <2> QED BY <1>1, <1>2, <1>3, NaturalsAreReached
<1> QED BY <1>4

Summing(g, S, c) ==
  g = [s \in SUBSET S |-> IF s = {} THEN 0
         ELSE c[CHOOSE x \in s : TRUE] + g[s \ {CHOOSE x \in s : TRUE}]]

LEMMA SumExists ==
  ASSUME NEW S, NEW Part, Parted(S, Part), NEW c, \A x \in S : c[x] = Cardinality(Part[x])
  PROVE  \E g : Summing(g, S, c)
<1> DEFINE g == [s \in SUBSET S |-> Cardinality(Joint(s, Part))]
<1>1. ASSUME NEW s \in SUBSET S
      PROVE  g[s] = IF s = {} THEN 0 ELSE c[CHOOSE x \in s : TRUE] + g[s \ {CHOOSE x \in s : TRUE}]
  <2>1. CASE s = {} BY <2>1, NoParts
  <2>2. CASE s # {}
    <3> DEFINE x == CHOOSE x \in s : TRUE
    <3>1. x \in s BY <2>2
    <3> HIDE DEF x
    <3>2. s \ {x} \in SUBSET S OBVIOUS
    <3>3. g[s \ {x}] = Cardinality(Joint(s \ {x}, Part)) BY <3>2
    <3>4. Cardinality(Joint(s, Part)) = Cardinality(Part[x]) + Cardinality(Joint(s \ {x}, Part))
      BY <3>1, PartsJoin
    <3>5. c[x] = Cardinality(Part[x]) BY <3>1
    <3>6. g[s] = c[x] + g[s \ {x}] BY <3>3, <3>4, <3>5
    <3> QED BY <2>2, <3>6 DEF x
  <2> QED BY <2>1, <2>2
<1>2. Summing(g, S, c) BY <1>1 DEF Summing
<1> QED BY <1>2

LEMMA ChosenMember ==
  ASSUME NEW s, s # {} PROVE (CHOOSE x \in s : TRUE) \in s
OBVIOUS

Summed(c, S) == MapThenSumSet(LAMBDA a : c[a], S)

LEMMA SumOfParts ==
  ASSUME NEW S, NEW Part, Parted(S, Part), NEW c, \A x \in S : c[x] = Cardinality(Part[x])
  PROVE  Summed(c, S) = Cardinality(Joint(S, Part))
<1> DEFINE Iter(g) == g = [s \in SUBSET S |-> IF s = {} THEN 0
                       ELSE c[CHOOSE x \in s : TRUE] + g[s \ {CHOOSE x \in s : TRUE}]]
           it == CHOOSE g : Iter(g)
<1>1. Iter(it)
  <2>1. \E g : Summing(g, S, c) BY SumExists
  <2>2. \E g : Iter(g) BY <2>1 DEF Summing
  <2> HIDE DEF Iter
  <2> QED BY <2>2
<1>2. Summed(c, S) = it[S] BY DEF Summed, MapThenSumSet, MapThenFoldSet
<1> HIDE DEF it
<1>3. ASSUME NEW s \in SUBSET S, s # {} PROVE \E x \in s : it[s] = Cardinality(Part[x]) + it[s \ {x}]
  <2> DEFINE x == CHOOSE x \in s : TRUE
  <2>1. it[s] = c[x] + it[s \ {x}] BY <1>1, <1>3
  <2>2. x \in s BY <1>3, ChosenMember
  <2> HIDE DEF x
  <2>3. c[x] = Cardinality(Part[x]) BY <2>2
  <2> QED BY <2>1, <2>2, <2>3
<1>4. it[{}] = 0 BY <1>1
<1>5. \A s \in SUBSET S : IF s = {} THEN it[s] = 0
                          ELSE \E x \in s : it[s] = Cardinality(Part[x]) + it[s \ {x}]
  BY <1>3, <1>4
<1>6. it[S] = Cardinality(Joint(S, Part)) BY ONLY <1>5, Parted(S, Part), SumCounts
<1> QED BY <1>2, <1>6

LEMMA SumOfExecutions ==
  ASSUME NEW S, NEW Part, Parted(S, Part), \A x \in S : x.executions = Cardinality(Part[x])
  PROVE  MapThenSumSet(LAMBDA block : block.executions, S) = Cardinality(Joint(S, Part))
<1> DEFINE c == [x \in S |-> x.executions]
           Iter(g) == g = [s \in SUBSET S |-> IF s = {} THEN 0
                       ELSE (CHOOSE x \in s : TRUE).executions + g[s \ {CHOOSE x \in s : TRUE}]]
           it == CHOOSE g : Iter(g)
<1>1. Iter(it)
  <2>1. \A x \in S : c[x] = Cardinality(Part[x]) OBVIOUS
  <2>2. PICK g : g = [s \in SUBSET S |-> IF s = {} THEN 0
                       ELSE c[CHOOSE x \in s : TRUE] + g[s \ {CHOOSE x \in s : TRUE}]]
    <3> HIDE DEF c
    <3>1. \E g : Summing(g, S, c) BY <2>1, SumExists
    <3> QED BY <3>1 DEF Summing
  <2>3. ASSUME NEW s \in SUBSET S
        PROVE  g[s] = IF s = {} THEN 0
                      ELSE (CHOOSE x \in s : TRUE).executions + g[s \ {CHOOSE x \in s : TRUE}]
    <3>1. CASE s = {} BY <2>2, <3>1
    <3>2. CASE s # {}
      <4>1. g[s] = c[CHOOSE x \in s : TRUE] + g[s \ {CHOOSE x \in s : TRUE}] BY <2>2, <3>2
      <4>2. (CHOOSE x \in s : TRUE) \in s BY <3>2, ChosenMember
      <4>3. (CHOOSE x \in s : TRUE) \in S BY <4>2
      <4>4. c[CHOOSE x \in s : TRUE] = (CHOOSE x \in s : TRUE).executions BY <4>3
      <4> QED BY <3>2, <4>1, <4>4
    <3> QED BY <3>1, <3>2
  <2>4. Iter(g) BY <2>2, <2>3
  <2> HIDE DEF Iter
  <2> QED BY <2>4
<1>2. MapThenSumSet(LAMBDA block : block.executions, S) = it[S] BY DEF MapThenSumSet, MapThenFoldSet
<1> HIDE DEF it
<1>3. ASSUME NEW s \in SUBSET S, s # {} PROVE \E x \in s : it[s] = Cardinality(Part[x]) + it[s \ {x}]
  <2> DEFINE x == CHOOSE x \in s : TRUE
  <2>1. it[s] = x.executions + it[s \ {x}] BY <1>1, <1>3
  <2>2. x \in s BY <1>3, ChosenMember
  <2> HIDE DEF x
  <2>3. x.executions = Cardinality(Part[x]) BY <2>2
  <2> QED BY <2>1, <2>2, <2>3
<1>4. it[{}] = 0 BY <1>1
<1>5. \A s \in SUBSET S : IF s = {} THEN it[s] = 0
                          ELSE \E x \in s : it[s] = Cardinality(Part[x]) + it[s \ {x}]
  BY <1>3, <1>4
<1>6. it[S] = Cardinality(Joint(S, Part)) BY ONLY <1>5, Parted(S, Part), SumCounts
<1> QED BY <1>2, <1>6

=============================================================================
