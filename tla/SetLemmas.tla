------------------------------ MODULE SetLemmas ------------------------------
(***************************************************************************)
(* Least elements, and sums over finite sets.  Instead of by induction,    *)
(* what would be wrong is looked at where it would be wrong first.         *)
(***************************************************************************)
EXTENDS Integers, FiniteSetsExt, FiniteSetTheorems, WellFoundedInduction, TLAPS

\* A set of natural numbers has a least element.
LEMMA SmallestOf ==
  ASSUME NEW S \in SUBSET Nat, S # {}
  PROVE  \E m \in S : \A k \in S : m <= k
<1>1. PICK m \in S : \A k \in S : ~ (<<k, m>> \in OpToRel(<, Nat))
  BY NatLessThanWellFounded, WFMin
<1>2. ASSUME NEW k \in S PROVE m <= k
  <2>1. ~ (k < m)
    BY <1>1 DEF OpToRel
  <2> QED BY <2>1
<1> QED BY <1>2

\* A bounded set has a greatest one, and Max is it.
LEMMA MaxCorrect ==
  ASSUME NEW K \in Nat, NEW S \in SUBSET (0..K), S # {}
  PROVE  Max(S) \in S /\ \A y \in S : y <= Max(S)
<1> DEFINE T == {K - x : x \in S}
<1>0. \A x \in S : K - x \in Nat
  OBVIOUS
<1>1. T \in SUBSET Nat /\ T # {}
  BY <1>0
<1>2. PICK t \in T : \A u \in T : t <= u
  BY <1>1, SmallestOf
<1>3. PICK x \in S : t = K - x
  OBVIOUS
<1>4. ASSUME NEW y \in S PROVE x >= y
  <2>1. K - y \in T /\ t <= K - y
    BY <1>1, <1>2
  <2> QED BY <1>3, <2>1
<1>5. \E z \in S : \A y \in S : z >= y
  BY <1>4
<1>6. Max(S) \in S /\ \A y \in S : Max(S) >= y
  BY <1>5 DEF Max
<1> QED BY <1>6

\* Among subsets of a finite set there is one that no element can be taken from.
LEMMA SmallestSet ==
  ASSUME NEW S, IsFiniteSet(S), NEW Q \in SUBSET (SUBSET S), Q # {}
  PROVE  \E s \in Q : \A x \in s : s \ {x} \notin Q
<1> DEFINE N == {Cardinality(s) : s \in Q}
<1>1. \A s \in SUBSET S : IsFiniteSet(s) /\ Cardinality(s) \in Nat
  BY FS_Subset, FS_CardinalityType
<1>2. N \in SUBSET Nat /\ N # {}
  BY <1>1
<1>3. PICK m \in N : \A k \in N : m <= k
  BY <1>2, SmallestOf
<1>4. PICK s \in Q : m = Cardinality(s)
  OBVIOUS
<1>5. ASSUME NEW x \in s, s \ {x} \in Q PROVE FALSE
  <2>1. m <= Cardinality(s \ {x})
    BY <1>3, <1>5
  <2>2. Cardinality(s \ {x}) = m - 1 /\ m \in Nat
    BY <1>1, <1>4, FS_RemoveElement
  <2> QED BY <2>1, <2>2
<1> QED BY <1>5

----------------------------------------------------------------------------
(* Sums: a sum over a set is what its first element is worth and the sum of  *)
(* the rest, so it is the last entry of a table of the sums of all subsets.  *)

Some(s) == CHOOSE x \in s : TRUE

SumOf(t, g, s) == IF s = {} THEN 0 ELSE g[Some(s)] + t[s \ {Some(s)}]
Table(t, g, S) == t = [s \in SUBSET S |-> SumOf(t, g, s)]

\* The element taken first is one of the set.
LEMMA SomeElement ==
  ASSUME NEW s, s # {}
  PROVE  Some(s) \in s
BY DEF Some

\* Sums of ever larger subsets can be tabled.
LEMMA TableExists ==
  ASSUME NEW S, IsFiniteSet(S), NEW g, \A x \in S : g[x] \in Int
  PROVE  \E t : Table(t, g, S)
<1> DEFINE Upto(n) == {s \in SUBSET S : Cardinality(s) <= n}
           Filled(t, n) == t \in [Upto(n) -> Int] /\ \A s \in Upto(n) : t[s] = SumOf(t, g, s)
           Stuck == {n \in Nat : ~ \E t : Filled(t, n)}
<1>1. \A s \in SUBSET S : IsFiniteSet(s) /\ Cardinality(s) \in Nat
  BY FS_Subset, FS_CardinalityType
<1>2. ASSUME NEW s \in SUBSET S, s # {}
      PROVE  /\ Some(s) \in S /\ s \ {Some(s)} \in SUBSET S
             /\ Cardinality(s \ {Some(s)}) = Cardinality(s) - 1
  BY <1>1, <1>2, SomeElement, FS_RemoveElement
<1>3. Stuck = {}
  <2> SUFFICES ASSUME Stuck # {} PROVE FALSE
    OBVIOUS
  <2>1. PICK m \in Stuck : \A k \in Stuck : m <= k
    <3>1. Stuck \in SUBSET Nat
      OBVIOUS
    <3> HIDE DEF Stuck
    <3> QED BY <3>1, SmallestOf
  <2>2. m \in Nat /\ ~ \E t : Filled(t, m)
    OBVIOUS
  <2>3. CASE m = 0
    <3> DEFINE z == [s \in Upto(0) |-> 0]
    <3>1. \A s \in Upto(0) : s = {}
      BY <1>1, FS_EmptySet
    <3>2. Filled(z, 0)
      BY <3>1 DEF SumOf
    <3> QED BY <2>2, <2>3, <3>2
  <2>4. CASE m # 0
    <3>1. m - 1 \in Nat /\ ~ (m <= m - 1)
      BY <2>2, <2>4
    <3>2. PICK c : Filled(c, m - 1)
      <4> HIDE DEF Filled
      <4> QED BY <2>1, <3>1
    <3> DEFINE e == [s \in Upto(m) |-> SumOf(c, g, s)]
    <3>3. ASSUME NEW s \in Upto(m)
          PROVE  /\ SumOf(c, g, s) \in Int
                 /\ s # {} => s \ {Some(s)} \in Upto(m - 1) /\ s \ {Some(s)} \in Upto(m)
      <4>1. CASE s = {}
        BY <4>1 DEF SumOf
      <4>2. CASE s # {}
        <5>1. Some(s) \in S /\ s \ {Some(s)} \in Upto(m - 1) /\ s \ {Some(s)} \in Upto(m)
          BY <1>1, <1>2, <2>2, <4>2
        <5>2. c[s \ {Some(s)}] \in Int
          BY <3>2, <5>1
        <5> QED BY <4>2, <5>1, <5>2 DEF SumOf
      <4> QED BY <4>1, <4>2
    <3>4. ASSUME NEW s \in Upto(m) PROVE SumOf(c, g, s) = SumOf(e, g, s)
      <4>1. CASE s = {}
        BY <4>1 DEF SumOf
      <4>2. CASE s # {}
        <5> DEFINE r == s \ {Some(s)}
        <5>1. r \in Upto(m - 1) /\ r \in Upto(m)
          BY <3>3, <4>2
        <5>2. e[r] = SumOf(c, g, r) /\ c[r] = SumOf(c, g, r)
          BY <3>2, <5>1
        <5>3. e[r] = c[r]
          BY <5>2
        <5> QED BY <4>2, <5>3 DEF SumOf
      <4> QED BY <4>1, <4>2
    <3>5. e \in [Upto(m) -> Int] /\ \A s \in Upto(m) : e[s] = SumOf(c, g, s)
      BY <3>3
    <3>6. Filled(e, m)
      <4> HIDE DEF e, Upto
      <4> QED BY <3>4, <3>5
    <3> QED BY <2>2, <3>6
  <2> QED BY <2>3, <2>4
<1>4. PICK d : Filled(d, Cardinality(S))
  <2>1. Cardinality(S) \in Nat
    BY <1>1
  <2> HIDE DEF Filled
  <2> QED BY <1>3, <2>1
<1>5. Upto(Cardinality(S)) = SUBSET S
  BY FS_Subset
<1>6. d \in [SUBSET S -> Int] /\ \A s \in SUBSET S : d[s] = SumOf(d, g, s)
  BY <1>4, <1>5
<1>7. d = [s \in SUBSET S |-> SumOf(d, g, s)]
  BY <1>6
<1> QED BY <1>7 DEF Table

\* Tables agree where what they sum does.
LEMMA TablesAgree ==
  ASSUME NEW S, NEW R \in SUBSET S, IsFiniteSet(S), NEW g, NEW h, \A x \in R : g[x] = h[x],
         NEW t, Table(t, g, S), NEW u, Table(u, h, R)
  PROVE  t[R] = u[R]
<1> DEFINE Q == {s \in SUBSET R : t[s] # u[s]}
<1>1. \A s \in SUBSET R : t[s] = SumOf(t, g, s) /\ u[s] = SumOf(u, h, s)
  BY DEF Table
<1>2. IsFiniteSet(R)
  BY FS_Subset
<1>3. Q = {}
  <2> SUFFICES ASSUME Q # {} PROVE FALSE
    OBVIOUS
  <2>1. Q \in SUBSET (SUBSET R)
    OBVIOUS
  <2>2. PICK s \in Q : \A x \in s : s \ {x} \notin Q
    <3> HIDE DEF Q
    <3> QED BY <1>2, <2>1, SmallestSet
  <2>3. s \in SUBSET R /\ t[s] # u[s]
    OBVIOUS
  <2>4. CASE s = {}
    BY <1>1, <2>3, <2>4 DEF SumOf
  <2>5. CASE s # {}
    <3>1. Some(s) \in s /\ s \ {Some(s)} \in SUBSET R
      BY <2>3, <2>5, SomeElement
    <3>2. t[s \ {Some(s)}] = u[s \ {Some(s)}] /\ g[Some(s)] = h[Some(s)]
      BY <2>2, <2>3, <3>1
    <3> QED BY <1>1, <2>3, <2>5, <3>2 DEF SumOf
  <2> QED BY <2>4, <2>5
<1> QED BY <1>3

\* A sum has any of its terms.
LEMMA TermOfTable ==
  ASSUME NEW S, IsFiniteSet(S), NEW g, \A x \in S : g[x] \in Int, NEW t, Table(t, g, S)
  PROVE  /\ t[S] \in Int /\ t[{}] = 0
         /\ \A x \in S : t[S] = g[x] + t[S \ {x}]
<1>1. \A s \in SUBSET S : t[s] = SumOf(t, g, s)
  BY DEF Table
<1>2. t[{}] = 0
  BY <1>1 DEF SumOf
<1> DEFINE P == {s \in SUBSET S : t[s] \notin Int}
           Q == {s \in SUBSET S : \E x \in s : t[s] # g[x] + t[s \ {x}]}
<1>3. P = {}
  <2> SUFFICES ASSUME P # {} PROVE FALSE
    OBVIOUS
  <2>1. P \in SUBSET (SUBSET S)
    OBVIOUS
  <2>2. PICK s \in P : \A x \in s : s \ {x} \notin P
    <3> HIDE DEF P
    <3> QED BY <2>1, SmallestSet
  <2>3. s # {} /\ s \in SUBSET S /\ t[s] \notin Int
    BY <1>2
  <2>4. Some(s) \in s
    BY <2>3, SomeElement
  <2>5. t[s \ {Some(s)}] \in Int /\ g[Some(s)] \in Int
    BY <2>2, <2>3, <2>4
  <2>6. t[s] = g[Some(s)] + t[s \ {Some(s)}]
    BY <1>1, <2>3 DEF SumOf
  <2>7. PICK a, b \in Int : a = g[Some(s)] /\ b = t[s \ {Some(s)}]
    BY <2>5
  <2> QED BY <2>3, <2>6, <2>7
<1>4. \A s \in SUBSET S : t[s] \in Int
  BY <1>3
<1>5. Q = {}
  <2> SUFFICES ASSUME Q # {} PROVE FALSE
    OBVIOUS
  <2>1. Q \in SUBSET (SUBSET S)
    OBVIOUS
  <2>2. PICK s \in Q : \A x \in s : s \ {x} \notin Q
    <3> HIDE DEF Q
    <3> QED BY <2>1, SmallestSet
  <2>3. PICK x \in s : t[s] # g[x] + t[s \ {x}]
    OBVIOUS
  <2> DEFINE y == Some(s)
  <2>4. y \in s /\ s \in SUBSET S
    BY <2>3, SomeElement
  <2>5. t[s] = g[y] + t[s \ {y}]
    BY <1>1, <2>3 DEF SumOf
  <2>6. x # y
    BY <2>3, <2>5
  <2> HIDE DEF y
  <2>7. t[s \ {y}] = g[x] + t[(s \ {y}) \ {x}]
    <3>1. s \ {y} \in SUBSET S /\ x \in s \ {y} /\ s \ {y} \notin Q
      BY <2>2, <2>4, <2>6
    <3> QED BY <3>1
  <2>8. t[s \ {x}] = g[y] + t[(s \ {x}) \ {y}]
    <3>1. s \ {x} \in SUBSET S /\ y \in s \ {x} /\ s \ {x} \notin Q
      BY <2>2, <2>4, <2>6
    <3> QED BY <3>1
  <2>9. (s \ {x}) \ {y} = (s \ {y}) \ {x}
    OBVIOUS
  <2>10. g[x] \in Int /\ g[y] \in Int /\ t[(s \ {y}) \ {x}] \in Int
    <3>1. (s \ {y}) \ {x} \in SUBSET S
      BY <2>4
    <3> QED BY <1>4, <2>4, <3>1
  <2>11. PICK a, b, c \in Int : a = g[x] /\ b = g[y] /\ c = t[(s \ {y}) \ {x}]
    BY <2>10
  <2>12. t[s \ {x}] = b + c /\ t[s \ {y}] = a + c
    BY <2>7, <2>8, <2>9, <2>11, Zenon
  <2>13. t[s] = b + (a + c)
    BY <2>5, <2>11, <2>12, Zenon
  <2>14. t[s] = a + (b + c)
    BY <2>13
  <2>15. t[s] = g[x] + t[s \ {x}]
    BY <2>11, <2>12, <2>14, Zenon
  <2> QED BY <2>3, <2>15
<1> QED BY <1>2, <1>4, <1>5
=============================================================================
