------------------------------ MODULE SetSums ------------------------------
(***************************************************************************)
(* Sums over the subsets of a finite set, for the total that               *)
(* admission_control of mp2.c computes when it goes through the list.      *)
(*                                                                         *)
(* MapThenSumSet takes the elements in the order of CHOOSE.  Here a sum is *)
(* characterised by what one more element adds to it, in any order, and    *)
(* the two are shown to agree.                                             *)
(***************************************************************************)
EXTENDS Integers, FiniteSets, FiniteSetTheorems, WellFoundedInduction, TLAPS

\* P holds all subsets of A if it holds each one that it holds the smaller
\* ones of: otherwise take a smallest one that it does not hold.
LEMMA SmallestSet ==
    ASSUME NEW A, IsFiniteSet(A), NEW P,
           \A s \in SUBSET A : (\A x \in s : s \ {x} \in P) => s \in P
    PROVE  \A s \in SUBSET A : s \in P
<1> SUFFICES ASSUME NEW r \in SUBSET A, r \notin P PROVE FALSE
    OBVIOUS
<1> DEFINE T == {n \in Nat : \E s \in SUBSET A : s \notin P /\ Cardinality(s) = n}
<1> DEFINE R == {ss \in Nat \X Nat : ss[1] < ss[2]}
<1>1. \A s \in SUBSET A : IsFiniteSet(s) /\ Cardinality(s) \in Nat
    BY FS_Subset, FS_CardinalityType
<1>2. T # {} /\ T \subseteq Nat
    BY <1>1
<1>3. IsWellFoundedOn(R, Nat)
    BY NatLessThanWellFounded, Zenon DEF OpToRel
<1> HIDE DEF R
<1>4. PICK n \in T : \A m \in T : ~(<<m, n>> \in R)
    BY <1>2, <1>3, WFMin
<1>5. PICK s \in SUBSET A : s \notin P /\ Cardinality(s) = n
    BY <1>4
<1>6. ASSUME NEW x \in s PROVE s \ {x} \in P
    <2>1. Cardinality(s \ {x}) = n - 1 /\ Cardinality(s \ {x}) \in Nat
        BY <1>1, <1>5, FS_RemoveElement
    <2>2. <<n - 1, n>> \in R
        BY <1>4, <2>1 DEF R
    <2>3. n - 1 \notin T
        BY <1>4, <2>2
    <2>4. QED BY <2>1, <2>3
<1>7. QED BY <1>5, <1>6

\* P holds all subsets of A if it holds {} and, with a set, the ones that have
\* one element more.
LEMMA SetInduction ==
    ASSUME NEW A, IsFiniteSet(A), NEW P, {} \in P,
           \A s \in SUBSET A, x \in A : s \in P /\ x \notin s => s \cup {x} \in P
    PROVE  \A s \in SUBSET A : s \in P
<1>1. ASSUME NEW s \in SUBSET A, \A x \in s : s \ {x} \in P
      PROVE  s \in P
    <2>1. CASE s # {}
        <3>1. PICK x \in s : TRUE
            BY <2>1
        <3>2. (s \ {x}) \cup {x} = s
            OBVIOUS
        <3>3. QED BY <1>1, <3>2
    <2>2. QED BY <2>1
<1>2. QED BY <1>1, SmallestSet

\* h gives the sum of the weights w of every subset of A.
IsSum(h, w, A) ==
    /\ h \in [SUBSET A -> Int] /\ h[{}] = 0
    /\ \A s \in SUBSET A, x \in A : x \notin s => h[s \cup {x}] = h[s] + w[x]

\* There is such a function.
LEMMA SumExists ==
    ASSUME NEW A, IsFiniteSet(A), NEW w \in [A -> Int]
    PROVE  \E h : IsSum(h, w, A)
<1> DEFINE P == {B \in SUBSET A : \E h : IsSum(h, w, B)}
<1>1. {} \in P
    <2> DEFINE h == [s \in SUBSET {} |-> 0]
    <2>1. IsSum(h, w, {})
        BY DEF IsSum
    <2>2. QED BY <2>1
<1>2. ASSUME NEW B \in SUBSET A, NEW x \in A, B \in P, x \notin B
      PROVE  B \cup {x} \in P
    <2>1. PICK h : IsSum(h, w, B)
        BY <1>2
    <2> DEFINE k == [s \in SUBSET (B \cup {x}) |->
                        IF x \in s THEN h[s \ {x}] + w[x] ELSE h[s]]
    <2>2. /\ h \in [SUBSET B -> Int] /\ h[{}] = 0
          /\ \A s \in SUBSET B, y \in B : y \notin s => h[s \cup {y}] = h[s] + w[y]
        BY <2>1 DEF IsSum
    <2>3. \A s \in SUBSET (B \cup {x}) : s \ {x} \in SUBSET B /\ (x \notin s => s \in SUBSET B)
        OBVIOUS
    <2>4. k \in [SUBSET (B \cup {x}) -> Int] /\ k[{}] = 0
        BY <2>2, <2>3
    <2>5. ASSUME NEW s \in SUBSET (B \cup {x}), NEW y \in B \cup {x}, y \notin s
          PROVE  k[s \cup {y}] = k[s] + w[y]
        <3>1. CASE y = x
            <4>1. (s \cup {x}) \ {x} = s
                BY <2>5, <3>1
            <4>2. k[s] = h[s]
                BY <2>5, <3>1
            <4>3. k[s \cup {x}] = h[s] + w[x]
                BY <4>1
            <4>4. QED BY <3>1, <4>2, <4>3
        <3>2. CASE y # x /\ x \notin s
            <4>1. k[s] = h[s] /\ k[s \cup {y}] = h[s \cup {y}]
                BY <3>2
            <4>2. s \in SUBSET B /\ y \in B
                BY <3>2
            <4>3. h[s \cup {y}] = h[s] + w[y]
                BY <2>2, <2>5, <4>2
            <4>4. QED BY <4>1, <4>3
        <3>3. CASE y # x /\ x \in s
            <4>1. k[s] = h[s \ {x}] + w[x]
                BY <3>3
            <4>2. k[s \cup {y}] = h[(s \ {x}) \cup {y}] + w[x]
                <5>1. (s \cup {y}) \ {x} = (s \ {x}) \cup {y}
                    BY <3>3
                <5>2. QED BY <3>3, <5>1
            <4>3. h[(s \ {x}) \cup {y}] = h[s \ {x}] + w[y]
                BY <2>2, <2>3, <2>5, <3>3
            <4>4. h[s \ {x}] \in Int /\ w[x] \in Int /\ w[y] \in Int
                BY <2>2, <2>3
            <4>5. QED BY <4>1, <4>2, <4>3, <4>4
        <3>4. QED BY <3>1, <3>2, <3>3
    <2> HIDE DEF k
    <2>6. IsSum(k, w, B \cup {x})
        BY <2>4, <2>5 DEF IsSum
    <2>7. QED BY <2>6
<1> HIDE DEF P
<1>3. A \in P
    BY <1>1, <1>2, SetInduction
<1>4. QED BY <1>3 DEF P
-----------------------------------------------------------------------------
(* The sums of MapThenSumSet.                                              *)

Pick(s) == CHOOSE x \in s : TRUE

Folded(g, w, S) ==
    g = [s \in SUBSET S |-> IF s = {} THEN 0 ELSE w[Pick(s)] + g[s \ {Pick(s)}]]

LEMMA PickIn == ASSUME NEW s, s # {} PROVE Pick(s) \in s
BY DEF Pick

\* Taking the elements away one by one gives a sum as well.
LEMMA SumWithout ==
    ASSUME NEW A, NEW w \in [A -> Int], NEW h, IsSum(h, w, A)
    PROVE  \A s \in SUBSET A : s # {} => h[s] = w[Pick(s)] + h[s \ {Pick(s)}]
<1> SUFFICES ASSUME NEW s \in SUBSET A, s # {}
             PROVE  h[s] = w[Pick(s)] + h[s \ {Pick(s)}]
    OBVIOUS
<1>1. PICK x \in s : x = Pick(s)
    BY PickIn
<1>2. (s \ {x}) \cup {x} = s
    OBVIOUS
<1>3. h[(s \ {x}) \cup {x}] = h[s \ {x}] + w[x]
    BY DEF IsSum
<1>4. h[s \ {x}] \in Int /\ w[x] \in Int
    BY DEF IsSum
<1>5. h[(s \ {x}) \cup {x}] = h[s]
    BY <1>2, Zenon
<1>6. h[s] = w[x] + h[s \ {x}]
    BY <1>3, <1>4, <1>5
<1>7. QED BY <1>1, <1>6

LEMMA FoldExists ==
    ASSUME NEW A, NEW w \in [A -> Int], NEW h, IsSum(h, w, A), NEW S \in SUBSET A
    PROVE  \E g : Folded(g, w, S)
<1> DEFINE g == [s \in SUBSET S |-> h[s]]
<1>0. \A s \in SUBSET A : s # {} => h[s] = w[Pick(s)] + h[s \ {Pick(s)}]
    BY SumWithout
<1>1. ASSUME NEW s \in SUBSET S
      PROVE  h[s] = IF s = {} THEN 0 ELSE w[Pick(s)] + g[s \ {Pick(s)}]
    <2>1. CASE s = {}
        BY <2>1 DEF IsSum
    <2>2. CASE s # {}
        <3>1. h[s] = w[Pick(s)] + h[s \ {Pick(s)}]
            BY <1>0, <2>2
        <3>2. g[s \ {Pick(s)}] = h[s \ {Pick(s)}]
            OBVIOUS
        <3>3. QED BY <2>2, <3>1, <3>2
    <2>3. QED BY <2>1, <2>2
<1>2. g = [s \in SUBSET S |-> IF s = {} THEN 0 ELSE w[Pick(s)] + g[s \ {Pick(s)}]]
    BY <1>1
<1> HIDE DEF g
<1>3. Folded(g, w, S)
    BY <1>2 DEF Folded
<1>4. QED BY <1>3

\* The order does not matter.
LEMMA FoldIsSum ==
    ASSUME NEW A, IsFiniteSet(A), NEW w \in [A -> Int], NEW h, IsSum(h, w, A),
           NEW S \in SUBSET A, NEW g, Folded(g, w, S)
    PROVE  g[S] = h[S]
<1> DEFINE P == {s \in SUBSET S : g[s] = h[s]}
<1>0. \A s \in SUBSET A : s # {} => h[s] = w[Pick(s)] + h[s \ {Pick(s)}]
    BY SumWithout
<1>1. \A s \in SUBSET S : g[s] = IF s = {} THEN 0 ELSE w[Pick(s)] + g[s \ {Pick(s)}]
    BY DEF Folded
<1>2. ASSUME NEW s \in SUBSET S, \A x \in s : s \ {x} \in P
      PROVE  s \in P
    <2>1. CASE s = {}
        BY <1>1, <2>1 DEF IsSum
    <2>2. CASE s # {}
        <3>1. s \in SUBSET A
            OBVIOUS
        <3>2. h[s] = w[Pick(s)] + h[s \ {Pick(s)}]
            BY <1>0, <2>2, <3>1
        <3>3. g[s \ {Pick(s)}] = h[s \ {Pick(s)}]
            BY <1>2, <2>2, PickIn
        <3>4. g[s] = w[Pick(s)] + g[s \ {Pick(s)}]
            BY <1>1, <2>2
        <3>5. QED BY <3>2, <3>3, <3>4
    <2>3. QED BY <2>1, <2>2
<1>3. IsFiniteSet(S)
    BY FS_Subset
<1> HIDE DEF P
<1>4. S \in P
    BY <1>2, <1>3, SmallestSet
<1>5. QED BY <1>4 DEF P
-----------------------------------------------------------------------------
(* Comparisons.                                                            *)

\* A larger set has a larger sum, if no weight is negative.
LEMMA SumMonotonic ==
    ASSUME NEW A, IsFiniteSet(A), NEW w \in [A -> Nat], NEW h, IsSum(h, w, A),
           NEW s \in SUBSET A, NEW t \in SUBSET A, s \subseteq t
    PROVE  h[s] <= h[t]
<1> DEFINE P == {d \in SUBSET A : h[s] <= h[s \cup d]}
<1>1. {} \in P
    <2>1. s \cup {} = s /\ h[s] \in Int
        BY DEF IsSum
    <2>2. QED BY <2>1
<1>2. ASSUME NEW d \in SUBSET A, NEW x \in A, d \in P, x \notin d
      PROVE  d \cup {x} \in P
    <2>1. h[s] <= h[s \cup d] /\ h[s] \in Int /\ h[s \cup d] \in Int /\ w[x] \in Nat
        BY <1>2 DEF IsSum
    <2>2. CASE x \in s
        <3>1. s \cup (d \cup {x}) = s \cup d
            BY <2>2
        <3>2. QED BY <2>1, <3>1
    <2>3. CASE x \notin s
        <3>1. s \cup (d \cup {x}) = (s \cup d) \cup {x}
            OBVIOUS
        <3>2. h[(s \cup d) \cup {x}] = h[s \cup d] + w[x]
            BY <1>2, <2>3 DEF IsSum
        <3>3. h[s \cup (d \cup {x})] = h[(s \cup d) \cup {x}]
            BY <3>1, Zenon
        <3>4. d \cup {x} \in SUBSET A
            OBVIOUS
        <3>5. h[s] <= h[s \cup (d \cup {x})]
            BY <2>1, <3>2, <3>3
        <3>6. QED BY <3>4, <3>5
    <2>4. QED BY <2>2, <2>3
<1> HIDE DEF P
<1>3. t \in P
    BY <1>1, <1>2, SetInduction
<1>4. s \cup t = t
    OBVIOUS
<1>5. QED BY <1>3, <1>4 DEF P

\* If the weights v exceed the weights w by one at most, then their sum does
\* so by the number of the elements at most.
LEMMA SumRounded ==
    ASSUME NEW A, IsFiniteSet(A), NEW w \in [A -> Int], NEW v \in [A -> Int],
           NEW h, IsSum(h, w, A), NEW k, IsSum(k, v, A),
           NEW s \in SUBSET A, \A x \in s : v[x] <= w[x] + 1
    PROVE  k[s] <= h[s] + Cardinality(s)
<1> DEFINE P == {d \in SUBSET s : k[d] <= h[d] + Cardinality(d)}
<1>0. IsFiniteSet(s)
    BY FS_Subset
<1>1. {} \in P
    BY FS_EmptySet DEF IsSum
<1>2. ASSUME NEW d \in SUBSET s, NEW x \in s, d \in P, x \notin d
      PROVE  d \cup {x} \in P
    <2>1. k[d] <= h[d] + Cardinality(d) /\ v[x] <= w[x] + 1
        BY <1>2
    <2>2. k[d] \in Int /\ h[d] \in Int /\ v[x] \in Int /\ w[x] \in Int
        BY DEF IsSum
    <2>3. k[d \cup {x}] = k[d] + v[x] /\ h[d \cup {x}] = h[d] + w[x]
        BY <1>2 DEF IsSum
    <2>4. Cardinality(d \cup {x}) = Cardinality(d) + 1 /\ Cardinality(d) \in Nat
        BY <1>0, <1>2, FS_Subset, FS_AddElement, FS_CardinalityType
    <2>5. QED BY <2>1, <2>2, <2>3, <2>4
<1> HIDE DEF P
<1>3. \A d \in SUBSET s : d \in P
    BY <1>0, <1>1, <1>2, SetInduction, Zenon
<1>4. s \in P
    BY <1>3
<1>5. QED BY <1>4 DEF P
=============================================================================
