---------------------------- MODULE FiniteProofs ----------------------------
(***************************************************************************)
(* What the proofs need to know of finite sets: that one can be sorted, and*)
(* that SumFunctionOnSet, the sum of the values of a function over a set,  *)
(* is a natural number which does not depend on the order in which CHOOSE  *)
(* takes the arguments, and which grows with the set.  The library defines *)
(* the sum by a recursive function on the subsets.  Its theorems on        *)
(* induction take an operator as a parameter; here the argument is a       *)
(* minimal counterexample, which only takes a set.                         *)
(***************************************************************************)
EXTENDS Integers, Functions, FiniteSetTheorems, TLAPS

\* A set of subsets of a finite set has a member that includes no other.
LEMMA MinimalMember ==
  ASSUME NEW U, IsFiniteSet(U), NEW B \in SUBSET (SUBSET U), B # {}
  PROVE  \E m \in B : \A s \in SUBSET m : s # m => s \notin B
<1>1. IsWellFoundedOn(StrictSubsetOrdering(U), SUBSET U)
  BY FS_StrictSubsetOrderingWellFounded, FS_FiniteSubsetsOfFinite
<1>2. PICK m \in B : \A s \in B : ~ (<<s, m>> \in StrictSubsetOrdering(U))
  BY <1>1, WFMin
<1> QED BY <1>2 DEF StrictSubsetOrdering

-----------------------------------------------------------------------------
(* Sorting.                                                                *)

\* A member of a finite set whose key no other member undercuts.
LEMMA LeastKey ==
  ASSUME NEW S, IsFiniteSet(S), S # {}, NEW key, \A x \in S : key[x] \in Int
  PROVE  \E x \in S : \A y \in S : key[y] >= key[x]
<1> DEFINE below(x) == {y \in S : key[y] < key[x]}
           B == {below(x) : x \in S}
<1>1. PICK m \in B : \A s \in SUBSET m : s # m => s \notin B
  <2>1. B \in SUBSET (SUBSET S) /\ B # {}
    OBVIOUS
  <2> HIDE DEF B
  <2> QED BY <2>1, MinimalMember
<1>2. PICK x \in S : m = below(x)
  OBVIOUS
<1>3. ASSUME NEW y \in S, key[y] < key[x] PROVE FALSE
  <2>1. below(y) \in SUBSET m
    BY <1>2, <1>3
  <2>2. y \in m /\ y \notin below(y)
    BY <1>2, <1>3
  <2>3. below(y) \in B
    OBVIOUS
  <2> HIDE DEF below, B
  <2> QED BY <1>1, <2>1, <2>2, <2>3
<1> QED BY <1>3

\* f lists the members of S once each, in descending order of their keys.
Sorts(f, S, key) ==
  /\ f \in [1 .. Cardinality(S) -> S]
  /\ \A i, j \in 1 .. Cardinality(S) :
       /\ i # j => f[i] # f[j]
       /\ i < j => key[f[i]] >= key[f[j]]

LEMMA SortedExists ==
  ASSUME NEW S, IsFiniteSet(S), NEW key, \A x \in S : key[x] \in Int
  PROVE  \E f : Sorts(f, S, key)
<1> DEFINE B == {s \in SUBSET S : ~ \E f : Sorts(f, s, key)}
<1>1. ASSUME B # {} PROVE FALSE
  <2>1. PICK m \in B : \A s \in SUBSET m : s # m => s \notin B
    <3>1. B \in SUBSET (SUBSET S)
      OBVIOUS
    <3> HIDE DEF B
    <3> QED BY <1>1, <3>1, MinimalMember
  <2>2. m \in SUBSET S /\ IsFiniteSet(m) /\ Cardinality(m) \in Nat
    BY FS_Subset, FS_CardinalityType
  <2>3. m # {}
    <3>1. SUFFICES ASSUME m = {} PROVE FALSE
      OBVIOUS
    <3>2. Cardinality(m) = 0
      BY <3>1, FS_EmptySet
    <3>3. Sorts([i \in 1 .. Cardinality(m) |-> 0], m, key)
      BY <3>2 DEF Sorts
    <3> QED BY <3>3
  <2>4. PICK x \in m : \A y \in m : key[y] >= key[x]
    BY <2>2, <2>3, LeastKey
  <2> DEFINE rest == m \ {x}
             n == Cardinality(m)
  <2>5. Cardinality(rest) = n - 1 /\ n \in Nat /\ n - 1 \in Nat
    <3>1. IsFiniteSet(rest) /\ Cardinality(rest) = n - 1
      BY <2>2, <2>4, FS_RemoveElement
    <3>2. Cardinality(rest) \in Nat
      BY <3>1, FS_CardinalityType
    <3> QED BY <2>2, <3>1, <3>2
  <2>6. PICK f : Sorts(f, rest, key)
    <3>1. rest \in SUBSET m /\ rest # m
      OBVIOUS
    <3> QED BY <2>1, <2>2, <3>1
  <2> DEFINE g == [i \in 1 .. n |-> IF i = n THEN x ELSE f[i]]
  <2>7. Sorts(g, m, key)
    <3>1. f \in [1 .. n - 1 -> rest]
      BY <2>5, <2>6 DEF Sorts
    <3>2. ASSUME NEW i \in 1 .. n, i # n
          PROVE  g[i] = f[i] /\ i \in 1 .. n - 1 /\ f[i] \in rest
      <4>1. g[i] = f[i]
        BY <3>2
      <4> HIDE DEF n, g, rest
      <4> QED BY <2>5, <3>1, <3>2, <4>1
    <3>3. n \in 1 .. n /\ g[n] = x
      <4> HIDE DEF n
      <4> QED BY <2>5
    <3>4. g \in [1 .. n -> m]
      <4>1. \A i \in 1 .. n : (IF i = n THEN x ELSE f[i]) \in m
        BY <2>4, <3>2
      <4> HIDE DEF n
      <4> QED BY <4>1
    <3>5. ASSUME NEW i \in 1 .. n, NEW j \in 1 .. n, i < j
          PROVE  g[i] # g[j] /\ key[g[i]] >= key[g[j]]
      <4>1. i # n /\ g[i] = f[i] /\ i \in 1 .. n - 1 /\ f[i] \in rest
        BY <2>5, <3>2, <3>5
      <4>2. CASE j = n
        BY <2>4, <3>3, <4>1, <4>2
      <4>3. CASE j # n
        <5>1. g[j] = f[j] /\ j \in 1 .. n - 1
          BY <3>2, <4>3
        <5> HIDE DEF g, rest
        <5> QED BY <2>5, <2>6, <3>5, <4>1, <5>1 DEF Sorts
      <4> QED BY <4>2, <4>3
    <3>6. ASSUME NEW i \in 1 .. n, NEW j \in 1 .. n, i # j PROVE g[i] # g[j]
      <4>1. i < j \/ j < i
        BY <3>6, <2>5
      <4> HIDE DEF g
      <4> QED BY <3>5, <4>1
    <3> HIDE DEF g
    <3> QED BY <3>4, <3>5, <3>6 DEF Sorts
  <2> QED BY <2>7
<1> QED BY <1>1

-----------------------------------------------------------------------------
(* Sums.                                                                   *)

First(s) == CHOOSE x \in s : TRUE

\* g is the function by whose recursion the library sums f over S.
Sums(g, f, S) ==
  g = [s \in SUBSET S |->
         IF s = {} THEN 0 ELSE f[First(s)] + g[s \ {First(s)}]]

LEMMA FirstIn == ASSUME NEW s, s # {} PROVE First(s) \in s
BY DEF First

LEMMA SumDef ==
  ASSUME NEW f, NEW S
  PROVE  SumFunctionOnSet(f, S) = (CHOOSE g : Sums(g, f, S))[S]
BY DEF SumFunctionOnSet, FoldFunctionOnSet, MapThenFoldSet, Sums, First

\* Two such functions, for two sets, agree on what is a part of both.
LEMMA SumsAgree ==
  ASSUME NEW f, NEW S, NEW T, NEW g, NEW h, Sums(g, f, S), Sums(h, f, T),
         NEW U, IsFiniteSet(U), U \subseteq S, U \subseteq T
  PROVE  g[U] = h[U]
<1> DEFINE B == {s \in SUBSET U : g[s] # h[s]}
<1>1. ASSUME B # {} PROVE FALSE
  <2>1. PICK m \in B : \A s \in SUBSET m : s # m => s \notin B
    <3> HIDE DEF B
    <3>1. B \in SUBSET (SUBSET U)
      BY DEF B
    <3> QED BY <1>1, <3>1, MinimalMember
  <2> DEFINE x == First(m)
  <2>2. /\ g[m] = IF m = {} THEN 0 ELSE f[x] + g[m \ {x}]
        /\ h[m] = IF m = {} THEN 0 ELSE f[x] + h[m \ {x}]
    BY DEF Sums
  <2>3. m # {} => x \in m
    BY FirstIn
  <2>4. m # {} => g[m \ {x}] = h[m \ {x}]
    <3> HIDE DEF x
    <3> QED BY <2>1, <2>3
  <2> HIDE DEF x
  <2> QED BY <2>1, <2>2, <2>4
<1> QED BY <1>1

\* There is one for every finite set.
LEMMA SumsExist ==
  ASSUME NEW f, NEW S, IsFiniteSet(S)
  PROVE  \E g : Sums(g, f, S)
<1> DEFINE B == {s \in SUBSET S : ~ \E g : Sums(g, f, s)}
<1>1. ASSUME B # {} PROVE FALSE
  <2>1. PICK m \in B : \A s \in SUBSET m : s # m => s \notin B
    <3> HIDE DEF B
    <3>1. B \in SUBSET (SUBSET S)
      BY DEF B
    <3> QED BY <1>1, <3>1, MinimalMember
  <2> DEFINE G(s) == CHOOSE g : Sums(g, f, s)
             rest(s) == s \ {First(s)}
             all == [s \in SUBSET m |->
                       IF s = {} THEN 0 ELSE f[First(s)] + G(rest(s))[rest(s)]]
  <2>2. \A s \in SUBSET m : s # m => Sums(G(s), f, s)
    BY <2>1
  <2>3. ASSUME NEW s \in SUBSET m, s # {}
        PROVE  rest(s) \in SUBSET m /\ rest(s) \in SUBSET s /\ rest(s) # m
    BY <2>3, FirstIn
  <2>4. ASSUME NEW s \in SUBSET m, s # m PROVE all[s] = G(s)[s]
    <3> DEFINE g == G(s)
    <3>0. Sums(g, f, s)
      BY <2>2, <2>4
    <3>1. g[s] = IF s = {} THEN 0 ELSE f[First(s)] + g[rest(s)]
      <4> HIDE DEF g, G, all
      <4> QED BY <3>0 DEF Sums
    <3>2. ASSUME s # {} PROVE g[rest(s)] = G(rest(s))[rest(s)]
      <4> DEFINE r == rest(s)
                 h == G(r)
      <4>1. r \in SUBSET m /\ r \in SUBSET s /\ r # m
        BY <2>3, <3>2
      <4>2. Sums(h, f, r)
        BY <2>2, <4>1
      <4>3. IsFiniteSet(r)
        BY <4>1, FS_Subset
      <4> HIDE DEF g, h, r
      <4>4. g[r] = h[r]
        BY <3>0, <4>1, <4>2, <4>3, SumsAgree
      <4> QED BY <4>4 DEF r, h
    <3> HIDE DEF g
    <3>3. all[s] = IF s = {} THEN 0 ELSE f[First(s)] + G(rest(s))[rest(s)]
      OBVIOUS
    <3>4. all[s] = g[s]
      <4> HIDE DEF all, G, rest
      <4> QED BY <3>1, <3>2, <3>3
    <3> QED BY <3>4 DEF g
  <2>5. all = [s \in SUBSET m |->
                 IF s = {} THEN 0 ELSE f[First(s)] + all[rest(s)]]
    <3>1. ASSUME NEW s \in SUBSET m, s # {}
          PROVE  G(rest(s))[rest(s)] = all[rest(s)]
      <4> HIDE DEF all, G, rest
      <4> QED BY <2>3, <2>4, <3>1
    <3> DEFINE new(s) == IF s = {} THEN 0 ELSE f[First(s)] + all[rest(s)]
               old(s) == IF s = {} THEN 0
                         ELSE f[First(s)] + G(rest(s))[rest(s)]
    <3>2. \A s \in SUBSET m : old(s) = new(s)
      <4> HIDE DEF all, G, rest
      <4> QED BY <3>1
    <3>3. all = [s \in SUBSET m |-> old(s)]
      OBVIOUS
    <3>4. [s \in SUBSET m |-> old(s)] = [s \in SUBSET m |-> new(s)]
      <4> HIDE DEF old, new, all
      <4> QED BY <3>2
    <3>5. all = [s \in SUBSET m |-> new(s)]
      <4> HIDE DEF old, new, all
      <4> QED BY <3>3, <3>4
    <3> HIDE DEF all
    <3> QED BY <3>5
  <2>6. Sums(all, f, m)
    <3> HIDE DEF all, G
    <3> QED BY <2>5 DEF Sums
  <2> HIDE DEF all
  <2> QED BY <2>1, <2>6
<1> QED BY <1>1

-----------------------------------------------------------------------------
(* The laws.                                                               *)

Sum(f, S) == SumFunctionOnSet(f, S)

LEMMA SumStep ==
  ASSUME NEW f, NEW S, IsFiniteSet(S)
  PROVE  Sum(f, S) = IF S = {} THEN 0
                     ELSE f[First(S)] + Sum(f, S \ {First(S)})
<1> DEFINE x == First(S)
           R == S \ {x}
           g == CHOOSE g : Sums(g, f, S)
           h == CHOOSE h : Sums(h, f, R)
<1>1. Sum(f, S) = g[S] /\ Sum(f, R) = h[R]
  BY SumDef DEF Sum
<1>2. R \subseteq S /\ IsFiniteSet(R)
  BY FS_Subset
<1>3. Sums(g, f, S) /\ Sums(h, f, R)
  BY <1>2, SumsExist
<1> HIDE DEF g, h, R
<1>4. g[S] = IF S = {} THEN 0 ELSE f[x] + g[R]
  BY <1>3 DEF Sums, R
<1>5. g[R] = h[R]
  BY <1>2, <1>3, SumsAgree
<1>6. Sum(f, S) = IF S = {} THEN 0 ELSE f[x] + Sum(f, R)
  BY <1>1, <1>4, <1>5
<1> QED BY <1>6 DEF R

\* A sum of natural numbers is one.
LEMMA SumType ==
  ASSUME NEW f, NEW S, IsFiniteSet(S), \A x \in S : f[x] \in Nat
  PROVE  Sum(f, S) \in Nat
<1> DEFINE B == {s \in SUBSET S : Sum(f, s) \notin Nat}
<1>1. ASSUME B # {} PROVE FALSE
  <2>1. PICK m \in B : \A s \in SUBSET m : s # m => s \notin B
    <3> HIDE DEF B
    <3>1. B \in SUBSET (SUBSET S)
      BY DEF B
    <3> QED BY <1>1, <3>1, MinimalMember
  <2> DEFINE x == First(m)
  <2>2. IsFiniteSet(m)
    BY FS_Subset
  <2>3. Sum(f, m) = IF m = {} THEN 0 ELSE f[x] + Sum(f, m \ {x})
    BY <2>2, SumStep
  <2>4. m # {} => x \in m /\ f[x] \in Nat
    BY FirstIn
  <2>5. m # {} => Sum(f, m \ {x}) \in Nat
    <3> HIDE DEF x
    <3> QED BY <2>1, <2>4
  <2> HIDE DEF x
  <2> QED BY <2>1, <2>3, <2>4, <2>5
<1> QED BY <1>1

\* Any argument may be taken out first.
LEMMA SumRemove ==
  ASSUME NEW f, NEW S, IsFiniteSet(S), \A x \in S : f[x] \in Nat, NEW x \in S
  PROVE  Sum(f, S) = f[x] + Sum(f, S \ {x})
<1> DEFINE Any(s) == \A y \in s : Sum(f, s) = f[y] + Sum(f, s \ {y})
           B == {s \in SUBSET S : ~ Any(s)}
<1>1. ASSUME B # {} PROVE FALSE
  <2>1. PICK m \in B : \A s \in SUBSET m : s # m => s \notin B
    <3> HIDE DEF B
    <3>1. B \in SUBSET (SUBSET S)
      BY DEF B
    <3> QED BY <1>1, <3>1, MinimalMember
  <2>2. PICK y \in m : Sum(f, m) # f[y] + Sum(f, m \ {y})
    BY <2>1
  <2> DEFINE c == First(m)
  <2>3. \A s \in SUBSET m : IsFiniteSet(s) /\ Sum(f, s) \in Nat
    BY FS_Subset, SumType
  <2>4. c \in m /\ f[c] \in Nat /\ f[y] \in Nat
    BY <2>2, FirstIn
  <2>5. Sum(f, m) = f[c] + Sum(f, m \ {c})
    BY <2>2, <2>3, SumStep
  <2> HIDE DEF c
  <2>6. c # y
    BY <2>2, <2>5
  <2>7. Any(m \ {c}) /\ Any(m \ {y})
    BY <2>1, <2>2, <2>4
  <2>8. Sum(f, m \ {c}) = f[y] + Sum(f, (m \ {c}) \ {y})
    BY <2>2, <2>6, <2>7
  <2>9. Sum(f, m \ {y}) = f[c] + Sum(f, (m \ {y}) \ {c})
    BY <2>4, <2>6, <2>7
  <2>10. (m \ {c}) \ {y} = (m \ {y}) \ {c}
    OBVIOUS
  <2> DEFINE r == Sum(f, (m \ {c}) \ {y})
  <2>11. r \in Nat /\ Sum(f, m \ {c}) = f[y] + r /\ Sum(f, m \ {y}) = f[c] + r
    BY <2>3, <2>8, <2>9, <2>10
  <2> HIDE DEF r
  <2> QED BY <2>2, <2>4, <2>5, <2>11
<1>2. Any(S)
  BY <1>1
<1> QED BY <1>2

LEMMA SumAdd ==
  ASSUME NEW f, NEW S, IsFiniteSet(S), NEW x, x \notin S,
         \A y \in S \cup {x} : f[y] \in Nat
  PROVE  Sum(f, S \cup {x}) = f[x] + Sum(f, S)
<1>1. IsFiniteSet(S \cup {x}) /\ (S \cup {x}) \ {x} = S /\ x \in S \cup {x}
  BY FS_AddElement
<1> QED BY <1>1, SumRemove

\* A smaller set has no greater sum.
LEMMA SumMonotone ==
  ASSUME NEW f, NEW S, IsFiniteSet(S), \A x \in S : f[x] \in Nat,
         NEW T \in SUBSET S
  PROVE  Sum(f, T) <= Sum(f, S)
<1> DEFINE Covers(s) == \A t \in SUBSET s : Sum(f, t) <= Sum(f, s)
           B == {s \in SUBSET S : ~ Covers(s)}
<1>1. ASSUME B # {} PROVE FALSE
  <2>1. PICK m \in B : \A s \in SUBSET m : s # m => s \notin B
    <3> HIDE DEF B
    <3>1. B \in SUBSET (SUBSET S)
      BY DEF B
    <3> QED BY <1>1, <3>1, MinimalMember
  <2>2. PICK t \in SUBSET m : ~ (Sum(f, t) <= Sum(f, m))
    BY <2>1
  <2>3. \A s \in SUBSET m : IsFiniteSet(s) /\ Sum(f, s) \in Nat
    BY FS_Subset, SumType
  <2>4. t # m
    BY <2>2, <2>3
  <2>5. PICK y \in m : y \notin t
    BY <2>4
  <2>6. Sum(f, m) = f[y] + Sum(f, m \ {y}) /\ f[y] \in Nat
    BY <2>3, SumRemove
  <2>7. Sum(f, t) <= Sum(f, m \ {y})
    BY <2>1, <2>5
  <2>8. Sum(f, t) \in Nat /\ Sum(f, m) \in Nat /\ Sum(f, m \ {y}) \in Nat
    BY <2>3
  <2> QED BY <2>2, <2>6, <2>7, <2>8
<1>2. Covers(S)
  BY <1>1
<1> QED BY <1>2

\* If only one value is not zero, it is the sum.
LEMMA SumSingle ==
  ASSUME NEW f, NEW S, IsFiniteSet(S), NEW a \in S, f[a] \in Nat,
         \A x \in S \ {a} : f[x] = 0
  PROVE  Sum(f, S) = f[a]
<1> DEFINE R == S \ {a}
           B == {s \in SUBSET R : Sum(f, s) # 0}
<1>0. IsFiniteSet(R)
  BY FS_Subset
<1>1. ASSUME B # {} PROVE FALSE
  <2>1. PICK m \in B : \A s \in SUBSET m : s # m => s \notin B
    <3> HIDE DEF B, R
    <3>1. B \in SUBSET (SUBSET R)
      BY DEF B
    <3> QED BY <1>0, <1>1, <3>1, MinimalMember
  <2>2. IsFiniteSet(m)
    BY <1>0, FS_Subset
  <2>3. Sum(f, m) # 0
    BY <2>1
  <2>4. PICK y \in m : TRUE
    BY <2>2, <2>3, SumStep
  <2>5. \A x \in m : f[x] \in Nat /\ f[x] = 0
    OBVIOUS
  <2>6. Sum(f, m) = f[y] + Sum(f, m \ {y})
    BY <2>2, <2>5, SumRemove
  <2>7. Sum(f, m \ {y}) = 0
    BY <2>1
  <2> QED BY <2>3, <2>5, <2>6, <2>7
<1>2. Sum(f, R) = 0
  BY <1>1
<1>3. Sum(f, S) = f[a] + Sum(f, R)
  BY SumRemove
<1> HIDE DEF R
<1> QED BY <1>2, <1>3
=============================================================================
