----------------------------- MODULE RulesProofs -----------------------------
(***************************************************************************)
(* What holds of the pure rules for every input, not only for the cases of *)
(* a run: sums and ranks, and on them the type, the score and the peers of *)
(* a page, the advice on it, the figures of a run of answers, and the      *)
(* preview of its opportunities.  There is no induction over data: where   *)
(* one would be made, a least counterexample is taken (LeastNumber).       *)
(***************************************************************************)
EXTENDS MCRules, FiniteSetTheorems, TLAPS

\* The pairs of numbers, the smaller first
Under == {p \in Nat \X Nat : p[1] < p[2]}

\* No number is without end above others.
LEMMA UnderIsWellFounded == IsWellFoundedOn(Under, Nat)
BY NatLessThanWellFounded DEF OpToRel, Under

\* A nonempty set of numbers has a least one.
LEMMA LeastNumber ==
  ASSUME NEW S \in SUBSET Nat, S # {}
  PROVE  \E x \in S : \A y \in S : x <= y
<1>1. PICK x \in S : \A y \in S : ~ (<<y, x>> \in Under)
  <2>1. \E x \in S : \A y \in S : ~ (<<y, x>> \in Under)  BY UnderIsWellFounded, WFMin, Zenon
  <2> QED  BY <2>1
<1>2. ASSUME NEW y \in S PROVE x <= y
  <2>1. x \in Nat /\ y \in Nat /\ <<y, x>> \notin Under  BY <1>1
  <2>2. y < x => <<y, x>> \in Under  BY <2>1 DEF Under
  <2> QED  BY <2>1, <2>2
<1> QED  BY <1>2

\* The recursion behind a sum over the subsets of S
Adds(w, S, n, g) ==
  \A s \in SUBSET S : Cardinality(s) <= n =>
    g[s] = IF s = {} THEN 0 ELSE w[CHOOSE x \in s : TRUE] + g[s \ {CHOOSE x \in s : TRUE}]

\* The recursion has a solution on a finite set: a least size without one cannot be.
LEMMA AddsExist ==
  ASSUME NEW S, IsFiniteSet(S), NEW w, NEW n \in Nat
  PROVE  \E g : Adds(w, S, n, g) /\ g = [s \in SUBSET S |-> g[s]]
<1> DEFINE Wrong == {m \in Nat : ~ \E g : Adds(w, S, m, g) /\ g = [s \in SUBSET S |-> g[s]]}
<1>1. SUFFICES ASSUME Wrong # {} PROVE FALSE  OBVIOUS
<1>2. PICK m \in Wrong : \A k \in Wrong : m <= k
  <2>1. Wrong \in SUBSET Nat  OBVIOUS
  <2> HIDE DEF Wrong
  <2> QED  BY <1>1, <2>1, LeastNumber
<1>3. \A s \in SUBSET S : IsFiniteSet(s) /\ Cardinality(s) \in Nat  BY FS_Subset, FS_CardinalityType
<1>4. CASE m = 0
  <2> DEFINE g == [s \in SUBSET S |-> 0]
  <2>1. \A s \in SUBSET S : Cardinality(s) <= 0 => s = {}  BY <1>3, FS_EmptySet
  <2>2. Adds(w, S, 0, g)  BY <2>1 DEF Adds
  <2>3. g = [s \in SUBSET S |-> g[s]]  OBVIOUS
  <2> QED  BY <1>4, <2>2, <2>3
<1>5. CASE m # 0
  <2>1. m - 1 \in Nat /\ m - 1 \notin Wrong  BY <1>2, <1>5
  <2>2. PICK g : Adds(w, S, m - 1, g)  BY <2>1
  <2> DEFINE h == [s \in SUBSET S |-> IF s = {} THEN 0 ELSE w[CHOOSE x \in s : TRUE] + g[s \ {CHOOSE x \in s : TRUE}]]
  <2>3. ASSUME NEW s \in SUBSET S, Cardinality(s) <= m
        PROVE h[s] = IF s = {} THEN 0 ELSE w[CHOOSE x \in s : TRUE] + h[s \ {CHOOSE x \in s : TRUE}]
    <3>1. CASE s = {}  BY <3>1
    <3>2. CASE s # {}
      <4> DEFINE x == CHOOSE x \in s : TRUE
                 r == s \ {x}
      <4>1. x \in s  BY <3>2
      <4>2. Cardinality(r) = Cardinality(s) - 1 /\ r \in SUBSET S  BY <4>1, <1>3, FS_RemoveElement
      <4>3. Cardinality(r) <= m - 1  BY <4>2, <2>3, <1>3
      <4>4. g[r] = IF r = {} THEN 0 ELSE w[CHOOSE y \in r : TRUE] + g[r \ {CHOOSE y \in r : TRUE}]
        BY <2>2, <4>2, <4>3 DEF Adds
      <4>5. h[r] = g[r]  BY <4>2, <4>4
      <4> QED  BY <4>5, <3>2
    <3> QED  BY <3>1, <3>2
  <2>4. Adds(w, S, m, h)  
    <3> HIDE DEF h
    <3> QED  BY <2>3 DEF Adds
  <2>5. h = [s \in SUBSET S |-> h[s]]  OBVIOUS
  <2> QED  BY <2>4, <2>5
<1> QED  BY <1>4, <1>5

\* A sum is what that recursion yields.
LEMMA SumSteps ==
  ASSUME NEW S, IsFiniteSet(S), NEW w
  PROVE  \E g : Adds(w, S, Cardinality(S), g) /\ SumFunctionOnSet(w, S) = g[S]
<1> DEFINE F(g) == [s \in SUBSET S |-> IF s = {} THEN 0 ELSE w[CHOOSE x \in s : TRUE] + g[s \ {CHOOSE x \in s : TRUE}]]
           it == CHOOSE g : g = F(g)
<1>1. \E g : g = F(g)
  <2>1. PICK g : Adds(w, S, Cardinality(S), g) /\ g = [s \in SUBSET S |-> g[s]]  BY AddsExist, FS_CardinalityType
  <2>2. \A s \in SUBSET S : Cardinality(s) <= Cardinality(S)  BY FS_Subset
  <2>3. \A s \in SUBSET S : g[s] = IF s = {} THEN 0 ELSE w[CHOOSE x \in s : TRUE] + g[s \ {CHOOSE x \in s : TRUE}]
    BY <2>1, <2>2 DEF Adds
  <2>4. [s \in SUBSET S |-> g[s]] = F(g)  BY <2>3
  <2> QED  BY <2>1, <2>4
<1>2. it = F(it)  
  <2> HIDE DEF F
  <2> QED BY <1>1
<1>3. SumFunctionOnSet(w, S) = it[S]
  BY DEF SumFunctionOnSet, FoldFunctionOnSet, MapThenFoldSet
<1>4. Adds(w, S, Cardinality(S), it)
  <2> HIDE DEF it
  <2> QED  BY <1>2 DEF Adds
<1> QED  BY <1>3, <1>4

\* The recursion has one result for the numbers it adds.
LEMMA AddsAgree ==
  ASSUME NEW S, NEW T, NEW w, NEW v, NEW g, NEW h, NEW m \in Nat, NEW n \in Nat,
         Adds(w, S, m, g), Adds(v, T, n, h),
         NEW U \in SUBSET (S \intersect T), IsFiniteSet(U), Cardinality(U) <= m, Cardinality(U) <= n,
         \A x \in U : w[x] = v[x]
  PROVE  g[U] = h[U]
<1> DEFINE Wrong == {k \in Nat : \E s \in SUBSET U : Cardinality(s) = k /\ g[s] # h[s]}
<1>0. \A s \in SUBSET U : IsFiniteSet(s) /\ Cardinality(s) \in Nat /\ Cardinality(s) <= m /\ Cardinality(s) <= n
  BY FS_Subset, FS_CardinalityType
<1>1. SUFFICES ASSUME Wrong # {} PROVE FALSE
  <2>1. Cardinality(U) \in Wrong \/ g[U] = h[U]  BY <1>0
  <2> QED  BY <2>1
<1>2. PICK k \in Wrong : \A l \in Wrong : k <= l
  <2>1. Wrong \in SUBSET Nat  OBVIOUS
  <2> HIDE DEF Wrong
  <2> QED  BY <1>1, <2>1, LeastNumber
<1>3. PICK s \in SUBSET U : Cardinality(s) = k /\ g[s] # h[s]  BY <1>2
<1>4. s \in SUBSET S /\ s \in SUBSET T /\ Cardinality(s) <= m /\ Cardinality(s) <= n  BY <1>0
<1>5. g[s] = IF s = {} THEN 0 ELSE w[CHOOSE x \in s : TRUE] + g[s \ {CHOOSE x \in s : TRUE}]  BY <1>4 DEF Adds
<1>6. h[s] = IF s = {} THEN 0 ELSE v[CHOOSE x \in s : TRUE] + h[s \ {CHOOSE x \in s : TRUE}]  BY <1>4 DEF Adds
<1>7. s # {}  BY <1>3, <1>5, <1>6
<1> DEFINE x == CHOOSE x \in s : TRUE
           r == s \ {x}
<1>8. x \in s  BY <1>7
<1>9. r \in SUBSET U /\ Cardinality(r) = k - 1 /\ k - 1 \in Nat
  <2>1. Cardinality(r) = Cardinality(s) - 1  BY <1>0, <1>8, FS_RemoveElement
  <2>2. r \in SUBSET U  OBVIOUS
  <2> QED  BY <1>0, <1>3, <2>1, <2>2
<1>10. g[r] = h[r]
  <2>1. k - 1 \notin Wrong  BY <1>2, <1>9
  <2> QED  BY <2>1, <1>9
<1>11. w[x] = v[x]  BY <1>8
<1> QED  BY <1>3, <1>5, <1>6, <1>7, <1>10, <1>11

\* Equal numbers have equal sums.
LEMMA SumAlike ==
  ASSUME NEW S, IsFiniteSet(S), NEW w, NEW v, \A x \in S : w[x] = v[x]
  PROVE  SumFunctionOnSet(w, S) = SumFunctionOnSet(v, S)
<1>1. PICK g : Adds(w, S, Cardinality(S), g) /\ SumFunctionOnSet(w, S) = g[S]  BY SumSteps
<1>2. PICK h : Adds(v, S, Cardinality(S), h) /\ SumFunctionOnSet(v, S) = h[S]  BY SumSteps
<1>3. Cardinality(S) \in Nat /\ S \in SUBSET (S \intersect S) /\ Cardinality(S) <= Cardinality(S)  BY FS_CardinalityType
<1>4. g[S] = h[S]  BY <1>1, <1>2, <1>3, AddsAgree, SMTT(20)
<1> QED  BY <1>1, <1>2, <1>4

\* Nothing adds up to zero.
LEMMA SumEmpty == ASSUME NEW w PROVE SumFunctionOnSet(w, {}) = 0
<1>1. IsFiniteSet({}) /\ Cardinality({}) = 0  BY FS_EmptySet
<1>2. PICK g : Adds(w, {}, 0, g) /\ SumFunctionOnSet(w, {}) = g[{}]  BY <1>1, SumSteps
<1> QED  BY <1>1, <1>2 DEF Adds

\* The element the recursion takes first, apart
LEMMA SumFirst ==
  ASSUME NEW S, IsFiniteSet(S), S # {}, NEW w
  PROVE  LET x == CHOOSE x \in S : TRUE IN
         x \in S /\ SumFunctionOnSet(w, S) = w[x] + SumFunctionOnSet(w, S \ {x})
<1> DEFINE x == CHOOSE x \in S : TRUE
           r == S \ {x}
<1>1. x \in S  OBVIOUS
<1>2. IsFiniteSet(r) /\ Cardinality(S) \in Nat /\ Cardinality(r) = Cardinality(S) - 1 /\ Cardinality(r) \in Nat
  BY <1>1, FS_RemoveElement, FS_CardinalityType
<1>3. PICK g : Adds(w, S, Cardinality(S), g) /\ SumFunctionOnSet(w, S) = g[S]  BY SumSteps
<1>4. PICK h : Adds(w, r, Cardinality(r), h) /\ SumFunctionOnSet(w, r) = h[r]  BY <1>2, SumSteps
<1>5. g[S] = w[x] + g[r]
  <2>1. S \in SUBSET S /\ Cardinality(S) <= Cardinality(S)  BY <1>2
  <2>2. g[S] = IF S = {} THEN 0 ELSE w[CHOOSE y \in S : TRUE] + g[S \ {CHOOSE y \in S : TRUE}]  BY <1>3, <2>1 DEF Adds
  <2> QED  BY <2>2
<1>6. r \in SUBSET (S \intersect r) /\ Cardinality(r) <= Cardinality(S) /\ Cardinality(r) <= Cardinality(r)  BY <1>2
<1>7. \A y \in r : w[y] = w[y]  OBVIOUS
<1> HIDE DEF x, r
<1>8. g[r] = h[r]  BY <1>3, <1>4, <1>2, <1>6, <1>7, AddsAgree, SMTT(20)
<1> QED  BY <1>1, <1>3, <1>4, <1>5, <1>8 DEF r, x

\* Any element apart, for sums of integers
LEMMA SumRemove ==
  ASSUME NEW S, IsFiniteSet(S), NEW w, \A x \in S : w[x] \in Int
  PROVE  /\ SumFunctionOnSet(w, S) \in Int
         /\ \A x \in S : SumFunctionOnSet(w, S) = w[x] + SumFunctionOnSet(w, S \ {x})
<1> DEFINE Fine(s) == /\ SumFunctionOnSet(w, s) \in Int
                      /\ \A x \in s : SumFunctionOnSet(w, s) = w[x] + SumFunctionOnSet(w, s \ {x})
           Wrong == {k \in Nat : \E s \in SUBSET S : Cardinality(s) = k /\ ~ Fine(s)}
<1>0. \A s \in SUBSET S : IsFiniteSet(s) /\ Cardinality(s) \in Nat  BY FS_Subset, FS_CardinalityType
<1>1. SUFFICES ASSUME Wrong # {} PROVE FALSE
  <2>1. Cardinality(S) \in Wrong \/ Fine(S)  BY <1>0
  <2> QED  BY <2>1
<1>2. PICK k \in Wrong : \A l \in Wrong : k <= l
  <2>1. Wrong \in SUBSET Nat  OBVIOUS
  <2> HIDE DEF Wrong
  <2> QED  BY <1>1, <2>1, LeastNumber
<1>3. PICK s \in SUBSET S : Cardinality(s) = k /\ ~ Fine(s)  BY <1>2
<1>4. s # {}
  <2>1. SumFunctionOnSet(w, {}) \in Int  BY SumEmpty
  <2>2. Fine({})  BY <2>1
  <2> HIDE DEF Fine
  <2> QED  BY <1>3, <2>2
<1>5. ASSUME NEW x \in s PROVE Fine(s \ {x}) /\ s \ {x} \in SUBSET S
  <2>1. Cardinality(s \ {x}) = k - 1 /\ s \ {x} \in SUBSET S  BY <1>3, <1>0, FS_RemoveElement
  <2>2. k - 1 \in Nat  BY <2>1, <1>0
  <2>3. k - 1 \notin Wrong  BY <2>2, <1>2
  <2> HIDE DEF Fine
  <2> QED  BY <2>1, <2>2, <2>3
<1>6. PICK y \in s : SumFunctionOnSet(w, s) = w[y] + SumFunctionOnSet(w, s \ {y})  BY <1>0, <1>4, SumFirst
<1>7. SumFunctionOnSet(w, s) \in Int  BY <1>5, <1>6
<1>8. ASSUME NEW x \in s PROVE SumFunctionOnSet(w, s) = w[x] + SumFunctionOnSet(w, s \ {x})
  <2>1. CASE x = y  BY <2>1, <1>6
  <2>2. CASE x # y
    <3>1. x \in s \ {y} /\ y \in s \ {x} /\ (s \ {y}) \ {x} = (s \ {x}) \ {y}  BY <2>2
    <3>2. SumFunctionOnSet(w, s \ {y}) = w[x] + SumFunctionOnSet(w, (s \ {y}) \ {x})  BY <1>5, <3>1
    <3>3. SumFunctionOnSet(w, s \ {x}) = w[y] + SumFunctionOnSet(w, (s \ {y}) \ {x})  BY <1>5, <3>1
    <3>4. SumFunctionOnSet(w, (s \ {y}) \ {x}) \in Int
      <4>1. s \ {y} \in SUBSET S /\ Fine(s \ {y})  BY <1>5
      <4>2. (s \ {y}) \ {x} \in SUBSET S  OBVIOUS
      <4>3. IsFiniteSet(s \ {y}) /\ Cardinality(s \ {y}) = k - 1  BY <1>0, <1>3, FS_RemoveElement
      <4>4. Cardinality((s \ {y}) \ {x}) = Cardinality(s \ {y}) - 1 /\ k \in Nat
        <5>1. x \in s \ {y} /\ IsFiniteSet(s \ {y}) /\ k \in Nat  BY <4>3, <3>1
        <5> HIDE DEF Wrong
        <5> QED  BY <5>1, FS_RemoveElement
      <4>5. k - 2 \in Nat /\ Cardinality((s \ {y}) \ {x}) = k - 2  BY <4>3, <4>4, <4>2, <1>0
      <4>6. k - 2 \notin Wrong  BY <4>5, <1>2
      <4>7. Fine((s \ {y}) \ {x})
        <5> HIDE DEF Fine
        <5> QED  BY <4>2, <4>5, <4>6
      <4> QED  BY <4>7
    <3> QED  BY <1>6, <3>2, <3>3, <3>4
  <2> QED  BY <2>1, <2>2
<1> QED  BY <1>3, <1>7, <1>8

\* More of everything is more in all.
LEMMA SumGrows ==
  ASSUME NEW S, IsFiniteSet(S), NEW w, NEW v, \A x \in S : w[x] \in Int /\ v[x] \in Int /\ w[x] <= v[x]
  PROVE  SumFunctionOnSet(w, S) <= SumFunctionOnSet(v, S)
<1> DEFINE Fine(s) == SumFunctionOnSet(w, s) <= SumFunctionOnSet(v, s)
           Wrong == {k \in Nat : \E s \in SUBSET S : Cardinality(s) = k /\ ~ Fine(s)}
<1>0. \A s \in SUBSET S : IsFiniteSet(s) /\ Cardinality(s) \in Nat  BY FS_Subset, FS_CardinalityType
<1>1. SUFFICES ASSUME Wrong # {} PROVE FALSE
  <2>1. Cardinality(S) \in Wrong \/ Fine(S)  BY <1>0
  <2> QED  BY <2>1
<1>2. PICK k \in Wrong : \A l \in Wrong : k <= l
  <2>1. Wrong \in SUBSET Nat  OBVIOUS
  <2> HIDE DEF Wrong
  <2> QED  BY <1>1, <2>1, LeastNumber
<1>3. PICK s \in SUBSET S : Cardinality(s) = k /\ ~ Fine(s)  BY <1>2
<1>4. s # {}  BY <1>3, SumEmpty
<1>5. PICK x \in s : TRUE  BY <1>4
<1>6. Fine(s \ {x})
  <2>1. Cardinality(s \ {x}) = k - 1 /\ s \ {x} \in SUBSET S  BY <1>3, <1>0, FS_RemoveElement
  <2>2. k - 1 \in Nat  BY <2>1, <1>0
  <2>3. k - 1 \notin Wrong  BY <2>2, <1>2
  <2> HIDE DEF Fine
  <2> QED  BY <2>1, <2>2, <2>3
<1>7. \A y \in s : w[y] \in Int /\ v[y] \in Int  OBVIOUS
<1>8. /\ SumFunctionOnSet(w, s) = w[x] + SumFunctionOnSet(w, s \ {x})
      /\ SumFunctionOnSet(v, s) = v[x] + SumFunctionOnSet(v, s \ {x})
  BY <1>0, <1>7, SumRemove
<1>9. SumFunctionOnSet(w, s \ {x}) \in Int /\ SumFunctionOnSet(v, s \ {x}) \in Int
  <2>1. \A y \in s \ {x} : w[y] \in Int /\ v[y] \in Int  BY <1>7
  <2>2. IsFiniteSet(s \ {x})  BY <1>0
  <2> QED  BY <2>1, <2>2, SumRemove
<1> QED  BY <1>3, <1>6, <1>8, <1>9

\* The members of I told apart by key, for the keys in K, are those with a key in K.
LEMMA SumOfParts ==
  ASSUME NEW I, IsFiniteSet(I), NEW key, NEW K, IsFiniteSet(K), NEW w,
         \A k \in K : w[k] = Cardinality({i \in I : key[i] = k})
  PROVE  SumFunctionOnSet(w, K) = Cardinality({i \in I : key[i] \in K})
<1> DEFINE Fine(s) == SumFunctionOnSet(w, s) = Cardinality({i \in I : key[i] \in s})
           Wrong == {n \in Nat : \E s \in SUBSET K : Cardinality(s) = n /\ ~ Fine(s)}
<1>0. \A s \in SUBSET K : IsFiniteSet(s) /\ Cardinality(s) \in Nat  BY FS_Subset, FS_CardinalityType
<1>1. SUFFICES ASSUME Wrong # {} PROVE FALSE
  <2>1. Cardinality(K) \in Wrong \/ Fine(K)  BY <1>0
  <2> QED  BY <2>1
<1>2. PICK n \in Wrong : \A l \in Wrong : n <= l
  <2>1. Wrong \in SUBSET Nat  OBVIOUS
  <2> HIDE DEF Wrong
  <2> QED  BY <1>1, <2>1, LeastNumber
<1>3. PICK s \in SUBSET K : Cardinality(s) = n /\ ~ Fine(s)  BY <1>2
<1>4. s # {}
  <2>1. {i \in I : key[i] \in {}} = {}  OBVIOUS
  <2>2. Fine({})  BY <2>1, SumEmpty, FS_EmptySet
  <2> HIDE DEF Fine
  <2> QED  BY <1>3, <2>2
<1>5. PICK x \in s : TRUE  BY <1>4
<1>6. Fine(s \ {x})
  <2>1. Cardinality(s \ {x}) = n - 1 /\ s \ {x} \in SUBSET K  BY <1>3, <1>0, FS_RemoveElement
  <2>2. n - 1 \in Nat  BY <2>1, <1>0
  <2>3. n - 1 \notin Wrong  BY <2>2, <1>2
  <2> HIDE DEF Fine
  <2> QED  BY <2>1, <2>2, <2>3
<1> DEFINE A == {i \in I : key[i] = x}
           B == {i \in I : key[i] \in s \ {x}}
<1>7. IsFiniteSet(A) /\ IsFiniteSet(B) /\ Cardinality(A) \in Nat /\ Cardinality(B) \in Nat
  <2>1. A \subseteq I /\ B \subseteq I  OBVIOUS
  <2> HIDE DEF A, B
  <2> QED  BY <2>1, FS_Subset, FS_CardinalityType
<1>8. {i \in I : key[i] \in s} = A \union B /\ A \intersect B = {}  OBVIOUS
<1>9. Cardinality(A \union B) = Cardinality(A) + Cardinality(B)
  <2> HIDE DEF A, B
  <2> QED  BY <1>7, <1>8, FS_Union, FS_EmptySet
<1>10. \A k \in s : w[k] \in Int
  <2> SUFFICES ASSUME NEW k \in s PROVE w[k] \in Int  OBVIOUS
  <2>1. {i \in I : key[i] = k} \subseteq I  OBVIOUS
  <2>2. Cardinality({i \in I : key[i] = k}) \in Nat  BY <2>1, FS_Subset, FS_CardinalityType
  <2>3. w[k] = Cardinality({i \in I : key[i] = k})  OBVIOUS
  <2> QED  BY <2>2, <2>3
<1>11. SumFunctionOnSet(w, s) = w[x] + SumFunctionOnSet(w, s \ {x})  BY <1>0, <1>10, SumRemove
<1>12. w[x] = Cardinality(A)  OBVIOUS
<1> QED  BY <1>3, <1>6, <1>7, <1>8, <1>9, <1>11, <1>12

(* Ranking: a strict total order on a finite set numbers its members. *)
\* R holds <<x, y>> where x comes before y.
Orders(R, S) ==
  /\ \A x \in S : <<x, x>> \notin R
  /\ \A x, y, z \in S : <<x, y>> \in R /\ <<y, z>> \in R => <<x, z>> \in R
  /\ \A x, y \in S : x # y => <<x, y>> \in R \/ <<y, x>> \in R

\* Who comes before x
InFront(R, S, x) == {y \in S : <<y, x>> \in R}

\* Who comes earlier has fewer before it.
LEMMA FewerAhead ==
  ASSUME NEW S, IsFiniteSet(S), NEW R, Orders(R, S), NEW x \in S, NEW y \in S, <<x, y>> \in R
  PROVE  Cardinality(InFront(R, S, x)) < Cardinality(InFront(R, S, y))
<1>1. InFront(R, S, x) \subseteq InFront(R, S, y) /\ InFront(R, S, y) \subseteq S  BY DEF InFront, Orders
<1>2. x \in InFront(R, S, y) /\ x \notin InFront(R, S, x)  BY DEF InFront, Orders
<1>3. IsFiniteSet(InFront(R, S, y)) /\ Cardinality(InFront(R, S, y)) \in Nat  BY <1>1, FS_Subset, FS_CardinalityType
<1>4. IsFiniteSet(InFront(R, S, x)) /\ Cardinality(InFront(R, S, x)) <= Cardinality(InFront(R, S, y))
      /\ Cardinality(InFront(R, S, x)) # Cardinality(InFront(R, S, y))  BY <1>1, <1>2, <1>3, FS_Subset
<1>5. Cardinality(InFront(R, S, x)) \in Nat  BY <1>4, FS_CardinalityType
<1> QED  BY <1>3, <1>4, <1>5

\* The numbers of those ahead are those from 0 to one less than all, each once.
LEMMA RanksWithoutHoles ==
  ASSUME NEW S, IsFiniteSet(S), NEW R, Orders(R, S)
  PROVE  LET rank == [x \in S |-> 1 + Cardinality(InFront(R, S, x))] IN
         /\ rank \in Bijection(S, 1 .. Cardinality(S))
         /\ \A x, y \in S : <<x, y>> \in R <=> rank[x] < rank[y]
<1> DEFINE rank == [x \in S |-> 1 + Cardinality(InFront(R, S, x))]
<1>0. Cardinality(S) \in Nat  BY FS_CardinalityType
<1>1. ASSUME NEW x \in S
      PROVE  Cardinality(InFront(R, S, x)) \in Nat /\ Cardinality(InFront(R, S, x)) < Cardinality(S)
  <2>1. InFront(R, S, x) \subseteq S /\ x \notin InFront(R, S, x)  BY DEF InFront, Orders
  <2>2. IsFiniteSet(InFront(R, S, x)) /\ Cardinality(InFront(R, S, x)) <= Cardinality(S)
        /\ Cardinality(InFront(R, S, x)) # Cardinality(S)  BY <2>1, FS_Subset
  <2>3. Cardinality(InFront(R, S, x)) \in Nat  BY <2>2, FS_CardinalityType
  <2> QED  BY <2>2, <2>3, <1>0
<1>2. rank \in [S -> 1 .. Cardinality(S)]  BY <1>0, <1>1
<1>3. ASSUME NEW x \in S, NEW y \in S, <<x, y>> \in R PROVE rank[x] < rank[y]
  <2>1. Cardinality(InFront(R, S, x)) < Cardinality(InFront(R, S, y))  BY <1>3, FewerAhead
  <2> QED  BY <2>1, <1>1
<1>4. \A x, y \in S : <<x, y>> \in R <=> rank[x] < rank[y]
  <2> SUFFICES ASSUME NEW x \in S, NEW y \in S, rank[x] < rank[y] PROVE <<x, y>> \in R  BY <1>3
  <2>1. rank[x] \in Nat /\ rank[y] \in Nat  BY <1>1
  <2>2. x # y /\ ~ rank[y] < rank[x]  BY <2>1
  <2>3. <<x, y>> \in R \/ <<y, x>> \in R  BY <2>2 DEF Orders
  <2> QED  BY <2>2, <2>3, <1>3
<1>5. rank \in Injection(S, 1 .. Cardinality(S))
  <2>1. ASSUME NEW x \in S, NEW y \in S, rank[x] = rank[y] PROVE x = y
    <3>1. rank[x] \in Nat /\ rank[y] \in Nat  BY <1>1
    <3>2. ~ rank[x] < rank[y] /\ ~ rank[y] < rank[x]  BY <2>1, <3>1
    <3>3. <<x, y>> \notin R /\ <<y, x>> \notin R  BY <3>2, <1>3
    <3> QED  BY <3>3 DEF Orders
  <2>2. DOMAIN rank = S  OBVIOUS
  <2> HIDE DEF rank
  <2> QED  BY <1>2, <2>1, <2>2 DEF Injection, IsInjective
<1>6. IsFiniteSet(1 .. Cardinality(S)) /\ Cardinality(1 .. Cardinality(S)) = Cardinality(S)
  BY <1>0, FS_Interval
<1>7. rank \in Surjection(S, 1 .. Cardinality(S))
  <2> HIDE DEF rank
  <2> QED  BY <1>5, <1>6, FS_Injection
<1> QED  BY <1>4, <1>5, <1>7 DEF Bijection

\* Those with the numbers from a to b are as many as these numbers.
LEMMA RankedBetween ==
  ASSUME NEW S, IsFiniteSet(S), NEW R, Orders(R, S), NEW a \in Nat, NEW b \in Nat,
         1 <= a, b <= Cardinality(S)
  PROVE  LET Part == {x \in S : a <= 1 + Cardinality(InFront(R, S, x)) /\ 1 + Cardinality(InFront(R, S, x)) <= b} IN
         IsFiniteSet(Part) /\ Cardinality(Part) = IF a > b THEN 0 ELSE b - a + 1
<1> DEFINE rank == [x \in S |-> 1 + Cardinality(InFront(R, S, x))]
           Part == {x \in S : a <= 1 + Cardinality(InFront(R, S, x)) /\ 1 + Cardinality(InFront(R, S, x)) <= b}
           part == [x \in Part |-> rank[x]]
<1>1. rank \in Bijection(S, 1 .. Cardinality(S))  BY RanksWithoutHoles
<1>2. Cardinality(S) \in Nat  BY FS_CardinalityType
<1>3. /\ rank \in [S -> 1 .. Cardinality(S)]
      /\ \A x, y \in S : rank[x] = rank[y] => x = y
      /\ \A n \in 1 .. Cardinality(S) : \E x \in S : rank[x] = n
  <2> HIDE DEF rank
  <2>1. DOMAIN rank = S  BY <1>1 DEF Bijection, Injection
  <2> QED  BY <1>1, <2>1 DEF Bijection, Injection, Surjection, IsInjective
<1>4. Part = {x \in S : rank[x] \in a .. b}
  <2>1. \A x \in S : rank[x] = 1 + Cardinality(InFront(R, S, x)) /\ rank[x] \in Int  BY <1>3
  <2> QED  BY <2>1
<1>5. part \in Bijection(Part, a .. b)
  <2>1. part \in [Part -> a .. b]  BY <1>4
  <2>2. \A x, y \in Part : part[x] = part[y] => x = y  BY <1>3, <1>4
  <2>3. \A n \in a .. b : \E x \in Part : part[x] = n
    <3> SUFFICES ASSUME NEW n \in a .. b PROVE \E x \in Part : part[x] = n  OBVIOUS
    <3>1. n \in 1 .. Cardinality(S)  BY <1>2
    <3>2. PICK x \in S : rank[x] = n  BY <1>3, <3>1
    <3>3. x \in Part  BY <3>2, <1>4
    <3> QED  BY <3>2, <3>3
  <2>4. DOMAIN part = Part  OBVIOUS
  <2> HIDE DEF part
  <2> QED  BY <2>1, <2>2, <2>3, <2>4 DEF Bijection, Injection, Surjection, IsInjective
<1>6. Part \subseteq S  OBVIOUS
<1>7. IsFiniteSet(Part)  BY <1>6, FS_Subset
<1>8. ExistsBijection(Part, a .. b)
  <2> HIDE DEF part
  <2> QED  BY <1>5 DEF ExistsBijection
<1>9. Cardinality(a .. b) = Cardinality(Part)
  <2> HIDE DEF Part
  <2> QED  BY <1>7, <1>8, FS_Bijection
<1> QED  BY <1>7, <1>9, FS_Interval

\* The greater of two numbers
LEMMA GreaterOfTwo == ASSUME NEW a \in Int, NEW b \in Int PROVE Max({a, b}) = IF a >= b THEN a ELSE b
<1> DEFINE m == IF a >= b THEN a ELSE b
<1>1. m \in {a, b} /\ \A y \in {a, b} : m >= y  OBVIOUS
<1>2. \A x \in {a, b} : (\A y \in {a, b} : x >= y) => x = m  OBVIOUS
<1> QED  BY <1>1, <1>2 DEF Max

\* The lesser of two numbers
LEMMA LesserOfTwo == ASSUME NEW a \in Int, NEW b \in Int PROVE Min({a, b}) = IF a <= b THEN a ELSE b
<1> DEFINE m == IF a <= b THEN a ELSE b
<1>1. m \in {a, b} /\ \A y \in {a, b} : m <= y  OBVIOUS
<1>2. \A x \in {a, b} : (\A y \in {a, b} : x <= y) => x = m  OBVIOUS
<1> QED  BY <1>1, <1>2 DEF Min

\* A finite set of numbers has a greatest one.
LEMMA GreatestNumber ==
  ASSUME NEW S \in SUBSET Int, IsFiniteSet(S), S # {}
  PROVE  Max(S) \in S /\ \A y \in S : Max(S) >= y
<1> DEFINE R == {p \in S \X S : p[1] > p[2]}
<1>1. Orders(R, S)  BY DEF Orders
<1>2. PICK x \in S : Cardinality(InFront(R, S, x)) = 0
  <2> HIDE DEF R
  <2>1. Cardinality(S) \in Nat /\ Cardinality(S) # 0  BY FS_CardinalityType, FS_EmptySet
  <2>2. [x \in S |-> 1 + Cardinality(InFront(R, S, x))] \in Bijection(S, 1 .. Cardinality(S))  BY <1>1, RanksWithoutHoles
  <2>3. PICK x \in S : 1 + Cardinality(InFront(R, S, x)) = 1  BY <2>1, <2>2 DEF Bijection, Surjection
  <2>4. IsFiniteSet(InFront(R, S, x))  BY FS_Subset DEF InFront
  <2> QED  BY <2>3, <2>4, FS_CardinalityType
<1>3. InFront(R, S, x) = {}
  <2>1. IsFiniteSet(InFront(R, S, x))  BY FS_Subset DEF InFront
  <2> QED  BY <1>2, <2>1, FS_EmptySet
<1>4. ASSUME NEW y \in S PROVE x >= y
  <2>1. y > x => <<y, x>> \in R  OBVIOUS
  <2> QED  BY <2>1, <1>3 DEF InFront
<1> QED  BY <1>4 DEF Max

\* A finite set of numbers has a least one.
LEMMA LeastOfFinite ==
  ASSUME NEW S \in SUBSET Int, IsFiniteSet(S), S # {}
  PROVE  Min(S) \in S /\ \A y \in S : Min(S) <= y
<1> DEFINE R == {p \in S \X S : p[1] < p[2]}
<1>1. Orders(R, S)  BY DEF Orders
<1>2. PICK x \in S : Cardinality(InFront(R, S, x)) = 0
  <2> HIDE DEF R
  <2>1. Cardinality(S) \in Nat /\ Cardinality(S) # 0  BY FS_CardinalityType, FS_EmptySet
  <2>2. [x \in S |-> 1 + Cardinality(InFront(R, S, x))] \in Bijection(S, 1 .. Cardinality(S))  BY <1>1, RanksWithoutHoles
  <2>3. PICK x \in S : 1 + Cardinality(InFront(R, S, x)) = 1  BY <2>1, <2>2 DEF Bijection, Surjection
  <2>4. IsFiniteSet(InFront(R, S, x))  BY FS_Subset DEF InFront
  <2> QED  BY <2>3, <2>4, FS_CardinalityType
<1>3. InFront(R, S, x) = {}
  <2>1. IsFiniteSet(InFront(R, S, x))  BY FS_Subset DEF InFront
  <2> QED  BY <1>2, <2>1, FS_EmptySet
<1>4. ASSUME NEW y \in S PROVE x <= y
  <2>1. y < x => <<y, x>> \in R  OBVIOUS
  <2> QED  BY <2>1, <1>3 DEF InFront
<1> QED  BY <1>4 DEF Min

(***************************************************************************)
(* Stronger and weaker pages                                               *)
(***************************************************************************)
Peers(metric) == {p \in (DOMAIN metric) \X (DOMAIN metric) : Below(metric, p[1], p[2])}

\* The rates of finitely many peers, each a number
Rates == UNION {[S -> Int] : S \in {T \in SUBSET Int : IsFiniteSet(T)}}

\* The ranks of peers are their numbers in this order.
LEMMA PeersRanked ==
  ASSUME NEW metric \in Rates
  PROVE  /\ IsFiniteSet(DOMAIN metric) /\ Cardinality(DOMAIN metric) \in Nat
         /\ DOMAIN metric \subseteq Int /\ metric \in [DOMAIN metric -> Int]
         /\ Orders(Peers(metric), DOMAIN metric)
         /\ \A x \in DOMAIN metric : RankIn(metric, x) = 1 + Cardinality(InFront(Peers(metric), DOMAIN metric, x))
         /\ \A x \in DOMAIN metric : RankIn(metric, x) \in 1 .. Cardinality(DOMAIN metric)
<1>1. PICK S \in SUBSET Int : IsFiniteSet(S) /\ metric \in [S -> Int]  BY DEF Rates
<1>2. S = DOMAIN metric /\ Cardinality(S) \in Nat  BY <1>1, FS_CardinalityType
<1>0. ASSUME NEW x \in S, NEW y \in S PROVE <<x, y>> \in Peers(metric) <=> Below(metric, x, y)
  <2>1. <<x, y>> \in (DOMAIN metric) \X (DOMAIN metric)  BY <1>2
  <2>2. <<x, y>>[1] = x /\ <<x, y>>[2] = y  OBVIOUS
  <2> QED  BY <2>1, <2>2, Zenon DEF Peers
<1>3. Orders(Peers(metric), S)
  <2>1. \A x \in S : metric[x] \in Int /\ x \in Int  BY <1>1
  <2>2. \A x \in S : ~ Below(metric, x, x)  BY <2>1 DEF Below
  <2>3. \A x, y, z \in S : Below(metric, x, y) /\ Below(metric, y, z) => Below(metric, x, z)  BY <2>1 DEF Below
  <2>4. \A x, y \in S : x # y => Below(metric, x, y) \/ Below(metric, y, x)  BY <2>1 DEF Below
  <2> QED  BY <1>0, <2>2, <2>3, <2>4 DEF Orders
<1>4. \A x \in S : {y \in DOMAIN metric : Below(metric, y, x)} = InFront(Peers(metric), S, x)
  BY <1>0, <1>2 DEF InFront
<1>5. \A x \in S : RankIn(metric, x) = 1 + Cardinality(InFront(Peers(metric), S, x))  BY <1>4 DEF RankIn
<1>6. [x \in S |-> 1 + Cardinality(InFront(Peers(metric), S, x))] \in [S -> 1 .. Cardinality(S)]
  BY <1>1, <1>3, RanksWithoutHoles DEF Bijection, Injection
<1>7. \A x \in S : 1 + Cardinality(InFront(Peers(metric), S, x)) \in 1 .. Cardinality(S)  BY <1>6
<1> QED  BY <1>1, <1>2, <1>3, <1>5, <1>7

\* The strong third and the weak third of any comparable peers are apart, are as many, and are
\* where the figures put them (PeersSeparate; page_intelligence.py, the peer comparison).
THEOREM PeersAlwaysSeparate == \A metric \in Rates : PeersSeparate(metric)
<1> SUFFICES ASSUME NEW metric \in Rates, Comparable(metric) PROVE
      /\ Strong(metric) \intersect Weak(metric) = {}
      /\ Cardinality(Strong(metric)) = Cardinality(Weak(metric))
      /\ \A x \in Strong(metric), y \in Weak(metric) : metric[x] > metric[y]
      /\ \A x \in DOMAIN metric :
           /\ x \in Strong(metric) => Position(metric, metric[x]) = "successful"
           /\ x \in Weak(metric) => Position(metric, metric[x]) = "weak"
  BY DEF PeersSeparate
<1> DEFINE S == DOMAIN metric
           n == Cardinality(S)
           k == Third(metric)
<1>1. IsFiniteSet(S) /\ n \in Nat /\ metric \in [S -> Int] /\ Orders(Peers(metric), S)  BY PeersRanked
<1>2. \A x \in S : RankIn(metric, x) \in 1 .. n
                   /\ RankIn(metric, x) = 1 + Cardinality(InFront(Peers(metric), S, x))  BY PeersRanked
<1>3. k \in Nat
  <2>1. n \div 3 \in Nat  BY <1>1
  <2> QED  BY <2>1, GreaterOfTwo, PeersAssumption DEF Third
<1>4. Strong(metric) \subseteq S /\ Weak(metric) \subseteq S  BY DEF Strong, Weak
<1>5. ASSUME NEW x \in Strong(metric) PROVE metric[x] >= StrongCut(metric) /\ StrongCut(metric) \in Int
  <2> DEFINE T == {metric[y] : y \in Strong(metric)}
  <2>1. T \in SUBSET Int /\ metric[x] \in T  BY <1>1, <1>4
  <2>2. IsFiniteSet(T)
    <3>1. IsFiniteSet(Strong(metric))  BY <1>1, <1>4, FS_Subset
    <3>2. [y \in Strong(metric) |-> metric[y]] \in Surjection(Strong(metric), T)  BY DEF Surjection
    <3> QED  BY <3>1, <3>2, FS_Surjection
  <2>3. Min(T) \in T /\ \A y \in T : Min(T) <= y
    <3> HIDE DEF T
    <3> QED  BY <2>1, <2>2, LeastOfFinite
  <2> QED  BY <2>1, <2>3 DEF StrongCut
<1>6. ASSUME NEW x \in Weak(metric) PROVE metric[x] <= WeakCut(metric) /\ WeakCut(metric) \in Int
  <2> DEFINE T == {metric[y] : y \in Weak(metric)}
  <2>1. T \in SUBSET Int /\ metric[x] \in T  BY <1>1, <1>4
  <2>2. IsFiniteSet(T)
    <3>1. IsFiniteSet(Weak(metric))  BY <1>1, <1>4, FS_Subset
    <3>2. [y \in Weak(metric) |-> metric[y]] \in Surjection(Weak(metric), T)  BY DEF Surjection
    <3> QED  BY <3>1, <3>2, FS_Surjection
  <2>3. Max(T) \in T /\ \A y \in T : Max(T) >= y
    <3> HIDE DEF T
    <3> QED  BY <2>1, <2>2, GreatestNumber
  <2> QED  BY <2>1, <2>3 DEF WeakCut
<1>7. \A x \in S : metric[x] \in Int  BY <1>1
<1>8. \A x \in Strong(metric), y \in Weak(metric) : metric[x] > metric[y]
  <2> SUFFICES ASSUME NEW x \in Strong(metric), NEW y \in Weak(metric) PROVE metric[x] > metric[y]  OBVIOUS
  <2>1. metric[x] \in Int /\ metric[y] \in Int  BY <1>4, <1>7
  <2> QED  BY <2>1, <1>5, <1>6 DEF Comparable
<1>9. Strong(metric) \intersect Weak(metric) = {}
  <2> SUFFICES ASSUME NEW x \in Strong(metric), x \in Weak(metric) PROVE FALSE  OBVIOUS
  <2>1. metric[x] > metric[x] /\ metric[x] \in Int  BY <1>4, <1>7, <1>8
  <2> QED  BY <2>1
<1>10. \A x \in Strong(metric), y \in Weak(metric) :
         Position(metric, metric[x]) = "successful" /\ Position(metric, metric[y]) = "weak"
  <2> SUFFICES ASSUME NEW x \in Strong(metric), NEW y \in Weak(metric)
               PROVE Position(metric, metric[x]) = "successful" /\ Position(metric, metric[y]) = "weak"  OBVIOUS
  <2>1. metric[x] \in Int /\ metric[y] \in Int  BY <1>4, <1>7
  <2> QED  BY <2>1, <1>5, <1>6 DEF Comparable, Position
<1>11. CASE k = 0 \/ n = 0
  <2>1. Strong(metric) = {} /\ Weak(metric) = {}
    <3>1. CASE n = 0
      <4>1. S = {}  BY <3>1, <1>1, FS_EmptySet
      <4> QED  BY <4>1, <1>4
    <3>2. CASE k = 0  BY <3>2, <1>2, <1>1 DEF Strong, Weak
    <3> QED  BY <3>1, <3>2, <1>11
  <2> QED  BY <2>1
<1>12. CASE k # 0 /\ n # 0
  <2>1. Cardinality(Strong(metric)) = Cardinality(Weak(metric)) /\ Strong(metric) # {} /\ Weak(metric) # {}
    <3> DEFINE j == IF k <= n THEN k ELSE n
    <3>0. j \in Nat /\ 1 <= j /\ j <= n  BY <1>12, <1>1, <1>3
    <3>1. Weak(metric) = {x \in S : 1 <= 1 + Cardinality(InFront(Peers(metric), S, x))
                                    /\ 1 + Cardinality(InFront(Peers(metric), S, x)) <= j}
      BY <1>1, <1>2, <1>3 DEF Weak
    <3>2. Strong(metric) = {x \in S : n - j + 1 <= 1 + Cardinality(InFront(Peers(metric), S, x))
                                      /\ 1 + Cardinality(InFront(Peers(metric), S, x)) <= n}
      BY <1>1, <1>2, <1>3 DEF Strong
    <3>3. Cardinality(Weak(metric)) = j
      <4> HIDE DEF j, S
      <4>1. 1 \in Nat /\ 1 <= 1  OBVIOUS
      <4> QED  BY <4>1, <3>0, <3>1, <1>1, RankedBetween
    <3>4. Cardinality(Strong(metric)) = j
      <4>1. n - j + 1 \in Nat /\ 1 <= n - j + 1 /\ n <= n /\ n - j + 1 <= n  BY <3>0, <1>1
      <4>2. n - (n - j + 1) + 1 = j  BY <3>0, <1>1
      <4> HIDE DEF j, S
      <4> QED  BY <4>1, <4>2, <3>0, <3>2, <1>1, RankedBetween
    <3> QED  BY <3>0, <3>3, <3>4, FS_EmptySet
  <2> QED  BY <2>1, <1>8, <1>9, <1>10
<1> QED  BY <1>11, <1>12

(***************************************************************************)
(* Advice                                                                  *)
(***************************************************************************)
\* The lengths and counts the crawl stored are numbers.
Stored(p) == /\ {p.http, p.title, p.desc, p.words, p.subs} \subseteq Nat
             /\ {p.depth, p.age} \subseteq Int

\* At most one of a set of codes is given if no two are.
LEMMA AtMostOne ==
  ASSUME NEW codes, NEW r, \A c, d \in codes \intersect r : c = d
  PROVE  Cardinality(codes \intersect r) <= 1
<1>1. CASE codes \intersect r = {}  BY <1>1, FS_EmptySet
<1>2. CASE codes \intersect r # {}
  <2>1. PICK c \in codes \intersect r : TRUE  BY <1>2
  <2>2. codes \intersect r = {c}  BY <2>1
  <2> QED  BY <2>2, FS_Singleton
<1> QED  BY <1>1, <1>2

\* What the crawl says of an error page is that it is one.
LEMMA ErrorPage ==
  ASSUME NEW p, Stored(p), p.http >= 400
  PROVE  CrawlCodes(p) \subseteq {"http_5xx", "http_4xx"}
BY DEF CrawlCodes, PageIssues, Stored

\* Where the codes a page can have come from
LEMMA SourcesOfAdvice ==
  ASSUME NEW p, Stored(p), NEW s, NEW siteCtr, NEW median, NEW ai
  PROVE  LET codes == AdviceCodes(p, s, siteCtr, median, ai) IN
         /\ \A c \in {"missing_title", "title_too_long", "missing_meta_description", "thin_content",
                      "no_structured_data", "missing_canonical"} :
              c \in codes <=> c \in CrawlCodes(p)
         /\ \A c \in {"missing_title", "title_too_long", "missing_meta_description", "no_structured_data",
                      "missing_canonical"} :
              c \in codes <=> p.http < 400 /\ c \in MissingElements(p)
         /\ \A c \in {"title_too_short", "meta_description_length", "content_short_for_type", "stale_content"} :
              c \in codes <=> p.http < 400 /\ c \in ContentCodes(p)
         /\ \A c \in {"missing_relevant_schema", "product_no_price", "product_offer_incomplete"} :
              c \in codes <=> p.http < 400 /\ c \in SchemaCodes(p)
         /\ "no_question_sections" \in codes => p.http < 400
         /\ "canonical_elsewhere" \in codes <=> "canonical_elsewhere" \in TechnicalCodes(p)
         /\ \A c \in {"low_search_ctr", "traffic_without_conversions", "conversion_rate_below_peers"} :
              c \in codes <=> c \in PerformanceCodes(p, s, siteCtr, median, ai)
<1> DEFINE codes == AdviceCodes(p, s, siteCtr, median, ai)
<1>1. CrawlCodes(p) \subseteq {"http_5xx", "http_4xx", "missing_title", "title_too_long", "missing_meta_description",
        "thin_content", "no_structured_data", "missing_canonical", "noindex"}
  BY DEF CrawlCodes, PageIssues, MissingElements
<1>2. TechnicalCodes(p) \subseteq {"canonical_elsewhere", "orphan_page", "deep_page"}  BY DEF TechnicalCodes
<1>3. PerformanceCodes(p, s, siteCtr, median, ai) \subseteq
        {"low_search_ctr", "traffic_without_conversions", "conversion_rate_below_peers", "ai_visitors_not_converting"}
  BY DEF PerformanceCodes
<1>4. ContentCodes(p) \subseteq {"title_too_short", "meta_description_length", "no_subheadings",
        "content_short_for_type", "duplicate_title", "duplicate_content", "stale_content"}
  BY DEF ContentCodes
<1>5. SchemaCodes(p) \subseteq {"schema_malformed", "missing_relevant_schema", "product_no_price",
        "product_offer_incomplete", "entity_name_mismatch"}
  BY DEF SchemaCodes
<1>6. ReadinessCodes(p) \subseteq {"no_question_sections"}  BY DEF ReadinessCodes
<1>7. p.http \in Nat  BY DEF Stored
<1>8. ASSUME NEW c \in {"missing_title", "title_too_long", "missing_meta_description", "no_structured_data",
                        "missing_canonical"}
      PROVE  c \in CrawlCodes(p) <=> p.http < 400 /\ c \in MissingElements(p)
  BY <1>7 DEF CrawlCodes, PageIssues
<1> DEFINE C == CrawlCodes(p)
           T == TechnicalCodes(p)
           P == PerformanceCodes(p, s, siteCtr, median, ai)
           K == ContentCodes(p)
           H == SchemaCodes(p)
           Q == ReadinessCodes(p)
<1>9. codes = C \union T \union P \union (IF p.http >= 400 THEN {} ELSE K \union H \union Q)  BY DEF AdviceCodes
<1> HIDE DEF codes, C, T, P, K, H, Q
<1>10. \A c : c \in codes <=> c \in C \/ c \in T \/ c \in P \/ (p.http < 400 /\ (c \in K \/ c \in H \/ c \in Q))
  BY <1>7, <1>9
<1>11. \A c \in {"missing_title", "title_too_long", "missing_meta_description", "thin_content",
                 "no_structured_data", "missing_canonical"} : c \in codes <=> c \in C
  BY <1>10, <1>1, <1>2, <1>3, <1>4, <1>5, <1>6 DEF C, T, P, K, H, Q
<1>12. \A c \in {"title_too_short", "meta_description_length", "content_short_for_type", "stale_content"} :
              c \in codes <=> p.http < 400 /\ c \in K
  BY <1>10, <1>1, <1>2, <1>3, <1>4, <1>5, <1>6 DEF C, T, P, K, H, Q
<1>13. \A c \in {"missing_relevant_schema", "product_no_price", "product_offer_incomplete"} :
              c \in codes <=> p.http < 400 /\ c \in H
  BY <1>10, <1>1, <1>2, <1>3, <1>4, <1>5, <1>6 DEF C, T, P, K, H, Q
<1>14. /\ "no_question_sections" \in codes => p.http < 400
       /\ "canonical_elsewhere" \in codes <=> "canonical_elsewhere" \in T
       /\ \A c \in {"low_search_ctr", "traffic_without_conversions", "conversion_rate_below_peers"} :
              c \in codes <=> c \in P
  BY <1>10, <1>1, <1>2, <1>3, <1>4, <1>5, <1>6 DEF C, T, P, K, H, Q
<1> QED  BY <1>8, <1>11, <1>12, <1>13, <1>14 DEF codes, C, T, P, K, H

\* Two rival pieces of advice are never given together.
LEMMA NoRivals ==
  ASSUME NEW p, Stored(p), NEW s, s.conversions \in Int, NEW siteCtr, NEW median, NEW ai, NEW r \in Rivals
  PROVE  Cardinality(AdviceCodes(p, s, siteCtr, median, ai) \intersect r) <= 1
<1> DEFINE codes == AdviceCodes(p, s, siteCtr, median, ai)
<1>0. {p.http, p.title, p.desc, p.words} \subseteq Nat  BY DEF Stored
<1> DEFINE Has(c) == c \in codes
<1>1. ~ (Has("missing_title") /\ Has("title_too_short")) /\ ~ (Has("missing_title") /\ Has("title_too_long"))
      /\ ~ (Has("title_too_short") /\ Has("title_too_long"))
  <2>1. /\ Has("missing_title") => p.title = 0
        /\ Has("title_too_long") => p.title > 70
        /\ Has("title_too_short") => p.title \in 1 .. 29
    <3> HIDE DEF Has, codes
    <3>1. /\ "missing_title" \in codes => "missing_title" \in MissingElements(p)
          /\ "title_too_long" \in codes => "title_too_long" \in MissingElements(p)
          /\ "title_too_short" \in codes => "title_too_short" \in ContentCodes(p)
      BY SourcesOfAdvice DEF codes
    <3> QED  BY <3>1 DEF MissingElements, ContentCodes, Has
  <2> QED  BY <1>0, <2>1
<1>2. ~ (Has("missing_meta_description") /\ Has("meta_description_length"))
  <2>1. /\ Has("missing_meta_description") => "missing_meta_description" \in MissingElements(p)
        /\ Has("meta_description_length") => "meta_description_length" \in ContentCodes(p)
    BY SourcesOfAdvice
  <2> QED  BY <1>0, <2>1 DEF MissingElements, ContentCodes
<1>3. ~ (Has("thin_content") /\ Has("content_short_for_type"))
  <2>1. /\ Has("thin_content") => "thin_content" \in CrawlCodes(p)
        /\ Has("content_short_for_type") => "content_short_for_type" \in ContentCodes(p)
    BY SourcesOfAdvice
  <2> QED  BY <2>1 DEF ContentCodes, ShortForType
<1>4. ~ (Has("no_structured_data") /\ Has("missing_relevant_schema"))
  <2>1. /\ Has("no_structured_data") => "no_structured_data" \in MissingElements(p)
        /\ Has("missing_relevant_schema") => "missing_relevant_schema" \in SchemaCodes(p)
    BY SourcesOfAdvice
  <2> QED  BY <2>1 DEF MissingElements, SchemaCodes
<1>5. ~ (Has("missing_canonical") /\ Has("canonical_elsewhere"))
  <2>1. /\ Has("missing_canonical") => "missing_canonical" \in MissingElements(p)
        /\ Has("canonical_elsewhere") => "canonical_elsewhere" \in TechnicalCodes(p)
    BY SourcesOfAdvice
  <2> QED  BY <2>1 DEF MissingElements, TechnicalCodes
<1>6. ~ (Has("traffic_without_conversions") /\ Has("conversion_rate_below_peers"))
  <2>1. /\ Has("traffic_without_conversions") => "traffic_without_conversions" \in PerformanceCodes(p, s, siteCtr, median, ai)
        /\ Has("conversion_rate_below_peers") => "conversion_rate_below_peers" \in PerformanceCodes(p, s, siteCtr, median, ai)
    BY SourcesOfAdvice
  <2>2. s.conversions = 0 => ~ s.conversions > 0  OBVIOUS
  <2> QED  BY <2>1, <2>2 DEF PerformanceCodes
<1> HIDE DEF codes
<1>7. \A c, d \in codes \intersect r : c = d  BY <1>1, <1>2, <1>3, <1>4, <1>5, <1>6 DEF Rivals
<1> QED  BY <1>7, AtMostOne DEF codes

\* A higher score never lowers a priority.
LEMMA PriorityFollowsScore ==
  ASSUME NEW c, NEW p, NEW s, NEW low \in Int, NEW high \in Int, low <= high
  PROVE  AdvicePriority(c, p, low, s) <= AdvicePriority(c, p, high, s)
<1>1. CodeSeverity(c) \in 1 .. 4
  <2>1. \A d \in DOMAIN Severity : Severity[d] \in 1 .. 4  BY DEF Severity
  <2> QED  BY <2>1 DEF CodeSeverity
<1> DEFINE sev == CodeSeverity(c)
           plain == p.type \in LowPriorityTypes /\ s.conversions <= 0 /\ s.revenue <= 0
           may == p.type \in CommercialTypes /\ c \in RaisedSection
           Moved(score) == IF score >= 60 /\ may /\ sev \in {1, 2} THEN sev + 1
                           ELSE IF score < 35 /\ sev > 1 THEN sev - 1 ELSE sev
<1>2. \A score \in {low, high} : AdvicePriority(c, p, score, s) = IF sev = 4 THEN 4 ELSE IF plain THEN 1 ELSE Moved(score)
  BY DEF AdvicePriority
<1>3. Moved(low) <= Moved(high)
  <2> HIDE DEF may, sev
  <2> QED  BY <1>1 DEF sev
<1> HIDE DEF sev, plain, Moved
<1> QED  BY <1>1, <1>2, <1>3 DEF sev

\* The advice for a page never contradicts itself or the score beside it, whatever
\* the crawl stored and whatever was measured (AdviceConsistent).
THEOREM AdviceAlwaysConsistent ==
  ASSUME NEW p, Stored(p), NEW s, s.conversions \in Int, NEW siteCtr, NEW median, NEW ai
  PROVE  AdviceConsistent(p, s, siteCtr, median, ai)
<1> DEFINE codes == AdviceCodes(p, s, siteCtr, median, ai)
<1>1. \A r \in Rivals : Cardinality(codes \intersect r) <= 1  BY NoRivals
<1>2. codes \intersect DataIssue = DataIssues(p.type, s, siteCtr)
  <2>1. \A c \in DataIssue : c \in codes <=> c \in PerformanceCodes(p, s, siteCtr, median, ai)
    BY SourcesOfAdvice DEF DataIssue
  <2>2. \A c \in DataIssue : c \in PerformanceCodes(p, s, siteCtr, median, ai) <=> c \in DataIssues(p.type, s, siteCtr)
    BY DEF PerformanceCodes, DataIssues, DataIssue, Unknown
  <2>3. DataIssues(p.type, s, siteCtr) \subseteq DataIssue  BY DEF DataIssues
  <2> HIDE DEF codes
  <2> QED  BY <2>1, <2>2, <2>3 DEF codes
<1>3. ASSUME p.http >= 400 PROVE codes \intersect (TypeDependent \union MissingElements(p)) = {}
  <2>0. p.http \in Nat  BY DEF Stored
  <2>1. \A c \in TypeDependent : c \notin codes  BY <1>3, <2>0, SourcesOfAdvice DEF TypeDependent
  <2>2. "thin_content" \notin CrawlCodes(p)  BY <1>3, ErrorPage
  <2>3. \A c \in MissingElements(p) : c \notin codes
    BY <1>3, <2>0, <2>2, SourcesOfAdvice DEF MissingElements
  <2> HIDE DEF codes
  <2> QED  BY <2>1, <2>3
<1>4. \A c \in codes, low \in {20, 40, 70}, high \in {20, 40, 70} :
        low <= high => AdvicePriority(c, p, low, s) <= AdvicePriority(c, p, high, s)
  <2> HIDE DEF codes
  <2> SUFFICES ASSUME NEW c \in codes, NEW low \in {20, 40, 70}, NEW high \in {20, 40, 70}, low <= high
               PROVE  AdvicePriority(c, p, low, s) <= AdvicePriority(c, p, high, s)  OBVIOUS
  <2>1. low \in Int /\ high \in Int  OBVIOUS
  <2> QED  BY <2>1, PriorityFollowsScore
<1> QED  BY <1>1, <1>2, <1>3, <1>4 DEF AdviceConsistent

\* A greater number divided by the same is no less.
LEMMA DivisionGrows ==
  ASSUME NEW a \in Nat, NEW b \in Nat, a <= b, NEW d \in Nat \ {0}
  PROVE  a \div d <= b \div d /\ a \div d \in Nat
OBVIOUS

\* A hundred times each number is a hundred times the sum.
LEMMA SumScaled ==
  ASSUME NEW S, IsFiniteSet(S), NEW w, NEW v, NEW f \in Int, \A x \in S : w[x] \in Int /\ v[x] = f * w[x]
  PROVE  SumFunctionOnSet(v, S) = f * SumFunctionOnSet(w, S)
<1> DEFINE Fine(s) == SumFunctionOnSet(v, s) = f * SumFunctionOnSet(w, s)
           Wrong == {k \in Nat : \E s \in SUBSET S : Cardinality(s) = k /\ ~ Fine(s)}
<1>0. \A s \in SUBSET S : IsFiniteSet(s) /\ Cardinality(s) \in Nat  BY FS_Subset, FS_CardinalityType
<1>1. SUFFICES ASSUME Wrong # {} PROVE FALSE
  <2>1. Cardinality(S) \in Wrong \/ Fine(S)  BY <1>0
  <2> QED  BY <2>1
<1>2. PICK k \in Wrong : \A l \in Wrong : k <= l
  <2>1. Wrong \in SUBSET Nat  OBVIOUS
  <2> HIDE DEF Wrong
  <2> QED  BY <1>1, <2>1, LeastNumber
<1>3. PICK s \in SUBSET S : Cardinality(s) = k /\ ~ Fine(s)  BY <1>2
<1>4. s # {}
  <2>1. f * 0 = 0  OBVIOUS
  <2>2. Fine({})  BY <2>1, SumEmpty
  <2> HIDE DEF Fine
  <2> QED  BY <1>3, <2>2
<1>5. PICK x \in s : TRUE  BY <1>4
<1>6. Fine(s \ {x})
  <2>1. Cardinality(s \ {x}) = k - 1 /\ s \ {x} \in SUBSET S  BY <1>3, <1>0, FS_RemoveElement
  <2>2. k - 1 \in Nat  BY <2>1, <1>0
  <2>3. k - 1 \notin Wrong  BY <2>2, <1>2
  <2> HIDE DEF Fine
  <2> QED  BY <2>1, <2>2, <2>3
<1>7. \A y \in s : w[y] \in Int /\ v[y] \in Int /\ v[y] = f * w[y]  OBVIOUS
<1>8. /\ SumFunctionOnSet(w, s) = w[x] + SumFunctionOnSet(w, s \ {x})
      /\ SumFunctionOnSet(v, s) = v[x] + SumFunctionOnSet(v, s \ {x})
  BY <1>0, <1>7, SumRemove
<1>9. SumFunctionOnSet(w, s \ {x}) \in Int
  <2>1. \A y \in s \ {x} : w[y] \in Int  BY <1>7
  <2>2. IsFiniteSet(s \ {x})  BY <1>0
  <2> QED  BY <2>1, <2>2, SumRemove
<1>10. w[x] \in Int /\ v[x] = f * w[x]  BY <1>7
<1>11. \A a, b \in Int : f * a + f * b = f * (a + b)  OBVIOUS
<1> QED  BY <1>3, <1>6, <1>8, <1>9, <1>10, <1>11

\* A sum of numbers that are not negative is not, and is no less than any of them.
LEMMA SumAtLeast ==
  ASSUME NEW S, IsFiniteSet(S), NEW w, \A x \in S : w[x] \in Nat
  PROVE  SumFunctionOnSet(w, S) \in Nat /\ \A x \in S : SumFunctionOnSet(w, S) >= w[x]
<1> DEFINE z == [x \in S |-> 0 * w[x]]
<1>1. \A x \in S : w[x] \in Int /\ z[x] \in Int /\ z[x] = 0 * w[x] /\ z[x] <= w[x]  OBVIOUS
<1>2. ASSUME NEW T \in SUBSET S PROVE SumFunctionOnSet(w, T) \in Nat
  <2>1. IsFiniteSet(T)  BY FS_Subset
  <2>2. \A x \in T : w[x] \in Int /\ z[x] \in Int /\ z[x] = 0 * w[x] /\ z[x] <= w[x]  BY <1>1
  <2> HIDE DEF z
  <2>3. SumFunctionOnSet(z, T) = 0 * SumFunctionOnSet(w, T)  BY <2>1, <2>2, SumScaled
  <2>4. SumFunctionOnSet(w, T) \in Int  BY <2>1, <2>2, SumRemove
  <2>5. SumFunctionOnSet(z, T) <= SumFunctionOnSet(w, T)  BY <2>1, <2>2, SumGrows
  <2> QED  BY <2>3, <2>4, <2>5
<1>3. ASSUME NEW x \in S PROVE SumFunctionOnSet(w, S) >= w[x]
  <2>1. SumFunctionOnSet(w, S) = w[x] + SumFunctionOnSet(w, S \ {x})  BY SumRemove
  <2>2. SumFunctionOnSet(w, S \ {x}) \in Nat  BY <1>2
  <2>3. w[x] \in Nat  OBVIOUS
  <2> QED  BY <2>1, <2>2, <2>3
<1> QED  BY <1>2, <1>3

\* What a measure can be: a number that has a logarithm here, or unknown
Value == DOMAIN LogOf \union {Unknown}

\* More of a measure never earns a lower share of its weight.
LEMMA NormGrows ==
  ASSUME NEW u \in Value \union {0}, NEW v \in Value \union {0}, u <= v
  PROVE  Norm(u) \in Nat /\ Norm(u) <= Norm(v)
<1>1. \A x \in Value \union {0} : x \in Int /\ (x > 0 => x \in DOMAIN LogOf)  BY LogAssumption DEF Value, Unknown
<1>2. \A x \in Value \union {0} : x > 0 => LogOf[x] \in Nat /\ Norm(x) = (100 * LogOf[x]) \div LogTop
                                            /\ 100 * LogOf[x] \in Nat
  BY <1>1, LogAssumption DEF Norm
<1>3. \A x \in Value \union {0} : x <= 0 => Norm(x) = 0  BY DEF Norm
<1>4. LogTop \in Nat \ {0}  BY LogAssumption
<1>5. \A x \in Value \union {0} : Norm(x) \in Nat
  <2> SUFFICES ASSUME NEW x \in Value \union {0} PROVE Norm(x) \in Nat  OBVIOUS
  <2>1. CASE x <= 0  BY <1>3, <2>1
  <2>2. CASE x > 0
    <3>1. 100 * LogOf[x] \in Nat /\ 100 * LogOf[x] <= 100 * LogOf[x]  BY <1>2, <2>2
    <3> QED  BY <3>1, <2>2, <1>2, <1>4, DivisionGrows
  <2> QED  BY <1>1, <2>1, <2>2
<1>6. CASE u <= 0  BY <1>3, <1>5, <1>6
<1>7. CASE u > 0
  <2>1. v > 0 /\ u \in DOMAIN LogOf /\ v \in DOMAIN LogOf  BY <1>1, <1>7
  <2>2. LogOf[u] <= LogOf[v]  BY <2>1, LogAssumption
  <2>3. 100 * LogOf[u] <= 100 * LogOf[v]  BY <2>1, <2>2, LogAssumption
  <2>4. (100 * LogOf[u]) \div LogTop <= (100 * LogOf[v]) \div LogTop
    BY <2>1, <2>3, <1>2, <1>4, <1>7, DivisionGrows
  <2> QED  BY <2>1, <2>4, <1>2, <1>5, <1>7
<1> QED  BY <1>1, <1>6, <1>7

\* What is known of a page, in any unit
KnownValues == [links : Value, ai : Value \union {0}, organic : Value \union {0}, conversions : Value \union {0},
          revenue : Value \union {0}, sessions : Value \union {0}, clicks : Value \union {0}, impressions : Value \union {0}]

\* What the classification says of a page
Classified == [type : BusinessType, status : {"confirmed", "likely", "uncertain"}]

\* A share of any signal is a number, at least zero.
LEMMA PointsToEarn ==
  ASSUME NEW s
  PROVE  LET avail == Measured(s) \union {"purpose"} IN
         /\ IsFiniteSet(avail) /\ avail \subseteq DOMAIN MaxPoints
         /\ \A c \in avail : MaxPoints[c] \in Nat
         /\ SumFunctionOnSet(MaxPoints, avail) \in Nat \ {0}
<1> DEFINE avail == Measured(s) \union {"purpose"}
<1>1. avail \subseteq DOMAIN MaxPoints /\ "purpose" \in avail  BY DEF Measured, MaxPoints
<1>2. IsFiniteSet(DOMAIN MaxPoints)
  <2>1. DOMAIN MaxPoints = {"purpose", "conversions"} \union {"revenue", "ai"} \union {"organic", "search"} \union {"links"}
    BY DEF MaxPoints
  <2>2. \A a, b : IsFiniteSet({a, b}) /\ IsFiniteSet({b})
    <3> TAKE a, b
    <3>1. IsFiniteSet({a}) /\ IsFiniteSet({b})  BY FS_Singleton
    <3>2. {a, b} = {a} \union {b}  OBVIOUS
    <3> QED  BY <3>1, <3>2, FS_Union
  <2>3. IsFiniteSet({"purpose", "conversions"} \union {"revenue", "ai"})  BY <2>2, FS_Union
  <2>4. IsFiniteSet({"organic", "search"} \union {"links"})  BY <2>2, FS_Union
  <2>5. IsFiniteSet(({"purpose", "conversions"} \union {"revenue", "ai"}) \union ({"organic", "search"} \union {"links"}))
    BY <2>3, <2>4, FS_Union
  <2>6. DOMAIN MaxPoints = ({"purpose", "conversions"} \union {"revenue", "ai"}) \union ({"organic", "search"} \union {"links"})
    BY <2>1
  <2> QED  BY <2>5, <2>6
<1>3. IsFiniteSet(avail)  
  <2> HIDE DEF avail
  <2> QED  BY <1>1, <1>2, FS_Subset
<1>4. \A c \in DOMAIN MaxPoints : MaxPoints[c] \in Nat /\ MaxPoints["purpose"] = 25  BY DEF MaxPoints
<1> HIDE DEF avail
<1>5. SumFunctionOnSet(MaxPoints, avail) \in Nat /\ SumFunctionOnSet(MaxPoints, avail) >= 25
  BY <1>1, <1>3, <1>4, SumAtLeast
<1> QED  BY <1>1, <1>3, <1>4, <1>5 DEF avail

\* A known figure in place of none, or a greater one, never lowers the share.
LEMMA ShareGrows ==
  ASSUME NEW cls \in Classified, NEW s \in KnownValues, NEW t \in KnownValues,
         \A c \in DOMAIN s : s[c] <= t[c], NEW c \in Measured(s) \union {"purpose"}
  PROVE  Share(cls, s, c) \in Nat /\ Share(cls, s, c) <= Share(cls, t, c)
<1>1. CASE c = "purpose"
  <2>1. Intent[cls.type] \in Nat /\ Factor[cls.status] \in Nat  BY DEF Classified, BusinessType, Intent, Factor
  <2>2. Intent[cls.type] * Factor[cls.status] \in Nat  BY <2>1
  <2>3. (Intent[cls.type] * Factor[cls.status]) \div 100 \in Nat  BY <2>2
  <2> QED  BY <1>1, <2>3 DEF Share
<1>2. CASE c = "search"
  <2>1. Norm(s.clicks) \in Nat /\ Norm(t.clicks) \in Nat /\ Norm(s.clicks) <= Norm(t.clicks)
    <3>1. s.clicks \in Value \union {0} /\ t.clicks \in Value \union {0} /\ s.clicks <= t.clicks  BY DEF KnownValues
    <3>2. t.clicks <= t.clicks  BY <3>1, LogAssumption DEF Value, Unknown
    <3> QED  BY <3>1, <3>2, NormGrows
  <2>2. Norm(s.impressions) \in Nat /\ Norm(t.impressions) \in Nat /\ Norm(s.impressions) <= Norm(t.impressions)
    <3>1. s.impressions \in Value \union {0} /\ t.impressions \in Value \union {0} /\ s.impressions <= t.impressions
      BY DEF KnownValues
    <3>2. t.impressions <= t.impressions  BY <3>1, LogAssumption DEF Value, Unknown
    <3> QED  BY <3>1, <3>2, NormGrows
  <2> QED  BY <1>2, <2>1, <2>2 DEF Share
<1>3. CASE c \in {"conversions", "revenue", "ai", "organic", "links"}
  <2>1. s[c] \in Value \union {0} /\ t[c] \in Value \union {0} /\ s[c] <= t[c]  BY <1>3 DEF KnownValues
  <2>2. Norm(s[c]) \in Nat /\ Norm(s[c]) <= Norm(t[c])  BY <2>1, NormGrows
  <2>3. c # "purpose" /\ c # "search"  BY <1>3
  <2> QED  BY <2>2, <2>3 DEF Share
<1> QED  BY <1>1, <1>2, <1>3 DEF Measured

\* More of what is measured is a score that is no lower.
LEMMA ScoreGrows ==
  ASSUME NEW cls \in Classified, NEW s \in KnownValues, NEW t \in KnownValues, Measured(s) = Measured(t),
         \A c \in DOMAIN s : s[c] <= t[c]
  PROVE  Score(cls, s) \in Nat /\ Score(cls, t) \in Nat /\ Score(cls, s) <= Score(cls, t)
<1> DEFINE avail == Measured(s) \union {"purpose"}
           all == SumFunctionOnSet(MaxPoints, avail)
           a == [c \in avail |-> MaxPoints[c] * Share(cls, s, c)]
           b == [c \in avail |-> MaxPoints[c] * Share(cls, t, c)]
<1>1. IsFiniteSet(avail) /\ all \in Nat \ {0} /\ \A c \in avail : MaxPoints[c] \in Nat  BY PointsToEarn
<1>2. \A c \in DOMAIN t : t[c] <= t[c]
  <2>1. \A c \in DOMAIN t : t[c] \in Value \union {0}  BY DEF KnownValues
  <2> QED  BY <2>1, LogAssumption DEF Value, Unknown
<1>3. \A c \in avail : Share(cls, s, c) \in Nat /\ Share(cls, t, c) \in Nat /\ Share(cls, s, c) <= Share(cls, t, c)
  BY <1>2, ShareGrows
<1>4. \A x, y, z \in Nat : y <= z => x * y \in Nat /\ x * y <= x * z  OBVIOUS
<1>5. \A c \in avail : a[c] \in Nat /\ b[c] \in Nat /\ a[c] <= b[c]
  <2> HIDE DEF avail
  <2> QED  BY <1>1, <1>3, <1>4
<1>6. SumFunctionOnSet(a, avail) \in Nat /\ SumFunctionOnSet(b, avail) \in Nat
      /\ SumFunctionOnSet(a, avail) <= SumFunctionOnSet(b, avail)
  <2> HIDE DEF avail, a, b
  <2>1. \A c \in avail : a[c] \in Int /\ b[c] \in Int  BY <1>5
  <2> QED  BY <1>1, <1>5, <2>1, SumAtLeast, SumGrows
<1>7. Score(cls, s) = SumFunctionOnSet(a, avail) \div all /\ Score(cls, t) = SumFunctionOnSet(b, avail) \div all
  BY DEF Score, SumFunction
<1>8. SumFunctionOnSet(b, avail) <= SumFunctionOnSet(b, avail)  BY <1>6
<1> QED
  <2> HIDE DEF avail, a, b, all
  <2> QED  BY <1>1, <1>6, <1>7, <1>8, DivisionGrows

\* A better score never lowers what is to be done first.
LEMMA PriorityGrows ==
  ASSUME NEW cls \in Classified, NEW s \in KnownValues, NEW t \in KnownValues, \A c \in DOMAIN s : s[c] <= t[c],
         NEW low \in Nat, NEW high \in Nat, low <= high, NEW sev \in Int, NEW evaluated
  PROVE  PriorityRank[Priority(low, cls, sev, evaluated, s)] <= PriorityRank[Priority(high, cls, sev, evaluated, t)]
<1>1. /\ s.conversions \in Int /\ t.conversions \in Int /\ s.conversions <= t.conversions
      /\ s.revenue \in Int /\ t.revenue \in Int /\ s.revenue <= t.revenue
  <2>1. Value \union {0} \subseteq Int  BY LogAssumption DEF Value, Unknown
  <2> QED  BY <2>1 DEF KnownValues
<1>2. PriorityRank = [high |-> 4, medium |-> 3, low |-> 2, none |-> 1, not_evaluated |-> 0]  BY DEF PriorityRank
<1>3. /\ PriorityRank["high"] = 4 /\ PriorityRank["medium"] = 3 /\ PriorityRank["low"] = 2
      /\ PriorityRank["none"] = 1 /\ PriorityRank["not_evaluated"] = 0
  BY <1>2
<1> QED  BY <1>1, <1>3 DEF Priority

\* A page's measures
PageRow == [links : Value, ai : Value, organic : Value, verified : Value, keyEvents : Value, revenue : Value,
        clicks : Value, impressions : Value, sessions : Value]

\* Measures are numbers, and the unknown is one less than none.
LEMMA ValuesAreNumbers == \A v \in Value \union {0} : v \in Int /\ v >= -1
BY LogAssumption DEF Value, Unknown

\* An unknown measure counts as none.
LEMMA NotLess == \A v \in Value : Max({v, 0}) \in Value \union {0} /\ Max({v, 0}) = IF v >= 0 THEN v ELSE 0
<1> SUFFICES ASSUME NEW v \in Value
             PROVE  Max({v, 0}) \in Value \union {0} /\ Max({v, 0}) = IF v >= 0 THEN v ELSE 0
  OBVIOUS
<1>1. v \in Int  BY ValuesAreNumbers
<1>2. Max({v, 0}) = IF v >= 0 THEN v ELSE 0  BY <1>1, GreaterOfTwo
<1> QED  BY <1>2

\* What is known of a page follows its rows.
LEMMA SignalsKnown == ASSUME NEW f, NEW raw \in PageRow PROVE Signals(f, raw) \in KnownValues
<1>1. Unknown \in Value  BY DEF Value
<1>2. /\ raw.links \in Value /\ raw.clicks \in Value /\ raw.impressions \in Value
      /\ Max({raw.ai, 0}) \in Value \union {0} /\ Max({raw.organic, 0}) \in Value \union {0}
      /\ Max({raw.sessions, 0}) \in Value \union {0} /\ Max({raw.verified, 0}) \in Value \union {0}
      /\ Max({raw.keyEvents, 0}) \in Value \union {0} /\ Max({raw.revenue, 0}) \in Value \union {0}
  BY NotLess DEF PageRow
<1> HIDE DEF Value
<1> QED  BY <1>1, <1>2 DEF Signals, KnownValues

\* A raised value of one source raises no other, and makes nothing known or unknown.
LEMMA SignalsFollow ==
  ASSUME NEW f, NEW raw \in PageRow, NEW v \in DOMAIN LogOf,
         NEW k \in {"links", "ai", "organic", "verified", "keyEvents", "revenue", "clicks"},
         raw[k] # Unknown, v > raw[k]
  PROVE  LET s == Signals(f, raw)
             t == Signals(f, Raised(raw, k, v)) IN
         Raised(raw, k, v) \in PageRow /\ Measured(s) = Measured(t) /\ \A c \in DOMAIN s : s[c] <= t[c]
<1> DEFINE up == Raised(raw, k, v)
           s == Signals(f, raw)
           t == Signals(f, up)
<1>1. v \in Value /\ v \in Nat  BY LogAssumption DEF Value
<1>2. up \in PageRow
  <2> HIDE DEF Value
  <2> QED  BY <1>1 DEF Raised, PageRow
<1>3. \A c \in DOMAIN raw : raw[c] \in Value /\ up[c] \in Value /\ raw[c] \in Int /\ up[c] \in Int
  <2>1. \A c \in DOMAIN raw : raw[c] \in Value  BY DEF PageRow
  <2>2. \A c \in DOMAIN raw : up[c] \in Value  BY <1>2 DEF PageRow
  <2> QED  BY <2>1, <2>2, ValuesAreNumbers
<1>4. \A c \in DOMAIN raw : raw[c] <= up[c] /\ (raw[c] = Unknown <=> up[c] = Unknown)
  <2>1. \A c \in DOMAIN raw : up[c] = IF c = k THEN v ELSE raw[c]  BY DEF Raised, PageRow
  <2>2. v # Unknown  BY <1>1 DEF Unknown
  <2> QED  BY <1>1, <1>3, <2>1, <2>2
<1>5. DOMAIN raw = {"links", "ai", "organic", "verified", "keyEvents", "revenue", "clicks", "impressions", "sessions"}
  BY DEF PageRow
<1>6. \A c \in DOMAIN raw : /\ Max({raw[c], 0}) = IF raw[c] >= 0 THEN raw[c] ELSE 0
                            /\ Max({up[c], 0}) = IF up[c] >= 0 THEN up[c] ELSE 0
  BY <1>3, NotLess
<1>7. \A c \in DOMAIN raw : /\ Max({raw[c], 0}) <= Max({up[c], 0})
                            /\ Max({raw[c], 0}) # Unknown /\ Max({up[c], 0}) # Unknown
  BY <1>3, <1>4, <1>6 DEF Unknown
<1>8. up.impressions = raw.impressions /\ up.sessions = raw.sessions  BY DEF Raised, PageRow
<1> HIDE DEF up
<1>9. DOMAIN s = {"links", "ai", "organic", "sessions", "conversions", "revenue", "clicks", "impressions"}  BY DEF Signals
<1>10. \A c \in DOMAIN s : s[c] <= t[c] /\ (s[c] = Unknown <=> t[c] = Unknown)
  <2>1. s.links <= t.links /\ (s.links = Unknown <=> t.links = Unknown)  BY <1>4, <1>5 DEF Signals
  <2>2. /\ s.ai <= t.ai /\ (s.ai = Unknown <=> t.ai = Unknown)
        /\ s.organic <= t.organic /\ (s.organic = Unknown <=> t.organic = Unknown)
        /\ s.sessions <= t.sessions /\ (s.sessions = Unknown <=> t.sessions = Unknown)
    BY <1>5, <1>7 DEF Signals, Unknown
  <2>3. s.conversions <= t.conversions /\ (s.conversions = Unknown <=> t.conversions = Unknown)
    BY <1>5, <1>7 DEF Signals, Unknown
  <2>4. s.revenue <= t.revenue /\ (s.revenue = Unknown <=> t.revenue = Unknown)
    BY <1>5, <1>7 DEF Signals, Unknown
  <2>5. /\ s.clicks <= t.clicks /\ (s.clicks = Unknown <=> t.clicks = Unknown)
        /\ s.impressions <= t.impressions /\ (s.impressions = Unknown <=> t.impressions = Unknown)
    BY <1>3, <1>4, <1>5, <1>8 DEF Signals, Unknown
  <2> HIDE DEF s, t
  <2> QED  BY <1>9, <2>1, <2>2, <2>3, <2>4, <2>5
<1>11. Measured(s) = Measured(t)
  <2> HIDE DEF s, t
  <2> QED  BY <1>9, <1>10 DEF Measured
<1> QED  BY <1>2, <1>10, <1>11 DEF up

\* No measure of a page costs it worth: one more link, visit or event, or a synced source, never
\* lowers its score or its priority, whatever the logarithms of the measures (WorthNeverCosts;
\* page_value.py).
THEOREM WorthAlwaysCounts ==
  ASSUME NEW cls \in Classified, NEW f, NEW raw \in PageRow, NEW sev \in Int
  PROVE  WorthNeverCosts(cls, f, raw, sev)
<1> DEFINE s == Signals(f, raw)
           rank(t) == PriorityRank[Priority(Score(cls, t), cls, sev, TRUE, t)]
<1>1. ASSUME NEW k \in {"links", "ai", "organic", "verified", "keyEvents", "revenue", "clicks"},
             NEW v \in DOMAIN LogOf, raw[k] # Unknown, v > raw[k]
      PROVE  LET t == Signals(f, Raised(raw, k, v)) IN Score(cls, s) <= Score(cls, t) /\ rank(s) <= rank(t)
  <2> DEFINE t == Signals(f, Raised(raw, k, v))
  <2>1. Raised(raw, k, v) \in PageRow /\ Measured(s) = Measured(t) /\ \A c \in DOMAIN s : s[c] <= t[c]
    BY <1>1, SignalsFollow
  <2>2. s \in KnownValues /\ t \in KnownValues  BY <2>1, SignalsKnown
  <2> HIDE DEF s, t
  <2>3. Score(cls, s) \in Nat /\ Score(cls, t) \in Nat /\ Score(cls, s) <= Score(cls, t)
    BY <2>1, <2>2, ScoreGrows
  <2>4. rank(s) <= rank(t)  BY <2>1, <2>2, <2>3, PriorityGrows
  <2> QED  BY <2>3, <2>4 DEF t
<1>2. ASSUME \A c \in Measured(s) \union {"purpose"} : Share(cls, s, c) = 100
      PROVE  Score(cls, s) = 100
  <2> DEFINE avail == Measured(s) \union {"purpose"}
             all == SumFunctionOnSet(MaxPoints, avail)
             a == [c \in avail |-> MaxPoints[c] * Share(cls, s, c)]
  <2>1. IsFiniteSet(avail) /\ all \in Nat \ {0} /\ \A c \in avail : MaxPoints[c] \in Nat  BY PointsToEarn
  <2>2. \A c \in avail : MaxPoints[c] \in Int /\ a[c] = 100 * MaxPoints[c]
    <3>1. \A x \in Nat : x * 100 = 100 * x  OBVIOUS
    <3> HIDE DEF s
    <3> QED  BY <1>2, <2>1, <3>1
  <2>3. Score(cls, s) = SumFunctionOnSet(a, avail) \div all  BY DEF Score, SumFunction
  <2> HIDE DEF avail, a
  <2>4. SumFunctionOnSet(a, avail) = 100 * all  BY <2>1, <2>2, SumScaled
  <2>5. \A n \in Nat \ {0} : (100 * n) \div n = 100  OBVIOUS
  <2> HIDE DEF all
  <2> QED  BY <2>1, <2>3, <2>4, <2>5
<1>3. \A k \in {"links", "ai", "organic", "verified", "keyEvents", "revenue", "clicks"} :
        \A v \in DOMAIN LogOf :
          raw[k] # Unknown /\ v > raw[k] /\ (k # "clicks" \/ v <= raw.impressions) =>
            LET t == Signals(f, Raised(raw, k, v)) IN Score(cls, s) <= Score(cls, t) /\ rank(s) <= rank(t)
  BY <1>1
<1> QED  BY <1>2, <1>3, Zenon DEF WorthNeverCosts

\* Four things are finitely many.
LEMMA FiniteFour == ASSUME NEW a, NEW b, NEW c, NEW d PROVE IsFiniteSet({a, b, c, d})
<1>1. IsFiniteSet({a}) /\ IsFiniteSet({b}) /\ IsFiniteSet({c}) /\ IsFiniteSet({d})  BY FS_Singleton
<1>2. IsFiniteSet({a} \union {b}) /\ IsFiniteSet({c} \union {d})  BY <1>1, FS_Union
<1>3. IsFiniteSet(({a} \union {b}) \union ({c} \union {d}))  BY <1>2, FS_Union
<1>4. {a, b, c, d} = ({a} \union {b}) \union ({c} \union {d})  OBVIOUS
<1> QED  BY <1>3, <1>4

\* One comes before all others.
LEMMA FirstOfOrder ==
  ASSUME NEW S, IsFiniteSet(S), S # {}, NEW R, Orders(R, S)
  PROVE  \E x \in S : \A y \in S \ {x} : <<x, y>> \in R
<1>1. Cardinality(S) \in Nat /\ Cardinality(S) # 0  BY FS_CardinalityType, FS_EmptySet
<1>2. [x \in S |-> 1 + Cardinality(InFront(R, S, x))] \in Bijection(S, 1 .. Cardinality(S))  BY RanksWithoutHoles
<1>3. PICK x \in S : 1 + Cardinality(InFront(R, S, x)) = 1  BY <1>1, <1>2 DEF Bijection, Surjection
<1>4. IsFiniteSet(InFront(R, S, x))  BY FS_Subset DEF InFront
<1>5. InFront(R, S, x) = {}  BY <1>3, <1>4, FS_CardinalityType, FS_EmptySet
<1>6. ASSUME NEW y \in S \ {x} PROVE <<x, y>> \in R
  <2>1. <<y, x>> \notin R  BY <1>5 DEF InFront
  <2>2. y \in S /\ x # y  OBVIOUS
  <2>3. <<x, y>> \in R \/ <<y, x>> \in R  BY <2>2 DEF Orders
  <2> QED  BY <2>1, <2>3
<1> QED  BY <1>6

\* A part of what is added up is no more than all of it.
LEMMA SumOfFewer ==
  ASSUME NEW S, IsFiniteSet(S), NEW w, \A x \in S : w[x] \in Nat, NEW T \in SUBSET S
  PROVE  SumFunctionOnSet(w, T) \in Nat /\ SumFunctionOnSet(w, T) <= SumFunctionOnSet(w, S)
<1> DEFINE Fine(s) == SumFunctionOnSet(w, T) <= SumFunctionOnSet(w, s)
           Wrong == {k \in Nat : \E s \in SUBSET S : T \subseteq s /\ Cardinality(s) = k /\ ~ Fine(s)}
<1>0. \A s \in SUBSET S : IsFiniteSet(s) /\ Cardinality(s) \in Nat /\ SumFunctionOnSet(w, s) \in Nat
  <2> SUFFICES ASSUME NEW s \in SUBSET S
               PROVE IsFiniteSet(s) /\ Cardinality(s) \in Nat /\ SumFunctionOnSet(w, s) \in Nat  OBVIOUS
  <2>1. IsFiniteSet(s) /\ Cardinality(s) \in Nat  BY FS_Subset, FS_CardinalityType
  <2>2. \A x \in s : w[x] \in Nat  OBVIOUS
  <2> QED  BY <2>1, <2>2, SumAtLeast
<1>1. SUFFICES ASSUME Wrong # {} PROVE FALSE
  <2>1. Cardinality(S) \in Wrong \/ Fine(S)  BY <1>0
  <2> QED  BY <2>1, <1>0
<1>2. PICK k \in Wrong : \A l \in Wrong : k <= l
  <2>1. Wrong \in SUBSET Nat  OBVIOUS
  <2> HIDE DEF Wrong
  <2> QED  BY <1>1, <2>1, LeastNumber
<1>3. PICK s \in SUBSET S : T \subseteq s /\ Cardinality(s) = k /\ ~ Fine(s)  BY <1>2
<1>4. s # T  BY <1>3, <1>0
<1>5. PICK x \in s : x \notin T  BY <1>3, <1>4
<1>6. Fine(s \ {x})
  <2>1. Cardinality(s \ {x}) = k - 1 /\ s \ {x} \in SUBSET S  BY <1>3, <1>0, FS_RemoveElement
  <2>2. k - 1 \in Nat  BY <2>1, <1>0
  <2>3. k - 1 \notin Wrong  BY <2>2, <1>2
  <2>4. T \subseteq s \ {x}  BY <1>3, <1>5
  <2> HIDE DEF Fine
  <2> QED  BY <2>1, <2>2, <2>3, <2>4
<1>7. \A y \in s : w[y] \in Int  OBVIOUS
<1>8. SumFunctionOnSet(w, s) = w[x] + SumFunctionOnSet(w, s \ {x})  BY <1>0, <1>7, SumRemove
<1>9. SumFunctionOnSet(w, s \ {x}) \in Nat /\ w[x] \in Nat /\ SumFunctionOnSet(w, T) \in Nat
  <2>1. s \ {x} \in SUBSET S  OBVIOUS
  <2> QED  BY <2>1, <1>0
<1> QED  BY <1>3, <1>6, <1>8, <1>9

\* What the rules look at, with the types the markup and the words can suggest
PageFacts == [path : {PathOrder[i] : i \in DOMAIN PathOrder} \union {"none", "root"}, engine : BusinessType,
              schema : SUBSET DOMAIN SchemaOrder, text : SUBSET DOMAIN TextOrder, price : BOOLEAN, crumbs : BOOLEAN]

\* The votes for a type are a number.
LEMMA VotesCounted ==
  ASSUME NEW p, NEW t
  PROVE  /\ Votes(p, t) \in Nat
         /\ p.path # t => Votes(p, t) <= 95
         /\ p.path = t /\ t \in LowPriorityTypes /\ t \notin p.schema => Votes(p, t) <= 65
<1> DEFINE All == {"path", "schema", "text", "commerce"} \union {"breadcrumb", "breadcrumb", "breadcrumb", "breadcrumb"}
<1>1. IsFiniteSet(All)  BY FiniteFour, FS_Union
<1>2. \A T \in SUBSET All : IsFiniteSet(T) /\ \A x \in T : Weight[x] \in Nat /\ Weight[x] \in Int
  <2>1. \A x \in All : Weight[x] \in Nat  BY DEF Weight
  <2> HIDE DEF All
  <2> QED  BY <1>1, <2>1, FS_Subset
<1>3. Families(p, t) \in SUBSET All  BY DEF Families
<1>4. \A T \in SUBSET All : SumFunctionOnSet(Weight, T) \in Nat
  <2> HIDE DEF All
  <2> QED  BY <1>2, SumAtLeast
<1>5. SumFunctionOnSet(Weight, {"schema", "text", "commerce"}) = 95
  <2> DEFINE A == {"schema", "text", "commerce"}
             B == {"text", "commerce"}
             C == {"commerce"}
  <2>1. A \in SUBSET All /\ B \in SUBSET All /\ C \in SUBSET All
        /\ A \ {"schema"} = B /\ B \ {"text"} = C /\ C \ {"commerce"} = {}
        /\ "schema" \in A /\ "text" \in B /\ "commerce" \in C  OBVIOUS
  <2> HIDE DEF A, B, C, All
  <2>2. SumFunctionOnSet(Weight, A) = Weight["schema"] + SumFunctionOnSet(Weight, B)  BY <2>1, <1>2, SumRemove
  <2>3. SumFunctionOnSet(Weight, B) = Weight["text"] + SumFunctionOnSet(Weight, C)  BY <2>1, <1>2, SumRemove
  <2>4. SumFunctionOnSet(Weight, C) = Weight["commerce"] + SumFunctionOnSet(Weight, {})  BY <2>1, <1>2, SumRemove
  <2>5. Weight["schema"] = 45 /\ Weight["text"] = 20 /\ Weight["commerce"] = 30  BY DEF Weight
  <2> QED  BY <2>2, <2>3, <2>4, <2>5, SumEmpty DEF A
<1>6. SumFunctionOnSet(Weight, {"path", "text"}) = 65
  <2> DEFINE B == {"path", "text"}
             C == {"text"}
  <2>1. B \in SUBSET All /\ C \in SUBSET All /\ B \ {"path"} = C /\ C \ {"text"} = {}
        /\ "path" \in B /\ "text" \in C  OBVIOUS
  <2> HIDE DEF B, C, All
  <2>3. SumFunctionOnSet(Weight, B) = Weight["path"] + SumFunctionOnSet(Weight, C)  BY <2>1, <1>2, SumRemove
  <2>4. SumFunctionOnSet(Weight, C) = Weight["text"] + SumFunctionOnSet(Weight, {})  BY <2>1, <1>2, SumRemove
  <2>5. Weight["path"] = 45 /\ Weight["text"] = 20  BY DEF Weight
  <2> QED  BY <2>3, <2>4, <2>5, SumEmpty DEF B
<1>7. ASSUME p.path # t PROVE Families(p, t) \in SUBSET {"schema", "text", "commerce"}  BY <1>7 DEF Families
<1>8. ASSUME p.path = t, t \in LowPriorityTypes, t \notin p.schema PROVE Families(p, t) \in SUBSET {"path", "text"}
  BY <1>8 DEF Families, LowPriorityTypes
<1>9. {"schema", "text", "commerce"} \in SUBSET All /\ {"path", "text"} \in SUBSET All  OBVIOUS
<1> HIDE DEF All
<1>10. ASSUME p.path # t PROVE Votes(p, t) <= 95
  <2>1. Families(p, t) \in SUBSET {"schema", "text", "commerce"}  BY <1>7, <1>10
  <2> QED  BY <2>1, <1>2, <1>5, <1>9, SumOfFewer DEF Votes
<1>11. ASSUME p.path = t, t \in LowPriorityTypes, t \notin p.schema PROVE Votes(p, t) <= 65
  <2>1. Families(p, t) \in SUBSET {"path", "text"}  BY <1>8, <1>11
  <2> QED  BY <2>1, <1>2, <1>6, <1>9, SumOfFewer DEF Votes
<1> QED  BY <1>3, <1>4, <1>10, <1>11 DEF Votes

\* The pairs of types of which the first has more votes, or as many and comes earlier
Preferred(p) == {q \in Voted(p) \X Voted(p) :
  Votes(p, q[1]) > Votes(p, q[2]) \/ (Votes(p, q[1]) = Votes(p, q[2]) /\ Earliest(p, q[1]) < Earliest(p, q[2]))}

\* The types with votes are finitely many, and this order ranks them.
LEMMA VotedFor ==
  ASSUME NEW p \in PageFacts
  PROVE  IsFiniteSet(Voted(p)) /\ Orders(Preferred(p), Voted(p))
<1>1. IsFiniteSet(BusinessType)
  <2>1. BusinessType = ({"product", "category", "service", "landing"} \union {"hotel", "booking", "blog", "homepage"})
                         \union {"utility", "legal", "account", "unknown"}  BY DEF BusinessType
  <2>2. IsFiniteSet({"product", "category", "service", "landing"} \union {"hotel", "booking", "blog", "homepage"})
    BY FiniteFour, FS_Union
  <2>3. IsFiniteSet({"utility", "legal", "account", "unknown"})  BY FiniteFour
  <2>4. IsFiniteSet(({"product", "category", "service", "landing"} \union {"hotel", "booking", "blog", "homepage"})
                      \union {"utility", "legal", "account", "unknown"})  BY <2>2, <2>3, FS_Union
  <2> QED  BY <2>1, <2>4
<1>2. IsFiniteSet(Voted(p))  BY <1>1, FS_Subset DEF Voted
<1>3. \A t \in Voted(p) : Votes(p, t) \in Nat  BY VotesCounted
<1>4. \A t \in Voted(p) : \/ p.path = t \/ t \in p.schema \/ t \in p.text \/ t = "product"  BY DEF Voted, Families
<1>5. p.schema \subseteq DOMAIN SchemaOrder /\ p.text \subseteq DOMAIN TextOrder  BY DEF PageFacts
<1>6. /\ \A t \in DOMAIN SchemaOrder : SchemaOrder[t] \in 1 .. 6
      /\ \A t, u \in DOMAIN SchemaOrder : SchemaOrder[t] = SchemaOrder[u] => t = u
      /\ \A t \in DOMAIN TextOrder : TextOrder[t] \in 11 .. 18
      /\ \A t, u \in DOMAIN TextOrder : TextOrder[t] = TextOrder[u] => t = u
  BY DEF SchemaOrder, TextOrder
<1>7. \A t \in Voted(p) : Earliest(p, t) \in Nat  BY <1>4, <1>5, <1>6 DEF Earliest
<1>8. \A t, u \in Voted(p) : Earliest(p, t) = Earliest(p, u) => t = u
  <2> SUFFICES ASSUME NEW t \in Voted(p), NEW u \in Voted(p), Earliest(p, t) = Earliest(p, u) PROVE t = u  OBVIOUS
  <2> QED  BY <1>4, <1>5, <1>6 DEF Earliest
<1>9. \A t, u \in Voted(p) : <<t, u>> \in Preferred(p) <=>
        Votes(p, t) > Votes(p, u) \/ (Votes(p, t) = Votes(p, u) /\ Earliest(p, t) < Earliest(p, u))
  <2> SUFFICES ASSUME NEW t \in Voted(p), NEW u \in Voted(p)
               PROVE <<t, u>> \in Preferred(p) <=>
                 Votes(p, t) > Votes(p, u) \/ (Votes(p, t) = Votes(p, u) /\ Earliest(p, t) < Earliest(p, u))  OBVIOUS
  <2>1. <<t, u>> \in Voted(p) \X Voted(p) /\ <<t, u>>[1] = t /\ <<t, u>>[2] = u  OBVIOUS
  <2> QED  BY <2>1, Zenon DEF Preferred
<1>10. Orders(Preferred(p), Voted(p))
  <2>1. \A t \in Voted(p) : <<t, t>> \notin Preferred(p)  BY <1>3, <1>7, <1>9
  <2>2. \A t, u, v \in Voted(p) : <<t, u>> \in Preferred(p) /\ <<u, v>> \in Preferred(p) => <<t, v>> \in Preferred(p)
    BY <1>3, <1>7, <1>9
  <2>3. \A t, u \in Voted(p) : t # u => <<t, u>> \in Preferred(p) \/ <<u, t>> \in Preferred(p)
    BY <1>3, <1>7, <1>8, <1>9
  <2> QED  BY <2>1, <2>2, <2>3 DEF Orders
<1> QED  BY <1>2, <1>10

\* The type chosen has votes, and no other has more.
LEMMA BestPreferred ==
  ASSUME NEW p \in PageFacts, Voted(p) # {}, p.path \notin LowPriorityTypes
  PROVE  Best(p) \in Voted(p) /\ \A u \in Voted(p) \ {Best(p)} : Votes(p, Best(p)) >= Votes(p, u)
<1>1. PICK t \in Voted(p) : \A u \in Voted(p) \ {t} : <<t, u>> \in Preferred(p)  BY VotedFor, FirstOfOrder
<1>2. \A u \in Voted(p) \ {t} : Votes(p, t) > Votes(p, u) \/ (Votes(p, t) = Votes(p, u) /\ Earliest(p, t) < Earliest(p, u))
  <2> SUFFICES ASSUME NEW u \in Voted(p) \ {t}
      PROVE Votes(p, t) > Votes(p, u) \/ (Votes(p, t) = Votes(p, u) /\ Earliest(p, t) < Earliest(p, u))  OBVIOUS
  <2>1. <<t, u>> \in Preferred(p) /\ <<t, u>>[1] = t /\ <<t, u>>[2] = u  BY <1>1
  <2> QED  BY <2>1, Zenon DEF Preferred
<1>3. /\ Best(p) \in Voted(p)
      /\ \A u \in Voted(p) \ {Best(p)} : Votes(p, Best(p)) > Votes(p, u)
           \/ (Votes(p, Best(p)) = Votes(p, u) /\ Earliest(p, Best(p)) < Earliest(p, u))
  BY <1>1, <1>2, Zenon DEF Best
<1>4. \A u \in Voted(p) : Votes(p, u) \in Nat  BY VotesCounted
<1> QED  BY <1>3, <1>4

\* A confidence of seventy takes as many votes, and few for any other type.
LEMMA ConfidenceOf ==
  ASSUME NEW p \in PageFacts, NEW b
  PROVE  /\ Confidence(p, b) \in Int
         /\ Confidence(p, b) >= 70 => /\ Votes(p, b) >= 70
                                     /\ \A u \in Voted(p) \ {b} : Votes(p, b) - Votes(p, u) \div 2 >= 70
<1> DEFINE F == [t \in Voted(p) \ {b} |-> Votes(p, t)]
           conflict == SumFunction(F)
           low == Votes(p, b) - conflict \div 2
<1>1. conflict \in Nat /\ \A u \in Voted(p) \ {b} : Votes(p, u) \in Nat /\ Votes(p, u) <= conflict
  <2>1. IsFiniteSet(Voted(p) \ {b})  BY VotedFor, FS_Subset
  <2>2. DOMAIN F = Voted(p) \ {b} /\ \A t \in Voted(p) \ {b} : F[t] \in Nat /\ F[t] = Votes(p, t)  BY VotesCounted
  <2> HIDE DEF F
  <2>3. conflict \in Nat /\ \A u \in Voted(p) \ {b} : conflict >= F[u]  BY <2>1, <2>2, SumAtLeast DEF SumFunction
  <2> QED  BY <2>2, <2>3
<1>2. Confidence(p, b) = Max({5, Min({98, low})})  BY DEF Confidence
<1> HIDE DEF conflict
<1>3. low \in Int /\ Votes(p, b) \in Nat  BY <1>1, VotesCounted
<1>4. Min({98, low}) \in Int /\ Min({98, low}) <= low  BY <1>3, LesserOfTwo
<1>5. Confidence(p, b) \in Int /\ (Confidence(p, b) >= 70 => low >= 70)
  <2>1. Max({5, Min({98, low})}) = IF 5 >= Min({98, low}) THEN 5 ELSE Min({98, low})  BY <1>4, GreaterOfTwo
  <2> QED  BY <1>2, <1>3, <1>4, <2>1
<1>6. ASSUME low >= 70
      PROVE  Votes(p, b) >= 70 /\ \A u \in Voted(p) \ {b} : Votes(p, b) - Votes(p, u) \div 2 >= 70
  <2>1. \A n \in Nat : n \div 2 \in Nat  OBVIOUS
  <2>2. \A u \in Voted(p) \ {b} : Votes(p, u) \div 2 <= conflict \div 2  BY <1>1, DivisionGrows
  <2> QED  BY <1>1, <1>3, <1>6, <2>1, <2>2
<1> QED  BY <1>5, <1>6

\* A confirmed type has more support than any other, and an account, legal or utility path is
\* never taken for a commercial page (ClassifiedSoundly), for every page.
THEOREM AlwaysClassifiedSoundly == \A p \in PageFacts : ClassifiedSoundly(p)
<1> SUFFICES ASSUME NEW p \in PageFacts PROVE ClassifiedSoundly(p)  OBVIOUS
<1>0. /\ Confidence(p, Best(p)) \in Int
      /\ Confidence(p, Best(p)) >= 70 =>
           /\ Votes(p, Best(p)) >= 70
           /\ \A u \in Voted(p) \ {Best(p)} : Votes(p, Best(p)) - Votes(p, u) \div 2 >= 70
  BY ConfidenceOf
<1>1. ASSUME p.path \in LowPriorityTypes
      PROVE  Classify(p).type \notin CommercialTypes /\ Classify(p).status # "confirmed"
  <2>1. Best(p) = p.path  BY <1>1 DEF Best
  <2>2. p.path \in Voted(p)  BY <1>1 DEF LowPriorityTypes, Voted, BusinessType, Families
  <2>3. p.path # "root" /\ Voted(p) # {}  BY <1>1, <2>2 DEF LowPriorityTypes
  <2>4. p.path \notin p.schema  BY <1>1 DEF PageFacts, SchemaOrder, LowPriorityTypes
  <2>5. Votes(p, p.path) \in Nat /\ Votes(p, p.path) <= 65  BY <1>1, <2>4, VotesCounted
  <2>8. Classify(p).type = p.path /\ (Classify(p).status = "confirmed" => Confidence(p, p.path) >= 70)
    BY <2>1, <2>3 DEF Classify
  <2> QED  BY <1>0, <1>1, <2>1, <2>5, <2>8 DEF LowPriorityTypes, CommercialTypes
<1>2. ASSUME Classify(p).status = "confirmed", p.path # "root"
      PROVE  \A t \in Voted(p) \ {Classify(p).type} : Votes(p, t) < Votes(p, Classify(p).type)
  <2>1. Voted(p) # {}  BY <1>2 DEF Classify
  <2>2. Classify(p).type = Best(p) /\ Confidence(p, Best(p)) >= 70  BY <1>2, <2>1 DEF Classify
  <2>3. p.path \notin LowPriorityTypes  BY <1>1, <1>2
  <2>4. Best(p) \in Voted(p) /\ \A u \in Voted(p) \ {Best(p)} : Votes(p, Best(p)) >= Votes(p, u)
    BY <2>1, <2>3, BestPreferred
  <2> SUFFICES ASSUME NEW t \in Voted(p) \ {Best(p)} PROVE Votes(p, t) < Votes(p, Best(p))  BY <2>2
  <2>5. Votes(p, t) \in Nat /\ Votes(p, Best(p)) \in Nat /\ Votes(p, Best(p)) >= Votes(p, t)  BY <2>4, VotesCounted
  <2>6. Votes(p, t) <= 95 \/ Votes(p, Best(p)) <= 95  BY VotesCounted
  <2>7. Votes(p, Best(p)) - Votes(p, t) \div 2 >= 70  BY <1>0, <2>2
  <2> QED  BY <2>5, <2>6, <2>7
<1> QED  BY <1>1, <1>2 DEF ClassifiedSoundly

\* What the cases of the first group are made of
PagesSound ==
  /\ case.of = "type" => case.page \in PageFacts
  /\ case.of = "score" => case.typed \in Classified /\ case.measures \in PageRow /\ case.severity \in Int
  /\ case.of = "advice" => Stored(case.page) /\ case.traffic.conversions \in Int
  /\ case.of = "peers" => case.metric \in Rates

\* The cases of the other groups
OtherCase == {"run", "scan", "question", "batch", "robots", "access", "urls", "index", "page", "report", "overlap",
              "chunks", "watch", "purge", "graph", "crawl", "crawls", "record", "fixes", "visits", "ga", "mappings", "desk"}

\* The pages whose type the run asks for are pages as classification reads them.
LEMMA TypedPagesSound == TypedPage \subseteq PageFacts
<1>1. {"product", "legal", "none", "root"} \subseteq {PathOrder[i] : i \in DOMAIN PathOrder} \union {"none", "root"}
  <2>1. PathOrder[6] = "product" /\ PathOrder[2] = "legal" /\ 6 \in DOMAIN PathOrder /\ 2 \in DOMAIN PathOrder
    BY DEF PathOrder
  <2> QED  BY <2>1
<1>2. {"product", "unknown"} \subseteq BusinessType  BY DEF BusinessType
<1>3. {"product", "category", "service"} \subseteq DOMAIN SchemaOrder  BY DEF SchemaOrder
<1>4. {"product", "service", "legal"} \subseteq DOMAIN TextOrder  BY DEF TextOrder
<1> QED  BY <1>1, <1>2, <1>3, <1>4 DEF TypedPage, PageFacts

\* The measures the run scores are measures of pages.
LEMMA MeasuresSound == Typed \subseteq Classified /\ Measures \subseteq PageRow
<1>1. {0, 1, 100, Unknown} \subseteq Value  BY CasesAssumption DEF Value
<1>2. Measures \subseteq PageRow  
  <2> HIDE DEF Value
  <2> QED  BY <1>1 DEF Measures, PageRow
<1> QED  BY <1>2 DEF Typed, Classified, BusinessType

\* The pages the run asks advice for are pages as they are stored.
LEMMA PagesStored == \A p \in AnalysedPage : Stored(p)
BY DEF AnalysedPage, Stored

\* So is their traffic.
LEMMA TrafficSound == Visited.conversions = 0 /\ \A s \in Traffic : s.conversions \in Int
<1>1. \E s \in Traffic : s.sessions = 100 /\ s.conversions = 0 /\ s.clicks = 0 /\ s.impressions = 200
  <2> DEFINE s == [links |-> 0, ai |-> 0, organic |-> 0, sessions |-> 100, conversions |-> 0,
                   revenue |-> Unknown, clicks |-> 0, impressions |-> 200]
  <2>1. s \in Traffic  BY DEF Traffic
  <2> QED  BY <2>1
<1> QED  BY <1>1 DEF Visited, Traffic, Unknown

\* A plain page of any type is one.
LEMMA PlainStored == ASSUME NEW t PROVE Stored(Plain(t))
<1> DEFINE q == CHOOSE p \in AnalysedPage : p.type = "product" /\ p.http = 200
<1>1. \E p \in AnalysedPage : p.type = "product" /\ p.http = 200
  <2> DEFINE p == [type |-> "product", engine |-> "product", http |-> 200, title |-> 0, desc |-> 0, words |-> 100,
                   subs |-> 0, canonical |-> "none", inbound |-> 0, depth |-> 4, markup |-> {}, broken |-> FALSE,
                   offer |-> "none", name |-> "same", age |-> 400, asks |-> "no", copies |-> {"title"}]
  <2>1. p \in AnalysedPage  BY DEF AnalysedPage
  <2> QED  BY <2>1
<1>2. q \in AnalysedPage  BY <1>1
<1>3. Stored(q)  BY <1>2, PagesStored
<1>4. /\ Plain(t).http = q.http /\ Plain(t).title = q.title /\ Plain(t).desc = q.desc /\ Plain(t).words = q.words
      /\ Plain(t).subs = q.subs /\ Plain(t).depth = q.depth /\ Plain(t).age = q.age
  BY <1>2 DEF Plain, AnalysedPage
<1> QED  BY <1>3, <1>4 DEF Stored

\* A case of the first group is sound.
LEMMA PagesSoundNext == ASSUME PageCase PROVE PagesSound'
<1>1. CASE \E p \in TypedPage : case' = [of |-> "type", page |-> p]
  <2>1. PICK p \in TypedPage : case' = [of |-> "type", page |-> p]  BY <1>1
  <2>2. case'.of = "type" /\ case'.page = p  BY <2>1
  <2> QED  BY <2>2, TypedPagesSound DEF PagesSound
<1>2. CASE \E c \in Typed, f \in Sources, m \in Measures, sev \in {1, 4} :
             case' = [of |-> "score", typed |-> c, sources |-> f, measures |-> m, severity |-> sev]
  <2>1. PICK c \in Typed, f \in Sources, m \in Measures, sev \in {1, 4} :
             case' = [of |-> "score", typed |-> c, sources |-> f, measures |-> m, severity |-> sev]  BY <1>2
  <2>2. case'.of = "score" /\ case'.typed = c /\ case'.measures = m /\ case'.severity = sev  BY <2>1
  <2> QED  BY <2>2, MeasuresSound DEF PagesSound
<1>3. CASE \E p \in AnalysedPage : case' = [of |-> "advice", page |-> p, traffic |-> Visited, ctr |-> 3]
  <2>1. PICK p \in AnalysedPage : case' = [of |-> "advice", page |-> p, traffic |-> Visited, ctr |-> 3]  BY <1>3
  <2>2. case'.of = "advice" /\ case'.page = p /\ case'.traffic = Visited  BY <2>1
  <2>3. Stored(p) /\ Visited.conversions \in Int  BY PagesStored, TrafficSound
  <2> QED  BY <2>2, <2>3 DEF PagesSound, Stored
<1>4. CASE \E t \in {"product", "blog", "legal"}, s \in Traffic, ctr \in {0, 3, 5} :
             case' = [of |-> "advice", page |-> Plain(t), traffic |-> s, ctr |-> ctr]
  <2>1. PICK t \in {"product", "blog", "legal"}, s \in Traffic, ctr \in {0, 3, 5} :
             case' = [of |-> "advice", page |-> Plain(t), traffic |-> s, ctr |-> ctr]  BY <1>4
  <2>2. case'.of = "advice" /\ case'.page = Plain(t) /\ case'.traffic = s  BY <2>1
  <2>3. Stored(Plain(t)) /\ s.conversions \in Int  BY PlainStored, TrafficSound
  <2> QED  BY <2>2, <2>3 DEF PagesSound, Stored
<1>5. CASE \E n \in 5 .. 7 : \E m \in [1 .. n -> 1 .. 3] : case' = [of |-> "peers", metric |-> m]
  <2>1. PICK n \in 5 .. 7 : \E m \in [1 .. n -> 1 .. 3] : case' = [of |-> "peers", metric |-> m]  BY <1>5
  <2>2. PICK m \in [1 .. n -> 1 .. 3] : case' = [of |-> "peers", metric |-> m]  BY <2>1
  <2>3. case'.of = "peers" /\ case'.metric = m  BY <2>2
  <2>4. 1 .. n \in SUBSET Int /\ IsFiniteSet(1 .. n)  BY FS_Interval
  <2>5. m \in [1 .. n -> Int]  OBVIOUS
  <2>6. m \in Rates  BY <2>4, <2>5 DEF Rates
  <2> QED  BY <2>3, <2>6 DEF PagesSound
<1> QED  BY <1>1, <1>2, <1>3, <1>4, <1>5 DEF PageCase

\* A case of another group is none of the first.
LEMMA OthersNext ==
  /\ AnswerCase => case'.of \in OtherCase
  /\ SimulatorCase => case'.of \in OtherCase
  /\ AccessCase => case'.of \in OtherCase
  /\ SignalCase => case'.of \in OtherCase
  /\ SiteCase => case'.of \in OtherCase
  /\ OverviewCase => case'.of \in OtherCase
  /\ TrafficCase => case'.of \in OtherCase
<1>1. AnswerCase => case'.of \in OtherCase
  <2>1. ASSUME NEW run, case' = [of |-> "run", run |-> run] PROVE case'.of = "run"  BY <2>1
  <2>2. ASSUME NEW run, NEW scan, case' = [of |-> "scan", run |-> run, scan |-> scan] PROVE case'.of = "scan"  BY <2>2
  <2>3. "run" \in OtherCase /\ "scan" \in OtherCase  BY DEF OtherCase
  <2>4. AnswerCase => (\E run : case' = [of |-> "run", run |-> run])
                      \/ (\E run, scan : case' = [of |-> "scan", run |-> run, scan |-> scan])
    BY Zenon DEF AnswerCase
  <2> QED  BY <2>1, <2>2, <2>3, <2>4, Zenon
<1>2. SimulatorCase => case'.of \in OtherCase  BY DEF SimulatorCase, OtherCase
<1>3. AccessCase => case'.of \in OtherCase  BY DEF AccessCase, OtherCase
<1>4. SignalCase => case'.of \in OtherCase  BY DEF SignalCase, OtherCase
<1>5. ReportCase => case'.of \in OtherCase  BY DEF ReportCase, OtherCase
<1>6. OverlapCase => case'.of \in OtherCase
  <2>1. ASSUME NEW pages, case' = [of |-> "overlap", pages |-> pages] PROVE case'.of = "overlap"  BY <2>1
  <2>2. ASSUME NEW blocks, case' = [of |-> "chunks", blocks |-> blocks] PROVE case'.of = "chunks"  BY <2>2
  <2>3. "overlap" \in OtherCase /\ "chunks" \in OtherCase  BY DEF OtherCase
  <2> QED  BY <2>1, <2>2, <2>3, Zenon DEF OverlapCase
<1>7. GraphCase => case'.of \in OtherCase  BY DEF GraphCase, OtherCase
<1>8. ChangeCase => case'.of \in OtherCase  BY DEF ChangeCase, OtherCase
<1>9. CrawlCase => case'.of \in OtherCase
  <2>1. ASSUME NEW c, case' = [of |-> "crawl", crawl |-> c] PROVE case'.of = "crawl"  BY <2>1
  <2>2. CrawlCase => \E c : case' = [of |-> "crawl", crawl |-> c]  BY Zenon DEF CrawlCase
  <2>3. "crawl" \in OtherCase  BY DEF OtherCase
  <2> QED  BY <2>1, <2>2, <2>3, Zenon
<1>10. SiteCrawlsCase => case'.of \in OtherCase
  <2>1. ASSUME NEW c, case' = [of |-> "crawls", crawls |-> c] PROVE case'.of = "crawls"  BY <2>1
  <2>2. SiteCrawlsCase => \E c : case' = [of |-> "crawls", crawls |-> c]  BY Zenon DEF SiteCrawlsCase
  <2>3. "crawls" \in OtherCase  BY DEF OtherCase
  <2> QED  BY <2>1, <2>2, <2>3, Zenon
<1>11. RecordCase => case'.of \in OtherCase
  <2>1. ASSUME NEW p, case' = [of |-> "record", record |-> p] PROVE case'.of = "record"  BY <2>1
  <2>2. RecordCase => \E p : case' = [of |-> "record", record |-> p]  BY Zenon DEF RecordCase
  <2>3. "record" \in OtherCase  BY DEF OtherCase
  <2> QED  BY <2>1, <2>2, <2>3, Zenon
<1>12. FixesCase => case'.of \in OtherCase
  <2>1. ASSUME NEW p, case' = [of |-> "fixes", pages |-> p] PROVE case'.of = "fixes"  BY <2>1
  <2>2. FixesCase => \E p : case' = [of |-> "fixes", pages |-> p]  BY Zenon DEF FixesCase
  <2>3. "fixes" \in OtherCase  BY DEF OtherCase
  <2> QED  BY <2>1, <2>2, <2>3, Zenon
<1>13. VisitsCase => case'.of \in OtherCase
  <2>1. ASSUME NEW d, NEW w, case' = [of |-> "visits", data |-> d, window |-> w] PROVE case'.of = "visits"  BY <2>1
  <2>2. VisitsCase => \E d, w : case' = [of |-> "visits", data |-> d, window |-> w]  BY Zenon DEF VisitsCase
  <2>3. "visits" \in OtherCase  BY DEF OtherCase
  <2> QED  BY <2>1, <2>2, <2>3, Zenon
<1>14. GaCase => case'.of \in OtherCase
  <2>1. ASSUME NEW g, case' = [of |-> "ga", days |-> 10, ga |-> g] PROVE case'.of = "ga"  BY <2>1
  <2>2. ASSUME NEW j, NEW g, case' = [of |-> "mappings", items |-> j, ga |-> g] PROVE case'.of = "mappings"  BY <2>2
  <2>3. "ga" \in OtherCase /\ "mappings" \in OtherCase  BY DEF OtherCase
  <2>4. GaCase => (\E g : case' = [of |-> "ga", days |-> 10, ga |-> g])
                  \/ (\E j, g : case' = [of |-> "mappings", items |-> j, ga |-> g])
    BY Zenon DEF GaCase
  <2> QED  BY <2>1, <2>2, <2>3, <2>4, Zenon
<1>15. DeskCase => case'.of \in OtherCase
  <2>1. ASSUME NEW k, case' = [of |-> "desk", desk |-> k] PROVE case'.of = "desk"  BY <2>1
  <2>2. DeskCase => \E k : case' = [of |-> "desk", desk |-> k]  BY Zenon DEF DeskCase
  <2>3. "desk" \in OtherCase  BY DEF OtherCase
  <2> QED  BY <2>1, <2>2, <2>3, Zenon
<1>16. SiteCase => case'.of \in OtherCase  BY <1>5, <1>6, <1>7, <1>8 DEF SiteCase
<1>17. OverviewCase => case'.of \in OtherCase  BY <1>9, <1>10, <1>11, <1>12, Zenon DEF OverviewCase
<1>18. TrafficCase => case'.of \in OtherCase  BY <1>13, <1>14, <1>15, Zenon DEF TrafficCase
<1> QED  BY <1>1, <1>2, <1>3, <1>4, <1>16, <1>17, <1>18, Zenon

\* What is sound is judged well, by the five theorems above.
LEMMA PagesJudgedHere == PagesSound => PagesJudged
<1> SUFFICES ASSUME PagesSound PROVE PagesJudged  OBVIOUS
<1>1. case.of = "type" => ClassifiedSoundly(case.page)  BY AlwaysClassifiedSoundly DEF PagesSound
<1>2. ASSUME case.of = "score" PROVE WorthNeverCosts(case.typed, case.sources, case.measures, case.severity)
  <2>1. case.typed \in Classified /\ case.measures \in PageRow /\ case.severity \in Int  BY <1>2 DEF PagesSound
  <2> QED  BY <2>1, WorthAlwaysCounts
<1>3. ASSUME case.of = "advice"
      PROVE  AdviceConsistent(case.page, case.traffic, case.ctr, 4, [sessions |-> 30, conversions |-> 0, others |-> 1])
  <2>1. Stored(case.page) /\ case.traffic.conversions \in Int  BY <1>3 DEF PagesSound
  <2> QED  BY <2>1, AdviceAlwaysConsistent
<1>4. case.of = "peers" => PeersSeparate(case.metric)  BY PeersAlwaysSeparate DEF PagesSound
<1> QED  BY <1>1, <1>2, <1>3, <1>4 DEF PagesJudged

\* In every state of the rules a page's type, score, advice and rank rest on its evidence
\* (PagesJudged).
THEOREM PagesAlwaysJudged == Spec => []PagesJudged
<1>1. Init => PagesSound  BY DEF Init, PagesSound
<1>2. PagesSound /\ [Next]_<<group, case>> => PagesSound'
  <2> SUFFICES ASSUME PagesSound, [Next]_<<group, case>> PROVE PagesSound'  OBVIOUS
  <2>1. CASE UNCHANGED <<group, case>>  BY <2>1 DEF PagesSound, Stored
  <2>2. CASE PageCase  BY <2>2, PagesSoundNext
  <2>3. CASE AnswerCase \/ SimulatorCase \/ AccessCase \/ SignalCase \/ SiteCase \/ OverviewCase \/ TrafficCase
    <3>1. case'.of \in OtherCase  BY <2>3, OthersNext
    <3> QED  BY <3>1 DEF PagesSound, OtherCase
  <2> QED  BY <2>1, <2>2, <2>3 DEF Next
<1> QED  BY <1>1, <1>2, PagesJudgedHere, PTL DEF Spec

\* The values of a function on a finite set are finitely many.
LEMMA FiniteValues ==
  ASSUME NEW S, IsFiniteSet(S), NEW f
  PROVE  IsFiniteSet({f[x] : x \in S}) /\ Cardinality({f[x] : x \in S}) <= Cardinality(S)
<1> DEFINE T == {f[x] : x \in S}
           g == [x \in S |-> f[x]]
<1>1. g \in Surjection(S, T)  BY DEF Surjection
<1> HIDE DEF g, T
<1>2. IsFiniteSet(T) /\ Cardinality(T) <= Cardinality(S)  BY <1>1, FS_Surjection
<1> QED  BY <1>2 DEF T

(***************************************************************************)
(* The figures of a run                                                    *)
(***************************************************************************)
\* An analysed run: finitely many answers, each naming finitely many solutions, and no prompt
\* asked more than two thousand times, beyond which one mention is rounded to none.
AnalysedRun(run) ==
  /\ IsFiniteSet(DOMAIN run)
  /\ \A i \in DOMAIN run : /\ run[i].prompt \in Int /\ run[i].cited \in Nat
                          /\ run[i].entities \subseteq Int /\ IsFiniteSet(run[i].entities)
  /\ \A p \in PromptsOf(run) : Cardinality(Samples(run, p)) <= 2000

\* Everything counted in a run is finite.
LEMMA RunIsFinite ==
  ASSUME NEW run, AnalysedRun(run)
  PROVE  /\ IsFiniteSet(Successful(run)) /\ IsFiniteSet(PromptsOf(run)) /\ IsFiniteSet(Mentions(run))
         /\ \A p : /\ IsFiniteSet(Samples(run, p)) /\ Cardinality(Samples(run, p)) \in Nat
                   /\ IsFiniteSet(Hits(run, p)) /\ Cardinality(Hits(run, p)) \in Nat
                   /\ Hits(run, p) \subseteq Samples(run, p) /\ Cardinality(Hits(run, p)) <= Cardinality(Samples(run, p))
         /\ \A e : IsFiniteSet(Coverage(run, e)) /\ Coverage(run, e) \subseteq PromptsOf(run)
         /\ IsFiniteSet(Entries(run)) /\ Entries(run) \subseteq Int
<1>1. IsFiniteSet(Successful(run))  BY FS_Subset DEF Successful, AnalysedRun
<1>2. IsFiniteSet(PromptsOf(run))
  <2> DEFINE f == [i \in Successful(run) |-> run[i].prompt]
  <2>1. PromptsOf(run) = {f[i] : i \in Successful(run)}  BY DEF PromptsOf
  <2> HIDE DEF f
  <2> QED  BY <1>1, <2>1, FiniteValues
<1>3. IsFiniteSet(Mentions(run))  BY <1>1, FS_Subset DEF Mentions
<1>4. ASSUME NEW p
      PROVE  /\ IsFiniteSet(Samples(run, p)) /\ Cardinality(Samples(run, p)) \in Nat
             /\ IsFiniteSet(Hits(run, p)) /\ Cardinality(Hits(run, p)) \in Nat
             /\ Hits(run, p) \subseteq Samples(run, p) /\ Cardinality(Hits(run, p)) <= Cardinality(Samples(run, p))
  <2>1. Samples(run, p) \subseteq Successful(run) /\ Hits(run, p) \subseteq Samples(run, p)  BY DEF Samples, Hits
  <2>2. IsFiniteSet(Samples(run, p))  BY <1>1, <2>1, FS_Subset
  <2> QED  BY <2>1, <2>2, FS_Subset, FS_CardinalityType
<1>5. ASSUME NEW e PROVE IsFiniteSet(Coverage(run, e)) /\ Coverage(run, e) \subseteq PromptsOf(run)
  <2>1. Coverage(run, e) \subseteq PromptsOf(run)  BY DEF Coverage, Appearances, PromptsOf
  <2> QED  BY <1>2, <2>1, FS_Subset
<1>6. IsFiniteSet(Entries(run)) /\ Entries(run) \subseteq Int
  <2> DEFINE f == [i \in Successful(run) |-> run[i].entities]
             All == {f[i] : i \in Successful(run)}
  <2>1. {run[i].entities : i \in Successful(run)} = All  OBVIOUS
  <2>2. IsFiniteSet(All) /\ \A T \in All : IsFiniteSet(T) /\ T \subseteq Int
    <3>1. IsFiniteSet(All)  
      <4> HIDE DEF f
      <4> QED  BY <1>1, FiniteValues
    <3>2. \A i \in Successful(run) : f[i] \subseteq Int /\ IsFiniteSet(f[i])  BY DEF AnalysedRun, Successful
    <3> QED  BY <3>1, <3>2
  <2> HIDE DEF f, All
  <2>3. IsFiniteSet(UNION All) /\ UNION All \subseteq Int  BY <2>2, FS_UNION
  <2>4. Entries(run) \subseteq UNION All  BY <2>1 DEF Entries
  <2> QED  BY <2>3, <2>4, FS_Subset
<1> QED  BY <1>1, <1>2, <1>3, <1>4, <1>5, <1>6

\* What is counted prompt by prompt adds up to the whole.
LEMMA PartsAddUp ==
  ASSUME NEW run, AnalysedRun(run), NEW I, IsFiniteSet(I), I \subseteq Successful(run), NEW w,
         DOMAIN w = PromptsOf(run), \A p \in PromptsOf(run) : w[p] = Cardinality({i \in I : run[i].prompt = p})
  PROVE  SumFunction(w) = Cardinality(I)
<1> DEFINE key == [i \in I |-> run[i].prompt]
           K == PromptsOf(run)
<1>1. \A p \in K : {i \in I : key[i] = p} = {i \in I : run[i].prompt = p}  OBVIOUS
<1>2. \A p \in K : w[p] = Cardinality({i \in I : key[i] = p})
  <2> SUFFICES ASSUME NEW p \in K PROVE w[p] = Cardinality({i \in I : key[i] = p})  OBVIOUS
  <2>1. w[p] = Cardinality({i \in I : run[i].prompt = p})  OBVIOUS
  <2> QED  BY <1>1, <2>1, Zenon
<1>3. {i \in I : key[i] \in K} = I  BY DEF PromptsOf
<1>4. IsFiniteSet(K)  BY RunIsFinite
<1> HIDE DEF key
<1>5. SumFunctionOnSet(w, K) = Cardinality({i \in I : key[i] \in K})  BY <1>2, <1>4, SumOfParts
<1> QED  BY <1>3, <1>5 DEF SumFunction

\* Rounding loses no mention.
LEMMA NoneLost ==
  ASSUME NEW run, AnalysedRun(run), NEW p \in PromptsOf(run)
  PROVE  /\ RateOf(run, p) = 0 <=> Hits(run, p) = {}
         /\ Bucket(run, p) = "not_visible" <=> Hits(run, p) = {}
         /\ IsGap(run, p) <=> Hits(run, p) = {}
<1> DEFINE h == Cardinality(Hits(run, p))
           t == Cardinality(Samples(run, p))
<1>1. h \in Nat /\ t \in Nat /\ h <= t /\ t <= 2000 /\ IsFiniteSet(Hits(run, p)) /\ IsFiniteSet(Samples(run, p))
  BY RunIsFinite DEF AnalysedRun
<1>2. t # 0
  <2>1. Samples(run, p) # {}  BY DEF PromptsOf, Samples
  <2> QED  BY <1>1, <2>1, FS_EmptySet
<1>3. h = 0 <=> Hits(run, p) = {}  BY <1>1, FS_EmptySet
<1>4. RateOf(run, p) = (2000 * h + t) \div (2 * t)  BY DEF RateOf, Rate
<1> HIDE DEF h, t
<1>5. (2000 * h + t) \div (2 * t) = 0 <=> h = 0
  <2> DEFINE n == 2000 * h + t
             d == 2 * t
  <2>1. n \in Nat /\ d \in Nat \ {0}  BY <1>1, <1>2
  <2>2. CASE h = 0
    <3>1. n = t /\ n < d  BY <1>1, <1>2, <2>2
    <3> QED  BY <2>1, <2>2, <3>1
  <2>3. CASE h # 0
    <3>1. n >= d  BY <1>1, <2>3
    <3>2. d \div d = 1  BY <2>1
    <3>3. d \div d <= n \div d  
      <4> HIDE DEF n, d
      <4> QED BY <2>1, <3>1, DivisionGrows
    <3>4. n \div d \in Int  BY <2>1
    <3> QED  BY <2>3, <3>2, <3>3, <3>4
  <2> QED  BY <2>2, <2>3
<1>6. RateOf(run, p) = 0 <=> Hits(run, p) = {}  BY <1>3, <1>4, <1>5
<1> QED  BY <1>6 DEF Bucket, IsGap

\* No solution wins more prompts than are lost, nor one where the brand was named.
LEMMA HeadToHeadCounts ==
  ASSUME NEW run, AnalysedRun(run), NEW e
  PROVE  /\ HeadToHead(run, e) <= Cardinality({p \in PromptsOf(run) : IsGap(run, p)})
         /\ HeadToHead(run, e) \in Nat
         /\ \A i \in DOMAIN run : ~ run[i].failed /\ run[i].mentioned =>
              HeadToHead(run, e) <= Cardinality(Coverage(run, e) \ {run[i].prompt})
<1> DEFINE H == {p \in Coverage(run, e) : Hits(run, p) = {}}
           G == {p \in PromptsOf(run) : IsGap(run, p)}
<1>1. IsFiniteSet(Coverage(run, e)) /\ Coverage(run, e) \subseteq PromptsOf(run) /\ IsFiniteSet(PromptsOf(run))
  BY RunIsFinite
<1>2. H \subseteq G  BY <1>1, NoneLost
<1>3. IsFiniteSet(G)  BY <1>1, FS_Subset
<1>4. Cardinality(H) <= Cardinality(G)
  <2> HIDE DEF H, G
  <2> QED  BY <1>2, <1>3, FS_Subset
<1>5. ASSUME NEW i \in DOMAIN run, ~ run[i].failed, run[i].mentioned
      PROVE  Cardinality(H) <= Cardinality(Coverage(run, e) \ {run[i].prompt})
  <2>1. i \in Hits(run, run[i].prompt)  BY <1>5 DEF Hits, Samples, Successful
  <2>2. H \subseteq Coverage(run, e) \ {run[i].prompt}  BY <2>1
  <2>3. IsFiniteSet(Coverage(run, e) \ {run[i].prompt})  BY <1>1, FS_Subset
  <2> HIDE DEF H
  <2> QED  BY <2>2, <2>3, FS_Subset
<1>6. Cardinality(H) \in Nat
  <2>1. IsFiniteSet(H)  BY <1>1, FS_Subset
  <2> HIDE DEF H
  <2> QED  BY <2>1, FS_CardinalityType
<1> QED  BY <1>4, <1>5, <1>6 DEF HeadToHead

\* The board has every rank once.
LEMMA RanksOfRun ==
  ASSUME NEW run, AnalysedRun(run)
  PROVE  {RankOf(run, e) : e \in Entries(run)} = 1 .. Cardinality(Entries(run))
<1> DEFINE S == Entries(run)
           R == {q \in S \X S : Outranks(run, q[1], q[2])}
           rank == [x \in S |-> 1 + Cardinality(InFront(R, S, x))]
<1>1. IsFiniteSet(S) /\ S \subseteq Int  BY RunIsFinite
<1>2. \A x \in S : Cardinality(Appearances(run, x)) \in Nat
  <2> SUFFICES ASSUME NEW x \in S PROVE Cardinality(Appearances(run, x)) \in Nat  OBVIOUS
  <2>1. Appearances(run, x) \subseteq Successful(run)  BY DEF Appearances
  <2> QED  BY <2>1, RunIsFinite, FS_Subset, FS_CardinalityType
<1> HIDE DEF S
<1>3. \A x, y \in S : <<x, y>> \in R <=> Outranks(run, x, y)
  <2> SUFFICES ASSUME NEW x \in S, NEW y \in S PROVE <<x, y>> \in R <=> Outranks(run, x, y)  OBVIOUS
  <2>1. <<x, y>> \in S \X S /\ <<x, y>>[1] = x /\ <<x, y>>[2] = y  OBVIOUS
  <2> QED  BY <2>1, Zenon
<1>4. Orders(R, S)
  <2> HIDE DEF R
  <2>1. \A x \in S : ~ Outranks(run, x, x)  BY <1>1, <1>2 DEF Outranks
  <2>2. \A x, y, z \in S : Outranks(run, x, y) /\ Outranks(run, y, z) => Outranks(run, x, z)  BY <1>1, <1>2 DEF Outranks
  <2>3. \A x, y \in S : x # y => Outranks(run, x, y) \/ Outranks(run, y, x)  BY <1>1, <1>2 DEF Outranks
  <2> QED  BY <1>3, <2>1, <2>2, <2>3 DEF Orders
<1>5. \A x \in S : RankOf(run, x) = rank[x]
  <2> SUFFICES ASSUME NEW x \in S PROVE RankOf(run, x) = rank[x]  OBVIOUS
  <2>1. InFront(R, S, x) = {d \in S : Outranks(run, d, x)}
    <3> HIDE DEF R
    <3> QED  BY <1>3 DEF InFront
  <2>2. RankOf(run, x) = 1 + Cardinality({d \in S : Outranks(run, d, x)})  BY DEF RankOf, S
  <2> HIDE DEF R
  <2> QED  BY <2>1, <2>2
<1> HIDE DEF R
<1>6. rank \in Bijection(S, 1 .. Cardinality(S))  BY <1>1, <1>4, RanksWithoutHoles
<1> HIDE DEF rank
<1>7. {rank[x] : x \in S} = 1 .. Cardinality(S)  BY <1>6 DEF Bijection, Injection, Surjection
<1>8. {RankOf(run, e) : e \in S} = {rank[x] : x \in S}  BY <1>5
<1> QED  BY <1>7, <1>8 DEF S

\* A verdict of not visible means that no answer named the brand.
LEMMA NotVisibleMeansUnnamed ==
  ASSUME NEW run, AnalysedRun(run), Verdict(run) = "not_visible", NEW i \in Successful(run)
  PROVE  ~ run[i].mentioned
<1> DEFINE V == {p \in PromptsOf(run) : Bucket(run, p) # "not_visible"}
<1>1. Cardinality(V) = 0  BY DEF Verdict
<1>2. IsFiniteSet(V)  BY RunIsFinite, FS_Subset
<1>3. V = {}
  <2> HIDE DEF V
  <2> QED  BY <1>1, <1>2, FS_EmptySet
<1>4. run[i].prompt \in PromptsOf(run)  BY DEF PromptsOf
<1>5. Hits(run, run[i].prompt) = {}  BY <1>3, <1>4, NoneLost
<1> QED  BY <1>5 DEF Hits, Samples

\* A diagnosis of never cited means that no answer cited the site.
LEMMA NoCitationCounted ==
  ASSUME NEW run, AnalysedRun(run), Diagnosis(run) = "searched_not_cited", NEW i \in Successful(run), run[i].search
  PROVE  run[i].cited = 0
<1> DEFINE w == [j \in Searched(run) |-> run[j].cited]
<1>1. IsFiniteSet(Searched(run)) /\ \A j \in Searched(run) : w[j] \in Nat
  <2>1. Searched(run) \subseteq Successful(run) /\ Searched(run) \subseteq DOMAIN run  BY DEF Searched, Successful
  <2> QED  BY <2>1, RunIsFinite, FS_Subset DEF AnalysedRun
<1>2. i \in Searched(run)  BY DEF Searched
<1>3. CitationCount(run) = SumFunctionOnSet(w, Searched(run))  BY DEF CitationCount, SumFunction
<1>4. ~ CitationCount(run) > 0  BY DEF Diagnosis
<1> HIDE DEF w
<1>5. SumFunctionOnSet(w, Searched(run)) \in Nat /\ SumFunctionOnSet(w, Searched(run)) >= w[i] /\ w[i] \in Nat
  BY <1>1, <1>2, SumAtLeast
<1>6. w[i] = 0  BY <1>3, <1>4, <1>5
<1> QED  BY <1>2, <1>6 DEF w

\* The figures of a run, computed along four paths, tell one story (FiguresAgree), for every run.
THEOREM FiguresAlwaysAgree == ASSUME NEW run, AnalysedRun(run) PROVE FiguresAgree(run)
<1> DEFINE prompts == PromptsOf(run)
           board == Entries(run)
<1>1. SumFunction([p \in prompts |-> Cardinality(Samples(run, p))]) = Cardinality(Successful(run))
  <2> DEFINE w == [p \in prompts |-> Cardinality(Samples(run, p))]
  <2>1. \A p \in prompts : w[p] = Cardinality({i \in Successful(run) : run[i].prompt = p})  BY DEF Samples
  <2>2. DOMAIN w = prompts  OBVIOUS
  <2>3. SumFunction(w) = Cardinality(Successful(run))
    <3> HIDE DEF w
    <3> QED  BY <2>1, <2>2, RunIsFinite, PartsAddUp
  <2> QED  BY <2>3
<1>2. SumFunction([p \in prompts |-> Cardinality(Hits(run, p))]) = Cardinality(Mentions(run))
  <2> DEFINE w == [p \in prompts |-> Cardinality(Hits(run, p))]
  <2>0. \A p \in prompts : Hits(run, p) = {i \in Mentions(run) : run[i].prompt = p}  BY DEF Hits, Samples, Mentions
  <2>1. \A p \in prompts : w[p] = Cardinality({i \in Mentions(run) : run[i].prompt = p})  BY <2>0
  <2>2. DOMAIN w = prompts /\ Mentions(run) \subseteq Successful(run)  BY DEF Mentions
  <2>3. SumFunction(w) = Cardinality(Mentions(run))
    <3> HIDE DEF w
    <3> QED  BY <2>1, <2>2, RunIsFinite, PartsAddUp
  <2> QED  BY <2>3
<1>3. \A p \in prompts : (Bucket(run, p) = "not_visible" <=> Hits(run, p) = {}) /\ (IsGap(run, p) <=> Hits(run, p) = {})
  BY NoneLost
<1>4. \A e \in board :
       /\ HeadToHead(run, e) <= Cardinality({p \in prompts : IsGap(run, p)})
       /\ \A i \in DOMAIN run :
            ~ run[i].failed /\ run[i].mentioned =>
              HeadToHead(run, e) <= Cardinality(Coverage(run, e) \ {run[i].prompt})
  BY HeadToHeadCounts
<1>5. {RankOf(run, e) : e \in board} = 1 .. Cardinality(board)  BY RanksOfRun
<1>6. \A i \in Successful(run) : Brand \in run[i].entities => Brand \in board  BY DEF Entries
<1>7. Verdict(run) = "not_visible" => \A i \in Successful(run) : ~ run[i].mentioned  BY NotVisibleMeansUnnamed
<1>8. Diagnosis(run) = "searched_not_cited" => \A i \in Successful(run) : run[i].search => run[i].cited = 0
  BY NoCitationCounted
<1> QED  BY <1>1, <1>2, <1>3, <1>4, <1>5, <1>6, <1>7, <1>8, Zenon DEF FiguresAgree

\* Opportunities as they can be listed: finitely many, numbers where numbers are compared,
\* and no two under one id.
Rows(S) ==
  /\ IsFiniteSet(S)
  /\ \A o \in S : o.kind \in DOMAIN IdOrder /\ o.n \in Int /\ o.priority \in Int /\ o.impact \in Int
  /\ \A o, p \in S : o.kind = p.kind /\ o.n = p.n => o = p

\* The ids of two opportunities differ, and they are in an order.
LEMMA IdsOrdered ==
  ASSUME NEW S, Rows(S)
  PROVE  /\ \A x \in S : ~ IdBefore(x, x)
         /\ \A x, y, z \in S : IdBefore(x, y) /\ IdBefore(y, z) => IdBefore(x, z)
         /\ \A x, y \in S : x # y => IdBefore(x, y) \/ IdBefore(y, x)
<1>1. \A k, l \in DOMAIN IdOrder : IdOrder[k] \in Int /\ (IdOrder[k] = IdOrder[l] => k = l)  BY DEF IdOrder
<1>2. \A x \in S : IdOrder[x.kind] \in Int /\ x.n \in Int  BY <1>1 DEF Rows
<1>3. \A x \in S : ~ IdBefore(x, x)  BY <1>2 DEF IdBefore
<1>4. \A x, y, z \in S : IdBefore(x, y) /\ IdBefore(y, z) => IdBefore(x, z)  BY <1>2 DEF IdBefore
<1>5. ASSUME NEW x \in S, NEW y \in S, x # y PROVE IdBefore(x, y) \/ IdBefore(y, x)
  <2>1. IdOrder[x.kind] = IdOrder[y.kind] => x.kind = y.kind  BY <1>1 DEF Rows
  <2>2. IdOrder[x.kind] = IdOrder[y.kind] => x.n # y.n  BY <1>5, <2>1 DEF Rows
  <2> QED  BY <1>2, <2>2 DEF IdBefore
<1> QED  BY <1>3, <1>4, <1>5

\* The list is in an order.
LEMMA ListOrdered ==
  ASSUME NEW S, Rows(S)
  PROVE  /\ \A x \in S : ~ Listed(x, x)
         /\ \A x, y, z \in S : Listed(x, y) /\ Listed(y, z) => Listed(x, z)
         /\ \A x, y \in S : x # y => Listed(x, y) \/ Listed(y, x)
<1>1. \A x \in S : x.priority \in Int /\ x.impact \in Int  BY DEF Rows
<1>2. /\ \A x \in S : ~ IdBefore(x, x)
      /\ \A x, y, z \in S : IdBefore(x, y) /\ IdBefore(y, z) => IdBefore(x, z)
      /\ \A x, y \in S : x # y => IdBefore(x, y) \/ IdBefore(y, x)
  BY IdsOrdered
<1>3. \A x \in S : ~ Listed(x, x)  BY <1>1, <1>2 DEF Listed
<1>4. \A x, y, z \in S : Listed(x, y) /\ Listed(y, z) => Listed(x, z)  BY <1>1, <1>2 DEF Listed
<1>5. \A x, y \in S : x # y => Listed(x, y) \/ Listed(y, x)  BY <1>1, <1>2 DEF Listed
<1> QED  BY <1>3, <1>4, <1>5

\* So is a group.
LEMMA GroupOrdered ==
  ASSUME NEW S, Rows(S)
  PROVE  /\ \A x \in S : ~ Leads(x, x)
         /\ \A x, y, z \in S : Leads(x, y) /\ Leads(y, z) => Leads(x, z)
         /\ \A x, y \in S : x # y => Leads(x, y) \/ Leads(y, x)
<1>0. \A k \in DOMAIN IdOrder : TypeRank[k] \in Int  BY DEF IdOrder, TypeRank
<1>1. \A x \in S : x.impact \in Int /\ TypeRank[x.kind] \in Int  BY <1>0 DEF Rows
<1>2. /\ \A x \in S : ~ IdBefore(x, x)
      /\ \A x, y, z \in S : IdBefore(x, y) /\ IdBefore(y, z) => IdBefore(x, z)
      /\ \A x, y \in S : x # y => IdBefore(x, y) \/ IdBefore(y, x)
  BY IdsOrdered
<1>3. \A x \in S : ~ Leads(x, x)  BY <1>1, <1>2 DEF Leads
<1>4. \A x, y, z \in S : Leads(x, y) /\ Leads(y, z) => Leads(x, z)  BY <1>1, <1>2 DEF Leads
<1>5. \A x, y \in S : x # y => Leads(x, y) \/ Leads(y, x)  BY <1>1, <1>2 DEF Leads
<1> QED  BY <1>3, <1>4, <1>5

\* The pairs of a group in which the first leads
Leading(S) == {q \in S \X S : Leads(q[1], q[2])}

\* They order it.
LEMMA LeadingOrders ==
  ASSUME NEW S, Rows(S)
  PROVE  Orders(Leading(S), S) /\ \A x, y \in S : <<x, y>> \in Leading(S) <=> Leads(x, y)
<1>1. \A x, y \in S : <<x, y>> \in Leading(S) <=> Leads(x, y)
  <2> SUFFICES ASSUME NEW x \in S, NEW y \in S PROVE <<x, y>> \in Leading(S) <=> Leads(x, y)  OBVIOUS
  <2>1. <<x, y>> \in S \X S /\ <<x, y>>[1] = x /\ <<x, y>>[2] = y  OBVIOUS
  <2> QED  BY <2>1, Zenon DEF Leading
<1>2. Orders(Leading(S), S)  BY <1>1, GroupOrdered DEF Orders
<1> QED  BY <1>1, <1>2

\* Some of these are such opportunities too.
LEMMA FewerRows == ASSUME NEW S, Rows(S), NEW T \in SUBSET S PROVE Rows(T)
BY FS_Subset DEF Rows

\* One opportunity of a group leads all others of it, and it is the primary.
LEMMA PrimaryLeads ==
  ASSUME NEW S, Rows(S), NEW rec, Group(S, rec) # {}
  PROVE  /\ PrimaryOf(S, rec) \in Group(S, rec)
         /\ \A p \in Group(S, rec) \ {PrimaryOf(S, rec)} : Leads(PrimaryOf(S, rec), p)
<1> DEFINE G == Group(S, rec)
<1>1. Rows(G)
  <2>1. G \in SUBSET S  BY DEF Group
  <2> QED  BY <2>1, FewerRows
<1>2. IsFiniteSet(G)  BY <1>1 DEF Rows
<1> HIDE DEF G
<1>3. PICK x \in G : \A y \in G \ {x} : <<x, y>> \in Leading(G)
  <2>1. G # {}  BY DEF G
  <2> QED  BY <1>1, <1>2, <2>1, LeadingOrders, FirstOfOrder
<1>4. \A y \in G \ {x} : Leads(x, y)  BY <1>1, <1>3, LeadingOrders
<1>5. PrimaryOf(S, rec) = CHOOSE o \in G : \A p \in G \ {o} : Leads(o, p)  BY DEF PrimaryOf, G
<1>6. PrimaryOf(S, rec) \in G /\ \A p \in G \ {PrimaryOf(S, rec)} : Leads(PrimaryOf(S, rec), p)
  BY <1>3, <1>4, <1>5, Zenon
<1> QED  BY <1>6 DEF G

\* What leads a group is its primary, and it leads whatever part of the group it is in.
LEMMA PrimaryOfPart ==
  ASSUME NEW S, Rows(S), NEW T \in SUBSET S, NEW rec, Group(S, rec) # {}, PrimaryOf(S, rec) \in T
  PROVE  PrimaryOf(T, rec) = PrimaryOf(S, rec)
<1> DEFINE o == PrimaryOf(S, rec)
           q == PrimaryOf(T, rec)
<1>1. o \in Group(S, rec) /\ \A p \in Group(S, rec) \ {o} : Leads(o, p)  BY PrimaryLeads
<1>2. o \in Group(T, rec) /\ Group(T, rec) \subseteq Group(S, rec) /\ Group(S, rec) \subseteq S  BY <1>1 DEF Group
<1>3. Rows(T)  BY FewerRows
<1>4. q \in Group(T, rec) /\ \A p \in Group(T, rec) \ {q} : Leads(q, p)  BY <1>2, <1>3, PrimaryLeads
<1> HIDE DEF o, q
<1>5. q = o
  <2>1. SUFFICES ASSUME q # o PROVE FALSE  OBVIOUS
  <2>2. Leads(o, q) /\ Leads(q, o)  BY <1>1, <1>2, <1>4, <2>1
  <2>3. o \in S /\ q \in S  BY <1>2, <1>4
  <2>4. Leads(o, o)  BY <2>2, <2>3, GroupOrdered
  <2> QED  BY <2>3, <2>4, GroupOrdered
<1> QED  BY <1>5 DEF o, q

\* The order of the preview: primaries first, then the rest, each in list order
Previewed(S) ==
  LET primary == {o \in S : IsPrimary(S, o)} IN
  {q \in S \X S : IF (q[1] \in primary) = (q[2] \in primary) THEN Listed(q[1], q[2]) ELSE q[1] \in primary}

\* It is an order, and the preview is those with the least numbers in it.
LEMMA PreviewOrders ==
  ASSUME NEW S, Rows(S)
  PROVE  /\ Orders(Previewed(S), S)
         /\ \A x, y \in S : <<x, y>> \in Previewed(S) <=>
              \/ (IsPrimary(S, x) <=> IsPrimary(S, y)) /\ Listed(x, y)
              \/ IsPrimary(S, x) /\ ~ IsPrimary(S, y)
         /\ Shown(S) = {o \in S : 1 + Cardinality(InFront(Previewed(S), S, o)) <= PreviewLimit}
<1> DEFINE primary == {o \in S : IsPrimary(S, o)}
           ahead(p, o) == IF (p \in primary) = (o \in primary) THEN Listed(p, o) ELSE p \in primary
<1>1. \A x, y \in S : <<x, y>> \in Previewed(S) <=> ahead(x, y)
  <2> SUFFICES ASSUME NEW x \in S, NEW y \in S PROVE <<x, y>> \in Previewed(S) <=> ahead(x, y)  OBVIOUS
  <2>1. <<x, y>> \in S \X S /\ <<x, y>>[1] = x /\ <<x, y>>[2] = y  OBVIOUS
  <2> QED  BY <2>1, Zenon DEF Previewed
<1>2. \A x, y \in S : <<x, y>> \in Previewed(S) <=>
              \/ (IsPrimary(S, x) <=> IsPrimary(S, y)) /\ Listed(x, y)
              \/ IsPrimary(S, x) /\ ~ IsPrimary(S, y)
  <2> SUFFICES ASSUME NEW x \in S, NEW y \in S
      PROVE ahead(x, y) <=> \/ (IsPrimary(S, x) <=> IsPrimary(S, y)) /\ Listed(x, y)
                            \/ IsPrimary(S, x) /\ ~ IsPrimary(S, y)  BY <1>1
  <2>1. (x \in primary <=> IsPrimary(S, x)) /\ (y \in primary <=> IsPrimary(S, y))  OBVIOUS
  <2> HIDE DEF primary
  <2>2. CASE (x \in primary) = (y \in primary)  BY <2>1, <2>2
  <2>3. CASE (x \in primary) # (y \in primary)  BY <2>1, <2>3
  <2> QED  BY <2>2, <2>3
<1>3. Orders(Previewed(S), S)
  <2> DEFINE main == [x \in S |-> x \in primary]
  <2>1. \A x \in S : <<x, x>> \notin Previewed(S)  BY <1>2, ListOrdered
  <2>2. ASSUME NEW x \in S, NEW y \in S, NEW z \in S, <<x, y>> \in Previewed(S), <<y, z>> \in Previewed(S)
        PROVE  <<x, z>> \in Previewed(S)
    <3>1. Listed(x, y) /\ Listed(y, z) => Listed(x, z)  BY ListOrdered
    <3> QED  BY <1>2, <2>2, <3>1
  <2>3. ASSUME NEW x \in S, NEW y \in S, x # y PROVE <<x, y>> \in Previewed(S) \/ <<y, x>> \in Previewed(S)
    <3>1. Listed(x, y) \/ Listed(y, x)  BY <2>3, ListOrdered
    <3> QED  BY <1>2, <3>1
  <2> QED  BY <2>1, <2>2, <2>3 DEF Orders
<1>4. Shown(S) = {o \in S : 1 + Cardinality(InFront(Previewed(S), S, o)) <= PreviewLimit}
  <2>1. \A o \in S : InFront(Previewed(S), S, o) = {p \in S : ahead(p, o)}  BY <1>1 DEF InFront
  <2>2. \A o \in S : Cardinality(InFront(Previewed(S), S, o)) \in Nat
    <3> SUFFICES ASSUME NEW o \in S PROVE Cardinality(InFront(Previewed(S), S, o)) \in Nat  OBVIOUS
    <3>1. InFront(Previewed(S), S, o) \subseteq S /\ IsFiniteSet(S)  BY DEF InFront, Rows
    <3> QED  BY <3>1, FS_Subset, FS_CardinalityType
  <2>3. \A o \in S : Cardinality({p \in S : ahead(p, o)}) < PreviewLimit <=>
                     1 + Cardinality(InFront(Previewed(S), S, o)) <= PreviewLimit
    <3> SUFFICES ASSUME NEW o \in S
        PROVE Cardinality({p \in S : ahead(p, o)}) < PreviewLimit <=>
                     1 + Cardinality(InFront(Previewed(S), S, o)) <= PreviewLimit  OBVIOUS
    <3>1. Cardinality({p \in S : ahead(p, o)}) = Cardinality(InFront(Previewed(S), S, o))  BY <2>1
    <3> HIDE DEF ahead
    <3> QED  BY <3>1, <2>2, PreviewAssumption
  <2>4. Shown(S) = {o \in S : Cardinality({p \in S : ahead(p, o)}) < PreviewLimit}  BY DEF Shown
  <2> HIDE DEF ahead
  <2> QED  BY <2>3, <2>4
<1> QED  BY <1>2, <1>3, <1>4

\* The preview of any opportunities stands on its own (visibility.py:306-370, 880-890).
THEOREM PreviewOfRows ==
  ASSUME NEW all, Rows(all)
  PROVE  LET shown == Shown(all)
             primary == {o \in all : IsPrimary(all, o)} IN
         /\ Cardinality(shown) = Min({PreviewLimit, Cardinality(all)})
         /\ (shown \subseteq primary) \/ (primary \subseteq shown)
         /\ \A o \in shown : o.rec \in Grouped(all) => PrimaryOf(all, o.rec) \in shown
         /\ \A rec \in Grouped(shown) : PrimaryOf(shown, rec) = PrimaryOf(all, rec)
         /\ \A o \in shown \intersect primary, p \in primary \ shown : Listed(o, p)
<1> DEFINE R == Previewed(all)
           shown == Shown(all)
           primary == {o \in all : IsPrimary(all, o)}
<1>0. IsFiniteSet(all) /\ Cardinality(all) \in Nat /\ PreviewLimit \in Nat
  BY FS_CardinalityType, PreviewAssumption DEF Rows
<1>1. /\ Orders(R, all)
      /\ \A x, y \in all : <<x, y>> \in R <=> \/ (IsPrimary(all, x) <=> IsPrimary(all, y)) /\ Listed(x, y)
                                              \/ IsPrimary(all, x) /\ ~ IsPrimary(all, y)
      /\ shown = {o \in all : 1 + Cardinality(InFront(R, all, o)) <= PreviewLimit}
  BY PreviewOrders
<1>2. \A o \in all : IsFiniteSet(InFront(R, all, o)) /\ Cardinality(InFront(R, all, o)) \in Nat
                     /\ 1 + Cardinality(InFront(R, all, o)) <= Cardinality(all)
  <2> SUFFICES ASSUME NEW o \in all
      PROVE IsFiniteSet(InFront(R, all, o)) /\ Cardinality(InFront(R, all, o)) \in Nat
            /\ 1 + Cardinality(InFront(R, all, o)) <= Cardinality(all)  OBVIOUS
  <2>1. InFront(R, all, o) \subseteq all /\ o \notin InFront(R, all, o)  BY <1>1 DEF InFront, Orders
  <2>2. IsFiniteSet(InFront(R, all, o)) /\ Cardinality(InFront(R, all, o)) <= Cardinality(all)
        /\ Cardinality(InFront(R, all, o)) # Cardinality(all)  BY <1>0, <2>1, FS_Subset
  <2> QED  BY <1>0, <2>2, FS_CardinalityType
<1> HIDE DEF R, shown
\* What comes before something shown is shown.
<1>3. ASSUME NEW o \in shown, NEW p \in all, <<p, o>> \in R PROVE p \in shown
  <2>1. Cardinality(InFront(R, all, p)) < Cardinality(InFront(R, all, o))  BY <1>0, <1>1, <1>3, FewerAhead
  <2> QED  BY <1>0, <1>1, <1>2, <2>1
<1>4. Cardinality(shown) = Min({PreviewLimit, Cardinality(all)})
  <2> DEFINE b == Min({PreviewLimit, Cardinality(all)})
  <2>1. b = (IF PreviewLimit <= Cardinality(all) THEN PreviewLimit ELSE Cardinality(all))
    BY <1>0, LesserOfTwo
  <2>2. b \in Nat /\ b <= Cardinality(all)  BY <1>0, <2>1
  <2> DEFINE Part == {x \in all : 1 <= 1 + Cardinality(InFront(R, all, x)) /\ 1 + Cardinality(InFront(R, all, x)) <= b}
  <2>3. Part = shown  BY <1>0, <1>1, <1>2, <2>1
  <2> HIDE DEF b
  <2>4. Cardinality(Part) = IF 1 > b THEN 0 ELSE b - 1 + 1
    <3>1. 1 \in Nat /\ 1 <= 1  OBVIOUS
    <3> QED  BY <1>0, <1>1, <2>2, <3>1, RankedBetween
  <2> HIDE DEF Part
  <2> QED  BY <2>2, <2>3, <2>4 DEF b
<1>5. (shown \subseteq primary) \/ (primary \subseteq shown)
  <2> SUFFICES ASSUME NEW o \in shown, o \notin primary, NEW p \in primary PROVE p \in shown  OBVIOUS
  <2>1. <<p, o>> \in R  BY <1>1
  <2> QED  BY <1>3, <2>1
<1>6. ASSUME NEW o \in shown, o.rec \in Grouped(all) PROVE PrimaryOf(all, o.rec) \in shown
  <2> DEFINE l == PrimaryOf(all, o.rec)
  <2>1. o \in Group(all, o.rec)  BY <1>1 DEF Group
  <2>2. l \in all /\ l.rec = o.rec
    <3>1. l \in Group(all, o.rec)  BY <2>1, PrimaryLeads
    <3> QED  BY <3>1 DEF Group
  <2>3. IsPrimary(all, l)  BY <2>2 DEF IsPrimary
  <2>4. CASE IsPrimary(all, o)
    <3>1. o = l  BY <1>6, <2>4 DEF IsPrimary
    <3> QED  BY <3>1
  <2>5. CASE ~ IsPrimary(all, o)
    <3>1. o \in all  BY <1>1
    <3>2. <<l, o>> \in R  BY <1>1, <2>2, <2>3, <2>5, <3>1
    <3> QED  BY <1>3, <2>2, <3>2
  <2> QED  BY <2>4, <2>5
<1>7. shown \subseteq all  BY <1>1
<1>8. ASSUME NEW rec \in Grouped(shown) PROVE PrimaryOf(shown, rec) = PrimaryOf(all, rec)
  <2>1. rec \in {o.rec : o \in shown} \ {NoRec} /\ Cardinality(Group(shown, rec)) >= 2  BY DEF Grouped
  <2>2. PICK o \in shown : o.rec = rec  BY <2>1
  <2>3. Group(shown, rec) \subseteq Group(all, rec) /\ Group(all, rec) \subseteq all  BY <1>7 DEF Group
  <2>4. Cardinality(Group(shown, rec)) <= Cardinality(Group(all, rec)) /\ IsFiniteSet(Group(all, rec))
        /\ IsFiniteSet(Group(shown, rec))
    BY <1>0, <2>3, FS_Subset
  <2>5. Cardinality(Group(all, rec)) >= 2
    <3>1. Cardinality(Group(shown, rec)) \in Nat /\ Cardinality(Group(all, rec)) \in Nat  BY <2>4, FS_CardinalityType
    <3> QED  BY <2>1, <2>4, <3>1
  <2>6. rec \in Grouped(all)
    <3>1. o \in all  BY <1>7
    <3> QED  BY <2>1, <2>2, <2>5, <3>1 DEF Grouped
  <2>7. PrimaryOf(all, rec) \in shown  BY <1>6, <2>2, <2>6
  <2>8. Group(all, rec) # {}  BY <1>7, <2>2 DEF Group
  <2> QED  BY <1>7, <2>7, <2>8, PrimaryOfPart
<1>9. ASSUME NEW o \in shown \intersect primary, NEW p \in primary \ shown PROVE Listed(o, p)
  <2>1. <<p, o>> \notin R  BY <1>3
  <2>2. o # p  BY <1>9
  <2>3. <<o, p>> \in R
    <3>1. o \in all /\ p \in all  OBVIOUS
    <3> QED  BY <1>1, <2>1, <2>2, <3>1 DEF Orders
  <2> QED  BY <1>1, <2>3
<1> QED  BY <1>4, <1>5, <1>6, <1>8, <1>9 DEF shown

(***************************************************************************)
(* What the builders make                                                  *)
(***************************************************************************)
\* Rows of some kinds
RowsOf(S, kinds) == Rows(S) /\ \A o \in S : o.kind \in kinds

\* Rows of different kinds can be listed together.
LEMMA RowsTogether ==
  ASSUME NEW S, NEW T, NEW K, NEW L, RowsOf(S, K), RowsOf(T, L), K \intersect L = {}
  PROVE  RowsOf(S \union T, K \union L)
<1>1. IsFiniteSet(S \union T)  BY FS_Union DEF RowsOf, Rows
<1>2. \A o, p \in S \union T : o.kind = p.kind /\ o.n = p.n => o = p
  <2> SUFFICES ASSUME NEW o \in S \union T, NEW p \in S \union T, o.kind = p.kind, o.n = p.n PROVE o = p  OBVIOUS
  <2>1. (o \in S /\ p \in S) \/ (o \in T /\ p \in T)  BY DEF RowsOf
  <2> QED  BY <2>1 DEF RowsOf, Rows
<1> QED  BY <1>1, <1>2 DEF RowsOf, Rows

\* f makes a row of this kind for each member of a finite set, each under a number of its own.
RowFor(f, I, kind) ==
  /\ IsFiniteSet(I) /\ kind \in DOMAIN IdOrder
  /\ \A i \in I : f[i].kind = kind /\ f[i].n \in Int /\ f[i].priority \in Int /\ f[i].impact \in Int
  /\ \A i, j \in I : f[i].n = f[j].n => f[i] = f[j]

\* What it makes can be listed.
LEMMA RowEach ==
  ASSUME NEW f, NEW I, NEW kind, RowFor(f, I, kind), NEW S, S = {f[i] : i \in I}
  PROVE  RowsOf(S, {kind})
<1>1. IsFiniteSet(S)  BY FiniteValues DEF RowFor
<1> QED  BY <1>1 DEF RowsOf, Rows, RowFor

\* The numbers up to n are finitely many.
LEMMA UpToFinite == ASSUME NEW n \in Nat PROVE IsFiniteSet(1 .. n)
BY FS_Interval

\* No rows are rows.
LEMMA NoRows == RowsOf({}, {})
BY FS_EmptySet DEF RowsOf, Rows

\* One row, or none
LEMMA OneRow ==
  ASSUME NEW o, NEW kind \in DOMAIN IdOrder, o.kind = kind, o.n \in Int, o.priority \in Int, o.impact \in Int
  PROVE  RowsOf({o}, {kind}) /\ RowsOf({}, {kind})
BY FS_EmptySet, FS_Singleton DEF RowsOf, Rows

\* An impact is a number.
LEMMA Impacts ==
  /\ \A x \in Int : ImpactScoreLoss(x) \in Int
  /\ \A x \in Int : PriorityFromImpact(x) \in Int
<1>1. ASSUME NEW x \in Int PROVE ImpactScoreLoss(x) \in Int
  <2>1. (100 * x) \div 15 \in Int  OBVIOUS
  <2>2. Min({100, (100 * x) \div 15}) \in Int  BY <2>1, LesserOfTwo
  <2> QED  BY <2>2 DEF ImpactScoreLoss
<1>2. \A x \in Int : PriorityFromImpact(x) \in Int  BY DEF PriorityFromImpact
<1> QED  BY <1>1, <1>2

\* A scan as the rules read it
ScanFacts(scan) ==
  /\ DOMAIN scan.lost \subseteq DOMAIN SignalNo /\ {"links", "schema"} \subseteq DOMAIN scan.lost
  /\ \A s \in DOMAIN scan.lost : scan.lost[s] \in Int
  /\ \A s \in DOMAIN scan.advice : scan.advice[s] \in Int
  /\ scan.checks \in Int
  /\ IsFiniteSet(DOMAIN scan.graph) /\ \A n \in DOMAIN scan.graph : n \in Int /\ scan.graph[n] \in Int
  /\ IsFiniteSet(DOMAIN scan.clusters)
  /\ \A n \in DOMAIN scan.clusters :
       n \in Int /\ scan.clusters[n][1] \in DOMAIN ClusterImpact /\ scan.clusters[n][2] \in {"high", "medium"}
  /\ DOMAIN scan.repeated \subseteq {"title", "h1", "description"}
  /\ \A e \in DOMAIN scan.repeated : scan.repeated[e] \in Int
  /\ scan.thin \in Int
  /\ IsFiniteSet(scan.questions) /\ scan.questions \subseteq Int

\* One row for a signal that lost points
LEMMA ScoreLossRows == ASSUME NEW scan, ScanFacts(scan) PROVE RowsOf(ScoreLossOpps(scan), {"score_loss"})
<1> DEFINE I == {t \in DOMAIN scan.lost : scan.lost[t] > 0}
           row(s) == LET impact == ImpactScoreLoss(scan.lost[s]) IN
                     IF s \in DOMAIN scan.advice THEN Opp("score_loss", SignalNo[s], scan.advice[s], impact, s)
                     ELSE Opp("score_loss", SignalNo[s], PriorityFromImpact(impact), impact, NoRec)
           f == [s \in I |-> row(s)]
<1>1. IsFiniteSet(I)
  <2>1. DOMAIN SignalNo \subseteq {"content", "links", "schema", "links"}  BY DEF SignalNo
  <2>2. I \subseteq {"content", "links", "schema", "links"}  BY <2>1 DEF ScanFacts
  <2>3. IsFiniteSet({"content", "links", "schema", "links"})  BY FiniteFour
  <2> HIDE DEF I
  <2> QED  BY <2>2, <2>3, FS_Subset
<1>2. ASSUME NEW s \in I
      PROVE  f[s].kind = "score_loss" /\ f[s].n = SignalNo[s] /\ SignalNo[s] \in Int
             /\ f[s].priority \in Int /\ f[s].impact \in Int /\ s \in DOMAIN SignalNo
  <2>1. scan.lost[s] \in Int /\ s \in DOMAIN SignalNo  BY DEF ScanFacts
  <2>2. ImpactScoreLoss(scan.lost[s]) \in Int /\ PriorityFromImpact(ImpactScoreLoss(scan.lost[s])) \in Int
    BY <2>1, Impacts
  <2>3. SignalNo[s] \in Int  BY <2>1 DEF SignalNo
  <2> HIDE DEF I
  <2> QED  BY <2>1, <2>2, <2>3 DEF Opp, ScanFacts
<1>3. \A s, t \in DOMAIN SignalNo : SignalNo[s] = SignalNo[t] => s = t  BY DEF SignalNo
<1>4. ScoreLossOpps(scan) = {f[s] : s \in I}  BY DEF ScoreLossOpps
<1>5. "score_loss" \in DOMAIN IdOrder  BY DEF IdOrder
<1> HIDE DEF I, f
<1>6. \A s, t \in I : f[s].n = f[t].n => f[s] = f[t]  BY <1>2, <1>3
<1>20. RowFor(f, I, "score_loss")  BY <1>1, <1>2, <1>5, <1>6 DEF RowFor
<1> QED  BY <1>4, <1>20, RowEach

\* One row for a prompt no answer to which names the brand
LEMMA AnswerGapRows == ASSUME NEW run, AnalysedRun(run) PROVE RowsOf(AnswerGapOpps(run), {"answer_gap"})
<1> DEFINE I == {q \in PromptsOf(run) : IsGap(run, q)}
           f == [p \in I |-> Opp("answer_gap", p, PriorityFromImpact(100), 100, NoRec)]
<1>1. IsFiniteSet(I)
  <2>1. I \subseteq PromptsOf(run)  OBVIOUS
  <2> HIDE DEF I
  <2> QED  BY <2>1, RunIsFinite, FS_Subset
<1>2. I \subseteq Int  BY DEF PromptsOf, Successful, AnalysedRun
<1>3. AnswerGapOpps(run) = {f[p] : p \in I}  BY DEF AnswerGapOpps
<1>4. "answer_gap" \in DOMAIN IdOrder /\ PriorityFromImpact(100) \in Int  BY Impacts DEF IdOrder
<1> HIDE DEF I
<1>5. \A p \in I : f[p].kind = "answer_gap" /\ f[p].n = p /\ f[p].priority \in Int /\ f[p].impact \in Int
  BY <1>4 DEF Opp
<1> HIDE DEF f
<1>6. (\A p \in I : f[p].n \in Int) /\ \A p, q \in I : f[p].n = f[q].n => f[p] = f[q]  BY <1>2, <1>5
<1>20. RowFor(f, I, "answer_gap")  BY <1>1, <1>4, <1>5, <1>6 DEF RowFor
<1> QED  BY <1>3, <1>20, RowEach

\* One row for a competitor named where the brand is not
LEMMA CompetitorRows == ASSUME NEW run, AnalysedRun(run) PROVE RowsOf(CompetitorOpps(run), {"competitor_gap"})
<1> DEFINE I == {d \in Entries(run) \ {Brand} : HeadToHead(run, d) > 0}
           impact(e) == Min({100, (100 * HeadToHead(run, e)) \div Cardinality(PromptsOf(run))})
           f == [e \in I |-> Opp("competitor_gap", e, PriorityFromImpact(impact(e)), impact(e), NoRec)]
<1>1. IsFiniteSet(I) /\ I \subseteq Entries(run) /\ I \subseteq Int
  <2>1. I \subseteq Entries(run)  OBVIOUS
  <2> HIDE DEF I
  <2> QED  BY <2>1, RunIsFinite, FS_Subset
<1>2. CompetitorOpps(run) = {f[e] : e \in I}  BY DEF CompetitorOpps
<1>3. "competitor_gap" \in DOMAIN IdOrder  BY DEF IdOrder
<1> HIDE DEF I
<1>4. ASSUME NEW e \in I PROVE impact(e) \in Int
  <2>1. PromptsOf(run) # {}  BY <1>1 DEF Entries, PromptsOf
  <2>2. Cardinality(PromptsOf(run)) \in Nat \ {0}  BY <2>1, RunIsFinite, FS_CardinalityType, FS_EmptySet
  <2>3. HeadToHead(run, e) \in Nat  BY HeadToHeadCounts
  <2>4. (100 * HeadToHead(run, e)) \div Cardinality(PromptsOf(run)) \in Int  BY <2>2, <2>3
  <2> QED  BY <2>4, LesserOfTwo
<1> HIDE DEF impact
<1>5. \A e \in I : f[e].kind = "competitor_gap" /\ f[e].n = e /\ f[e].priority \in Int /\ f[e].impact \in Int
  BY <1>4, Impacts DEF Opp
<1> HIDE DEF f
<1>6. (\A p \in I : f[p].n \in Int) /\ \A p, q \in I : f[p].n = f[q].n => f[p] = f[q]  BY <1>1, <1>5
<1>20. RowFor(f, I, "competitor_gap")  BY <1>1, <1>3, <1>5, <1>6 DEF RowFor
<1> QED  BY <1>2, <1>20, RowEach

\* At most one row for citations
LEMMA CitationRows == ASSUME NEW run PROVE RowsOf(CitationOpps(run), {"citation_gap"})
<1> DEFINE o == Opp("citation_gap", 0, PriorityFromImpact(100), 100, NoRec)
<1>1. "citation_gap" \in DOMAIN IdOrder /\ PriorityFromImpact(100) \in Int  BY Impacts DEF IdOrder
<1>2. o.kind = "citation_gap" /\ o.n \in Int /\ o.priority \in Int /\ o.impact \in Int  BY <1>1 DEF Opp
<1>3. CitationOpps(run) = {o} \/ CitationOpps(run) = {}  BY DEF CitationOpps
<1> HIDE DEF o
<1>4. RowsOf({o}, {"citation_gap"}) /\ RowsOf({}, {"citation_gap"})  BY <1>1, <1>2, OneRow
<1> QED  BY <1>3, <1>4

\* One row for a schema type that is missing
LEMMA SchemaRows == ASSUME NEW scan, ScanFacts(scan) PROVE RowsOf(SchemaOpps(scan), {"schema_gap"})
<1> DEFINE impact == ImpactScoreLoss(scan.lost.schema)
           priority == IF 1 \in MissingTypes(scan) THEN High ELSE PriorityFromImpact(impact)
           I == MissingTypes(scan)
           f == [n \in I |-> Opp("schema_gap", n, priority, impact, "schema")]
<1>1. I \subseteq 1 .. 8 /\ IsFiniteSet(1 .. 8) /\ I \subseteq Int
  <2>1. DOMAIN SchemaType = 1 .. 8  BY DEF SchemaType
  <2>2. I \subseteq DOMAIN SchemaType  BY DEF MissingTypes
  <2>3. IsFiniteSet(1 .. 8)  BY UpToFinite
  <2>4. 1 .. 8 \subseteq Int  OBVIOUS
  <2> HIDE DEF I
  <2> QED  BY <2>1, <2>2, <2>3, <2>4
<1>2. SchemaOpps(scan) = {f[n] : n \in I}  BY DEF SchemaOpps
<1>3. "schema_gap" \in DOMAIN IdOrder  BY DEF IdOrder
<1>4. impact \in Int  BY Impacts DEF ScanFacts
<1> HIDE DEF impact
<1>5. priority \in Int  BY <1>4, Impacts DEF High
<1> HIDE DEF priority, I
<1>6. \A e \in I : f[e].kind = "schema_gap" /\ f[e].n = e /\ f[e].priority \in Int /\ f[e].impact \in Int
  BY <1>4, <1>5 DEF Opp
<1> HIDE DEF f
<1>7. (\A p \in I : f[p].n \in Int) /\ \A p, q \in I : f[p].n = f[q].n => f[p] = f[q]  BY <1>1, <1>6
<1>8. IsFiniteSet(I)  BY <1>1, FS_Subset
<1>20. RowFor(f, I, "schema_gap")  BY <1>3, <1>6, <1>7, <1>8 DEF RowFor
<1> QED  BY <1>2, <1>20, RowEach

\* One row for an issue of internal links
LEMMA LinkRows == ASSUME NEW scan, ScanFacts(scan) PROVE RowsOf(LinkOpps(scan), {"link_opportunity"})
<1> DEFINE impact == ImpactScoreLoss(scan.lost.links)
           I == LinkIssues(scan)
           f == [n \in I |-> Opp("link_opportunity", n, IF n = 1 THEN High ELSE PriorityFromImpact(impact), impact, "links")]
<1>1. I \subseteq 1 .. 3 /\ IsFiniteSet(1 .. 3) /\ I \subseteq Int
  <2>1. I \subseteq 1 .. 3  BY DEF LinkIssues
  <2>2. IsFiniteSet(1 .. 3)  BY UpToFinite
  <2>3. 1 .. 3 \subseteq Int  OBVIOUS
  <2> HIDE DEF I
  <2> QED  BY <2>1, <2>2, <2>3
<1>2. LinkOpps(scan) = {f[n] : n \in I}  BY DEF LinkOpps
<1>3. "link_opportunity" \in DOMAIN IdOrder  BY DEF IdOrder
<1>4. impact \in Int  BY Impacts DEF ScanFacts
<1> HIDE DEF impact, I
<1>6. \A e \in I : f[e].kind = "link_opportunity" /\ f[e].n = e /\ f[e].priority \in Int /\ f[e].impact \in Int
  BY <1>4, Impacts DEF Opp, High
<1> HIDE DEF f
<1>7. (\A p \in I : f[p].n \in Int) /\ \A p, q \in I : f[p].n = f[q].n => f[p] = f[q]  BY <1>1, <1>6
<1>8. IsFiniteSet(I)  BY <1>1, FS_Subset
<1>20. RowFor(f, I, "link_opportunity")  BY <1>3, <1>6, <1>7, <1>8 DEF RowFor
<1> QED  BY <1>2, <1>20, RowEach

\* At most one row for the entity signals
LEMMA EntityRows == ASSUME NEW scan, ScanFacts(scan) PROVE RowsOf(EntityOpps(scan), {"entity_gap"})
<1> DEFINE impact == 100 - (IF Completeness(scan) = 0 THEN 100 ELSE Completeness(scan))
           o == Opp("entity_gap", 0, PriorityFromImpact(impact), impact, "schema")
<1>0. impact \in Int
  <2>1. Completeness(scan) \in Int  BY DEF Completeness, EntityChecks, ScanFacts
  <2> QED  BY <2>1
<1>1. EntityOpps(scan) = {o} \/ EntityOpps(scan) = {}  BY DEF EntityOpps
<1> HIDE DEF impact
<1>2. "entity_gap" \in DOMAIN IdOrder /\ PriorityFromImpact(impact) \in Int  BY <1>0, Impacts DEF IdOrder
<1>3. o.kind = "entity_gap" /\ o.n \in Int /\ o.priority \in Int /\ o.impact \in Int  BY <1>0, <1>2 DEF Opp
<1> HIDE DEF o
<1>4. RowsOf({o}, {"entity_gap"}) /\ RowsOf({}, {"entity_gap"})  BY <1>2, <1>3, OneRow
<1> QED  BY <1>1, <1>4

\* One row for an issue of the link graph
LEMMA GraphRows == ASSUME NEW scan, ScanFacts(scan) PROVE RowsOf(CrawlGraphOpps(scan), {"crawl_graph"})
<1> DEFINE I == {m \in DOMAIN scan.graph : scan.graph[m] > 0}
           f == [n \in I |-> Opp("crawl_graph", n, PriorityFromImpact(scan.graph[n]), scan.graph[n], "links")]
<1>1. I \subseteq DOMAIN scan.graph /\ IsFiniteSet(DOMAIN scan.graph) /\ \A n \in I : n \in Int /\ scan.graph[n] \in Int
  BY DEF ScanFacts
<1>2. CrawlGraphOpps(scan) = {f[n] : n \in I}  BY DEF CrawlGraphOpps
<1>3. "crawl_graph" \in DOMAIN IdOrder  BY DEF IdOrder
<1> HIDE DEF I
<1>6. \A e \in I : f[e].kind = "crawl_graph" /\ f[e].n = e /\ f[e].priority \in Int /\ f[e].impact \in Int
  BY <1>1, Impacts DEF Opp
<1> HIDE DEF f
<1>7. (\A p \in I : f[p].n \in Int) /\ \A p, q \in I : f[p].n = f[q].n => f[p] = f[q]  BY <1>1, <1>6
<1>8. IsFiniteSet(I)  BY <1>1, FS_Subset
<1>20. RowFor(f, I, "crawl_graph")  BY <1>3, <1>6, <1>7, <1>8 DEF RowFor
<1> QED  BY <1>2, <1>20, RowEach

\* One row for a cluster of similar pages
LEMMA ClusterRows ==
  ASSUME NEW scan, ScanFacts(scan)
  PROVE  LET impact(n) == ClusterImpact[scan.clusters[n][1]][scan.clusters[n][2]] IN
         RowsOf({Opp("content_cluster", n, PriorityFromImpact(impact(n)), impact(n), "content") : n \in DOMAIN scan.clusters},
                {"content_cluster"})
<1> DEFINE impact(n) == ClusterImpact[scan.clusters[n][1]][scan.clusters[n][2]]
           I == DOMAIN scan.clusters
           f == [n \in I |-> Opp("content_cluster", n, PriorityFromImpact(impact(n)), impact(n), "content")]
           rows == {Opp("content_cluster", n, PriorityFromImpact(impact(n)), impact(n), "content") : n \in I}
<1>1. IsFiniteSet(I) /\ I \subseteq Int  BY DEF ScanFacts
<1>2. \A k \in DOMAIN ClusterImpact, c \in {"high", "medium"} : ClusterImpact[k][c] \in Int  BY DEF ClusterImpact
<1>3. \A n \in I : impact(n) \in Int  BY <1>2 DEF ScanFacts
<1>4. rows = {f[n] : n \in I}  OBVIOUS
<1>5. "content_cluster" \in DOMAIN IdOrder  BY DEF IdOrder
<1> HIDE DEF I, impact
<1>6. \A e \in I : f[e].kind = "content_cluster" /\ f[e].n = e /\ f[e].priority \in Int /\ f[e].impact \in Int
  BY <1>3, Impacts DEF Opp
<1> HIDE DEF f
<1>7. (\A p \in I : f[p].n \in Int) /\ \A p, q \in I : f[p].n = f[q].n => f[p] = f[q]  BY <1>1, <1>6
<1> HIDE DEF rows
<1>20. RowFor(f, I, "content_cluster")  BY <1>1, <1>5, <1>6, <1>7 DEF RowFor
<1>8. RowsOf(rows, {"content_cluster"})  BY <1>4, <1>20, RowEach
<1> QED  BY <1>8 DEF rows, I, impact

\* One row for an element that pages repeat
LEMMA RepeatRows ==
  ASSUME NEW scan, ScanFacts(scan)
  PROVE  LET repeats == [title |-> [no |-> 3, rec |-> "metadata"], h1 |-> [no |-> 1, rec |-> "content"],
                         description |-> [no |-> 2, rec |-> "metadata"]] IN
         RowsOf({Opp("content_duplicate", repeats[e].no, PriorityFromImpact(scan.repeated[e]), scan.repeated[e],
                     repeats[e].rec) : e \in DOMAIN scan.repeated}, {"content_duplicate"})
<1> DEFINE repeats == [title |-> [no |-> 3, rec |-> "metadata"], h1 |-> [no |-> 1, rec |-> "content"],
                       description |-> [no |-> 2, rec |-> "metadata"]]
           I == DOMAIN scan.repeated
           f == [e \in I |-> Opp("content_duplicate", repeats[e].no, PriorityFromImpact(scan.repeated[e]),
                                 scan.repeated[e], repeats[e].rec)]
           rows == {Opp("content_duplicate", repeats[e].no, PriorityFromImpact(scan.repeated[e]), scan.repeated[e],
                     repeats[e].rec) : e \in I}
<1>1. I \subseteq {"title", "h1", "description"} /\ \A e \in I : scan.repeated[e] \in Int  BY DEF ScanFacts
<1>2. IsFiniteSet({"title", "h1", "description", "title"})  BY FiniteFour
<1>3. IsFiniteSet(I)
  <2>1. I \subseteq {"title", "h1", "description", "title"}  BY <1>1
  <2> QED  BY <1>2, <2>1, FS_Subset
<1>4. \A e, d \in {"title", "h1", "description"} :
        repeats[e].no \in Int /\ (repeats[e].no = repeats[d].no => e = d)  OBVIOUS
<1>5. rows = {f[n] : n \in I}  OBVIOUS
<1>6. "content_duplicate" \in DOMAIN IdOrder  BY DEF IdOrder
<1> HIDE DEF I, repeats
<1>7. \A e \in I : f[e].kind = "content_duplicate" /\ f[e].n = repeats[e].no /\ f[e].priority \in Int /\ f[e].impact \in Int
  BY <1>1, Impacts DEF Opp
<1>8. (\A p \in I : f[p].n \in Int) /\ \A p, q \in I : f[p].n = f[q].n => f[p] = f[q]
  <2> HIDE DEF f
  <2>1. \A p \in I : f[p].n = repeats[p].no /\ p \in {"title", "h1", "description"}  BY <1>1, <1>7
  <2> QED  BY <1>4, <2>1
<1> HIDE DEF f, rows
<1>20. RowFor(f, I, "content_duplicate")  BY <1>3, <1>6, <1>7, <1>8 DEF RowFor
<1>9. RowsOf(rows, {"content_duplicate"})  BY <1>5, <1>20, RowEach
<1> QED  BY <1>9 DEF rows, I, repeats

\* The rows on content are of three kinds.
LEMMA ContentRows ==
  ASSUME NEW scan, ScanFacts(scan)
  PROVE  RowsOf(ContentOpps(scan), {"content_cluster", "content_duplicate", "content_thin"})
<1> DEFINE impact(n) == ClusterImpact[scan.clusters[n][1]][scan.clusters[n][2]]
           repeats == [title |-> [no |-> 3, rec |-> "metadata"], h1 |-> [no |-> 1, rec |-> "content"],
                       description |-> [no |-> 2, rec |-> "metadata"]]
           A == {Opp("content_cluster", n, PriorityFromImpact(impact(n)), impact(n), "content") : n \in DOMAIN scan.clusters}
           B == {Opp("content_duplicate", repeats[e].no, PriorityFromImpact(scan.repeated[e]), scan.repeated[e],
                     repeats[e].rec) : e \in DOMAIN scan.repeated}
           o == Opp("content_thin", 0, PriorityFromImpact(scan.thin), scan.thin, "content")
           C == IF scan.thin = 0 THEN {} ELSE {o}
<1>1. ContentOpps(scan) = (A \union B) \union C  BY DEF ContentOpps
<1>2. RowsOf(A, {"content_cluster"})  BY ClusterRows
<1>3. RowsOf(B, {"content_duplicate"})  BY RepeatRows
<1>4. RowsOf(C, {"content_thin"})
  <2>1. "content_thin" \in DOMAIN IdOrder  BY DEF IdOrder
  <2>2. o.kind = "content_thin" /\ o.n \in Int /\ o.priority \in Int /\ o.impact \in Int  BY Impacts DEF Opp, ScanFacts
  <2> HIDE DEF o
  <2>3. RowsOf({o}, {"content_thin"}) /\ RowsOf({}, {"content_thin"})  BY <2>1, <2>2, OneRow
  <2> QED  BY <2>3
<1> HIDE DEF A, B, C
<1>5. RowsOf(A \union B, {"content_cluster"} \union {"content_duplicate"})
  <2>1. {"content_cluster"} \intersect {"content_duplicate"} = {}  OBVIOUS
  <2> QED  BY <1>2, <1>3, <2>1, RowsTogether
<1>6. RowsOf((A \union B) \union C, ({"content_cluster"} \union {"content_duplicate"}) \union {"content_thin"})
  <2>1. ({"content_cluster"} \union {"content_duplicate"}) \intersect {"content_thin"} = {}  OBVIOUS
  <2> QED  BY <1>4, <1>5, <2>1, RowsTogether
<1>7. ({"content_cluster"} \union {"content_duplicate"}) \union {"content_thin"}
      = {"content_cluster", "content_duplicate", "content_thin"}  OBVIOUS
<1> QED  BY <1>1, <1>6, <1>7

\* One row for a question that is not tracked
LEMMA QuestionRows ==
  ASSUME NEW run, NEW scan, ScanFacts(scan)
  PROVE  RowsOf(QuestionOpps(run, scan), {"question_opportunity"})
<1> DEFINE I == scan.questions \ PromptsOf(run)
           f == [q \in I |-> Opp("question_opportunity", q, Low, NoImpact, NoRec)]
<1>1. IsFiniteSet(I) /\ I \subseteq Int
  <2>1. I \subseteq scan.questions /\ IsFiniteSet(scan.questions) /\ scan.questions \subseteq Int  BY DEF ScanFacts
  <2> HIDE DEF I
  <2> QED  BY <2>1, FS_Subset
<1>2. QuestionOpps(run, scan) = {f[q] : q \in I}  BY DEF QuestionOpps
<1>3. "question_opportunity" \in DOMAIN IdOrder  BY DEF IdOrder
<1> HIDE DEF I
<1>4. \A e \in I : f[e].kind = "question_opportunity" /\ f[e].n = e /\ f[e].priority \in Int /\ f[e].impact \in Int
  BY DEF Opp, Low, NoImpact
<1> HIDE DEF f
<1>5. (\A p \in I : f[p].n \in Int) /\ \A p, q \in I : f[p].n = f[q].n => f[p] = f[q]  BY <1>1, <1>4
<1>20. RowFor(f, I, "question_opportunity")  BY <1>1, <1>3, <1>4, <1>5 DEF RowFor
<1> QED  BY <1>2, <1>20, RowEach

\* No two opportunities of a run and a scan go under one id.
LEMMA OpportunitiesAreRows ==
  ASSUME NEW run, AnalysedRun(run), NEW scan, ScanFacts(scan)
  PROVE  Rows(Opportunities(run, scan))
<1> DEFINE A == ScoreLossOpps(scan)
           B == AnswerGapOpps(run)
           C == CompetitorOpps(run)
           D == CitationOpps(run)
           E == SchemaOpps(scan)
           F == LinkOpps(scan)
           G == EntityOpps(scan)
           H == CrawlGraphOpps(scan)
           J == ContentOpps(scan)
           K == QuestionOpps(run, scan)
<1>1. Opportunities(run, scan) = ((((((((A \union B) \union C) \union D) \union E) \union F) \union G) \union H) \union J) \union K
  BY DEF Opportunities
<1>2. /\ RowsOf(A, {"score_loss"}) /\ RowsOf(B, {"answer_gap"}) /\ RowsOf(C, {"competitor_gap"}) /\ RowsOf(D, {"citation_gap"})
      /\ RowsOf(E, {"schema_gap"}) /\ RowsOf(F, {"link_opportunity"}) /\ RowsOf(G, {"entity_gap"})
      /\ RowsOf(H, {"crawl_graph"}) /\ RowsOf(J, {"content_cluster", "content_duplicate", "content_thin"})
      /\ RowsOf(K, {"question_opportunity"})
  BY ScoreLossRows, AnswerGapRows, CompetitorRows, CitationRows, SchemaRows, LinkRows, EntityRows, GraphRows,
     ContentRows, QuestionRows
<1> HIDE DEF A, B, C, D, E, F, G, H, J, K
<1>3. RowsOf(A \union B, {"score_loss", "answer_gap"})
  <2>1. {"score_loss"} \intersect {"answer_gap"} = {}  OBVIOUS
  <2>2. {"score_loss"} \union {"answer_gap"} = {"score_loss", "answer_gap"}  OBVIOUS
  <2>3. RowsOf(A \union B, {"score_loss"} \union {"answer_gap"})  BY <1>2, <2>1, RowsTogether
  <2> QED  BY <2>2, <2>3
<1> DEFINE k3 == {"score_loss", "answer_gap"} \union {"competitor_gap"}
           k4 == k3 \union {"citation_gap"}
           k5 == k4 \union {"schema_gap"}
           k6 == k5 \union {"link_opportunity"}
           k7 == k6 \union {"entity_gap"}
           k8 == k7 \union {"crawl_graph"}
           k9 == k8 \union {"content_cluster", "content_duplicate", "content_thin"}
<1>4. /\ {"score_loss", "answer_gap"} \intersect {"competitor_gap"} = {} /\ k3 \intersect {"citation_gap"} = {}
      /\ k4 \intersect {"schema_gap"} = {} /\ k5 \intersect {"link_opportunity"} = {} /\ k6 \intersect {"entity_gap"} = {}
      /\ k7 \intersect {"crawl_graph"} = {}
      /\ k8 \intersect {"content_cluster", "content_duplicate", "content_thin"} = {}
      /\ k9 \intersect {"question_opportunity"} = {}
  OBVIOUS
<1> DEFINE s3 == (A \union B) \union C
           s4 == s3 \union D
           s5 == s4 \union E
           s6 == s5 \union F
           s7 == s6 \union G
           s8 == s7 \union H
           s9 == s8 \union J
<1>10. Opportunities(run, scan) = s9 \union K  BY <1>1
<1>11. RowsOf(s3, k3)  BY <1>2, <1>3, <1>4, RowsTogether
<1> HIDE DEF s3, k3
<1>12. RowsOf(s4, k4)  BY <1>2, <1>4, <1>11, RowsTogether
<1> HIDE DEF s4, k4
<1>13. RowsOf(s5, k5)  BY <1>2, <1>4, <1>12, RowsTogether
<1> HIDE DEF s5, k5
<1>14. RowsOf(s6, k6)  BY <1>2, <1>4, <1>13, RowsTogether
<1> HIDE DEF s6, k6
<1>15. RowsOf(s7, k7)  BY <1>2, <1>4, <1>14, RowsTogether
<1> HIDE DEF s7, k7
<1>16. RowsOf(s8, k8)  BY <1>2, <1>4, <1>15, RowsTogether
<1> HIDE DEF s8, k8
<1>17. RowsOf(s9, k9)  BY <1>2, <1>4, <1>16, RowsTogether
<1> HIDE DEF s9, k9
<1>18. RowsOf(s9 \union K, k9 \union {"question_opportunity"})  BY <1>2, <1>4, <1>17, RowsTogether
<1> QED  BY <1>10, <1>18 DEF RowsOf

\* What a free account sees of the opportunities stands on its own (PreviewStands), for every
\* run, every scan and every limit.
THEOREM PreviewAlwaysStands ==
  ASSUME NEW run, AnalysedRun(run), NEW scan, ScanFacts(scan)
  PROVE  PreviewStands(run, scan)
BY OpportunitiesAreRows, PreviewOfRows, Zenon DEF PreviewStands
=============================================================================
