-------------------------------- MODULE Sums --------------------------------
(***************************************************************************)
(* Facts about SumFunctionOnSet, the sum of a function over a finite set   *)
(* of its arguments: the aggregates of a project and the totals of a       *)
(* ballot are such sums.  The sum is a recursive function, so the facts    *)
(* are proved by looking at a minimal set that would break them.           *)
(***************************************************************************)
EXTENDS Integers, Functions, FiniteSetTheorems, WellFoundedInduction, TLAPS

LEMMA MinimalSubset ==
    ASSUME NEW S, IsFiniteSet(S), NEW B, B \subseteq SUBSET S, B # {}
    PROVE  \E u \in B : \A v \in B : v \subseteq u => v = u
  <1>1. IsWellFoundedOn(StrictSubsetOrdering(S), SUBSET S)
    BY FS_StrictSubsetOrderingWellFounded, FS_FiniteSubsetsOfFinite
  <1>2. PICK u \in B : \A v \in B : ~ (<<v, u>> \in StrictSubsetOrdering(S))
    BY <1>1, WFMin
  <1> QED
    BY <1>2 DEF StrictSubsetOrdering

-----------------------------------------------------------------------------
(* The recursive function behind the sum                                   *)

IsSum(f, g, S) ==
    g = [s \in SUBSET S |->
           IF s = {} THEN 0
           ELSE LET x == CHOOSE x \in s : TRUE IN f[x] + g[s \ {x}]]

LEMMA IsSumAt ==
    ASSUME NEW f, NEW g, NEW S, IsSum(f, g, S), NEW s \in SUBSET S
    PROVE  /\ s = {} => g[s] = 0
           /\ s # {} => g[s] = f[CHOOSE x \in s : TRUE] + g[s \ {CHOOSE x \in s : TRUE}]
  BY DEF IsSum

\* Two sums agree on every set on which the summed functions agree.
LEMMA SumsAgree ==
    ASSUME NEW f, NEW g, NEW S, IsSum(f, g, S), NEW e, NEW h, NEW T, IsSum(e, h, T),
           NEW U, IsFiniteSet(U), U \subseteq S, U \subseteq T, \A x \in U : f[x] = e[x]
    PROVE  g[U] = h[U]
  <1> DEFINE Bad == {s \in SUBSET U : g[s] # h[s]}
  <1>1. SUFFICES ASSUME Bad # {} PROVE FALSE
    OBVIOUS
  <1>2. PICK s \in Bad : \A t \in Bad : t \subseteq s => t = s
    <2>1. Bad \subseteq SUBSET U
      OBVIOUS
    <2> HIDE DEF Bad
    <2> QED BY <1>1, <2>1, MinimalSubset
  <1>3. s \in SUBSET S /\ s \in SUBSET T
    BY <1>2
  <1>4. CASE s = {}
    <2>1. g[s] = 0 /\ h[s] = 0
      BY <1>3, <1>4, IsSumAt
    <2> QED BY <1>2, <2>1
  <1>5. CASE s # {}
    <2> DEFINE x == CHOOSE x \in s : TRUE
               r == s \ {x}
    <2>1. x \in s /\ f[x] = e[x]
      BY <1>2, <1>5
    <2>2. g[r] = h[r]
      BY <1>2, <2>1
    <2>3. g[s] = f[x] + g[r] /\ h[s] = e[x] + h[r]
      <3>1. g[s] = f[x] + g[r]
        BY <1>3, <1>5, IsSumAt
      <3>2. h[s] = e[x] + h[r]
        BY <1>3, <1>5, IsSumAt
      <3> QED BY <3>1, <3>2
    <2> HIDE DEF x, r
    <2>4. g[s] = h[s]
      BY <2>1, <2>2, <2>3
    <2> QED BY <1>2, <2>4
  <1> QED BY <1>4, <1>5

LEMMA SumExists ==
    ASSUME NEW f, NEW S, IsFiniteSet(S)
    PROVE  \E g : IsSum(f, g, S)
  <1> DEFINE Bad == {s \in SUBSET S : ~ \E g : IsSum(f, g, s)}
  <1>1. SUFFICES ASSUME Bad # {} PROVE FALSE
    OBVIOUS
  <1>2. PICK s \in Bad : \A t \in Bad : t \subseteq s => t = s
    <2>1. Bad \subseteq SUBSET S
      OBVIOUS
    <2> HIDE DEF Bad
    <2> QED BY <1>1, <2>1, MinimalSubset
  <1> DEFINE G(t) == CHOOSE g : IsSum(f, g, t)
             C(t) == CHOOSE x \in t : TRUE
             V(t) == IF t = {} THEN 0 ELSE f[C(t)] + G(t \ {C(t)})[t \ {C(t)}]
             k == [t \in SUBSET s |-> V(t)]
  <1>3. ASSUME NEW t \in SUBSET s, t # s PROVE IsSum(f, G(t), t) /\ IsFiniteSet(t)
    <2>1. t \in SUBSET S /\ t \notin Bad
      BY <1>2, <1>3
    <2>2. \E g : IsSum(f, g, t)
      BY <2>1
    <2>3. IsFiniteSet(t)
      BY <2>1, FS_Subset
    <2> QED BY <2>2, <2>3
  <1>4. ASSUME NEW t \in SUBSET s, t # s PROVE V(t) = G(t)[t]
    <2>1. IsSum(f, G(t), t)
      BY <1>3, <1>4
    <2>2. CASE t = {}
      <3> HIDE DEF G
      <3>1. G(t)[t] = 0
        BY <2>1, <2>2, IsSumAt
      <3> QED BY <2>2, <3>1
    <2>3. CASE t # {}
      <3> DEFINE r == t \ {C(t)}
      <3>1. C(t) \in t /\ r \in SUBSET s /\ r # s /\ r \subseteq t
        BY <2>3
      <3>2. IsSum(f, G(r), r) /\ IsFiniteSet(r)
        BY <1>3, <3>1
      <3>3. G(t)[r] = G(r)[r]
        <4> HIDE DEF G, r
        <4> QED BY <2>1, <3>1, <3>2, SumsAgree
      <3>4. G(t)[t] = f[C(t)] + G(t)[r]
        <4> HIDE DEF G
        <4> QED BY <2>1, <2>3, IsSumAt
      <3> QED BY <2>3, <3>3, <3>4
    <2> QED BY <2>2, <2>3
  <1>5. ASSUME NEW t \in SUBSET s, t # {}
        PROVE  k[t] = f[C(t)] + k[t \ {C(t)}]
    <2>1. C(t) \in t
      BY <1>5
    <2>2. (t \ {C(t)}) \in SUBSET s /\ (t \ {C(t)}) # s
      BY <2>1
    <2>3. k[t \ {C(t)}] = G(t \ {C(t)})[t \ {C(t)}]
      BY <1>4, <2>2
    <2> QED BY <1>5, <2>3
  <1>6. k[{}] = 0
    OBVIOUS
  <1>7. IsSum(f, k, s)
    <2> DEFINE Rhs == [t \in SUBSET s |->
                         IF t = {} THEN 0
                         ELSE LET x == CHOOSE x \in t : TRUE IN f[x] + k[t \ {x}]]
    <2>1. ASSUME NEW t \in SUBSET s PROVE k[t] = Rhs[t]
      <3> HIDE DEF k
      <3> QED BY <1>5, <1>6
    <2>2. k = Rhs
      <3>1. k = [t \in SUBSET s |-> k[t]] /\ Rhs = [t \in SUBSET s |-> Rhs[t]]
        OBVIOUS
      <3> HIDE DEF k, Rhs
      <3> QED BY <2>1, <3>1
    <2> QED BY <2>2 DEF IsSum
  <1> QED BY <1>2, <1>7

LEMMA SumIsSum ==
    ASSUME NEW f, NEW S, IsFiniteSet(S)
    PROVE  \E g : IsSum(f, g, S) /\ SumFunctionOnSet(f, S) = g[S]
  <1> DEFINE iter == CHOOSE g : IsSum(f, g, S)
  <1>1. IsSum(f, iter, S)
    BY SumExists
  <1>2. SumFunctionOnSet(f, S) = iter[S]
    BY DEF SumFunctionOnSet, FoldFunctionOnSet, MapThenFoldSet, IsSum
  <1> QED BY <1>1, <1>2

-----------------------------------------------------------------------------
(* The facts the other proof modules use                                   *)

\* The sum over no arguments is zero.
THEOREM SumOfNone == \A f : SumFunctionOnSet(f, {}) = 0
  <1> TAKE f
  <1>1. PICK g : IsSum(f, g, {}) /\ SumFunctionOnSet(f, {}) = g[{}]
    BY SumIsSum, FS_EmptySet
  <1>2. g[{}] = 0
    BY <1>1, IsSumAt
  <1> QED BY <1>1, <1>2

\* The sum takes off the element the recursion chooses first.
LEMMA SumChosen ==
    ASSUME NEW f, NEW S, IsFiniteSet(S), S # {}
    PROVE  LET x == CHOOSE x \in S : TRUE
           IN  SumFunctionOnSet(f, S) = f[x] + SumFunctionOnSet(f, S \ {x})
  <1> DEFINE x == CHOOSE x \in S : TRUE
             R == S \ {x}
  <1>1. PICK g : IsSum(f, g, S) /\ SumFunctionOnSet(f, S) = g[S]
    BY SumIsSum
  <1>2. IsFiniteSet(R) /\ R \subseteq S
    BY FS_RemoveElement
  <1>3. PICK h : IsSum(f, h, R) /\ SumFunctionOnSet(f, R) = h[R]
    BY <1>2, SumIsSum
  <1>4. g[S] = f[x] + g[R]
    BY <1>1, IsSumAt
  <1>5. g[R] = h[R]
    <2> HIDE DEF R
    <2> QED BY <1>1, <1>2, <1>3, SumsAgree
  <1> QED BY <1>1, <1>3, <1>4, <1>5

\* A sum of naturals over a finite set is a natural.
THEOREM SumIsNat ==
    ASSUME NEW f, NEW S, IsFiniteSet(S), \A x \in S : f[x] \in Nat
    PROVE  SumFunctionOnSet(f, S) \in Nat
  <1> DEFINE Bad == {s \in SUBSET S : SumFunctionOnSet(f, s) \notin Nat}
  <1>1. SUFFICES ASSUME Bad # {} PROVE FALSE
    OBVIOUS
  <1>2. PICK s \in Bad : \A t \in Bad : t \subseteq s => t = s
    <2>1. Bad \subseteq SUBSET S
      OBVIOUS
    <2> HIDE DEF Bad
    <2> QED BY <1>1, <2>1, MinimalSubset
  <1>3. s # {}
    <2>1. SumFunctionOnSet(f, {}) \in Nat
      BY SumOfNone
    <2> QED BY <1>2, <2>1
  <1> DEFINE x == CHOOSE x \in s : TRUE
             r == s \ {x}
  <1>4. x \in s /\ f[x] \in Nat /\ IsFiniteSet(s)
    BY <1>2, <1>3, FS_Subset
  <1>5. SumFunctionOnSet(f, r) \in Nat
    BY <1>2, <1>4
  <1>6. SumFunctionOnSet(f, s) = f[x] + SumFunctionOnSet(f, r)
    BY <1>3, <1>4, SumChosen
  <1> HIDE DEF x, r
  <1>7. SumFunctionOnSet(f, s) \in Nat
    BY <1>4, <1>5, <1>6
  <1> QED BY <1>2, <1>7

\* Any element can be taken off first.
THEOREM SumWithout ==
    ASSUME NEW f, NEW S, IsFiniteSet(S), \A y \in S : f[y] \in Nat, NEW a \in S
    PROVE  SumFunctionOnSet(f, S) = f[a] + SumFunctionOnSet(f, S \ {a})
  <1> DEFINE Sum(s) == SumFunctionOnSet(f, s)
             Bad == {s \in SUBSET S : \E y \in s : Sum(s) # f[y] + Sum(s \ {y})}
  <1>1. SUFFICES ASSUME Bad # {} PROVE FALSE
    OBVIOUS
  <1>2. PICK s \in Bad : \A t \in Bad : t \subseteq s => t = s
    <2>1. Bad \subseteq SUBSET S
      OBVIOUS
    <2> HIDE DEF Bad
    <2> QED BY <1>1, <2>1, MinimalSubset
  <1>3. PICK y \in s : Sum(s) # f[y] + Sum(s \ {y})
    BY <1>2
  <1> DEFINE c == CHOOSE x \in s : TRUE
             r == s \ {c, y}
  <1>4. c \in s /\ IsFiniteSet(s) /\ s \subseteq S
    BY <1>2, <1>3, FS_Subset
  <1>5. Sum(s) = f[c] + Sum(s \ {c})
    BY <1>3, <1>4, SumChosen
  <1>6. c # y
    BY <1>3, <1>5
  <1>7. s \ {c} \notin Bad /\ s \ {y} \notin Bad
    BY <1>2, <1>3, <1>4
  <1>8. Sum(s \ {c}) = f[y] + Sum((s \ {c}) \ {y})
    BY <1>3, <1>4, <1>6, <1>7
  <1>9. Sum(s \ {y}) = f[c] + Sum((s \ {y}) \ {c})
    BY <1>3, <1>4, <1>6, <1>7
  <1>10. (s \ {c}) \ {y} = r /\ (s \ {y}) \ {c} = r
    OBVIOUS
  <1>11. f[c] \in Nat /\ f[y] \in Nat /\ Sum(r) \in Nat
    <2>1. IsFiniteSet(r) /\ r \subseteq S
      BY <1>4, FS_Subset
    <2> QED BY <1>3, <1>4, <2>1, SumIsNat
  <1>12. Sum(s) = f[c] + (f[y] + Sum(r))
    BY <1>5, <1>8, <1>10
  <1>13. Sum(s \ {y}) = f[c] + Sum(r)
    BY <1>9, <1>10
  <1>14. Sum(s) = f[y] + Sum(s \ {y})
    <2> HIDE DEF Sum, c, r
    <2> QED BY <1>11, <1>12, <1>13
  <1> QED BY <1>3, <1>14

\* An element that was not there adds its value.
THEOREM SumWith ==
    ASSUME NEW f, NEW S, IsFiniteSet(S), NEW a, a \notin S,
           \A y \in S \cup {a} : f[y] \in Nat
    PROVE  SumFunctionOnSet(f, S \cup {a}) = SumFunctionOnSet(f, S) + f[a]
  <1>1. IsFiniteSet(S \cup {a}) /\ (S \cup {a}) \ {a} = S
    BY FS_AddElement
  <1>2. SumFunctionOnSet(f, S \cup {a}) = f[a] + SumFunctionOnSet(f, S)
    BY <1>1, SumWithout
  <1>3. f[a] \in Nat /\ SumFunctionOnSet(f, S) \in Nat
    BY SumIsNat
  <1> QED BY <1>2, <1>3

\* The sum over one argument is its value.
THEOREM SumOfOne ==
    ASSUME NEW f, NEW a, f[a] \in Nat
    PROVE  SumFunctionOnSet(f, {a}) = f[a]
  <1>1. SumFunctionOnSet(f, {}) = 0
    BY SumOfNone
  <1>2. SumFunctionOnSet(f, {a}) = f[a] + SumFunctionOnSet(f, {a} \ {a})
    BY FS_Singleton, SumWithout
  <1>3. {a} \ {a} = {}
    OBVIOUS
  <1>4. SumFunctionOnSet(f, {a}) = f[a] + 0
    BY <1>1, <1>2, <1>3
  <1> QED BY <1>4

\* Functions that agree on a set have the same sum over it.
THEOREM SumOfEqual ==
    ASSUME NEW f, NEW e, NEW S, IsFiniteSet(S), \A x \in S : f[x] = e[x]
    PROVE  SumFunctionOnSet(f, S) = SumFunctionOnSet(e, S)
  <1>1. PICK g : IsSum(f, g, S) /\ SumFunctionOnSet(f, S) = g[S]
    BY SumIsSum
  <1>2. PICK h : IsSum(e, h, S) /\ SumFunctionOnSet(e, S) = h[S]
    BY SumIsSum
  <1> QED BY <1>1, <1>2, SumsAgree

\* A part and the rest add up to the whole.
THEOREM SumOfParts ==
    ASSUME NEW f, NEW S, IsFiniteSet(S), \A x \in S : f[x] \in Nat, NEW K \in SUBSET S
    PROVE  SumFunctionOnSet(f, S) = SumFunctionOnSet(f, K) + SumFunctionOnSet(f, S \ K)
  <1> DEFINE Sum(s) == SumFunctionOnSet(f, s)
             Bad == {s \in SUBSET S : Sum(S) # Sum(s) + Sum(S \ s)}
  <1>1. SUFFICES ASSUME Bad # {} PROVE FALSE
    OBVIOUS
  <1>2. PICK s \in Bad : \A t \in Bad : t \subseteq s => t = s
    <2>1. Bad \subseteq SUBSET S
      OBVIOUS
    <2> HIDE DEF Bad
    <2> QED BY <1>1, <2>1, MinimalSubset
  <1>3. \A t \in SUBSET S : Sum(t) \in Nat /\ IsFiniteSet(t)
    BY FS_Subset, SumIsNat
  <1>4. s # {}
    <2>1. Sum({}) = 0 /\ S \ {} = S
      BY SumOfNone
    <2>2. {} \notin Bad
      <3> HIDE DEF Sum
      <3> QED BY <1>3, <2>1
    <2> QED BY <1>2, <2>2
  <1>5. PICK x \in s : TRUE
    BY <1>4
  <1> DEFINE r == s \ {x}
             q == S \ s
  <1>6. x \in S /\ f[x] \in Nat /\ s \in SUBSET S /\ r \in SUBSET S /\ q \in SUBSET S
    BY <1>2, <1>5
  <1>7. Sum(S) = Sum(r) + Sum(S \ r)
    BY <1>2, <1>5, <1>6
  <1>8. Sum(s) = f[x] + Sum(r)
    <2>1. IsFiniteSet(s) /\ \A y \in s : f[y] \in Nat
      BY <1>3, <1>6
    <2> QED BY <1>5, <2>1, SumWithout
  <1>9. Sum(S \ r) = Sum(q) + f[x]
    <2>1. S \ r = q \cup {x} /\ x \notin q
      BY <1>5, <1>6
    <2>2. IsFiniteSet(q) /\ \A y \in q \cup {x} : f[y] \in Nat
      BY <1>3, <1>6
    <2> HIDE DEF q, r
    <2> QED BY <2>1, <2>2, SumWith
  <1>10. Sum(r) \in Nat /\ Sum(q) \in Nat
    BY <1>3, <1>6
  <1>11. Sum(S) # Sum(s) + Sum(q)
    BY <1>2
  <1> HIDE DEF Sum, q, r
  <1> QED BY <1>6, <1>7, <1>8, <1>9, <1>10, <1>11

\* Changing the function at one argument changes the sum by the difference.
THEOREM SumChangedAt ==
    ASSUME NEW f, NEW e, NEW S, IsFiniteSet(S), NEW a \in S,
           \A x \in S : f[x] \in Nat /\ e[x] \in Nat,
           \A x \in S \ {a} : e[x] = f[x]
    PROVE  SumFunctionOnSet(e, S) = SumFunctionOnSet(f, S) - f[a] + e[a]
  <1> DEFINE R == S \ {a}
  <1>1. IsFiniteSet(R) /\ R \subseteq S
    BY FS_RemoveElement
  <1>2. SumFunctionOnSet(f, S) = f[a] + SumFunctionOnSet(f, R)
    BY SumWithout
  <1>3. SumFunctionOnSet(e, S) = e[a] + SumFunctionOnSet(e, R)
    BY SumWithout
  <1>4. SumFunctionOnSet(e, R) = SumFunctionOnSet(f, R)
    BY <1>1, SumOfEqual
  <1>5. SumFunctionOnSet(f, R) \in Nat /\ f[a] \in Nat /\ e[a] \in Nat
    BY <1>1, SumIsNat
  <1> HIDE DEF R
  <1> QED BY <1>2, <1>3, <1>4, <1>5

\* A pointwise smaller function has the smaller sum.
THEOREM SumDominated ==
    ASSUME NEW f, NEW e, NEW S, IsFiniteSet(S),
           \A x \in S : f[x] \in Nat /\ e[x] \in Nat /\ e[x] <= f[x]
    PROVE  SumFunctionOnSet(e, S) <= SumFunctionOnSet(f, S)
  <1> DEFINE Bad == {s \in SUBSET S : ~ (SumFunctionOnSet(e, s) <= SumFunctionOnSet(f, s))}
  <1>1. SUFFICES ASSUME Bad # {} PROVE FALSE
    OBVIOUS
  <1>2. PICK s \in Bad : \A t \in Bad : t \subseteq s => t = s
    <2>1. Bad \subseteq SUBSET S
      OBVIOUS
    <2> HIDE DEF Bad
    <2> QED BY <1>1, <2>1, MinimalSubset
  <1>3. s # {}
    <2>1. SumFunctionOnSet(e, {}) = 0 /\ SumFunctionOnSet(f, {}) = 0
      BY SumOfNone
    <2> QED BY <1>2, <2>1
  <1>4. PICK x \in s : TRUE
    BY <1>3
  <1> DEFINE r == s \ {x}
  <1>5. s \subseteq S /\ x \in S /\ IsFiniteSet(s) /\ r \subseteq S /\ IsFiniteSet(r)
    BY <1>2, FS_Subset
  <1>6. SumFunctionOnSet(e, r) <= SumFunctionOnSet(f, r)
    BY <1>2, <1>4, <1>5
  <1>7. SumFunctionOnSet(e, s) = e[x] + SumFunctionOnSet(e, r)
    BY <1>4, <1>5, SumWithout
  <1>8. SumFunctionOnSet(f, s) = f[x] + SumFunctionOnSet(f, r)
    BY <1>4, <1>5, SumWithout
  <1>9. SumFunctionOnSet(e, r) \in Nat /\ SumFunctionOnSet(f, r) \in Nat
    BY <1>5, SumIsNat
  <1>10. e[x] \in Nat /\ f[x] \in Nat /\ e[x] <= f[x]
    BY <1>5
  <1> HIDE DEF r
  <1>11. SumFunctionOnSet(e, s) <= SumFunctionOnSet(f, s)
    BY <1>6, <1>7, <1>8, <1>9, <1>10
  <1> QED BY <1>2, <1>11

\* A sum over fewer arguments is no larger.
THEOREM SumOfSubset ==
    ASSUME NEW f, NEW S, IsFiniteSet(S), \A x \in S : f[x] \in Nat, NEW K \in SUBSET S
    PROVE  SumFunctionOnSet(f, K) <= SumFunctionOnSet(f, S)
  <1>1. SumFunctionOnSet(f, S) = SumFunctionOnSet(f, K) + SumFunctionOnSet(f, S \ K)
    BY SumOfParts
  <1>2. SumFunctionOnSet(f, K) \in Nat /\ SumFunctionOnSet(f, S \ K) \in Nat
    <2>1. IsFiniteSet(K) /\ IsFiniteSet(S \ K)
      BY FS_Subset
    <2> QED BY <2>1, SumIsNat
  <1> QED BY <1>1, <1>2

\* A constant adds up to its product with the number of arguments.
THEOREM SumOfConstant ==
    ASSUME NEW f, NEW S, IsFiniteSet(S), NEW c \in Nat, \A x \in S : f[x] = c
    PROVE  SumFunctionOnSet(f, S) = Cardinality(S) * c
  <1> DEFINE Bad == {s \in SUBSET S : SumFunctionOnSet(f, s) # Cardinality(s) * c}
  <1>1. SUFFICES ASSUME Bad # {} PROVE FALSE
    OBVIOUS
  <1>2. PICK s \in Bad : \A t \in Bad : t \subseteq s => t = s
    <2>1. Bad \subseteq SUBSET S
      OBVIOUS
    <2> HIDE DEF Bad
    <2> QED BY <1>1, <2>1, MinimalSubset
  <1>3. s # {}
    <2>1. SumFunctionOnSet(f, {}) = 0 /\ Cardinality({}) = 0
      BY SumOfNone, FS_EmptySet
    <2>2. 0 * c = 0
      OBVIOUS
    <2>3. SumFunctionOnSet(f, {}) = Cardinality({}) * c
      BY <2>1, <2>2
    <2> QED BY <1>2, <2>3
  <1>4. PICK x \in s : TRUE
    BY <1>3
  <1> DEFINE r == s \ {x}
  <1>5. s \subseteq S /\ f[x] = c /\ IsFiniteSet(s) /\ r \subseteq S
    BY <1>2, FS_Subset
  <1>6. SumFunctionOnSet(f, r) = Cardinality(r) * c
    BY <1>2, <1>4, <1>5
  <1>7. SumFunctionOnSet(f, s) = f[x] + SumFunctionOnSet(f, r)
    BY <1>4, <1>5, SumWithout
  <1>8. Cardinality(r) = Cardinality(s) - 1 /\ Cardinality(s) \in Nat
    BY <1>4, <1>5, FS_RemoveElement, FS_CardinalityType
  <1> HIDE DEF r
  <1> DEFINE n == Cardinality(s)
  <1>9. n \in Nat /\ SumFunctionOnSet(f, s) = c + (n - 1) * c
    BY <1>5, <1>6, <1>7, <1>8
  <1> HIDE DEF n
  <1>10. c + (n - 1) * c = n * c
    BY <1>9
  <1> QED BY <1>2, <1>9, <1>10 DEF n
=============================================================================
