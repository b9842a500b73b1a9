----------------------------- MODULE SumTheorems -----------------------------
(***************************************************************************)
(* Facts about SumFunctionOnSet and SumFunction of the community module    *)
(* Functions: what a sum over a finite set is, that it does not depend on  *)
(* the order, its bounds, and that it is the same over any renaming of the *)
(* indices.                                                                *)
(*                                                                         *)
(* Induction is by a smallest counterexample: a set of natural numbers     *)
(* that is not empty has a least member.                                   *)
(***************************************************************************)
EXTENDS Integers, FiniteSets, Functions, FiniteSetTheorems, WellFoundedInduction, TLAPS

-----------------------------------------------------------------------------
(* Smallest counterexamples.                                               *)

\* A set of natural numbers that is not empty has a least member.
LEMMA LeastNumber ==
    ASSUME NEW T, T \subseteq Nat, T # {}
    PROVE  \E n \in T : \A m \in T : n <= m
<1>1. PICK n \in T : \A m \in T : ~(<<m, n>> \in OpToRel(<, Nat))
  BY WFMin, NatLessThanWellFounded, Zenon
<1>2. \A m \in T : ~(m < n)
  <2>1. ASSUME NEW m \in T, m < n PROVE <<m, n>> \in OpToRel(<, Nat)
    BY <2>1, Zenon DEF OpToRel
  <2> QED BY <1>1, <2>1
<1> QED BY <1>2

\* Among finite sets there is one with no fewer members than any other has.
LEMMA LeastSet ==
    ASSUME NEW C, C # {}, \A s \in C : IsFiniteSet(s)
    PROVE  \E s \in C : \A t \in C : Cardinality(s) <= Cardinality(t)
<1> DEFINE sizes == {Cardinality(s) : s \in C}
<1>1. sizes \subseteq Nat /\ sizes # {}
  BY FS_CardinalityType
<1> HIDE DEF sizes
<1>2. PICK n \in sizes : \A m \in sizes : n <= m
  BY <1>1, LeastNumber
<1> QED BY <1>2 DEF sizes

-----------------------------------------------------------------------------
(* The recursion behind a sum.                                             *)

\* The member a fold takes first.
First(s) == CHOOSE x \in s : TRUE

\* g holds the sums of f over the subsets of S.
HoldsSums(g, f, S) ==
    g = [s \in SUBSET S |->
            IF s = {} THEN 0 ELSE f[First(s)] + g[s \ {First(s)}]]

\* A sum is what the fold's recursive function is of the whole set.
LEMMA SumIsRecursive ==
    ASSUME NEW f, NEW S
    PROVE  SumFunctionOnSet(f, S) = (CHOOSE g : HoldsSums(g, f, S))[S]
BY DEF SumFunctionOnSet, FoldFunctionOnSet, MapThenFoldSet, HoldsSums, First

\* Of a set that is not empty a member is taken, and fewer are left.
LEMMA FirstIsAMember ==
    ASSUME NEW s, s # {}, IsFiniteSet(s)
    PROVE  /\ First(s) \in s
           /\ IsFiniteSet(s \ {First(s)})
           /\ Cardinality(s \ {First(s)}) = Cardinality(s) - 1
           /\ Cardinality(s) \in Nat
<1>1. First(s) \in s
  BY DEF First
<1> QED BY <1>1, FS_RemoveElement, FS_CardinalityType

\* The sums over the subsets of a set are the sums over these as subsets of a
\* larger set.
LEMMA SumsAgree ==
    ASSUME NEW f, NEW S, IsFiniteSet(S), NEW T \in SUBSET S,
           NEW g, HoldsSums(g, f, S), NEW h, HoldsSums(h, f, T)
    PROVE  \A s \in SUBSET T : g[s] = h[s]
<1> DEFINE C == {s \in SUBSET T : g[s] # h[s]}
<1> SUFFICES ASSUME C # {} PROVE FALSE
  OBVIOUS
<1>1. \A s \in SUBSET S : IsFiniteSet(s)
  BY FS_Subset
<1>2. PICK s \in C : \A t \in C : Cardinality(s) <= Cardinality(t)
  BY <1>1, LeastSet
<1>3. s \in SUBSET T /\ s \in SUBSET S /\ g[s] # h[s]
  BY <1>2
<1> DEFINE rest == s \ {First(s)}
<1>4. /\ g[s] = IF s = {} THEN 0 ELSE f[First(s)] + g[rest]
      /\ h[s] = IF s = {} THEN 0 ELSE f[First(s)] + h[rest]
  BY <1>3 DEF HoldsSums
<1>5. s # {} /\ g[rest] # h[rest] /\ rest \in SUBSET T
  BY <1>3, <1>4
<1>6. rest \in C
  BY <1>5
<1>7. Cardinality(rest) = Cardinality(s) - 1 /\ Cardinality(s) \in Nat
  BY <1>1, <1>3, <1>5, FirstIsAMember
<1> QED BY <1>2, <1>6, <1>7

\* Where the sums over the subsets exist, a sum is its first value and the sum of
\* the others.
LEMMA SumUnfoldsWhereItIs ==
    ASSUME NEW f, NEW S, IsFiniteSet(S), S # {},
           \E g : HoldsSums(g, f, S),
           \E g : HoldsSums(g, f, S \ {First(S)})
    PROVE  SumFunctionOnSet(f, S) = f[First(S)] + SumFunctionOnSet(f, S \ {First(S)})
<1> DEFINE rest == S \ {First(S)}
           g == CHOOSE g : HoldsSums(g, f, S)
           h == CHOOSE h : HoldsSums(h, f, rest)
<1>1. HoldsSums(g, f, S) /\ HoldsSums(h, f, rest)
  OBVIOUS
<1>2. SumFunctionOnSet(f, S) = g[S] /\ SumFunctionOnSet(f, rest) = h[rest]
  BY SumIsRecursive
<1> HIDE DEF g, h
<1>3. g[S] = f[First(S)] + g[rest]
  BY <1>1 DEF HoldsSums
<1>4. g[rest] = h[rest]
  <2>1. rest \in SUBSET S /\ rest \in SUBSET rest
    OBVIOUS
  <2> HIDE DEF rest
  <2> QED BY <1>1, <2>1, SumsAgree
<1> QED BY <1>2, <1>3, <1>4

\* The sum over no index.
LEMMA SumOverNothing == ASSUME NEW f PROVE SumFunctionOnSet(f, {}) = 0
<1> DEFINE g == [s \in SUBSET {} |-> 0]
<1>1. HoldsSums(g, f, {})
  BY DEF HoldsSums
<1>2. HoldsSums(CHOOSE h : HoldsSums(h, f, {}), f, {})
  BY <1>1
<1>3. (CHOOSE h : HoldsSums(h, f, {}))[{}] = 0
  BY <1>2 DEF HoldsSums
<1> QED BY <1>3, SumIsRecursive

\* Over finite sets the sums exist.
LEMMA SumsExist ==
    ASSUME NEW f, NEW S, IsFiniteSet(S) PROVE \E g : HoldsSums(g, f, S)
<1> DEFINE C == {s \in SUBSET S : ~ \E g : HoldsSums(g, f, s)}
<1> SUFFICES ASSUME C # {} PROVE FALSE
  OBVIOUS
<1>1. \A s \in SUBSET S : IsFiniteSet(s)
  BY FS_Subset
<1>2. PICK T \in C : \A t \in C : Cardinality(T) <= Cardinality(t)
  BY <1>1, LeastSet
<1>3. T \in SUBSET S /\ ~ \E g : HoldsSums(g, f, T)
  BY <1>2
<1>4. ASSUME NEW s \in SUBSET T, s # T PROVE \E g : HoldsSums(g, f, s)
  <2>1. /\ IsFiniteSet(T) /\ Cardinality(s) <= Cardinality(T)
        /\ Cardinality(T) # Cardinality(s)
        /\ Cardinality(s) \in Nat /\ Cardinality(T) \in Nat
    BY <1>1, <1>3, <1>4, FS_Subset, FS_CardinalityType
  <2>2. s \notin C
    BY <1>2, <2>1
  <2> QED BY <1>3, <2>2
<1> DEFINE Total(s) == SumFunctionOnSet(f, s)
           g == [s \in SUBSET T |->
                    IF s = {} THEN 0 ELSE f[First(s)] + Total(s \ {First(s)})]
<1>5. ASSUME NEW s \in SUBSET T, s # T PROVE g[s] = Total(s)
  <2>1. CASE s = {}
    BY <2>1, SumOverNothing
  <2>2. CASE s # {}
    <3>1. s \ {First(s)} \in SUBSET T /\ s \ {First(s)} # T
      BY <1>5
    <3>2. IsFiniteSet(s)
      BY <1>1, <1>3
    <3>3. Total(s) = f[First(s)] + Total(s \ {First(s)})
      BY <1>4, <1>5, <2>2, <3>1, <3>2, SumUnfoldsWhereItIs
    <3> QED BY <2>2, <3>3
  <2> QED BY <2>1, <2>2
<1>6. ASSUME NEW s \in SUBSET T, s # {}
      PROVE  g[s \ {First(s)}] = Total(s \ {First(s)})
  <2>1. First(s) \in s
    BY <1>6 DEF First
  <2>2. s \ {First(s)} \in SUBSET T /\ s \ {First(s)} # T
    BY <2>1
  <2> QED BY <1>5, <2>2
<1>7. HoldsSums(g, f, T)
  BY <1>6 DEF HoldsSums
<1> QED BY <1>3, <1>7

\* A sum over a set that is not empty is its first value and the sum of the others.
LEMMA SumUnfolds ==
    ASSUME NEW f, NEW S, IsFiniteSet(S), S # {}
    PROVE  SumFunctionOnSet(f, S) = f[First(S)] + SumFunctionOnSet(f, S \ {First(S)})
<1>1. IsFiniteSet(S \ {First(S)})
  BY FirstIsAMember
<1> QED BY <1>1, SumsExist, SumUnfoldsWhereItIs

-----------------------------------------------------------------------------
(* What a sum is, and its bounds.                                          *)

\* A sum of natural numbers is a natural number.
THEOREM SumIsNat ==
    ASSUME NEW f, NEW S, IsFiniteSet(S), \A x \in S : f[x] \in Nat
    PROVE  SumFunctionOnSet(f, S) \in Nat
<1> DEFINE C == {s \in SUBSET S : SumFunctionOnSet(f, s) \notin Nat}
<1> SUFFICES ASSUME C # {} PROVE FALSE
  OBVIOUS
<1>1. \A s \in SUBSET S : IsFiniteSet(s)
  BY FS_Subset
<1>2. PICK T \in C : \A t \in C : Cardinality(T) <= Cardinality(t)
  BY <1>1, LeastSet
<1>3. T \in SUBSET S /\ IsFiniteSet(T) /\ SumFunctionOnSet(f, T) \notin Nat
  BY <1>1, <1>2
<1>4. T # {}
  BY <1>3, SumOverNothing
<1> DEFINE rest == T \ {First(T)}
<1>5. /\ First(T) \in T /\ Cardinality(T) \in Nat
      /\ Cardinality(rest) = Cardinality(T) - 1
  BY <1>3, <1>4, FirstIsAMember
<1>6. SumFunctionOnSet(f, rest) \in Nat
  <2>1. ~(Cardinality(T) <= Cardinality(rest)) /\ rest \in SUBSET S
    BY <1>3, <1>5
  <2> QED BY <1>2, <2>1
<1>7. SumFunctionOnSet(f, T) = f[First(T)] + SumFunctionOnSet(f, rest)
  BY <1>3, <1>4, SumUnfolds
<1>8. f[First(T)] \in Nat
  BY <1>3, <1>5
<1> HIDE DEF rest, C
<1> QED BY <1>3, <1>6, <1>7, <1>8

\* It is at most the number of its indices times a bound on its values.
THEOREM SumIsBounded ==
    ASSUME NEW f, NEW S, IsFiniteSet(S), NEW b \in Nat,
           \A x \in S : f[x] \in Nat /\ f[x] <= b
    PROVE  SumFunctionOnSet(f, S) <= Cardinality(S) * b
<1> DEFINE Bounded(s) == SumFunctionOnSet(f, s) <= Cardinality(s) * b
           C == {s \in SUBSET S : ~Bounded(s)}
<1> SUFFICES ASSUME C # {} PROVE FALSE
  OBVIOUS
<1>1. \A s \in SUBSET S : IsFiniteSet(s)
  BY FS_Subset
<1>2. PICK T \in C : \A t \in C : Cardinality(T) <= Cardinality(t)
  BY <1>1, LeastSet
<1>3. T \in SUBSET S /\ IsFiniteSet(T) /\ ~Bounded(T)
  BY <1>1, <1>2
<1>4. T # {}
  <2>1. SumFunctionOnSet(f, {}) = 0 /\ Cardinality({}) = 0
    BY SumOverNothing, FS_EmptySet
  <2> QED BY <1>3, <2>1
<1> DEFINE rest == T \ {First(T)}
           n == Cardinality(rest)
           u == SumFunctionOnSet(f, rest)
<1>5. /\ First(T) \in T /\ Cardinality(T) \in Nat /\ n = Cardinality(T) - 1
      /\ rest \in SUBSET S
  BY <1>3, <1>4, FirstIsAMember
<1>6. n \in Nat /\ u \in Nat
  <2>1. IsFiniteSet(rest) /\ \A x \in rest : f[x] \in Nat
    BY <1>1, <1>5
  <2> QED BY <2>1, FS_CardinalityType, SumIsNat
<1>7. u <= n * b
  <2>1. ~(Cardinality(T) <= n)
    BY <1>5
  <2> QED BY <1>2, <1>5, <2>1
<1>8. SumFunctionOnSet(f, T) = f[First(T)] + u
  BY <1>3, <1>4, SumUnfolds
<1>9. f[First(T)] \in Nat /\ f[First(T)] <= b
  BY <1>3, <1>5
<1> HIDE DEF u, n, rest, C
<1>10. Cardinality(T) * b = (n * b) + b /\ n * b \in Nat
  <2>1. Cardinality(T) = n + 1
    BY <1>5, <1>6
  <2> QED BY <1>6, <2>1
<1>11. f[First(T)] + u <= Cardinality(T) * b
  BY <1>6, <1>7, <1>9, <1>10
<1> QED BY <1>3, <1>8, <1>11

\* A sum of equal numbers is their number times that number.
THEOREM SumOfEquals ==
    ASSUME NEW f, NEW S, IsFiniteSet(S), NEW b \in Nat, \A x \in S : f[x] = b
    PROVE  SumFunctionOnSet(f, S) = Cardinality(S) * b
<1> DEFINE Equal(s) == SumFunctionOnSet(f, s) = Cardinality(s) * b
           C == {s \in SUBSET S : ~Equal(s)}
<1> SUFFICES ASSUME C # {} PROVE FALSE
  OBVIOUS
<1>1. \A s \in SUBSET S : IsFiniteSet(s)
  BY FS_Subset
<1>2. PICK T \in C : \A t \in C : Cardinality(T) <= Cardinality(t)
  BY <1>1, LeastSet
<1>3. T \in SUBSET S /\ IsFiniteSet(T) /\ ~Equal(T)
  BY <1>1, <1>2
<1>4. T # {}
  <2>1. SumFunctionOnSet(f, {}) = 0 /\ Cardinality({}) = 0 /\ 0 * b = 0
    BY SumOverNothing, FS_EmptySet
  <2> QED BY <1>3, <2>1
<1> DEFINE rest == T \ {First(T)}
           n == Cardinality(rest)
           u == SumFunctionOnSet(f, rest)
<1>5. /\ First(T) \in T /\ Cardinality(T) \in Nat /\ n = Cardinality(T) - 1
      /\ rest \in SUBSET S
  BY <1>3, <1>4, FirstIsAMember
<1>6. n \in Nat
  BY <1>1, <1>5, FS_CardinalityType
<1>7. u = n * b
  <2>1. ~(Cardinality(T) <= n)
    BY <1>5
  <2> QED BY <1>2, <1>5, <2>1
<1>8. SumFunctionOnSet(f, T) = f[First(T)] + u
  BY <1>3, <1>4, SumUnfolds
<1>9. f[First(T)] = b
  BY <1>3, <1>5
<1> HIDE DEF u, n, rest, C
<1>10. Cardinality(T) * b = (n * b) + b /\ n * b \in Nat
  <2>1. Cardinality(T) = n + 1
    BY <1>5, <1>6
  <2> QED BY <1>6, <2>1
<1> QED BY <1>3, <1>7, <1>8, <1>9, <1>10

\* Any index may be taken out of a sum: the order does not matter.
THEOREM SumTakesOut ==
    ASSUME NEW f, NEW S, IsFiniteSet(S), \A x \in S : f[x] \in Nat,
           NEW i \in S
    PROVE  SumFunctionOnSet(f, S) = f[i] + SumFunctionOnSet(f, S \ {i})
<1> DEFINE Sum(s) == SumFunctionOnSet(f, s)
           Any(s) == \A x \in s : Sum(s) = f[x] + Sum(s \ {x})
           C == {s \in SUBSET S : ~Any(s)}
<1> SUFFICES ASSUME C # {} PROVE FALSE
  OBVIOUS
<1>1. \A s \in SUBSET S : IsFiniteSet(s)
  BY FS_Subset
<1>2. PICK T \in C : \A t \in C : Cardinality(T) <= Cardinality(t)
  BY <1>1, LeastSet
<1>3. T \in SUBSET S /\ IsFiniteSet(T)
  BY <1>1
<1>4. PICK x \in T : Sum(T) # f[x] + Sum(T \ {x})
  BY <1>2
<1> DEFINE y == First(T)
<1>5. /\ y \in T /\ Cardinality(T) \in Nat
      /\ Sum(T) = f[y] + Sum(T \ {y})
  BY <1>3, <1>4, FirstIsAMember, SumUnfolds
<1>6. x # y
  BY <1>4, <1>5
<1> HIDE DEF y
<1>7. ASSUME NEW z \in T PROVE Any(T \ {z})
  <2>1. T \ {z} \in SUBSET S /\ Cardinality(T \ {z}) = Cardinality(T) - 1
    BY <1>3, FS_RemoveElement
  <2>2. ~(Cardinality(T) <= Cardinality(T \ {z}))
    BY <1>5, <2>1
  <2> QED BY <1>2, <2>1, <2>2
<1>8. Sum(T \ {y}) = f[x] + Sum((T \ {y}) \ {x})
  BY <1>4, <1>5, <1>6, <1>7
<1>9. Sum(T \ {x}) = f[y] + Sum((T \ {x}) \ {y})
  BY <1>4, <1>5, <1>6, <1>7
<1>10. (T \ {y}) \ {x} = (T \ {x}) \ {y}
  OBVIOUS
<1> DEFINE u == Sum((T \ {x}) \ {y})
<1>11. u \in Nat
  <2> DEFINE rest == (T \ {x}) \ {y}
  <2>1. IsFiniteSet(rest) /\ \A z \in rest : f[z] \in Nat
    BY <1>1, <1>3
  <2> QED BY <2>1, SumIsNat
<1>12. f[x] \in Nat /\ f[y] \in Nat
  BY <1>3, <1>4, <1>5
<1> QED BY <1>4, <1>5, <1>8, <1>9, <1>10, <1>11, <1>12

\* Indices may be renamed: a sum is the same over any set its indices are mapped to
\* one to one.
THEOREM SumRenamed ==
    ASSUME NEW f, NEW S, IsFiniteSet(S), \A x \in S : f[x] \in Nat,
           NEW T, NEW g, NEW h \in Bijection(S, T), \A x \in S : g[h[x]] = f[x]
    PROVE  SumFunctionOnSet(g, T) = SumFunctionOnSet(f, S)
<1> DEFINE Image(s) == {h[x] : x \in s}
           C == {s \in SUBSET S :
                    SumFunctionOnSet(g, Image(s)) # SumFunctionOnSet(f, s)}
<1>1. /\ h \in [S -> T]
      /\ \A x, y \in S : h[x] = h[y] => x = y
      /\ Image(S) = T
  BY DEF Bijection, Injection, Surjection, IsInjective
<1> SUFFICES ASSUME C # {} PROVE FALSE
  <2>1. S \notin C => SumFunctionOnSet(g, Image(S)) = SumFunctionOnSet(f, S)
    OBVIOUS
  <2> HIDE DEF Image
  <2> QED BY <1>1, <2>1
<1>2. \A s \in SUBSET S : IsFiniteSet(s) /\ IsFiniteSet(Image(s))
  <2>1. ASSUME NEW s \in SUBSET S PROVE IsFiniteSet(s) /\ IsFiniteSet(Image(s))
    <3>1. IsFiniteSet(s)
      BY FS_Subset
    <3> DEFINE k == [x \in s |-> h[x]]
    <3>2. k \in Surjection(s, Image(s))
      BY DEF Surjection
    <3> HIDE DEF k, Image
    <3> QED BY <3>1, <3>2, FS_Surjection
  <2> QED BY <2>1
<1>3. PICK U \in C : \A t \in C : Cardinality(U) <= Cardinality(t)
  BY <1>2, LeastSet
<1>4. /\ U \in SUBSET S /\ IsFiniteSet(U) /\ IsFiniteSet(Image(U))
      /\ SumFunctionOnSet(g, Image(U)) # SumFunctionOnSet(f, U)
  BY <1>2, <1>3
<1>5. U # {}
  <2>1. Image({}) = {}
    OBVIOUS
  <2> HIDE DEF Image
  <2> QED BY <1>4, <2>1, SumOverNothing
<1> DEFINE i == First(U)
<1>6. /\ i \in U /\ Cardinality(U) \in Nat
      /\ Cardinality(U \ {i}) = Cardinality(U) - 1
  BY <1>4, <1>5, FirstIsAMember
<1> HIDE DEF i
<1>7. SumFunctionOnSet(g, Image(U \ {i})) = SumFunctionOnSet(f, U \ {i})
  <2>1. ~(Cardinality(U) <= Cardinality(U \ {i})) /\ U \ {i} \in SUBSET S
    BY <1>4, <1>6
  <2> HIDE DEF Image
  <2> QED BY <1>3, <2>1
<1>8. SumFunctionOnSet(f, U) = f[i] + SumFunctionOnSet(f, U \ {i})
  <2>1. \A x \in U : f[x] \in Nat
    BY <1>4
  <2> QED BY <1>4, <1>6, <2>1, SumTakesOut
<1>9. /\ h[i] \in Image(U) /\ g[h[i]] = f[i]
      /\ Image(U) \ {h[i]} = Image(U \ {i})
      /\ \A z \in Image(U) : g[z] \in Nat
  BY <1>1, <1>4, <1>6
<1> HIDE DEF Image
<1>10. SumFunctionOnSet(g, Image(U)) = g[h[i]] + SumFunctionOnSet(g, Image(U) \ {h[i]})
  BY <1>4, <1>9, SumTakesOut
<1> QED BY <1>4, <1>7, <1>8, <1>9, <1>10
=============================================================================
