---------------------------- MODULE NumberLemmas ----------------------------
(***************************************************************************)
(* Facts about numbers and finite sets that the proofs about scores and    *)
(* counters need: division and multiplication, induction over a finite     *)
(* set, its least element, and what the community modules'                 *)
(* SumFunctionOnSet returns.                                               *)
(***************************************************************************)
EXTENDS Integers, FiniteSetsExt, FiniteSetTheorems, WellFoundedInduction, TLAPS

(* Integer division, stated for the provers.                                 *)
LEMMA Quotient ==
  ASSUME NEW n \in Nat, NEW d \in Nat, d > 0
  PROVE  /\ n \div d \in Nat
         /\ (n \div d) * d <= n
         /\ n < (n \div d) * d + d
OBVIOUS

(* Multiplying by a natural number keeps the order of integers.              *)
LEMMA Times ==
  ASSUME NEW a \in Int, NEW b \in Int, NEW t \in Nat
  PROVE  /\ a * t \in Int
         /\ (a + 1) * t = a * t + t
         /\ a <= b => a * t <= b * t
         /\ a * t < b * t => a < b
OBVIOUS

(* The values of a function on a finite set are finitely many, and no more   *)
(* than its elements.                                                        *)
LEMMA FiniteImage ==
  ASSUME NEW S, IsFiniteSet(S), NEW f
  PROVE  IsFiniteSet({f[x] : x \in S}) /\ Cardinality({f[x] : x \in S}) <= Cardinality(S)
<1> DEFINE T == {f[x] : x \in S}
           h == [x \in S |-> f[x]]
<1>1. h \in Surjection(S, T)
  BY DEF Surjection
<1> HIDE DEF h, T
<1>2. IsFiniteSet(T) /\ Cardinality(T) <= Cardinality(S)
  BY <1>1, FS_Surjection
<1> QED BY <1>2 DEF T

(* An interval of naturals is finite.                                        *)
LEMMA FiniteRange ==
  ASSUME NEW a \in Nat, NEW b \in Nat
  PROVE  IsFiniteSet(a..b)
<1> DEFINE S == a..b
<1>1. S \in SUBSET Nat /\ \A n \in S : n <= b
  OBVIOUS
<1> HIDE DEF S
<1>2. IsFiniteSet(S)
  BY <1>1, FS_BoundedSetOfNaturals
<1> QED BY <1>2 DEF S

-----------------------------------------------------------------------------
(* Induction over a finite set: a property, given as the set Good of the     *)
(* subsets that have it, reaches S when it holds of {} and survives one more *)
(* element.  (A smallest subset without it would contradict this.)           *)
LEMMA SetInduction ==
  ASSUME NEW S, IsFiniteSet(S),
         NEW Good, {} \in Good,
         \A T \in SUBSET S : \A x \in S \ T : T \in Good => T \cup {x} \in Good
  PROVE  S \in Good
<1> DEFINE Bad == {T \in SUBSET S : T \notin Good}
           R   == StrictSubsetOrdering(S)
<1> SUFFICES ASSUME S \notin Good PROVE FALSE
  OBVIOUS
<1>1. IsWellFoundedOn(R, SUBSET S)
  BY FS_StrictSubsetOrderingWellFounded, FS_FiniteSubsetsOfFinite
<1>2. Bad \subseteq SUBSET S /\ Bad # {}
  OBVIOUS
<1>3. PICK T \in Bad : \A U \in Bad : ~ (<<U, T>> \in R)
  <2> HIDE DEF R, Bad
  <2> QED BY <1>1, <1>2, WFMin
<1>4. PICK x \in T : TRUE
  OBVIOUS
<1>5. T \ {x} \in SUBSET S /\ x \in S \ (T \ {x}) /\ (T \ {x}) \cup {x} = T
  BY <1>4
<1>6. <<T \ {x}, T>> \in R
  BY <1>4, <1>5 DEF StrictSubsetOrdering
<1>7. T \ {x} \in Good
  BY <1>3, <1>5, <1>6
<1> QED BY <1>3, <1>5, <1>7

(* A finite nonempty set of integers has a least element.                    *)
LEMMA FiniteLeast ==
  ASSUME NEW S \in SUBSET Int, IsFiniteSet(S), S # {}
  PROVE  \E m \in S : \A n \in S : m <= n
<1> DEFINE Good == {T \in SUBSET S : T = {} \/ \E m \in T : \A n \in T : m <= n}
<1>1. {} \in Good
  OBVIOUS
<1>2. \A T \in SUBSET S : \A x \in S \ T : T \in Good => T \cup {x} \in Good
  <2> SUFFICES ASSUME NEW T \in SUBSET S, NEW x \in S \ T, T \in Good
               PROVE  \E m \in T \cup {x} : \A n \in T \cup {x} : m <= n
    OBVIOUS
  <2>1. CASE T = {}
    BY <2>1
  <2>2. CASE T # {}
    <3>1. PICK m \in T : \A n \in T : m <= n
      BY <2>2
    <3>2. CASE x <= m
      BY <3>1, <3>2
    <3>3. CASE ~ (x <= m)
      BY <3>1, <3>3
    <3> QED BY <3>2, <3>3
  <2> QED BY <2>1, <2>2
<1>3. S \in Good
  <2> HIDE DEF Good
  <2> QED BY <1>1, <1>2, SetInduction
<1> QED BY <1>3

(* g maps every subset of S to the sum of f over it.                         *)
IsSumOf(g, f, S) ==
  /\ g \in [SUBSET S -> Nat]
  /\ g[{}] = 0
  /\ \A T \in SUBSET S : \A x \in T : g[T] = f[x] + g[T \ {x}]

(* Such a map exists whenever f takes natural values on a finite S.          *)
LEMMA SumExists ==
  ASSUME NEW S, IsFiniteSet(S), NEW f, \A x \in S : f[x] \in Nat
  PROVE  \E g : IsSumOf(g, f, S)
<1> DEFINE Good == {T \in SUBSET S : \E g : IsSumOf(g, f, T)}
<1>1. {} \in Good
  <2> IsSumOf([T \in {{}} |-> 0], f, {})
    BY DEF IsSumOf
  <2> QED OBVIOUS
<1>2. ASSUME NEW T \in SUBSET S, NEW x \in S \ T, T \in Good
      PROVE  T \cup {x} \in Good
  <2>1. PICK g : IsSumOf(g, f, T)
    BY <1>2
  <2> DEFINE W(U) == IF x \in U THEN f[x] ELSE 0
             h == [U \in SUBSET (T \cup {x}) |-> g[U \ {x}] + W(U)]
  <2>2. \A U \in SUBSET (T \cup {x}) : U \ {x} \in SUBSET T /\ g[U \ {x}] \in Nat /\ W(U) \in Nat
    BY <2>1 DEF IsSumOf
  <2>3. h \in [SUBSET (T \cup {x}) -> Nat] /\ h[{}] = 0
    <3>1. {} \ {x} = {} /\ W({}) = 0
      OBVIOUS
    <3>2. h[{}] = 0
      BY <2>1, <3>1 DEF IsSumOf
    <3> QED BY <2>2, <3>2
  <2>4. ASSUME NEW U \in SUBSET (T \cup {x}), NEW y \in U
        PROVE  h[U] = f[y] + h[U \ {y}]
    <3>1. U \ {y} \in SUBSET (T \cup {x})
      OBVIOUS
    <3>2. h[U] = g[U \ {x}] + W(U) /\ h[U \ {y}] = g[(U \ {y}) \ {x}] + W(U \ {y})
      BY <3>1
    <3>3. CASE y = x
      <4>1. (U \ {y}) \ {x} = U \ {x} /\ W(U) = f[x] /\ W(U \ {y}) = 0
        BY <3>3
      <4>2. /\ h[U] = g[U \ {x}] + f[x]
            /\ h[U \ {y}] = g[U \ {x}] + 0
        <5> HIDE DEF W, h
        <5> QED BY <3>2, <4>1
      <4>3. g[U \ {x}] \in Nat /\ f[x] \in Nat
        BY <2>2
      <4> HIDE DEF W, h
      <4> QED BY <3>3, <4>2, <4>3
    <3>4. CASE y # x
      <4>1. /\ W(U) = W(U \ {y}) /\ y \in U \ {x} /\ y \in S
            /\ (U \ {y}) \ {x} = (U \ {x}) \ {y}
        BY <3>4
      <4>2. g[U \ {x}] = f[y] + g[(U \ {x}) \ {y}]
        BY <2>1, <2>2, <4>1 DEF IsSumOf
      <4>3. /\ f[y] \in Nat /\ W(U) \in Nat
            /\ g[(U \ {x}) \ {y}] \in Nat
        <5> HIDE DEF W
        <5> QED BY <2>2, <3>1, <4>1
      <4>4. /\ h[U] = (f[y] + g[(U \ {x}) \ {y}]) + W(U)
            /\ h[U \ {y}] = g[(U \ {x}) \ {y}] + W(U)
        <5> HIDE DEF W, h
        <5> QED BY <3>2, <4>1, <4>2
      <4> HIDE DEF W, h
      <4> QED BY <4>3, <4>4
    <3> QED BY <3>3, <3>4
  <2>5. IsSumOf(h, f, T \cup {x})
    <3> HIDE DEF h
    <3> QED BY <2>3, <2>4 DEF IsSumOf
  <2> QED BY <2>5
<1>3. S \in Good
  <2> HIDE DEF Good
  <2> QED BY <1>1, <1>2, SetInduction
<1> QED BY <1>3

(* The community modules' SumFunctionOnSet, a fold in an order of its own    *)
(* choosing, is that map's value at S.                                       *)
LEMMA SumUnrolled ==
  ASSUME NEW S, IsFiniteSet(S), NEW f, \A x \in S : f[x] \in Nat, NEW g, IsSumOf(g, f, S)
  PROVE  SumFunctionOnSet(f, S) = g[S]
<1> DEFINE Eq(k)  == k = [s \in SUBSET S |-> IF s = {} THEN 0
                                ELSE f[CHOOSE x \in s : TRUE] + k[s \ {CHOOSE x \in s : TRUE}]]
           it == CHOOSE k : Eq(k)
           Good == {T \in SUBSET S : it[T] = g[T]}
<1>1. SumFunctionOnSet(f, S) = it[S]
  BY DEF SumFunctionOnSet, FoldFunctionOnSet, MapThenFoldSet
<1>2. Eq(g)
  <2>1. \A s \in SUBSET S : s # {} => (CHOOSE x \in s : TRUE) \in s
    OBVIOUS
  <2>2. \A s \in SUBSET S : g[s] = IF s = {} THEN 0
                                ELSE f[CHOOSE x \in s : TRUE] + g[s \ {CHOOSE x \in s : TRUE}]
    BY <2>1 DEF IsSumOf
  <2> QED BY <2>2 DEF IsSumOf
<1>3. Eq(it)
  <2> HIDE DEF Eq
  <2> QED BY <1>2
<1>4. \A T \in SUBSET S : it[T] = g[T]
  <2> DEFINE Bad == {T \in SUBSET S : it[T] # g[T]}
             R   == StrictSubsetOrdering(S)
  <2> SUFFICES ASSUME Bad # {} PROVE FALSE
    OBVIOUS
  <2>1. IsWellFoundedOn(R, SUBSET S)
    BY FS_StrictSubsetOrderingWellFounded, FS_FiniteSubsetsOfFinite
  <2>2. PICK T \in Bad : \A U \in Bad : ~ (<<U, T>> \in R)
    <3>1. Bad \subseteq SUBSET S
      OBVIOUS
    <3> HIDE DEF R, Bad
    <3> QED BY <2>1, <3>1, WFMin
  <2>3. CASE T = {}
    BY <1>3, <2>2, <2>3 DEF IsSumOf
  <2>4. CASE T # {}
    <3> DEFINE y == CHOOSE x \in T : TRUE
    <3>1. y \in T
      BY <2>4
    <3>2. it[T] = f[y] + it[T \ {y}]
      BY <1>3, <2>2, <2>4
    <3>3. g[T] = f[y] + g[T \ {y}]
      <4> HIDE DEF y
      <4> QED BY <2>2, <3>1 DEF IsSumOf
    <3>4. <<T \ {y}, T>> \in R
      BY <2>2, <3>1 DEF StrictSubsetOrdering
    <3>5. it[T \ {y}] = g[T \ {y}]
      BY <2>2, <3>4 DEF StrictSubsetOrdering
    <3> HIDE DEF y, it
    <3> QED BY <2>2, <3>2, <3>3, <3>5
  <2> QED BY <2>3, <2>4
<1> HIDE DEF it
<1> QED BY <1>1, <1>4

-----------------------------------------------------------------------------
(* Nothing sums to zero.                                                     *)
LEMMA SumOfNone ==
  ASSUME NEW f
  PROVE  SumFunctionOnSet(f, {}) = 0
BY DEF SumFunctionOnSet, FoldFunctionOnSet, MapThenFoldSet

(* One element more adds its value, and a sum of naturals is a natural.      *)
LEMMA SumOneMore ==
  ASSUME NEW S, IsFiniteSet(S), NEW f, \A x \in S : f[x] \in Nat, NEW x \in S
  PROVE  /\ SumFunctionOnSet(f, S) = f[x] + SumFunctionOnSet(f, S \ {x})
         /\ SumFunctionOnSet(f, S \ {x}) \in Nat
         /\ f[x] \in Nat
<1>1. PICK g : IsSumOf(g, f, S)
  BY SumExists
<1> DEFINE h == [T \in SUBSET (S \ {x}) |-> g[T]]
<1>2. IsSumOf(h, f, S \ {x})
  BY <1>1 DEF IsSumOf
<1>3. IsFiniteSet(S \ {x})
  BY FS_Subset
<1>4. SumFunctionOnSet(f, S) = g[S] /\ SumFunctionOnSet(f, S \ {x}) = h[S \ {x}]
  <2> HIDE DEF h
  <2> QED BY <1>1, <1>2, <1>3, SumUnrolled
<1> QED BY <1>1, <1>4 DEF IsSumOf

(* A sum of naturals is a natural, at least as large as each of its terms.   *)
LEMMA SumIsNat ==
  ASSUME NEW S, IsFiniteSet(S), NEW f, \A x \in S : f[x] \in Nat
  PROVE  /\ SumFunctionOnSet(f, S) \in Nat
         /\ \A x \in S : SumFunctionOnSet(f, S) >= f[x]
<1>1. CASE S = {}
  BY <1>1, SumOfNone
<1>2. ASSUME NEW x \in S
      PROVE  SumFunctionOnSet(f, S) \in Nat /\ SumFunctionOnSet(f, S) >= f[x]
  <2>1. /\ SumFunctionOnSet(f, S) = f[x] + SumFunctionOnSet(f, S \ {x})
        /\ SumFunctionOnSet(f, S \ {x}) \in Nat
        /\ f[x] \in Nat
    BY SumOneMore
  <2> QED BY <2>1
<1> QED BY <1>1, <1>2

(* Raising terms raises the sum.                                             *)
LEMMA SumMonotone ==
  ASSUME NEW S, IsFiniteSet(S), NEW f, NEW g,
         \A x \in S : f[x] \in Nat /\ g[x] \in Nat /\ f[x] <= g[x]
  PROVE  SumFunctionOnSet(f, S) <= SumFunctionOnSet(g, S)
<1> DEFINE Good == {T \in SUBSET S : SumFunctionOnSet(f, T) <= SumFunctionOnSet(g, T)}
<1>1. {} \in Good
  BY SumOfNone
<1>2. ASSUME NEW T \in SUBSET S, NEW x \in S \ T, T \in Good
      PROVE  T \cup {x} \in Good
  <2> DEFINE U == T \cup {x}
  <2>1. U \ {x} = T /\ x \in U /\ U \in SUBSET S
    OBVIOUS
  <2>2. IsFiniteSet(U)
    BY <2>1, FS_Subset
  <2>3. /\ SumFunctionOnSet(f, U) = f[x] + SumFunctionOnSet(f, U \ {x})
        /\ SumFunctionOnSet(f, U \ {x}) \in Nat
    <3> HIDE DEF U
    <3> QED BY <2>1, <2>2, SumOneMore
  <2>4. /\ SumFunctionOnSet(g, U) = g[x] + SumFunctionOnSet(g, U \ {x})
        /\ SumFunctionOnSet(g, U \ {x}) \in Nat
    <3> HIDE DEF U
    <3> QED BY <2>1, <2>2, SumOneMore
  <2>5. SumFunctionOnSet(f, U \ {x}) <= SumFunctionOnSet(g, U \ {x})
    BY <1>2, <2>1
  <2>6. SumFunctionOnSet(f, U) <= SumFunctionOnSet(g, U)
    <3> HIDE DEF U
    <3> QED BY <2>3, <2>4, <2>5
  <2> QED BY <2>1, <2>6
<1>3. S \in Good
  <2> HIDE DEF Good
  <2> QED BY <1>1, <1>2, SetInduction
<1> QED BY <1>3

(* The sizes of finitely many sets that share no element sum to the size of  *)
(* their union.                                                              *)
LEMMA SumOfParts ==
  ASSUME NEW I, IsFiniteSet(I), NEW P, \A i \in I : IsFiniteSet(P[i]),
         \A i, j \in I : i = j \/ P[i] \cap P[j] = {}
  PROVE  /\ IsFiniteSet(UNION {P[i] : i \in I})
         /\ SumFunction([i \in I |-> Cardinality(P[i])]) = Cardinality(UNION {P[i] : i \in I})
<1> DEFINE f == [i \in I |-> Cardinality(P[i])]
           U(T) == UNION {P[i] : i \in T}
           Good == {T \in SUBSET I : /\ IsFiniteSet(U(T))
                                     /\ SumFunctionOnSet(f, T) = Cardinality(U(T))}
<1>1. {} \in Good
  <2>1. U({}) = {}
    OBVIOUS
  <2>2. SumFunctionOnSet(f, {}) = 0
    BY SumOfNone
  <2> HIDE DEF U, f
  <2> QED BY <2>1, <2>2, FS_EmptySet
<1>2. ASSUME NEW T \in SUBSET I, NEW x \in I \ T, T \in Good
      PROVE  T \cup {x} \in Good
  <2> DEFINE V == T \cup {x}
  <2>1. V \in SUBSET I /\ x \in V /\ V \ {x} = T
    OBVIOUS
  <2>2. IsFiniteSet(V) /\ \A y \in V : f[y] = Cardinality(P[y]) /\ f[y] \in Nat
    BY FS_Subset, FS_CardinalityType
  <2>3. SumFunctionOnSet(f, V) = Cardinality(P[x]) + SumFunctionOnSet(f, T)
    <3> HIDE DEF V, f
    <3>1. SumFunctionOnSet(f, V) = f[x] + SumFunctionOnSet(f, V \ {x})
      BY <2>1, <2>2, SumOneMore
    <3> QED BY <2>1, <2>2, <3>1
  <2>4. U(V) = U(T) \cup P[x] /\ U(T) \cap P[x] = {}
    OBVIOUS
  <2>5. /\ IsFiniteSet(U(T)) /\ IsFiniteSet(P[x])
        /\ SumFunctionOnSet(f, T) = Cardinality(U(T))
    BY <1>2
  <2>6. /\ IsFiniteSet(U(V))
        /\ Cardinality(U(V)) = Cardinality(U(T)) + Cardinality(P[x])
    <3> HIDE DEF U, V
    <3>1. Cardinality(U(T)) \in Nat /\ Cardinality(P[x]) \in Nat
      BY <2>5, FS_CardinalityType
    <3>2. /\ IsFiniteSet(U(T) \cup P[x])
          /\ Cardinality(U(T) \cup P[x])
               = Cardinality(U(T)) + Cardinality(P[x]) - Cardinality(U(T) \cap P[x])
      BY <2>5, FS_Union
    <3>3. Cardinality(U(T) \cap P[x]) = 0
      BY <2>4, FS_EmptySet
    <3> QED BY <2>4, <3>1, <3>2, <3>3
  <2>7. Cardinality(U(T)) \in Nat /\ Cardinality(P[x]) \in Nat
    BY <2>5, FS_CardinalityType
  <2>8. SumFunctionOnSet(f, V) = Cardinality(U(V))
    <3> HIDE DEF U, V, f
    <3> QED BY <2>3, <2>5, <2>6, <2>7
  <2> HIDE DEF U, f
  <2> QED BY <2>1, <2>6, <2>8
<1>3. I \in Good
  <2> HIDE DEF Good
  <2> QED BY <1>1, <1>2, SetInduction
<1>4. SumFunctionOnSet(f, I) = Cardinality(U(I)) /\ IsFiniteSet(U(I))
  <2> HIDE DEF f, U
  <2> QED BY <1>3
<1>5. SumFunction(f) = SumFunctionOnSet(f, I)
  <2>1. DOMAIN f = I
    OBVIOUS
  <2> HIDE DEF f
  <2> QED BY <2>1 DEF SumFunction
<1> QED BY <1>4, <1>5
=============================================================================
