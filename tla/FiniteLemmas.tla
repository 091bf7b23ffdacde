---------------------------- MODULE FiniteLemmas ----------------------------
(***************************************************************************)
(* Facts about finite sets and indices, and what SumFunctionOnSet of       *)
(* module Functions computes, the sum of the values of a function over a   *)
(* finite set.                                                             *)
(*                                                                         *)
(* The sum is a fold, so nothing is known of it but a recursive equation,  *)
(* and that equation has to be justified first.  Induction is stated for a *)
(* set of good subsets in place of a predicate.                            *)
(***************************************************************************)
EXTENDS Functions, FiniteSetTheorems, WellFoundedInduction, TLAPS

-----------------------------------------------------------------------------
(* Induction over finite sets.                                             *)

\* A set of subsets that contains a set whenever it contains all its smaller
\* parts contains them all.
LEMMA SmallerFirst ==
  ASSUME NEW S, IsFiniteSet(S), NEW Good,
         \A T \in SUBSET S :
           (\A U \in SUBSET T : U # T => U \in Good) => T \in Good
  PROVE  \A T \in SUBSET S : T \in Good
<1> DEFINE Bad == {T \in SUBSET S : T \notin Good}
<1> SUFFICES ASSUME Bad # {} PROVE FALSE
  OBVIOUS
<1>1. FiniteSubsetsOf(S) = SUBSET S
  BY FS_FiniteSubsetsOfFinite
<1>2. IsWellFoundedOn(StrictSubsetOrdering(S), FiniteSubsetsOf(S))
  BY FS_StrictSubsetOrderingWellFounded
<1>3. \E T \in Bad : \A U \in Bad : ~ (<<U, T>> \in StrictSubsetOrdering(S))
  <2>1. Bad \subseteq FiniteSubsetsOf(S)
    BY <1>1
  <2> HIDE DEF Bad
  <2> QED
    BY <1>2, <2>1, WFMin
<1>4. PICK T \in Bad : \A U \in Bad : ~ (<<U, T>> \in StrictSubsetOrdering(S))
  BY <1>3
<1>5. ASSUME NEW U \in SUBSET T, U # T
      PROVE  U \in Good
  <2>1. <<U, T>> \in StrictSubsetOrdering(S)
    BY <1>5 DEF StrictSubsetOrdering
  <2> QED
    BY <1>4, <2>1
<1> QED
  BY <1>5

\* ... and one that stays good element by element contains the whole.
LEMMA ElementByElement ==
  ASSUME NEW S, IsFiniteSet(S), NEW Good, {} \in Good,
         \A T \in SUBSET S : \A x \in S \ T : T \in Good => T \cup {x} \in Good
  PROVE  S \in Good
<1>1. ASSUME NEW T \in SUBSET S, \A U \in SUBSET T : U # T => U \in Good
      PROVE  T \in Good
  <2>1. CASE T = {}
    BY <2>1
  <2>2. CASE T # {}
    <3>1. PICK x \in T : TRUE
      BY <2>2
    <3>2. T \ {x} \in SUBSET T /\ T \ {x} # T /\ x \in S \ (T \ {x})
      OBVIOUS
    <3>3. T \ {x} \in Good
      BY <1>1, <3>2
    <3>4. (T \ {x}) \cup {x} = T
      OBVIOUS
    <3> QED
      BY <3>2, <3>3, <3>4
  <2> QED
    BY <2>1, <2>2
<1>2. \A T \in SUBSET S : T \in Good
  <2>1. \A T \in SUBSET S : (\A U \in SUBSET T : U # T => U \in Good) => T \in Good
    BY <1>1
  <2> QED
    BY <2>1, SmallerFirst
<1> QED
  BY <1>2

-----------------------------------------------------------------------------
(* Sets of indices.                                                        *)

\* A non-empty set of indices has a last one, such as the item that wins when
\* several items of a bulk request aim at one row,
LEMMA LastIndex ==
  ASSUME NEW n \in Nat, NEW S \in SUBSET (1..n), S # {}
  PROVE  \E i \in S : \A j \in S : j <= i
<1> DEFINE gap == {x \in 0..n : n - x \in S}
<1>1. gap \in SUBSET Nat /\ gap # {}
  <2>1. PICK i \in 1..n : i \in S
    OBVIOUS
  <2>2. n - i \in 0..n /\ n - (n - i) = i
    OBVIOUS
  <2>3. n - (n - i) \in S
    BY <2>1, <2>2
  <2>4. n - i \in gap
    BY <2>2, <2>3
  <2>5. gap \subseteq Nat
    OBVIOUS
  <2> QED
    BY <2>4, <2>5
<1>2. \E x \in gap : \A y \in gap : ~ (<<y, x>> \in OpToRel(<, Nat))
  <2> HIDE DEF gap
  <2> QED
    BY <1>1, NatLessThanWellFounded, WFMin
<1>3. PICK x \in gap : \A y \in gap : ~ (<<y, x>> \in OpToRel(<, Nat))
  BY <1>2
<1>4. \A y \in gap : ~ (y < x)
  BY <1>1, <1>3 DEF OpToRel
<1>5. \A j \in S : n - j \in gap /\ j \in Int
  <2> TAKE j \in S
  <2>1. j \in 1..n
    OBVIOUS
  <2>2. n - j \in 0..n /\ n - (n - j) = j
    BY <2>1
  <2> QED
    BY <2>1, <2>2
<1>6. n - x \in S /\ x \in 0..n
  BY <1>3
<1>7. \A j \in S : j <= n - x
  <2> TAKE j \in S
  <2>1. ~ (n - j < x)
    BY <1>4, <1>5
  <2> QED
    BY <1>5, <1>6, <2>1
<1> QED
  BY <1>6, <1>7

\* and a first one, such as the item that inserts the row the others update.
LEMMA FirstIndex ==
  ASSUME NEW n \in Nat, NEW S \in SUBSET (1..n), S # {}
  PROVE  \E i \in S : \A j \in S : i <= j
<1>1. S \in SUBSET Nat
  OBVIOUS
<1>2. \E i \in S : \A j \in S : ~ (<<j, i>> \in OpToRel(<, Nat))
  BY <1>1, NatLessThanWellFounded, WFMin
<1>3. PICK i \in S : \A j \in S : ~ (<<j, i>> \in OpToRel(<, Nat))
  BY <1>2
<1>4. \A j \in S : ~ (j < i)
  BY <1>1, <1>3 DEF OpToRel
<1> QED
  BY <1>1, <1>4

\* A set of indices without gaps starts at 1 and is as long as it is large.
LEMMA InitialSegment ==
  ASSUME NEW n \in Nat, NEW D \in SUBSET (1..n),
         \A i \in D : \A j \in 1..i : j \in D
  PROVE  D = 1..Cardinality(D)
<1>1. CASE D = {}
  BY <1>1, FS_EmptySet
<1>2. CASE D # {}
  <2>1. PICK m \in D : \A j \in D : j <= m
    BY <1>2, LastIndex
  <2>2. D = 1..m /\ m \in Nat
    <3>1. m \in 1..n
      BY <2>1
    <3>2. \A j \in D : j \in 1..m
      BY <2>1, <3>1
    <3>3. \A j \in 1..m : j \in D
      BY <2>1
    <3>4. D \subseteq 1..m /\ 1..m \subseteq D
      BY <3>2, <3>3
    <3>5. D = 1..m
      BY <3>4
    <3> QED
      BY <3>1, <3>5
  <2>3. Cardinality(D) = m
    BY <2>2, FS_Interval
  <2> QED
    BY <2>2, <2>3
<1> QED
  BY <1>1, <1>2

\* f tells the elements of S apart, and those of T are their images.
Renames(f, S, T) ==
  /\ \A x, y \in S : f[x] = f[y] => x = y
  /\ \A x \in S : f[x] \in T
  /\ \A z \in T : \E x \in S : f[x] = z

LEMMA AsMany ==
  ASSUME NEW S, IsFiniteSet(S), NEW T, NEW f, Renames(f, S, T)
  PROVE  IsFiniteSet(T) /\ Cardinality(T) = Cardinality(S)
<1> DEFINE g == [x \in S |-> f[x]]
<1>1. g \in [S -> T]
  BY DEF Renames
<1>2. \A x, y \in S : g[x] = g[y] => x = y
  BY DEF Renames
<1>3. \A z \in T : \E x \in S : g[x] = z
  BY DEF Renames
<1>4. ExistsBijection(S, T)
  <2> HIDE DEF g
  <2> QED
    BY <1>1, <1>2, <1>3 DEF ExistsBijection, Bijection, Injection, Surjection, IsInjective
<1> QED
  BY <1>4, FS_Bijection

\* An enumeration of a finite set without repetitions leaves nothing out.
LEMMA Enumerated ==
  ASSUME NEW S, IsFiniteSet(S), NEW f \in [1..Cardinality(S) -> S],
         \A i, j \in 1..Cardinality(S) : f[i] = f[j] => i = j
  PROVE  {f[i] : i \in 1..Cardinality(S)} = S
<1> DEFINE D == 1..Cardinality(S)
           T == {f[i] : i \in D}
<1>1. Cardinality(S) \in Nat
  BY FS_CardinalityType
<1>2. IsFiniteSet(D) /\ Cardinality(D) = Cardinality(S)
  BY <1>1, FS_Interval
<1>3. Cardinality(T) = Cardinality(S)
  <2>1. Renames(f, D, T)
    BY DEF Renames
  <2> HIDE DEF D, T
  <2> QED
    BY <1>2, <2>1, AsMany
<1>4. T \in SUBSET S
  OBVIOUS
<1> QED
  BY <1>3, <1>4, FS_Subset

\* A finite set has an enumeration in the order of any strict total order: an
\* element's place is the number of those before it.
LEMMA SortedEnumeration ==
  ASSUME NEW S, IsFiniteSet(S), NEW R,
         \A x \in S : <<x, x>> \notin R,
         \A x, y \in S : x # y => <<x, y>> \in R \/ <<y, x>> \in R,
         \A x, y, z \in S : <<x, y>> \in R /\ <<y, z>> \in R => <<x, z>> \in R
  PROVE  \E g \in [1..Cardinality(S) -> S] :
           /\ \A i, j \in 1..Cardinality(S) : g[i] = g[j] => i = j
           /\ \A i, j \in 1..Cardinality(S) : i < j => <<g[i], g[j]>> \in R
<1> DEFINE n == Cardinality(S)
           First(x) == {y \in S : <<y, x>> \in R}
           rank == [x \in S |-> Cardinality(First(x)) + 1]
           Ranks == {rank[x] : x \in S}
<1>1. n \in Nat
  BY FS_CardinalityType
<1>2. ASSUME NEW x \in S
      PROVE  IsFiniteSet(First(x)) /\ Cardinality(First(x)) \in Nat
  BY FS_Subset, FS_CardinalityType
<1>3. \A x \in S : rank[x] \in 1..n
  <2>1. ASSUME NEW x \in S
        PROVE  Cardinality(First(x)) + 1 \in 1..n
    <3>1. First(x) \subseteq S /\ x \notin First(x)
      OBVIOUS
    <3>2. Cardinality(First(x)) <= n /\ Cardinality(First(x)) # n
      <4> HIDE DEF First
      <4> QED
        BY <3>1, FS_Subset
    <3> QED
      BY <1>1, <1>2, <3>2
  <2> QED
    BY <2>1
<1>4. ASSUME NEW x \in S, NEW y \in S, <<x, y>> \in R
      PROVE  rank[x] < rank[y]
  <2>1. First(x) \subseteq First(y) /\ x \in First(y) /\ x \notin First(x)
    BY <1>4
  <2>2. Cardinality(First(x)) <= Cardinality(First(y))
        /\ Cardinality(First(x)) # Cardinality(First(y))
    <3>1. IsFiniteSet(First(y))
      BY <1>2
    <3> HIDE DEF First
    <3> QED
      BY <2>1, <3>1, FS_Subset
  <2>3. Cardinality(First(x)) < Cardinality(First(y))
    <3>1. Cardinality(First(x)) \in Nat /\ Cardinality(First(y)) \in Nat
      BY <1>2
    <3> HIDE DEF First
    <3> QED
      BY <2>2, <3>1
  <2>4. Cardinality(First(x)) \in Nat /\ Cardinality(First(y)) \in Nat
    BY <1>2
  <2> HIDE DEF First
  <2> QED
    BY <2>3, <2>4
<1>5. \A x, y \in S : rank[x] = rank[y] => x = y
  <2>1. ASSUME NEW x \in S, NEW y \in S, x # y
        PROVE  rank[x] # rank[y]
    <3>1. rank[x] < rank[y] \/ rank[y] < rank[x]
      BY <1>4, <2>1
    <3>2. rank[x] \in Nat /\ rank[y] \in Nat
      BY <1>1, <1>3
    <3> HIDE DEF rank
    <3> QED
      BY <3>1, <3>2
  <2> QED
    BY <2>1
<1> HIDE DEF rank
<1>6. Ranks = 1..n
  <2>1. Renames(rank, S, Ranks)
    BY <1>5 DEF Renames
  <2>2. Ranks \subseteq 1..n
    BY <1>3
  <2> HIDE DEF Ranks
  <2>3. Cardinality(Ranks) = n
    BY <2>1, AsMany
  <2>4. IsFiniteSet(1..n) /\ Cardinality(1..n) = n
    BY <1>1, FS_Interval
  <2> HIDE DEF n
  <2> QED
    BY <2>2, <2>3, <2>4, FS_Subset
<1> DEFINE g == [i \in 1..n |-> CHOOSE x \in S : rank[x] = i]
<1>7. \A i \in 1..n : g[i] \in S /\ rank[g[i]] = i
  <2>1. ASSUME NEW i \in 1..n
        PROVE  \E x \in S : rank[x] = i
    BY <1>6
  <2> HIDE DEF n
  <2> QED
    BY <2>1
<1>8. g \in [1..n -> S]
  BY <1>7
<1> HIDE DEF g
<1>9. \A i, j \in 1..n : g[i] = g[j] => i = j
  BY <1>7
<1>10. ASSUME NEW i \in 1..n, NEW j \in 1..n, i < j
       PROVE  <<g[i], g[j]>> \in R
  <2>1. g[i] # g[j]
    BY <1>1, <1>7, <1>10
  <2>2. <<g[j], g[i]>> \notin R
    <3>1. <<g[j], g[i]>> \in R => rank[g[j]] < rank[g[i]]
      BY <1>4, <1>7
    <3> QED
      BY <1>1, <1>7, <1>10, <3>1
  <2> QED
    BY <1>7, <2>1, <2>2
<1> QED
  BY <1>8, <1>9, <1>10

-----------------------------------------------------------------------------
(* The recursive equation.                                                 *)

One(s) == CHOOSE x \in s : TRUE

LEMMA OneOf ==
  ASSUME NEW s, s # {}
  PROVE  One(s) \in s
  BY DEF One

Body(w, it, s) == IF s = {} THEN 0 ELSE w[One(s)] + it[s \ {One(s)}]

IsSum(w, it, T) == it = [s \in SUBSET T |-> Body(w, it, s)]

Summing(w, T) == CHOOSE it : IsSum(w, it, T)

LEMMA SumIsFold ==
  ASSUME NEW w, NEW T
  PROVE  SumFunctionOnSet(w, T) = Summing(w, T)[T]
  BY DEF SumFunctionOnSet, FoldFunctionOnSet, MapThenFoldSet, Summing, IsSum, Body, One

\* Two ways of summing agree wherever both are defined.
LEMMA SumsAgree ==
  ASSUME NEW w, NEW T, IsFiniteSet(T), NEW U \in SUBSET T, NEW f, NEW g,
         IsSum(w, f, T), IsSum(w, g, U)
  PROVE  f[U] = g[U]
<1> DEFINE Good == {s \in SUBSET U : f[s] = g[s]}
<1>1. IsFiniteSet(U)
  BY FS_Subset
<1>2. ASSUME NEW s \in SUBSET U, \A r \in SUBSET s : r # s => r \in Good
      PROVE  s \in Good
  <2>1. f[s] = Body(w, f, s) /\ g[s] = Body(w, g, s)
    BY DEF IsSum
  <2>2. CASE s = {}
    BY <2>1, <2>2 DEF Body
  <2>3. CASE s # {}
    <3>1. s \ {One(s)} \in SUBSET s /\ s \ {One(s)} # s
      BY <2>3, OneOf
    <3>2. f[s \ {One(s)}] = g[s \ {One(s)}]
      BY <1>2, <3>1
    <3> QED
      BY <2>1, <2>3, <3>2 DEF Body
  <2> QED
    BY <2>2, <2>3
<1>3. \A s \in SUBSET U : s \in Good
  <2>1. \A s \in SUBSET U : (\A r \in SUBSET s : r # s => r \in Good) => s \in Good
    BY <1>2
  <2> HIDE DEF Good
  <2> QED
    BY <1>1, <2>1, SmallerFirst
<1> QED
  BY <1>3

LEMMA SummingExists ==
  ASSUME NEW w, NEW S, IsFiniteSet(S)
  PROVE  IsSum(w, Summing(w, S), S)
<1> DEFINE Good == {T \in SUBSET S : \E it : IsSum(w, it, T)}
<1>1. ASSUME NEW T \in SUBSET S, \A U \in SUBSET T : U # T => U \in Good
      PROVE  T \in Good
  <2> DEFINE F(s) == IF s = {} THEN 0
                     ELSE w[One(s)] + Summing(w, s \ {One(s)})[s \ {One(s)}]
             it == [s \in SUBSET T |-> F(s)]
  <2>1. ASSUME NEW U \in SUBSET T, U # T
        PROVE  IsSum(w, Summing(w, U), U)
    <3>1. \E f : IsSum(w, f, U)
      BY <1>1, <2>1
    <3> QED
      BY <3>1 DEF Summing
  <2>2. ASSUME NEW s \in SUBSET T
        PROVE  F(s) = Body(w, it, s)
    <3>1. CASE s = {}
      BY <3>1 DEF Body
    <3>2. CASE s # {}
      <4> DEFINE u == s \ {One(s)}
      <4>1. u \in SUBSET T /\ u # T
        BY <3>2, OneOf
      <4>2. it[u] = F(u)
        BY <4>1
      <4>3. Summing(w, u)[u] = Body(w, Summing(w, u), u)
        BY <2>1, <4>1 DEF IsSum
      <4>4. F(u) = Summing(w, u)[u]
        <5>1. CASE u = {}
          BY <4>3, <5>1 DEF Body
        <5>2. CASE u # {}
          <6> DEFINE v == u \ {One(u)}
          <6>1. v \in SUBSET u /\ v \in SUBSET T /\ v # T
            BY <4>1
          <6>2. IsSum(w, Summing(w, u), u) /\ IsSum(w, Summing(w, v), v)
            BY <2>1, <4>1, <6>1
          <6>3. IsFiniteSet(u)
            BY FS_Subset
          <6>4. Summing(w, u)[v] = Summing(w, v)[v]
            <7> HIDE DEF u, v
            <7> QED
              BY <6>1, <6>2, <6>3, SumsAgree
          <6>5. F(u) = w[One(u)] + Summing(w, v)[v]
            BY <5>2
          <6>6. Body(w, Summing(w, u), u) = w[One(u)] + Summing(w, u)[v]
            BY <5>2 DEF Body
          <6> QED
            BY <4>3, <6>4, <6>5, <6>6
        <5> QED
          BY <5>1, <5>2
      <4>5. F(s) = w[One(s)] + Summing(w, u)[u]
        BY <3>2
      <4>6. Body(w, it, s) = w[One(s)] + it[u]
        <5> HIDE DEF it
        <5> QED
          BY <3>2 DEF Body
      <4> QED
        BY <4>2, <4>4, <4>5, <4>6
    <3> QED
      BY <3>1, <3>2
  <2>3. IsSum(w, it, T)
    <3>1. [s \in SUBSET T |-> F(s)] = [s \in SUBSET T |-> Body(w, it, s)]
      <4> HIDE DEF F, it
      <4> QED
        BY <2>2
    <3> QED
      BY <3>1 DEF IsSum
  <2> QED
    BY <2>3
<1>2. \A T \in SUBSET S : T \in Good
  <2>1. \A T \in SUBSET S : (\A U \in SUBSET T : U # T => U \in Good) => T \in Good
    BY <1>1
  <2> HIDE DEF Good
  <2> QED
    BY <2>1, SmallerFirst
<1>3. \E it : IsSum(w, it, S)
  BY <1>2
<1> QED
  BY <1>3 DEF Summing

LEMMA SumUnfolds ==
  ASSUME NEW w, NEW S, IsFiniteSet(S), S # {}
  PROVE  SumFunctionOnSet(w, S) = w[One(S)] + SumFunctionOnSet(w, S \ {One(S)})
<1> DEFINE R == S \ {One(S)}
<1>1. IsFiniteSet(R) /\ R \in SUBSET S
  BY FS_Subset
<1>2. IsSum(w, Summing(w, S), S) /\ IsSum(w, Summing(w, R), R)
  BY <1>1, SummingExists
<1>3. Summing(w, S)[S] = w[One(S)] + Summing(w, S)[R]
  BY <1>2 DEF IsSum, Body
<1>4. Summing(w, S)[R] = Summing(w, R)[R]
  <2> HIDE DEF R
  <2> QED
    BY <1>1, <1>2, SumsAgree
<1> QED
  BY <1>3, <1>4, SumIsFold

LEMMA SumOfNone ==
  ASSUME NEW w
  PROVE  SumFunctionOnSet(w, {}) = 0
<1>1. IsSum(w, Summing(w, {}), {})
  BY SummingExists, FS_EmptySet
<1> QED
  BY <1>1, SumIsFold DEF IsSum, Body

-----------------------------------------------------------------------------
(* The laws of sums.                                                       *)

LEMMA SumIsInt ==
  ASSUME NEW S, IsFiniteSet(S), NEW w, \A x \in S : w[x] \in Int
  PROVE  SumFunctionOnSet(w, S) \in Int
<1> DEFINE Good == {T \in SUBSET S : SumFunctionOnSet(w, T) \in Int}
<1>1. ASSUME NEW T \in SUBSET S, \A U \in SUBSET T : U # T => U \in Good
      PROVE  T \in Good
  <2>1. CASE T = {}
    BY <2>1, SumOfNone
  <2>2. CASE T # {}
    <3>1. One(T) \in S /\ T \ {One(T)} \in SUBSET T /\ T \ {One(T)} # T
      BY <2>2, OneOf
    <3>2. SumFunctionOnSet(w, T) = w[One(T)] + SumFunctionOnSet(w, T \ {One(T)})
      BY <2>2, SumUnfolds, FS_Subset
    <3>3. SumFunctionOnSet(w, T \ {One(T)}) \in Int
      BY <1>1, <3>1
    <3> QED
      BY <3>1, <3>2, <3>3
  <2> QED
    BY <2>1, <2>2
<1>2. \A T \in SUBSET S : T \in Good
  <2>1. \A T \in SUBSET S : (\A U \in SUBSET T : U # T => U \in Good) => T \in Good
    BY <1>1
  <2> HIDE DEF Good
  <2> QED
    BY <2>1, SmallerFirst
<1> QED
  BY <1>2

\* Any element may be taken first.
LEMMA SumTakes ==
  ASSUME NEW S, IsFiniteSet(S), NEW w, \A x \in S : w[x] \in Int, NEW y \in S
  PROVE  SumFunctionOnSet(w, S) = w[y] + SumFunctionOnSet(w, S \ {y})
<1> DEFINE Good == {T \in SUBSET S :
                      \A x \in T : SumFunctionOnSet(w, T)
                                     = w[x] + SumFunctionOnSet(w, T \ {x})}
<1>1. ASSUME NEW T \in SUBSET S, \A U \in SUBSET T : U # T => U \in Good,
             NEW x \in T
      PROVE  SumFunctionOnSet(w, T) = w[x] + SumFunctionOnSet(w, T \ {x})
  <2> DEFINE o == One(T)
             R == T \ {o}
  <2>1. o \in T /\ R \in SUBSET T /\ R # T
    BY OneOf
  <2>2. IsFiniteSet(T)
    BY FS_Subset
  <2>3. SumFunctionOnSet(w, T) = w[o] + SumFunctionOnSet(w, R)
    BY <2>2, SumUnfolds
  <2>4. CASE x = o
    BY <2>3, <2>4
  <2>5. CASE x # o
    <3> DEFINE Q == R \ {x}
    <3>1. SumFunctionOnSet(w, R) = w[x] + SumFunctionOnSet(w, Q)
      <4>1. x \in R /\ R \in Good
        BY <1>1, <2>1, <2>5
      <4> QED
        BY <4>1
    <3>2. T \ {x} \in SUBSET T /\ T \ {x} # T /\ o \in T \ {x} /\ (T \ {x}) \ {o} = Q
      BY <2>1, <2>5
    <3>3. SumFunctionOnSet(w, T \ {x}) = w[o] + SumFunctionOnSet(w, Q)
      <4>1. T \ {x} \in Good
        BY <1>1, <3>2
      <4> HIDE DEF Q, o
      <4>2. SumFunctionOnSet(w, T \ {x}) = w[o] + SumFunctionOnSet(w, (T \ {x}) \ {o})
        BY <3>2, <4>1
      <4> QED
        BY <3>2, <4>2
    <3>4. SumFunctionOnSet(w, Q) \in Int
      <4>1. IsFiniteSet(Q) /\ \A z \in Q : w[z] \in Int
        BY FS_Subset
      <4> HIDE DEF Q
      <4> QED
        BY <4>1, SumIsInt
    <3>5. w[o] \in Int /\ w[x] \in Int
      BY <2>1
    <3> HIDE DEF Q, R, o
    <3> QED
      BY <2>3, <3>1, <3>3, <3>4, <3>5
  <2> QED
    BY <2>4, <2>5
<1>2. \A T \in SUBSET S : T \in Good
  <2>1. \A T \in SUBSET S : (\A U \in SUBSET T : U # T => U \in Good) => T \in Good
    BY <1>1
  <2> HIDE DEF Good
  <2> QED
    BY <2>1, SmallerFirst
<1>3. S \in Good
  BY <1>2
<1> QED
  BY <1>3

LEMMA SumAdds ==
  ASSUME NEW S, IsFiniteSet(S), NEW y, y \notin S, NEW w,
         \A x \in S \cup {y} : w[x] \in Int
  PROVE  SumFunctionOnSet(w, S \cup {y}) = w[y] + SumFunctionOnSet(w, S)
<1>1. IsFiniteSet(S \cup {y}) /\ (S \cup {y}) \ {y} = S
  BY FS_AddElement
<1>2. SumFunctionOnSet(w, S \cup {y})
        = w[y] + SumFunctionOnSet(w, (S \cup {y}) \ {y})
  BY <1>1, SumTakes
<1> QED
  BY <1>1, <1>2

\* Functions that agree on the set have one sum.
LEMMA SameSum ==
  ASSUME NEW S, IsFiniteSet(S), NEW v, NEW w,
         \A x \in S : v[x] \in Int /\ w[x] = v[x]
  PROVE  SumFunctionOnSet(w, S) = SumFunctionOnSet(v, S)
<1> DEFINE Good == {T \in SUBSET S : SumFunctionOnSet(w, T) = SumFunctionOnSet(v, T)}
<1>1. {} \in Good
  BY SumOfNone
<1>2. \A T \in SUBSET S : \A x \in S \ T : T \in Good => T \cup {x} \in Good
  <2> TAKE T \in SUBSET S
  <2> TAKE x \in S \ T
  <2> HAVE T \in Good
  <2>1. IsFiniteSet(T)
    BY FS_Subset
  <2>2. /\ SumFunctionOnSet(w, T \cup {x}) = w[x] + SumFunctionOnSet(w, T)
        /\ SumFunctionOnSet(v, T \cup {x}) = v[x] + SumFunctionOnSet(v, T)
    <3>1. \A y \in T \cup {x} : w[y] \in Int /\ v[y] \in Int
      OBVIOUS
    <3> QED
      BY <2>1, <3>1, SumAdds
  <2> QED
    BY <2>2
<1>3. S \in Good
  <2> HIDE DEF Good
  <2> QED
    BY <1>1, <1>2, ElementByElement
<1> QED
  BY <1>3

\* Values that add up pointwise add up in the sums.
LEMMA SumOfSums ==
  ASSUME NEW S, IsFiniteSet(S), NEW u, NEW v, NEW w,
         \A x \in S : u[x] \in Int /\ v[x] \in Int /\ w[x] = u[x] + v[x]
  PROVE  SumFunctionOnSet(w, S) = SumFunctionOnSet(u, S) + SumFunctionOnSet(v, S)
<1> DEFINE Good == {T \in SUBSET S : SumFunctionOnSet(w, T)
                      = SumFunctionOnSet(u, T) + SumFunctionOnSet(v, T)}
<1>1. {} \in Good
  BY SumOfNone
<1>2. \A T \in SUBSET S : \A x \in S \ T : T \in Good => T \cup {x} \in Good
  <2> TAKE T \in SUBSET S
  <2> TAKE x \in S \ T
  <2> HAVE T \in Good
  <2>1. IsFiniteSet(T)
    BY FS_Subset
  <2>2. \A y \in T \cup {x} : u[y] \in Int /\ v[y] \in Int /\ w[y] \in Int
    OBVIOUS
  <2>3. /\ SumFunctionOnSet(u, T \cup {x}) = u[x] + SumFunctionOnSet(u, T)
        /\ SumFunctionOnSet(v, T \cup {x}) = v[x] + SumFunctionOnSet(v, T)
        /\ SumFunctionOnSet(w, T \cup {x}) = w[x] + SumFunctionOnSet(w, T)
    BY <2>1, <2>2, SumAdds
  <2>4. SumFunctionOnSet(u, T) \in Int /\ SumFunctionOnSet(v, T) \in Int
    BY <2>1, <2>2, SumIsInt
  <2> QED
    BY <2>2, <2>3, <2>4
<1>3. S \in Good
  <2> HIDE DEF Good
  <2> QED
    BY <1>1, <1>2, ElementByElement
<1> QED
  BY <1>3

\* The sum of a function that is one on a part and zero elsewhere counts the
\* part.
LEMMA SumCounts ==
  ASSUME NEW S, IsFiniteSet(S), NEW P, NEW w,
         \A x \in S : w[x] = IF x \in P THEN 1 ELSE 0
  PROVE  SumFunctionOnSet(w, S) = Cardinality(S \cap P)
<1> DEFINE Good == {T \in SUBSET S : SumFunctionOnSet(w, T) = Cardinality(T \cap P)}
<1>1. {} \in Good
  BY SumOfNone, FS_EmptySet
<1>2. \A T \in SUBSET S : \A x \in S \ T : T \in Good => T \cup {x} \in Good
  <2> TAKE T \in SUBSET S
  <2> TAKE x \in S \ T
  <2> HAVE T \in Good
  <2>1. IsFiniteSet(T) /\ IsFiniteSet(T \cap P) /\ Cardinality(T \cap P) \in Nat
    BY FS_Subset, FS_CardinalityType
  <2>2. SumFunctionOnSet(w, T \cup {x}) = w[x] + SumFunctionOnSet(w, T)
    <3>1. \A y \in T \cup {x} : w[y] \in Int
      OBVIOUS
    <3> QED
      BY <2>1, <3>1, SumAdds
  <2>3. CASE x \in P
    <3>1. (T \cup {x}) \cap P = (T \cap P) \cup {x} /\ x \notin T \cap P
      BY <2>3
    <3>2. Cardinality((T \cup {x}) \cap P) = Cardinality(T \cap P) + 1
      BY <2>1, <3>1, FS_AddElement
    <3> QED
      BY <2>1, <2>2, <2>3, <3>2
  <2>4. CASE x \notin P
    <3>1. (T \cup {x}) \cap P = T \cap P
      BY <2>4
    <3>2. SumFunctionOnSet(w, T) = Cardinality(T \cap P) /\ w[x] = 0
      BY <2>4
    <3>3. SumFunctionOnSet(w, T \cup {x}) = Cardinality(T \cap P)
      <4> HIDE DEF Good
      <4> QED
        BY <2>1, <2>2, <3>2
    <3> QED
      BY <3>1, <3>3
  <2> QED
    BY <2>3, <2>4
<1>3. S \in Good
  <2> HIDE DEF Good
  <2> QED
    BY <1>1, <1>2, ElementByElement
<1> QED
  BY <1>3

\* A renaming of the elements does not change a sum.
LEMMA SumRenamed ==
  ASSUME NEW S, IsFiniteSet(S), NEW T, NEW f, Renames(f, S, T), NEW v, NEW w,
         \A x \in S : v[f[x]] \in Int /\ w[x] = v[f[x]]
  PROVE  SumFunctionOnSet(w, S) = SumFunctionOnSet(v, T)
<1> DEFINE Image(U) == {z \in T : \E x \in U : f[x] = z}
           Good == {U \in SUBSET S : /\ IsFiniteSet(Image(U))
                                     /\ SumFunctionOnSet(w, U)
                                          = SumFunctionOnSet(v, Image(U))}
<1>1. {} \in Good
  <2>1. Image({}) = {}
    OBVIOUS
  <2> QED
    BY <2>1, SumOfNone, FS_EmptySet
<1>2. \A U \in SUBSET S : \A y \in S \ U : U \in Good => U \cup {y} \in Good
  <2> TAKE U \in SUBSET S
  <2> TAKE y \in S \ U
  <2> HAVE U \in Good
  <2>1. IsFiniteSet(U) /\ IsFiniteSet(Image(U))
    BY FS_Subset
  <2>2. Image(U \cup {y}) = Image(U) \cup {f[y]} /\ f[y] \notin Image(U)
    BY DEF Renames
  <2>3. SumFunctionOnSet(w, U \cup {y}) = w[y] + SumFunctionOnSet(w, U)
    <3>1. \A x \in U \cup {y} : w[x] \in Int
      OBVIOUS
    <3> QED
      BY <2>1, <3>1, SumAdds
  <2>4. SumFunctionOnSet(v, Image(U) \cup {f[y]}) = v[f[y]] + SumFunctionOnSet(v, Image(U))
    <3>1. \A z \in Image(U) \cup {f[y]} : v[z] \in Int
      OBVIOUS
    <3> HIDE DEF Image
    <3> QED
      BY <2>1, <2>2, <3>1, SumAdds
  <2>5. IsFiniteSet(Image(U) \cup {f[y]})
    BY <2>1, FS_AddElement
  <2>6. SumFunctionOnSet(w, U) = SumFunctionOnSet(v, Image(U)) /\ w[y] = v[f[y]]
    OBVIOUS
  <2> HIDE DEF Image
  <2> QED
    BY <2>2, <2>3, <2>4, <2>5, <2>6
<1>3. S \in Good
  <2> HIDE DEF Good
  <2> QED
    BY <1>1, <1>2, ElementByElement
<1>4. Image(S) = T
  BY DEF Renames
<1> QED
  BY <1>3, <1>4

\* Part of a set adds up to no more than the whole, when nothing is negative.
LEMMA SumOfPart ==
  ASSUME NEW S, IsFiniteSet(S), NEW T \in SUBSET S, NEW w, \A x \in S : w[x] \in Nat
  PROVE  SumFunctionOnSet(w, T) <= SumFunctionOnSet(w, S)
<1> DEFINE Good == {U \in SUBSET S :
                      SumFunctionOnSet(w, U \cap T) <= SumFunctionOnSet(w, U)}
<1>1. {} \in Good
  <2>1. {} \cap T = {}
    OBVIOUS
  <2> QED
    BY <2>1, SumOfNone
<1>2. \A U \in SUBSET S : \A x \in S \ U : U \in Good => U \cup {x} \in Good
  <2> TAKE U \in SUBSET S
  <2> TAKE x \in S \ U
  <2> HAVE U \in Good
  <2>1. IsFiniteSet(U) /\ IsFiniteSet(U \cap T)
    BY FS_Subset
  <2>2. w[x] \in Nat /\ SumFunctionOnSet(w, U \cap T) <= SumFunctionOnSet(w, U)
    OBVIOUS
  <2>3. /\ \A y \in U : w[y] \in Int
        /\ \A y \in U \cup {x} : w[y] \in Int
        /\ \A y \in (U \cap T) \cup {x} : w[y] \in Int
    OBVIOUS
  <2>4. /\ SumFunctionOnSet(w, U \cup {x}) = w[x] + SumFunctionOnSet(w, U)
        /\ SumFunctionOnSet(w, U) \in Int /\ SumFunctionOnSet(w, U \cap T) \in Int
    BY <2>1, <2>3, SumAdds, SumIsInt
  <2>5. CASE x \in T
    <3>1. (U \cup {x}) \cap T = (U \cap T) \cup {x}
      BY <2>5
    <3>2. SumFunctionOnSet(w, (U \cap T) \cup {x}) = w[x] + SumFunctionOnSet(w, U \cap T)
      BY <2>1, <2>3, SumAdds
    <3>3. SumFunctionOnSet(w, (U \cup {x}) \cap T) = w[x] + SumFunctionOnSet(w, U \cap T)
      BY Zenon, <3>1, <3>2
    <3> QED
      BY <2>2, <2>4, <3>3
  <2>6. CASE x \notin T
    <3>1. (U \cup {x}) \cap T = U \cap T
      BY <2>6
    <3>2. SumFunctionOnSet(w, (U \cup {x}) \cap T) = SumFunctionOnSet(w, U \cap T)
      BY Zenon, <3>1
    <3> QED
      BY <2>2, <2>4, <3>2
  <2> QED
    BY <2>5, <2>6
<1>3. S \in Good
  <2> HIDE DEF Good
  <2> QED
    BY <1>1, <1>2, ElementByElement
<1>4. S \cap T = T
  OBVIOUS
<1> QED
  BY <1>3, <1>4

\* w and v count the pairs of a relation by their first and by their second.
RowsAndColumns(R, S, T, w, v) ==
  /\ \A x \in S : w[x] = Cardinality({y \in T : <<x, y>> \in R})
  /\ \A y \in T : v[y] = Cardinality({x \in S : <<x, y>> \in R})


\* Counting pairs by their first and by their second element gives one number.
LEMMA CountedBothWays ==
  ASSUME NEW S, IsFiniteSet(S), NEW T, IsFiniteSet(T), NEW R, NEW v, NEW w,
         RowsAndColumns(R, S, T, w, v)
  PROVE  SumFunctionOnSet(w, S) = SumFunctionOnSet(v, T)
<1>. /\ \A x \in S : w[x] = Cardinality({y \in T : <<x, y>> \in R})
     /\ \A y \in T : v[y] = Cardinality({x \in S : <<x, y>> \in R})
  BY DEF RowsAndColumns
<1> DEFINE Column(U) == [y \in T |-> Cardinality({x \in U : <<x, y>> \in R})]
           Good == {U \in SUBSET S : SumFunctionOnSet(w, U)
                                       = SumFunctionOnSet(Column(U), T)}
<1>1. \A U \in SUBSET S : \A y \in T : Column(U)[y] \in Nat
  <2> TAKE U \in SUBSET S
  <2> TAKE y \in T
  <2>1. IsFiniteSet({x \in U : <<x, y>> \in R})
    BY FS_Subset
  <2> QED
    BY <2>1, FS_CardinalityType
<1>2. \A x \in S : w[x] \in Int
  <2> TAKE x \in S
  <2>1. IsFiniteSet({y \in T : <<x, y>> \in R})
    BY FS_Subset
  <2>2. Cardinality({y \in T : <<x, y>> \in R}) \in Nat
    BY <2>1, FS_CardinalityType
  <2>3. w[x] = Cardinality({y \in T : <<x, y>> \in R})
    OBVIOUS
  <2> QED
    BY <2>2, <2>3
<1>3. {} \in Good
  <2>1. \A y \in T : Column({})[y] = IF y \in {} THEN 1 ELSE 0
    BY FS_EmptySet
  <2>2. SumFunctionOnSet(Column({}), T) = Cardinality(T \cap {})
    <3> HIDE DEF Column
    <3> QED
      BY <2>1, SumCounts
  <2>3. Cardinality(T \cap {}) = 0
    BY FS_EmptySet
  <2> QED
    BY <2>2, <2>3, SumOfNone
<1>4. \A U \in SUBSET S : \A z \in S \ U : U \in Good => U \cup {z} \in Good
  <2> TAKE U \in SUBSET S
  <2> TAKE z \in S \ U
  <2> HAVE U \in Good
  <2> DEFINE Of == {y \in T : <<z, y>> \in R}
             one == [y \in T |-> IF y \in Of THEN 1 ELSE 0]
  <2>1. IsFiniteSet(U)
    BY FS_Subset
  <2>2. SumFunctionOnSet(w, U \cup {z}) = w[z] + SumFunctionOnSet(w, U)
    BY <1>2, <2>1, SumAdds
  <2>3. SumFunctionOnSet(one, T) = w[z]
    <3>1. T \cap Of = Of
      OBVIOUS
    <3>2. \A y \in T : one[y] = IF y \in Of THEN 1 ELSE 0
      OBVIOUS
    <3>3. SumFunctionOnSet(one, T) = Cardinality(T \cap Of)
      <4> HIDE DEF one, Of
      <4> QED
        BY <3>2, SumCounts
    <3> QED
      BY <3>1, <3>3
  <2>4. \A y \in T : Column(U \cup {z})[y] = one[y] + Column(U)[y]
    <3> TAKE y \in T
    <3> DEFINE C == {x \in U : <<x, y>> \in R}
    <3>1. IsFiniteSet(C) /\ Cardinality(C) \in Nat
      BY <2>1, FS_Subset, FS_CardinalityType
    <3>2. CASE y \in Of
      <4>1. {x \in U \cup {z} : <<x, y>> \in R} = C \cup {z} /\ z \notin C
        BY <3>2
      <4>2. Cardinality(C \cup {z}) = Cardinality(C) + 1
        <5> HIDE DEF C
        <5> QED
          BY <3>1, <4>1, FS_AddElement
      <4>3. Column(U \cup {z})[y] = Cardinality(C \cup {z}) /\ Column(U)[y] = Cardinality(C)
        BY <4>1
      <4>4. one[y] = 1
        BY <3>2
      <4> HIDE DEF Column, C, one
      <4> QED
        BY <3>1, <4>2, <4>3, <4>4
    <3>3. CASE y \notin Of
      <4>1. {x \in U \cup {z} : <<x, y>> \in R} = C
        BY <3>3
      <4>2. Column(U \cup {z})[y] = Cardinality(C) /\ Column(U)[y] = Cardinality(C)
        BY <4>1
      <4>3. one[y] = 0
        BY <3>3
      <4> HIDE DEF Column, C, one
      <4> QED
        BY <3>1, <4>2, <4>3
    <3> QED
      BY <3>2, <3>3
  <2>5. SumFunctionOnSet(Column(U \cup {z}), T)
          = SumFunctionOnSet(one, T) + SumFunctionOnSet(Column(U), T)
    <3>1. \A y \in T : one[y] \in Int /\ Column(U)[y] \in Int
      <4>1. \A y \in T : one[y] \in Int
        OBVIOUS
      <4> HIDE DEF one, Column
      <4> QED
        BY <1>1, <4>1
    <3> HIDE DEF one, Column
    <3> QED
      BY ZenonT(40), <2>4, <3>1, SumOfSums
  <2>6. SumFunctionOnSet(w, U) = SumFunctionOnSet(Column(U), T)
    OBVIOUS
  <2>7. SumFunctionOnSet(w, U \cup {z}) = SumFunctionOnSet(Column(U \cup {z}), T)
    <3> HIDE DEF one, Column
    <3> QED
      BY <2>2, <2>3, <2>5, <2>6
  <2> QED
    BY <2>7
<1>5. S \in Good
  <2> HIDE DEF Good
  <2> QED
    BY <1>3, <1>4, ElementByElement
<1>6. SumFunctionOnSet(Column(S), T) = SumFunctionOnSet(v, T)
  <2>1. \A y \in T : v[y] \in Int /\ Column(S)[y] = v[y]
    <3>1. \A y \in T : Column(S)[y] \in Nat /\ Column(S)[y] = v[y]
      BY <1>1
    <3> HIDE DEF Column
    <3> QED
      BY <3>1
  <2> HIDE DEF Column
  <2> QED
    BY <2>1, SameSum
<1> QED
  BY <1>5, <1>6

=============================================================================
