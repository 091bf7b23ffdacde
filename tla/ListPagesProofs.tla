--------------------------- MODULE ListPagesProofs ---------------------------
(***************************************************************************)
(* Theorems of ListPages for any rows, any names, any limits and any       *)
(* number of writes during a walk.                                         *)
(*                                                                         *)
(* A row under a name of its own has one place in every order of the list, *)
(* that of the number of rows before it.  A write moves the rows behind it *)
(* by one place, so it carries at most one of them across the last place   *)
(* that was asked for: one that leaves brings a row in front of it that    *)
(* was never served, one that enters brings behind it a row that was.      *)
(***************************************************************************)
EXTENDS ListPages, FiniteLemmas

Below(r) == {x \in listed : nome[x] < nome[r]}

\* The last place that was asked for, and how often each row came until now.
Offset == skip(walk.page, walk.limit) + IF walk.found THEN take(walk.limit) ELSE 0
Got    == [r \in Rows |-> walk.served[r] + IF r \in walk.data THEN 1 ELSE 0]

\* The lone rows that stand in front of it, those that came and those that
\* did not.
Reached  == {r \in Lone : Cardinality(Below(r)) < Offset}
Kept     == {r \in Reached : Got[r] > 0}
Unserved == {r \in Reached : Got[r] = 0}

\* The places of the rows of one name in front of it.
Seen(r) ==
  {i \in 1..Cardinality(listed) :
     /\ i <= Offset /\ Cardinality(Below(r)) < i
     /\ i <= Cardinality(Below(r)) + Cardinality(Alike(r) \cap listed)}

WalkRecord ==
  [step : {"walk", "ended"}, page : Nat \ {0}, limit : Limits,
   total : Nat \cup {Open}, found : BOOLEAN, data : SUBSET Rows,
   served : [Rows -> Nat], stable : SUBSET Rows,
   entered : Nat, left : Nat, late : Nat]

TypeOK ==
  /\ listed \in SUBSET Rows
  /\ walk = [step |-> "idle"] \/ walk \in WalkRecord
  /\ Walking => /\ walk.stable \subseteq listed
                /\ ~walk.found => walk.data = {}

\* A count is short of the list by no more than what entered after it.
CountFollows ==
  walk.late <= walk.entered /\
  (walk.total # Open => Cardinality(listed) <= walk.total + walk.late)

MissesFollow  == Cardinality(Unserved) <= walk.left
RepeatsFollow == SumFunctionOnSet(Got, Lone) <= Cardinality(Kept) + walk.entered

QuietFollows ==
  Changes = 0 =>
    /\ listed = walk.stable
    /\ \A r \in Rows : SumFunctionOnSet(Got, Alike(r)) = Cardinality(Seen(r))

Inv ==
  /\ TypeOK
  /\ Walking => CountFollows /\ MissesFollow /\ RepeatsFollow /\ QuietFollows
  /\ QuietWalkServesAll /\ WalkErrorsAreCaused

-----------------------------------------------------------------------------
(* Numbers.                                                                *)

LEMMA TakesSome ==
  ASSUME NEW limit \in Limits
  PROVE  take(limit) \in Nat \ {0}
<1> DEFINE a == IF limit = NoLimit THEN DEFAULT_LIMIT ELSE limit
<1>1. a \in Nat \ {0} /\ MAX_LIMIT \in Nat \ {0}
  BY PagesAssumption DEF NoLimit
<1> HIDE DEF a
<1>2. CASE a <= MAX_LIMIT
  BY <1>1, <1>2 DEF take, Min, a
<1>3. CASE a > MAX_LIMIT
  BY <1>1, <1>3 DEF take, Min, a
<1> QED
  BY <1>1, <1>2, <1>3

LEMMA LesserOf ==
  ASSUME NEW a \in Nat, NEW b \in Nat
  PROVE  Min({a, b}) = IF a <= b THEN a ELSE b
<1>1. CASE a <= b
  BY <1>1 DEF Min
<1>2. CASE a > b
  BY <1>2 DEF Min
<1> QED
  BY <1>1, <1>2

LEMMA Products ==
  ASSUME NEW a \in Nat, NEW b \in Nat, NEW t \in Nat \ {0}
  PROVE  /\ a * t \in Nat /\ (a + 1) * t = a * t + t
         /\ a <= b => a * t <= b * t
  OBVIOUS

\* The page after which a client stops ends behind the rows that were counted.
LEMMA LastPageEnds ==
  ASSUME NEW limit \in Limits, NEW page \in Nat, NEW total \in Nat,
         ~ (page < totalPages(total, limit))
  PROVE  total <= page * take(limit)
<1> DEFINE t == take(limit)
           x == total + t - 1
           q == x \div t
<1>1. t \in Nat \ {0} /\ x \in Nat
  BY TakesSome
<1> HIDE DEF t
<1>2. q \in Nat /\ q * t <= x /\ x < (q + 1) * t
  BY <1>1
<1>3. q <= page
  BY <1>2 DEF totalPages, t
<1> HIDE DEF q
<1>4. q * t \in Nat /\ (q + 1) * t = q * t + t /\ q * t <= page * t /\ page * t \in Nat
  BY <1>1, <1>2, <1>3, Products
<1> QED
  BY <1>1, <1>2, <1>4 DEF t

-----------------------------------------------------------------------------
(* Orders of the list.                                                     *)

LEMMA ListedFinite ==
  ASSUME listed \in SUBSET Rows
  PROVE  /\ IsFiniteSet(listed) /\ Cardinality(listed) \in Nat
         /\ \A S \in SUBSET Rows : IsFiniteSet(S) /\ Cardinality(S) \in Nat
<1>1. \A S \in SUBSET Rows : IsFiniteSet(S) /\ Cardinality(S) \in Nat
  BY PagesAssumption, FS_Subset, FS_CardinalityType
<1> QED
  BY <1>1

\* Rows whose predecessors are among them take the first places.
LEMMA FirstPlaces ==
  ASSUME listed \in SUBSET Rows, NEW order \in Orders, NEW V \in SUBSET listed,
         \A x \in V : \A y \in listed : nome[y] <= nome[x] => y \in V
  PROVE  \A i \in 1..Cardinality(listed) : order[i] \in V <=> i <= Cardinality(V)
<1> DEFINE n == Cardinality(listed)
           D == {i \in 1..n : order[i] \in V}
<1>1. n \in Nat /\ IsFiniteSet(listed)
  BY ListedFinite
<1>2. /\ order \in [1..n -> listed]
      /\ \A i, j \in 1..n : order[i] = order[j] => i = j
      /\ \A i, j \in 1..n : i < j => nome[order[i]] <= nome[order[j]]
  BY DEF Orders, SetToSeqs, Sorted
<1>3. \A x \in Rows : nome[x] \in Nat
  BY PagesAssumption
<1>4. D \in SUBSET (1..n) /\ \A i \in D : \A j \in 1..i : j \in D
  <2>1. ASSUME NEW i \in D, NEW j \in 1..i
        PROVE  j \in D
    <3>1. i \in 1..n /\ j \in 1..n /\ order[i] \in V /\ order[j] \in listed
      BY <1>1, <1>2
    <3>2. CASE j = i
      BY <3>2
    <3>3. CASE j < i
      BY <1>2, <3>1, <3>3
    <3>4. j = i \/ j < i
      BY <1>1
    <3> QED
      BY <3>2, <3>3, <3>4
  <2> QED
    BY <2>1
<1>5. D = 1..Cardinality(D)
  <2> HIDE DEF D, n
  <2> QED
    BY <1>1, <1>4, InitialSegment
<1>6. Cardinality(V) = Cardinality(D)
  <2>1. {order[i] : i \in 1..n} = listed
    BY <1>1, <1>2, Enumerated
  <2>2. Renames(order, D, V)
    BY <1>2, <2>1 DEF Renames
  <2>3. IsFiniteSet(D)
    <3>1. IsFiniteSet(1..n)
      BY <1>1, FS_Interval
    <3> QED
      BY <3>1, FS_Subset
  <2> HIDE DEF D
  <2> QED
    BY <2>2, <2>3, AsMany
<1>7. \A i \in 1..n : i \in D <=> i <= Cardinality(D)
  <2>1. Cardinality(D) \in Nat
    <3>1. IsFiniteSet(V)
      BY <1>1, FS_Subset
    <3> QED
      BY <1>6, <3>1, FS_CardinalityType
  <2> HIDE DEF D
  <2> QED
    BY <1>1, <1>5, <2>1
<1> QED
  BY <1>6, <1>7

\* The rows of one name fill the places behind those of smaller names.
LEMMA PlacesOfName ==
  ASSUME listed \in SUBSET Rows, NEW order \in Orders, NEW r \in Rows
  PROVE  /\ order \in [1..Cardinality(listed) -> listed]
         /\ \A i \in 1..Cardinality(listed) :
              order[i] \in Alike(r) <=>
                /\ Cardinality(Below(r)) < i
                /\ i <= Cardinality(Below(r)) + Cardinality(Alike(r) \cap listed)
<1> DEFINE n == Cardinality(listed)
           B == Below(r)
           A == Alike(r) \cap listed
<1>1. order \in [1..n -> listed] /\ \A x \in Rows : nome[x] \in Nat
  BY PagesAssumption DEF Orders, SetToSeqs
<1>2. \A i \in 1..n : order[i] \in B <=> i <= Cardinality(B)
  <2>1. B \in SUBSET listed
    BY DEF Below
  <2>2. \A x \in B : \A y \in listed : nome[y] <= nome[x] => y \in B
    BY <1>1 DEF Below
  <2> HIDE DEF B
  <2> QED
    BY <2>1, <2>2, FirstPlaces
<1>3. \A i \in 1..n : order[i] \in B \cup A <=> i <= Cardinality(B \cup A)
  <2>1. B \cup A \in SUBSET listed
    BY DEF Below
  <2>2. \A x \in B \cup A : \A y \in listed : nome[y] <= nome[x] => y \in B \cup A
    BY <1>1 DEF Below, Alike
  <2> DEFINE V == B \cup A
  <2> HIDE DEF V
  <2>3. \A i \in 1..n : order[i] \in V <=> i <= Cardinality(V)
    BY <2>1, <2>2, FirstPlaces DEF V
  <2> QED
    BY <2>3 DEF V
<1>4. Cardinality(B \cup A) = Cardinality(B) + Cardinality(A)
  <2>1. IsFiniteSet(A) /\ IsFiniteSet(B) /\ A \cap B = {}
    BY ListedFinite, <1>1 DEF Below, Alike
  <2> HIDE DEF A, B
  <2>2. Cardinality(B \cup A) = Cardinality(B) + Cardinality(A) - Cardinality(B \cap A)
    BY <2>1, FS_Union
  <2>3. Cardinality(B \cap A) = 0 /\ Cardinality(B) \in Nat /\ Cardinality(A) \in Nat
    <3>1. B \cap A = {}
      BY <2>1
    <3> QED
      BY <2>1, <3>1, FS_EmptySet, FS_CardinalityType
  <2> QED
    BY <2>2, <2>3
<1>5. ASSUME NEW i \in 1..n
      PROVE  order[i] \in Alike(r) <=> ~ (i <= Cardinality(B)) /\ i <= Cardinality(B) + Cardinality(A)
  <2>1. order[i] \in Alike(r) <=> order[i] \notin B /\ order[i] \in B \cup A
    BY <1>1 DEF Below, Alike
  <2> QED
    BY <1>2, <1>3, <1>4, <2>1
<1>6. n \in Nat /\ Cardinality(B) \in Nat
  BY ListedFinite DEF Below
<1> HIDE DEF B, A, n
<1>7. \A i \in 1..n : order[i] \in Alike(r) <=>
        Cardinality(B) < i /\ i <= Cardinality(B) + Cardinality(A)
  BY <1>5, <1>6
<1> QED
  BY <1>1, <1>7 DEF B, A, n

-----------------------------------------------------------------------------
(* What a page holds.                                                      *)

LEMMA PageHolds ==
  ASSUME listed \in SUBSET Rows, NEW order \in Orders,
         NEW page \in Nat \ {0}, NEW limit \in Limits
  PROVE  \A x : x \in PageOf(order, page, limit) <=>
           \E i \in 1..Cardinality(listed) :
             /\ skip(page, limit) < i /\ i <= skip(page, limit) + take(limit)
             /\ x = order[i]
<1> DEFINE n == Cardinality(listed)
           s == skip(page, limit)
           t == take(limit)
           m == Min({s + t, Len(order)})
<1>1. n \in Nat /\ t \in Nat \ {0} /\ s \in Nat
  <2>1. page - 1 \in Nat /\ t \in Nat \ {0}
    BY TakesSome
  <2> HIDE DEF t
  <2> QED
    BY <2>1, ListedFinite, Products DEF skip, t
<1>2. Len(order) = n
  BY <1>1 DEF Orders, SetToSeqs
<1> HIDE DEF n, s, t
<1>3. m \in Nat /\ m <= s + t /\ m <= n /\ (m = s + t \/ m = n)
  <2>1. m = IF s + t <= n THEN s + t ELSE n
    <3>1. s + t \in Nat
      BY <1>1
    <3> QED
      BY <1>1, <1>2, <3>1, LesserOf DEF m
  <2> HIDE DEF m
  <2> QED
    BY <1>1, <2>1
<1>4. PageOf(order, page, limit) = {order[i] : i \in (s + 1)..m}
  BY DEF PageOf, s, t, m
<1> HIDE DEF m
<1>5. \A i : i \in (s + 1)..m <=> i \in 1..n /\ s < i /\ i <= s + t
  BY <1>1, <1>3
<1>6. \A x : x \in PageOf(order, page, limit) <=>
        \E i \in 1..n : s < i /\ i <= s + t /\ x = order[i]
  BY <1>4, <1>5
<1> QED
  BY <1>6 DEF n, s, t

\* As many rows of one name as the page has places of that name.
LEMMA NameAtPage ==
  ASSUME listed \in SUBSET Rows, NEW order \in Orders,
         NEW page \in Nat \ {0}, NEW limit \in Limits, NEW r \in Rows
  PROVE  Cardinality(Alike(r) \cap PageOf(order, page, limit)) =
           Cardinality({i \in 1..Cardinality(listed) :
             /\ skip(page, limit) < i /\ i <= skip(page, limit) + take(limit)
             /\ Cardinality(Below(r)) < i
             /\ i <= Cardinality(Below(r)) + Cardinality(Alike(r) \cap listed)})
<1> DEFINE n == Cardinality(listed)
           D == {i \in 1..n :
                   /\ skip(page, limit) < i /\ i <= skip(page, limit) + take(limit)
                   /\ Cardinality(Below(r)) < i
                   /\ i <= Cardinality(Below(r)) + Cardinality(Alike(r) \cap listed)}
           T == Alike(r) \cap PageOf(order, page, limit)
<1>1. \A i, j \in 1..n : order[i] = order[j] => i = j
  BY DEF Orders, SetToSeqs
<1>2. Renames(order, D, T)
  BY <1>1, PageHolds, PlacesOfName DEF Renames
<1>3. IsFiniteSet(D)
  <2>1. IsFiniteSet(1..n)
    BY ListedFinite, FS_Interval
  <2> QED
    BY <2>1, FS_Subset
<1>4. Cardinality(T) = Cardinality(D)
  <2> HIDE DEF D, T
  <2> QED
    BY <1>2, <1>3, AsMany
<1> QED
  BY <1>4

LEMMA LoneRows ==
  ASSUME TypeOK, Walking, NEW r \in Lone
  PROVE  /\ r \in listed /\ r \in Rows /\ r \in walk.stable
         /\ Cardinality(Below(r)) \in Nat
         /\ Cardinality(Below(r)) < Cardinality(listed)
         /\ Alike(r) \cap listed = {r}
<1>1. r \in listed /\ r \in Rows /\ Alike(r) = {r} /\ r \in walk.stable
  BY DEF TypeOK, Lone, Alike
<1>2. \A x \in Rows : nome[x] \in Nat
  BY PagesAssumption
<1>3. Below(r) \in SUBSET listed /\ r \notin Below(r)
  BY <1>1, <1>2 DEF Below, TypeOK
<1>4. IsFiniteSet(listed) /\ Cardinality(listed) \in Nat /\ IsFiniteSet(Below(r))
      /\ Cardinality(Below(r)) \in Nat /\ Cardinality(Below(r)) <= Cardinality(listed)
  BY <1>3, ListedFinite, FS_Subset, FS_CardinalityType DEF TypeOK
<1>5. Cardinality(Below(r)) # Cardinality(listed)
  BY <1>1, <1>3, <1>4, FS_Subset
<1> QED
  BY <1>1, <1>4, <1>5

\* A lone row is on the page that has its place.
LEMMA LoneAtPage ==
  ASSUME TypeOK, Walking, NEW order \in Orders,
         NEW page \in Nat \ {0}, NEW limit \in Limits, NEW r \in Lone
  PROVE  r \in PageOf(order, page, limit) <=>
           /\ skip(page, limit) <= Cardinality(Below(r))
           /\ Cardinality(Below(r)) < skip(page, limit) + take(limit)
<1> DEFINE n == Cardinality(listed)
           b == Cardinality(Below(r))
           s == skip(page, limit)
           t == take(limit)
<1>1. n \in Nat /\ b \in Nat /\ b < n /\ r \in Rows /\ Alike(r) = {r}
  BY LoneRows, ListedFinite DEF TypeOK, Lone
<1>2. Cardinality(Alike(r) \cap listed) = 1
  BY LoneRows, FS_Singleton
<1>3. \A i \in 1..n : order[i] = r <=> b < i /\ i <= b + 1
  BY <1>1, <1>2, PlacesOfName DEF TypeOK
<1>4. r \in PageOf(order, page, limit) <=>
        \E i \in 1..n : s < i /\ i <= s + t /\ r = order[i]
  BY PageHolds DEF TypeOK
<1>5. t \in Nat \ {0} /\ s \in Nat
  <2>1. page - 1 \in Nat /\ t \in Nat \ {0}
    BY TakesSome
  <2> HIDE DEF t
  <2> QED
    BY <2>1, Products DEF skip, t
<1> HIDE DEF n, b, s, t
<1>6. b + 1 \in 1..n /\ \A i \in 1..n : order[i] = r <=> i = b + 1
  BY <1>1, <1>3
<1>7. r \in PageOf(order, page, limit) <=> s < b + 1 /\ b + 1 <= s + t
  BY <1>4, <1>6
<1>8. r \in PageOf(order, page, limit) <=> s <= b /\ b < s + t
  BY <1>1, <1>5, <1>7
<1> QED
  BY <1>8 DEF b, s, t

\* Two lone rows stand at two places.
LEMMA PlacesDiffer ==
  ASSUME TypeOK, Walking, NEW r \in Lone, NEW s \in Lone,
         Cardinality(Below(r)) = Cardinality(Below(s))
  PROVE  r = s
<1>1. ASSUME NEW x \in Lone, NEW y \in Lone, nome[x] < nome[y]
      PROVE  Cardinality(Below(x)) < Cardinality(Below(y))
  <2>1. x \in listed /\ x \in Rows /\ y \in Rows
    BY LoneRows
  <2>2. \A z \in Rows : nome[z] \in Nat
    BY PagesAssumption
  <2>3. Below(x) \in SUBSET Below(y) /\ x \in Below(y) /\ x \notin Below(x)
    BY <1>1, <2>1, <2>2 DEF Below, TypeOK
  <2>4. IsFiniteSet(Below(y)) /\ Cardinality(Below(y)) \in Nat
        /\ Cardinality(Below(x)) \in Nat
    BY <2>3, ListedFinite DEF Below, TypeOK
  <2>5. Cardinality(Below(x)) <= Cardinality(Below(y))
        /\ Cardinality(Below(x)) # Cardinality(Below(y))
    BY <2>3, <2>4, FS_Subset
  <2> QED
    BY <2>4, <2>5
<1>2. nome[r] = nome[s] => r = s
  BY LoneRows DEF Lone, Alike
<1>3. nome[r] \in Nat /\ nome[s] \in Nat
  BY LoneRows, PagesAssumption
<1>4. Cardinality(Below(r)) \in Nat /\ Cardinality(Below(s)) \in Nat
  BY LoneRows
<1> QED
  BY <1>1, <1>2, <1>3, <1>4

LEMMA OneAtThePlace ==
  ASSUME TypeOK, Walking, NEW k
  PROVE  LET here == {r \in Lone : Cardinality(Below(r)) = k}
         IN  IsFiniteSet(here) /\ Cardinality(here) \in 0..1
<1> DEFINE here == {r \in Lone : Cardinality(Below(r)) = k}
<1>1. CASE here = {}
  BY <1>1, FS_EmptySet
<1>2. CASE here # {}
  <2>1. PICK r \in here : TRUE
    BY <1>2
  <2>2. here = {r}
    BY <2>1, PlacesDiffer
  <2>3. IsFiniteSet({r}) /\ Cardinality({r}) = 1
    BY FS_Singleton
  <2>4. IsFiniteSet(here) /\ Cardinality(here) = 1
    BY <2>2, <2>3
  <2> QED
    BY <2>4
<1> QED
  BY <1>1, <1>2

-----------------------------------------------------------------------------
(* The sets and numbers of a walk.                                         *)

LEMMA SkipIsNat ==
  ASSUME NEW page \in Nat \ {0}, NEW limit \in Limits
  PROVE  /\ skip(page, limit) \in Nat
         /\ skip(page, limit) + take(limit) = page * take(limit)
         /\ skip(page + 1, limit) = page * take(limit)
<1> DEFINE t == take(limit)
<1>1. t \in Nat \ {0}
  BY TakesSome
<1> HIDE DEF t
<1>2. PICK p \in Nat : page = p + 1
  <2>1. page - 1 \in Nat /\ page = (page - 1) + 1
    OBVIOUS
  <2> QED
    BY <2>1
<1>3. p * t \in Nat /\ (p + 1) * t = p * t + t
  BY <1>1, Products
<1>4. page - 1 = p /\ (page + 1) - 1 = page
  BY <1>2
<1> QED
  BY <1>2, <1>3, <1>4 DEF skip, t

LEMMA WalkIsRecord ==
  ASSUME TypeOK, Walking
  PROVE  walk \in WalkRecord
<1>1. walk # [step |-> "idle"]
  BY DEF Walking
<1> QED
  BY <1>1 DEF TypeOK

LEMMA Measures ==
  ASSUME TypeOK, Walking
  PROVE  /\ Offset \in Nat /\ Got \in [Rows -> Nat]
         /\ Lone \in SUBSET Rows /\ Lone \subseteq walk.stable
         /\ IsFiniteSet(Lone) /\ IsFiniteSet(Reached)
         /\ IsFiniteSet(Kept) /\ IsFiniteSet(Unserved)
         /\ Cardinality(Kept) \in Nat /\ Cardinality(Unserved) \in Nat
         /\ walk.left \in Nat /\ walk.entered \in Nat
         /\ SumFunctionOnSet(Got, Lone) \in Int
<1>1. /\ walk.page \in Nat \ {0} /\ walk.limit \in Limits /\ walk.found \in BOOLEAN
      /\ walk.left \in Nat /\ walk.entered \in Nat /\ walk.stable \in SUBSET Rows
      /\ walk.served \in [Rows -> Nat]
  BY WalkIsRecord DEF WalkRecord
<1>2. Offset \in Nat
  <2>1. skip(walk.page, walk.limit) \in Nat /\ take(walk.limit) \in Nat
    BY <1>1, SkipIsNat, TakesSome
  <2> QED
    BY <2>1 DEF Offset
<1>3. Got \in [Rows -> Nat]
  BY <1>1 DEF Got
<1>4. Lone \in SUBSET Rows /\ Lone \subseteq walk.stable
  BY <1>1 DEF Lone
<1>5. Reached \in SUBSET Rows /\ Kept \in SUBSET Rows /\ Unserved \in SUBSET Rows
  BY <1>4 DEF Reached, Kept, Unserved
<1>6. /\ IsFiniteSet(Lone) /\ IsFiniteSet(Reached)
      /\ IsFiniteSet(Kept) /\ IsFiniteSet(Unserved)
      /\ Cardinality(Kept) \in Nat /\ Cardinality(Unserved) \in Nat
  BY <1>4, <1>5, ListedFinite DEF TypeOK
<1>7. SumFunctionOnSet(Got, Lone) \in Int
  <2>1. \A r \in Lone : Got[r] \in Int
    BY <1>3, <1>4
  <2> QED
    BY <1>6, <2>1, SumIsInt
<1> QED
  BY <1>1, <1>2, <1>3, <1>4, <1>6, <1>7

\* A step that moves neither rows nor the last place asked for.
LEMMA SameWalk ==
  ASSUME MissesFollow, RepeatsFollow, QuietFollows,
         listed' = listed, Offset' = Offset, Got' = Got,
         walk'.stable = walk.stable, walk'.left = walk.left,
         walk'.entered = walk.entered
  PROVE  MissesFollow' /\ RepeatsFollow' /\ QuietFollows'
<1>1. Lone' = Lone
  BY DEF Lone
<1>2. \A r : Below(r)' = Below(r)
  BY DEF Below
<1>3. Reached' = Reached
  BY <1>1, <1>2 DEF Reached
<1>4. Kept' = Kept /\ Unserved' = Unserved
  BY <1>3 DEF Kept, Unserved
<1>5. \A r : Seen(r)' = Seen(r)
  BY <1>2 DEF Seen
<1>6. Changes' = Changes
  BY DEF Changes
<1>7. MissesFollow'
  BY <1>4 DEF MissesFollow
<1>8. RepeatsFollow'
  BY <1>1, <1>4 DEF RepeatsFollow
<1>9. QuietFollows'
  BY <1>5, <1>6 DEF QuietFollows
<1> QED
  BY <1>7, <1>8, <1>9

-----------------------------------------------------------------------------
(* The invariant, action by action.                                        *)

LEMMA StartWalkKeeps ==
  ASSUME Inv, NEW limit \in Limits, StartWalk(limit)
  PROVE  Inv'
<1>1. /\ listed' = listed /\ listed \in SUBSET Rows
      /\ walk' = [step |-> "walk", page |-> 1, limit |-> limit,
              total |-> Open, found |-> FALSE, data |-> {},
              served |-> [r \in Rows |-> 0], stable |-> listed,
              entered |-> 0, left |-> 0, late |-> 0]
  BY DEF StartWalk, DEFAULT_PAGE, Inv, TypeOK
<1>2. TypeOK' /\ Walking'
  BY <1>1 DEF TypeOK, WalkRecord, Walking, Open
<1>3. CountFollows'
  BY <1>1 DEF CountFollows, Open
<1>4. Offset' = 0
  <2>1. take(limit) \in Nat
    BY TakesSome
  <2> QED
    BY <1>1, <2>1 DEF Offset, skip
<1>5. Reached' = {} /\ \A r : Seen(r)' = {}
  <2>1. ASSUME NEW r
        PROVE  Cardinality(Below(r)') \in Nat
    BY <1>1, ListedFinite DEF Below
  <2>2. Reached' = {}
    BY <1>4, <2>1 DEF Reached
  <2>3. \A i \in 1..Cardinality(listed') : ~(i <= 0)
    BY <1>1, ListedFinite
  <2> QED
    BY <1>4, <2>2, <2>3 DEF Seen
<1>6. Kept' = {} /\ Unserved' = {}
  BY <1>5 DEF Kept, Unserved
<1>7. \A S \in SUBSET Rows : SumFunctionOnSet(Got', S) = 0
  <2> DEFINE g == [r \in Rows |-> 0]
  <2>1. Got' = g
    BY <1>1 DEF Got
  <2>2. ASSUME NEW S \in SUBSET Rows
        PROVE  SumFunctionOnSet(g, S) = 0
    <3>1. \A x \in S : g[x] = IF x \in {} THEN 1 ELSE 0
      OBVIOUS
    <3>2. IsFiniteSet(S)
      BY <1>1, ListedFinite
    <3> HIDE DEF g
    <3>3. SumFunctionOnSet(g, S) = Cardinality(S \cap {})
      BY <3>1, <3>2, SumCounts
    <3>4. S \cap {} = {}
      OBVIOUS
    <3> QED
      BY <3>3, <3>4, FS_EmptySet
  <2> QED
    BY <2>1, <2>2
<1>8. MissesFollow'
  BY <1>1, <1>6, FS_EmptySet DEF MissesFollow
<1>9. RepeatsFollow'
  <2>1. Lone' \in SUBSET Rows
    BY <1>1 DEF Lone
  <2> QED
    BY <1>1, <1>6, <1>7, <2>1, FS_EmptySet DEF RepeatsFollow
<1>10. QuietFollows'
  <2>1. \A r : Alike(r) \in SUBSET Rows
    BY DEF Alike
  <2> QED
    BY <1>1, <1>5, <1>7, <2>1, FS_EmptySet DEF QuietFollows
<1>11. QuietWalkServesAll' /\ WalkErrorsAreCaused'
  BY <1>1 DEF QuietWalkServesAll, WalkErrorsAreCaused, Ended
<1> QED
  BY <1>2, <1>3, <1>8, <1>9, <1>10, <1>11 DEF Inv

LEMMA CountKeeps ==
  ASSUME Inv, Count
  PROVE  Inv'
<1>1. /\ listed' = listed /\ TypeOK /\ Walking /\ walk \in WalkRecord
      /\ walk' = [walk EXCEPT !.total = Cardinality(listed)]
  BY WalkIsRecord DEF Count, Inv
<1>2. Cardinality(listed) \in Nat
  BY <1>1, ListedFinite DEF TypeOK
<1>3. TypeOK' /\ Walking'
  BY <1>1, <1>2 DEF TypeOK, WalkRecord, Walking
<1>4. CountFollows'
  <2>1. walk'.late = walk.late /\ walk'.entered = walk.entered
        /\ walk'.total = Cardinality(listed) /\ walk.late \in Nat
    BY <1>1 DEF WalkRecord
  <2>2. walk.late <= walk.entered
    BY <1>1 DEF Inv, CountFollows
  <2> QED
    BY <1>1, <1>2, <2>1, <2>2 DEF CountFollows
<1>5. /\ walk'.page = walk.page /\ walk'.limit = walk.limit
      /\ walk'.found = walk.found /\ walk'.served = walk.served
      /\ walk'.data = walk.data /\ walk'.stable = walk.stable
      /\ walk'.left = walk.left /\ walk'.entered = walk.entered
      /\ walk'.step = "walk"
  BY <1>1 DEF WalkRecord, Walking
<1>6. Offset' = Offset /\ Got' = Got
  BY <1>5 DEF Offset, Got, skip, take
<1>7. MissesFollow' /\ RepeatsFollow' /\ QuietFollows'
  BY <1>1, <1>5, <1>6, SameWalk DEF Inv
<1>8. QuietWalkServesAll' /\ WalkErrorsAreCaused'
  BY <1>5 DEF QuietWalkServesAll, WalkErrorsAreCaused, Ended
<1> QED
  BY <1>3, <1>4, <1>7, <1>8 DEF Inv

LEMMA OneMore ==
  ASSUME NEW A, IsFiniteSet(A), NEW B, IsFiniteSet(B), Cardinality(B) \in 0..1,
         NEW C, C \subseteq A \cup B
  PROVE  IsFiniteSet(C) /\ Cardinality(C) <= Cardinality(A) + 1
<1>1. IsFiniteSet(A \cup B) /\ IsFiniteSet(A \cap B)
      /\ Cardinality(A \cup B) = Cardinality(A) + Cardinality(B) - Cardinality(A \cap B)
  BY FS_Union, FS_Intersection
<1>2. IsFiniteSet(C) /\ Cardinality(C) <= Cardinality(A \cup B)
  BY <1>1, FS_Subset
<1>3. Cardinality(A) \in Nat /\ Cardinality(A \cap B) \in Nat
      /\ Cardinality(A \cup B) \in Nat /\ Cardinality(C) \in Nat
  BY <1>1, <1>2, FS_CardinalityType
<1> QED
  BY <1>1, <1>2, <1>3

\* Behind a row that enters the others move back by one place: no row comes
\* in front of the last place asked for, and one that came may fall behind it.
LEMMA EnterKeeps ==
  ASSUME Inv, NEW y \in Rows, Enter(y)
  PROVE  Inv'
<1>1. /\ TypeOK /\ Walking /\ walk \in WalkRecord
      /\ y \notin listed /\ listed' = listed \cup {y}
  BY WalkIsRecord DEF Enter, Inv
<1>2. /\ walk'.step = "walk"
      /\ walk'.page = walk.page /\ walk'.limit = walk.limit
      /\ walk'.total = walk.total /\ walk'.found = walk.found
      /\ walk'.data = walk.data /\ walk'.served = walk.served
      /\ walk'.stable = walk.stable /\ walk'.left = walk.left
      /\ walk'.entered = walk.entered + 1
      /\ walk'.late = IF walk.total = Open THEN walk.late ELSE walk.late + 1
      /\ walk' \in WalkRecord
  <2> DEFINE late == IF walk.total = Open THEN walk.late ELSE walk.late + 1
             entered == walk.entered + 1
  <2>1. walk' = [walk EXCEPT !.entered = entered, !.late = late]
    BY <1>1 DEF Enter
  <2>2. entered \in Nat /\ late \in Nat
    BY <1>1 DEF WalkRecord
  <2> HIDE DEF late, entered
  <2>3. /\ walk'.step = "walk"
        /\ walk'.page = walk.page /\ walk'.limit = walk.limit
        /\ walk'.total = walk.total /\ walk'.found = walk.found
        /\ walk'.data = walk.data /\ walk'.served = walk.served
        /\ walk'.stable = walk.stable /\ walk'.left = walk.left
        /\ walk'.entered = entered /\ walk'.late = late
        /\ walk' \in WalkRecord
    BY <1>1, <2>1, <2>2 DEF WalkRecord, Walking
  <2> QED
    BY <2>3 DEF late, entered
<1>3. TypeOK' /\ Walking'
  BY <1>1, <1>2 DEF TypeOK, Walking
<1>4. IsFiniteSet(listed) /\ Cardinality(listed) \in Nat
  BY <1>1, ListedFinite DEF TypeOK
<1>5. CountFollows'
  <2>1. Cardinality(listed') = Cardinality(listed) + 1
    BY <1>1, <1>4, FS_AddElement
  <2>2. /\ walk.late <= walk.entered /\ walk.late \in Nat /\ walk.entered \in Nat
        /\ walk.total # Open => Cardinality(listed) <= walk.total + walk.late
        /\ walk.total \in Nat \cup {Open}
    BY <1>1 DEF Inv, CountFollows, WalkRecord
  <2> QED
    BY <1>2, <1>4, <2>1, <2>2 DEF CountFollows, Open
<1>6. Offset' = Offset /\ Got' = Got /\ Lone' = Lone
  BY <1>2 DEF Offset, Got, skip, take, Lone
<1>7. ASSUME NEW r \in Lone
      PROVE  /\ Cardinality(Below(r)) \in Nat
             /\ \/ Cardinality(Below(r)') = Cardinality(Below(r))
                \/ Cardinality(Below(r)') = Cardinality(Below(r)) + 1
  <2>1. IsFiniteSet(Below(r)) /\ Cardinality(Below(r)) \in Nat /\ y \notin Below(r)
    BY <1>1, ListedFinite DEF Below, TypeOK
  <2>2. Below(r)' = Below(r) \/ Below(r)' = Below(r) \cup {y}
    BY <1>1 DEF Below
  <2> QED
    BY <2>1, <2>2, FS_AddElement
<1>8. Offset \in Nat
  BY <1>1, Measures
<1>9. Reached' \subseteq Reached
  BY <1>6, <1>7, <1>8 DEF Reached
<1>10. MissesFollow'
  <2>1. Unserved' \subseteq Unserved
    BY <1>6, <1>9 DEF Unserved
  <2>2. /\ IsFiniteSet(Unserved) /\ Cardinality(Unserved) \in Nat
        /\ walk.left \in Nat /\ Cardinality(Unserved) <= walk.left
    BY <1>1, Measures DEF Inv, MissesFollow
  <2>3. Cardinality(Unserved') <= Cardinality(Unserved) /\ Cardinality(Unserved') \in Nat
    BY <2>1, <2>2, FS_Subset, FS_CardinalityType
  <2> QED
    BY <1>2, <2>2, <2>3 DEF MissesFollow
<1>11. RepeatsFollow'
  <2> DEFINE edge == {r \in Lone : Cardinality(Below(r)) = Offset - 1}
  <2>1. IsFiniteSet(edge) /\ Cardinality(edge) \in 0..1
    BY <1>1, OneAtThePlace
  <2>2. Kept \subseteq Kept' \cup edge
    <3>1. Reached \subseteq Reached' \cup edge
      BY <1>6, <1>7, <1>8 DEF Reached
    <3> QED
      BY <1>6, <3>1 DEF Kept
  <2>3. IsFiniteSet(Kept') /\ Cardinality(Kept') \in Nat
        /\ Cardinality(Kept) \in Nat /\ walk.entered \in Nat
        /\ SumFunctionOnSet(Got, Lone) \in Int
        /\ SumFunctionOnSet(Got, Lone) <= Cardinality(Kept) + walk.entered
    <3>1. Kept' \in SUBSET Rows
      BY <1>1, <1>6, Measures DEF Kept, Reached
    <3> QED
      BY <1>1, <3>1, Measures, ListedFinite DEF TypeOK, Inv, RepeatsFollow
  <2> HIDE DEF edge
  <2>4. Cardinality(Kept) <= Cardinality(Kept') + 1
    BY <2>1, <2>2, <2>3, OneMore
  <2> QED
    BY <1>2, <1>6, <2>3, <2>4 DEF RepeatsFollow
<1>12. QuietFollows'
  <2>1. walk.entered \in Nat /\ walk.left \in Nat
    BY <1>1, Measures
  <2> QED
    BY <1>2, <2>1 DEF QuietFollows, Changes
<1>13. QuietWalkServesAll' /\ WalkErrorsAreCaused'
  BY <1>2 DEF QuietWalkServesAll, WalkErrorsAreCaused, Ended
<1> QED
  BY <1>3, <1>5, <1>10, <1>11, <1>12, <1>13 DEF Inv

\* Behind a row that leaves the others move up by one place: one that never
\* came may get in front of the last place asked for.
LEMMA LeaveKeeps ==
  ASSUME Inv, NEW y \in Rows, Leave(y)
  PROVE  Inv'
<1>1. /\ TypeOK /\ Walking /\ walk \in WalkRecord
      /\ y \in listed /\ listed' = listed \ {y}
  BY WalkIsRecord DEF Leave, Inv
<1>2. /\ walk'.step = "walk"
      /\ walk'.page = walk.page /\ walk'.limit = walk.limit
      /\ walk'.total = walk.total /\ walk'.found = walk.found
      /\ walk'.data = walk.data /\ walk'.served = walk.served
      /\ walk'.stable = walk.stable \ {y} /\ walk'.left = walk.left + 1
      /\ walk'.entered = walk.entered /\ walk'.late = walk.late
      /\ walk' \in WalkRecord
  <2> DEFINE left == walk.left + 1
             stable == walk.stable \ {y}
  <2>1. walk' = [walk EXCEPT !.left = left, !.stable = stable]
    BY <1>1 DEF Leave
  <2>2. left \in Nat /\ stable \in SUBSET Rows
    BY <1>1 DEF WalkRecord
  <2> HIDE DEF left, stable
  <2>3. /\ walk'.step = "walk"
        /\ walk'.page = walk.page /\ walk'.limit = walk.limit
        /\ walk'.total = walk.total /\ walk'.found = walk.found
        /\ walk'.data = walk.data /\ walk'.served = walk.served
        /\ walk'.stable = stable /\ walk'.left = left
        /\ walk'.entered = walk.entered /\ walk'.late = walk.late
        /\ walk' \in WalkRecord
    BY <1>1, <2>1, <2>2 DEF WalkRecord, Walking
  <2> QED
    BY <2>3 DEF left, stable
<1>3. TypeOK' /\ Walking'
  BY <1>1, <1>2 DEF TypeOK, Walking
<1>4. IsFiniteSet(listed) /\ Cardinality(listed) \in Nat
  BY <1>1, ListedFinite DEF TypeOK
<1>5. CountFollows'
  <2>1. Cardinality(listed') = Cardinality(listed) - 1
    BY <1>1, <1>4, FS_RemoveElement
  <2>2. /\ walk.late <= walk.entered /\ walk.late \in Nat /\ walk.entered \in Nat
        /\ walk.total # Open => Cardinality(listed) <= walk.total + walk.late
        /\ walk.total \in Nat \cup {Open}
    BY <1>1 DEF Inv, CountFollows, WalkRecord
  <2> QED
    BY <1>2, <1>4, <2>1, <2>2 DEF CountFollows, Open
<1>6. Offset' = Offset /\ Got' = Got
  BY <1>2 DEF Offset, Got, skip, take
<1>7. Lone' = Lone \ {y}
  BY <1>2 DEF Lone
<1>8. ASSUME NEW r \in Lone
      PROVE  /\ Cardinality(Below(r)) \in Nat /\ Cardinality(Below(r)') \in Nat
             /\ \/ Cardinality(Below(r)') = Cardinality(Below(r))
                \/ Cardinality(Below(r)') = Cardinality(Below(r)) - 1
  <2>1. IsFiniteSet(Below(r)) /\ Cardinality(Below(r)) \in Nat
        /\ Cardinality(Below(r)') \in Nat
    BY <1>1, ListedFinite DEF Below, TypeOK
  <2>2. Below(r)' = Below(r) \/ (y \in Below(r) /\ Below(r)' = Below(r) \ {y})
    BY <1>1 DEF Below
  <2> QED
    BY <2>1, <2>2, FS_RemoveElement
<1>9. Offset \in Nat
  BY <1>1, Measures
<1>10. MissesFollow'
  <2> DEFINE edge == {r \in Lone : Cardinality(Below(r)) = Offset}
  <2>1. IsFiniteSet(edge) /\ Cardinality(edge) \in 0..1
    BY <1>1, OneAtThePlace
  <2>2. Unserved' \subseteq Unserved \cup edge
    <3>1. Reached' \subseteq Reached \cup edge
      BY <1>6, <1>7, <1>8, <1>9 DEF Reached
    <3> QED
      BY <1>6, <3>1 DEF Unserved
  <2>3. /\ IsFiniteSet(Unserved) /\ Cardinality(Unserved) \in Nat
        /\ walk.left \in Nat /\ Cardinality(Unserved) <= walk.left
    BY <1>1, Measures DEF Inv, MissesFollow
  <2> HIDE DEF edge
  <2>4. IsFiniteSet(Unserved') /\ Cardinality(Unserved') <= Cardinality(Unserved) + 1
    BY <2>1, <2>2, <2>3, OneMore
  <2>5. Cardinality(Unserved') \in Nat
    BY <2>4, FS_CardinalityType
  <2> QED
    BY <1>2, <2>3, <2>4, <2>5 DEF MissesFollow
<1>11. RepeatsFollow'
  <2>1. Kept \ {y} \subseteq Kept'
    <3>1. Reached \ {y} \subseteq Reached'
      BY <1>6, <1>7, <1>8, <1>9 DEF Reached
    <3> QED
      BY <1>6, <3>1 DEF Kept
  <2>2. /\ IsFiniteSet(Kept') /\ Cardinality(Kept') \in Nat
        /\ IsFiniteSet(Kept) /\ Cardinality(Kept) \in Nat /\ walk.entered \in Nat
        /\ IsFiniteSet(Lone) /\ Lone \in SUBSET Rows
        /\ SumFunctionOnSet(Got, Lone) \in Int
        /\ SumFunctionOnSet(Got, Lone) <= Cardinality(Kept) + walk.entered
        /\ Got \in [Rows -> Nat]
    <3>1. Kept' \in SUBSET Rows
      BY <1>7, Measures, <1>1 DEF Kept, Reached
    <3> QED
      BY <1>1, <3>1, Measures, ListedFinite DEF TypeOK, Inv, RepeatsFollow
  <2>3. /\ IsFiniteSet(Kept \ {y}) /\ Cardinality(Kept \ {y}) \in Nat
        /\ Cardinality(Kept \ {y}) <= Cardinality(Kept')
        /\ Cardinality(Kept \ {y}) = IF y \in Kept THEN Cardinality(Kept) - 1
                                                   ELSE Cardinality(Kept)
    BY <2>1, <2>2, FS_RemoveElement, FS_Subset, FS_CardinalityType
  <2>4. CASE y \notin Lone
    <3>1. Lone' = Lone /\ y \notin Kept
      BY <1>7, <2>4 DEF Kept, Reached
    <3> QED
      BY <1>2, <1>6, <2>2, <2>3, <3>1 DEF RepeatsFollow
  <2>5. CASE y \in Lone
    <3>1. SumFunctionOnSet(Got, Lone) = Got[y] + SumFunctionOnSet(Got, Lone \ {y})
      <4>1. \A x \in Lone : Got[x] \in Int
        BY <2>2
      <4> QED
        BY <2>2, <2>5, <4>1, SumTakes
    <3>2. SumFunctionOnSet(Got, Lone \ {y}) \in Int
      <4>1. \A x \in Lone \ {y} : Got[x] \in Int
        BY <2>2
      <4>2. IsFiniteSet(Lone \ {y})
        BY <2>2, FS_RemoveElement
      <4> QED
        BY <4>1, <4>2, SumIsInt
    <3>3. Got[y] \in Nat /\ (y \in Kept => Got[y] > 0)
      BY <2>2 DEF Kept
    <3>4. SumFunctionOnSet(Got, Lone \ {y}) <= Cardinality(Kept') + walk.entered
      BY <2>2, <2>3, <3>1, <3>2, <3>3
    <3> QED
      BY <1>2, <1>6, <1>7, <3>4 DEF RepeatsFollow
  <2> QED
    BY <2>4, <2>5
<1>12. QuietFollows'
  <2>1. walk.entered \in Nat /\ walk.left \in Nat
    BY <1>1, Measures
  <2> QED
    BY <1>2, <2>1 DEF QuietFollows, Changes
<1>13. QuietWalkServesAll' /\ WalkErrorsAreCaused'
  BY <1>2 DEF QuietWalkServesAll, WalkErrorsAreCaused, Ended
<1> QED
  BY <1>3, <1>5, <1>10, <1>11, <1>12, <1>13 DEF Inv

LEMMA Disjoint ==
  ASSUME NEW A, IsFiniteSet(A), NEW B, IsFiniteSet(B), A \cap B = {}
  PROVE  /\ IsFiniteSet(A \cup B)
         /\ Cardinality(A \cup B) = Cardinality(A) + Cardinality(B)
         /\ Cardinality(A) \in Nat /\ Cardinality(B) \in Nat
<1>1. IsFiniteSet(A \cup B)
      /\ Cardinality(A \cup B) = Cardinality(A) + Cardinality(B) - Cardinality(A \cap B)
  BY FS_Union
<1>2. Cardinality(A \cap B) = 0 /\ Cardinality(A) \in Nat /\ Cardinality(B) \in Nat
  BY FS_EmptySet, FS_CardinalityType
<1> QED
  BY <1>1, <1>2

\* What a page adds to the sum over a set of rows.
LEMMA PageAdds ==
  ASSUME NEW S \in SUBSET Rows, NEW data, NEW f \in [Rows -> Nat],
         NEW g \in [Rows -> Nat],
         \A r \in Rows : g[r] = f[r] + IF r \in data THEN 1 ELSE 0
  PROVE  SumFunctionOnSet(g, S) = SumFunctionOnSet(f, S) + Cardinality(S \cap data)
<1> DEFINE one == [r \in S |-> IF r \in data THEN 1 ELSE 0]
<1>1. IsFiniteSet(S)
  BY PagesAssumption, FS_Subset
<1>2. \A r \in S : one[r] = IF r \in data THEN 1 ELSE 0
  OBVIOUS
<1>3. \A r \in S : f[r] \in Int /\ one[r] \in Int /\ g[r] = f[r] + one[r]
  OBVIOUS
<1> HIDE DEF one
<1>4. SumFunctionOnSet(g, S) = SumFunctionOnSet(f, S) + SumFunctionOnSet(one, S)
  BY <1>1, <1>3, SumOfSums
<1>5. SumFunctionOnSet(one, S) = Cardinality(S \cap data)
  BY <1>1, <1>2, SumCounts
<1> QED
  BY <1>4, <1>5

\* A page serves the rows of its places: of those with a place in front of it
\* none once more.
LEMMA FindManyKeeps ==
  ASSUME Inv, FindMany
  PROVE  Inv'
<1> DEFINE s == skip(walk.page, walk.limit)
           t == take(walk.limit)
<1>1. /\ TypeOK /\ Walking /\ walk \in WalkRecord /\ ~walk.found
      /\ walk.data = {} /\ listed' = listed
  BY WalkIsRecord DEF FindMany, Inv, TypeOK
<1>2. PICK order \in Orders :
        walk' = [walk EXCEPT !.found = TRUE,
                             !.data = PageOf(order, walk.page, walk.limit)]
  BY DEF FindMany
<1> DEFINE data == PageOf(order, walk.page, walk.limit)
<1>3. walk.page \in Nat \ {0} /\ walk.limit \in Limits /\ listed \in SUBSET Rows
  BY <1>1 DEF WalkRecord, TypeOK
<1>4. data \in SUBSET Rows
  <2>1. order \in [1..Cardinality(listed) -> listed]
    BY DEF Orders, SetToSeqs
  <2>2. \A x : x \in data => \E i \in 1..Cardinality(listed) : x = order[i]
    BY <1>3, PageHolds
  <2>3. \A x : x \in data => x \in listed
    BY <2>1, <2>2
  <2> QED
    BY <1>3, <2>3
<1> HIDE DEF data
<1>5. /\ walk'.step = "walk"
      /\ walk'.page = walk.page /\ walk'.limit = walk.limit
      /\ walk'.total = walk.total /\ walk'.found = TRUE
      /\ walk'.data = data /\ walk'.served = walk.served
      /\ walk'.stable = walk.stable /\ walk'.left = walk.left
      /\ walk'.entered = walk.entered /\ walk'.late = walk.late
      /\ walk' \in WalkRecord
  <2>1. walk' = [walk EXCEPT !.found = TRUE, !.data = data]
    BY <1>2 DEF data
  <2> QED
    BY <1>1, <1>4, <2>1 DEF WalkRecord, Walking
<1>6. TypeOK' /\ Walking'
  BY <1>1, <1>5 DEF TypeOK, Walking
<1>7. CountFollows'
  BY <1>1, <1>5 DEF CountFollows, Inv
<1>8. s \in Nat /\ t \in Nat \ {0} /\ Offset = s /\ Offset' = s + t
  <2>1. s \in Nat /\ t \in Nat \ {0}
    BY <1>3, SkipIsNat, TakesSome
  <2>2. Offset = s + 0
    BY <1>1 DEF Offset
  <2>3. Offset' = s + t
    BY <1>5 DEF Offset, skip, take
  <2> HIDE DEF s, t
  <2> QED
    BY <2>1, <2>2, <2>3
<1>9. Lone' = Lone /\ \A r : Below(r)' = Below(r)
  BY <1>1, <1>5 DEF Lone, Below
<1>10. /\ Got \in [Rows -> Nat] /\ Got' \in [Rows -> Nat]
       /\ \A r \in Rows : Got'[r] = Got[r] + IF r \in data THEN 1 ELSE 0
  <2>1. walk.served \in [Rows -> Nat]
    BY <1>1 DEF WalkRecord
  <2>2. Got = [r \in Rows |-> walk.served[r] + IF r \in {} THEN 1 ELSE 0]
        /\ Got' = [r \in Rows |-> walk.served[r] + IF r \in data THEN 1 ELSE 0]
    BY <1>1, <1>5 DEF Got
  <2> QED
    BY <2>1, <2>2
<1>11. ASSUME NEW r \in Lone
       PROVE  /\ Cardinality(Below(r)) \in Nat
              /\ r \in data <=> s <= Cardinality(Below(r)) /\ Cardinality(Below(r)) < s + t
  BY <1>1, <1>3, LoneRows, LoneAtPage DEF data
<1>12. Lone \in SUBSET Rows /\ IsFiniteSet(Lone)
  BY <1>1, Measures
<1> HIDE DEF s, t
<1>13. MissesFollow'
  <2>1. Unserved' \subseteq Unserved
    BY <1>8, <1>9, <1>10, <1>11, <1>12 DEF Unserved, Reached
  <2>2. /\ IsFiniteSet(Unserved) /\ Cardinality(Unserved) \in Nat
        /\ walk.left \in Nat /\ Cardinality(Unserved) <= walk.left
    BY <1>1, Measures DEF Inv, MissesFollow
  <2>3. Cardinality(Unserved') <= Cardinality(Unserved) /\ Cardinality(Unserved') \in Nat
    BY <2>1, <2>2, FS_Subset, FS_CardinalityType
  <2> QED
    BY <1>5, <2>2, <2>3 DEF MissesFollow
<1>14. RepeatsFollow'
  <2>1. SumFunctionOnSet(Got', Lone)
          = SumFunctionOnSet(Got, Lone) + Cardinality(Lone \cap data)
    BY <1>10, <1>12, PageAdds
  <2>2. Kept \cup (Lone \cap data) \subseteq Kept'
    BY <1>8, <1>9, <1>10, <1>11, <1>12 DEF Kept, Reached
  <2>3. Kept \cap (Lone \cap data) = {}
    BY <1>8, <1>11 DEF Kept, Reached
  <2>4. /\ IsFiniteSet(Kept) /\ walk.entered \in Nat
        /\ SumFunctionOnSet(Got, Lone) \in Int
        /\ SumFunctionOnSet(Got, Lone) <= Cardinality(Kept) + walk.entered
    BY <1>1, Measures DEF Inv, RepeatsFollow
  <2>5. IsFiniteSet(Lone \cap data)
    BY <1>12, FS_Intersection
  <2>6. Cardinality(Kept \cup (Lone \cap data)) = Cardinality(Kept) + Cardinality(Lone \cap data)
        /\ Cardinality(Kept) \in Nat /\ Cardinality(Lone \cap data) \in Nat
    BY <2>3, <2>4, <2>5, Disjoint
  <2>7. IsFiniteSet(Kept')
    <3>1. Kept' \subseteq Lone
      BY <1>9 DEF Kept, Reached
    <3> QED
      BY <1>12, <3>1, FS_Subset
  <2>8. Cardinality(Kept \cup (Lone \cap data)) <= Cardinality(Kept')
        /\ Cardinality(Kept') \in Nat
    BY <2>2, <2>7, FS_Subset, FS_CardinalityType
  <2>9. SumFunctionOnSet(Got', Lone) <= Cardinality(Kept') + walk.entered
    BY <2>1, <2>4, <2>6, <2>8
  <2> QED
    BY <1>5, <1>9, <2>9 DEF RepeatsFollow
<1>15. QuietFollows'
  <2> SUFFICES ASSUME Changes' = 0
               PROVE  /\ listed' = walk'.stable
                      /\ \A r \in Rows : SumFunctionOnSet(Got', Alike(r)) = Cardinality(Seen(r)')
    BY DEF QuietFollows, Alike
  <2>1. Changes = 0
    BY <1>5 DEF Changes
  <2>2. ASSUME NEW r \in Rows
        PROVE  SumFunctionOnSet(Got', Alike(r)) = Cardinality(Seen(r)')
    <3> DEFINE b == Cardinality(Below(r))
               n == Cardinality(listed)
               here == {i \in 1..n :
                          /\ s < i /\ i <= s + t /\ b < i
                          /\ i <= b + Cardinality(Alike(r) \cap listed)}
    <3>1. Alike(r) \in SUBSET Rows
      BY DEF Alike
    <3>2. SumFunctionOnSet(Got', Alike(r))
            = SumFunctionOnSet(Got, Alike(r)) + Cardinality(Alike(r) \cap data)
      BY <1>10, <3>1, PageAdds
    <3>3. Cardinality(Alike(r) \cap data) = Cardinality(here)
      BY <1>3, NameAtPage DEF data, s, t
    <3>4. SumFunctionOnSet(Got, Alike(r)) = Cardinality(Seen(r))
      BY <1>1, <2>1 DEF Inv, QuietFollows
    <3>5. n \in Nat /\ IsFiniteSet(1..n)
      BY <1>3, ListedFinite, FS_Interval
    <3>6. /\ Seen(r) = {i \in 1..n : /\ i <= s /\ b < i
                                     /\ i <= b + Cardinality(Alike(r) \cap listed)}
          /\ Seen(r)' = {i \in 1..n : /\ i <= s + t /\ b < i
                                      /\ i <= b + Cardinality(Alike(r) \cap listed)}
      BY <1>1, <1>8, <1>9 DEF Seen, Alike
    <3> HIDE DEF b, n
    <3>7. Seen(r)' = Seen(r) \cup here /\ Seen(r) \cap here = {}
      BY <1>8, <3>5, <3>6
    <3>8. IsFiniteSet(Seen(r)) /\ IsFiniteSet(here)
      BY <3>5, <3>6, FS_Subset
    <3> HIDE DEF here
    <3>9. Cardinality(Seen(r)') = Cardinality(Seen(r)) + Cardinality(here)
      BY <3>7, <3>8, Disjoint
    <3> QED
      BY <3>2, <3>3, <3>4, <3>9
  <2> QED
    BY <1>1, <1>5, <2>1, <2>2 DEF Inv, QuietFollows
<1>16. QuietWalkServesAll' /\ WalkErrorsAreCaused'
  BY <1>5 DEF QuietWalkServesAll, WalkErrorsAreCaused, Ended
<1> QED
  BY <1>6, <1>7, <1>13, <1>14, <1>15, <1>16 DEF Inv

\* Lone rows behind a place are no more than the places behind it.
LEMMA FewBehind ==
  ASSUME TypeOK, Walking, NEW k \in Nat, NEW m \in Nat,
         Cardinality(listed) <= k + m
  PROVE  LET Beyond == {r \in Lone : Cardinality(Below(r)) >= k}
         IN  IsFiniteSet(Beyond) /\ Cardinality(Beyond) <= m
<1> DEFINE Beyond == {r \in Lone : Cardinality(Below(r)) >= k}
           place == [r \in Beyond |-> Cardinality(Below(r))]
           Places == {place[r] : r \in Beyond}
           last == k + m - 1
<1>1. IsFiniteSet(Beyond)
  BY Measures, FS_Subset
<1>2. \A r, s \in Beyond : place[r] = place[s] => r = s
  BY PlacesDiffer
<1>3. Renames(place, Beyond, Places)
  BY <1>2 DEF Renames
<1>4. Places \subseteq k..last
  BY LoneRows, ListedFinite DEF TypeOK
<1>5. IsFiniteSet(k..last) /\ Cardinality(k..last) = m
  <2>1. last \in Int
    OBVIOUS
  <2> HIDE DEF last
  <2>2. IsFiniteSet(k..last)
        /\ Cardinality(k..last) = IF k > last THEN 0 ELSE last - k + 1
    BY <2>1, FS_Interval
  <2> QED
    BY <2>2 DEF last
<1>6. Cardinality(Places) = Cardinality(Beyond)
  <2> HIDE DEF Beyond, place, Places
  <2> QED
    BY <1>1, <1>3, AsMany
<1>7. Cardinality(Places) <= m
  <2> HIDE DEF Places, last
  <2> QED
    BY <1>4, <1>5, FS_Subset
<1> QED
  BY <1>1, <1>6, <1>7

\* A name has as many places in the list as it has rows.
LEMMA PlacesOfAName ==
  ASSUME listed \in SUBSET Rows, NEW r \in Rows
  PROVE  Cardinality({i \in 1..Cardinality(listed) :
           /\ Cardinality(Below(r)) < i
           /\ i <= Cardinality(Below(r)) + Cardinality(Alike(r) \cap listed)})
           = Cardinality(Alike(r) \cap listed)
<1> DEFINE n == Cardinality(listed)
           b == Cardinality(Below(r))
           a == Cardinality(Alike(r) \cap listed)
           Places == {i \in 1..n : b < i /\ i <= b + a}
<1>1. IsFiniteSet(listed) /\ n \in Nat
  BY ListedFinite
<1>2. /\ IsFiniteSet(Below(r)) /\ IsFiniteSet(Alike(r) \cap listed)
      /\ Below(r) \cap (Alike(r) \cap listed) = {}
      /\ Below(r) \cup (Alike(r) \cap listed) \subseteq listed
  BY ListedFinite, PagesAssumption DEF Below, Alike
<1>3. b \in Nat /\ a \in Nat
      /\ Cardinality(Below(r) \cup (Alike(r) \cap listed)) = b + a
  BY <1>2, Disjoint
<1>4. b + a <= n
  BY <1>1, <1>2, <1>3, FS_Subset
<1> HIDE DEF n, b, a
<1>5. Places = (b + 1)..(b + a)
  BY <1>1, <1>3, <1>4
<1>6. Cardinality((b + 1)..(b + a)) = a
  <2> DEFINE c == b + 1
             d == b + a
  <2>1. c \in Int /\ d \in Int
    BY <1>3
  <2> HIDE DEF c, d
  <2>2. Cardinality(c..d) = IF c > d THEN 0 ELSE d - c + 1
    BY <2>1, FS_Interval
  <2> QED
    BY <1>3, <2>2 DEF c, d
<1> QED
  BY <1>5, <1>6 DEF n, b, a

\* The last response: what the walk counted covers the list but for the rows
\* that entered since.
LEMMA RespondKeeps ==
  ASSUME Inv, Respond
  PROVE  Inv'
<1> DEFINE more == walk.page < totalPages(walk.total, walk.limit)
<1>1. /\ TypeOK /\ Walking /\ walk \in WalkRecord /\ walk.found
      /\ walk.total # Open /\ listed' = listed
      /\ listed \in SUBSET Rows /\ walk.stable \subseteq listed
  BY WalkIsRecord DEF Respond, Inv, TypeOK
<1>2. /\ walk.page \in Nat \ {0} /\ walk.limit \in Limits /\ walk.total \in Nat
      /\ walk.late \in Nat /\ walk.entered \in Nat /\ walk.left \in Nat
  BY <1>1 DEF WalkRecord
<1>3. Got \in [Rows -> Nat] /\ Offset = walk.page * take(walk.limit) /\ Offset \in Nat
  BY <1>1, <1>2, Measures, SkipIsNat DEF Offset
<1>4. walk' = [walk EXCEPT
        !.step = IF more THEN "walk" ELSE "ended",
        !.page = IF more THEN walk.page + 1 ELSE walk.page,
        !.total = Open, !.found = FALSE, !.data = {},
        !.late = IF more THEN 0 ELSE walk.late, !.served = Got]
  <2>1. Got = [r \in Rows |-> walk.served[r] + IF r \in walk.data THEN 1 ELSE 0]
    BY DEF Got
  <2> QED
    BY <2>1 DEF Respond
<1> HIDE DEF more
<1>5. /\ walk'.step = IF more THEN "walk" ELSE "ended"
      /\ walk'.page = IF more THEN walk.page + 1 ELSE walk.page
      /\ walk'.total = Open /\ walk'.found = FALSE /\ walk'.data = {}
      /\ walk'.late = IF more THEN 0 ELSE walk.late
      /\ walk'.served = Got /\ walk'.limit = walk.limit
      /\ walk'.stable = walk.stable /\ walk'.left = walk.left
      /\ walk'.entered = walk.entered
      /\ walk' \in WalkRecord
  <2> DEFINE step == IF more THEN "walk" ELSE "ended"
             page == IF more THEN walk.page + 1 ELSE walk.page
             late == IF more THEN 0 ELSE walk.late
  <2>1. step \in {"walk", "ended"} /\ page \in Nat \ {0} /\ late \in Nat
    BY <1>2
  <2>2. walk' = [walk EXCEPT
          !.step = step, !.page = page, !.total = Open, !.found = FALSE,
          !.data = {}, !.late = late, !.served = Got]
    BY <1>4
  <2> HIDE DEF step, page, late
  <2>3. /\ walk'.step = step /\ walk'.page = page
        /\ walk'.total = Open /\ walk'.found = FALSE /\ walk'.data = {}
        /\ walk'.late = late /\ walk'.served = Got /\ walk'.limit = walk.limit
        /\ walk'.stable = walk.stable /\ walk'.left = walk.left
        /\ walk'.entered = walk.entered
        /\ walk' \in WalkRecord
    BY <1>1, <1>3, <2>1, <2>2 DEF WalkRecord
  <2> QED
    BY <2>3 DEF step, page, late
<1>6. TypeOK'
  BY <1>1, <1>5 DEF TypeOK
<1>7. CASE more
  <2>1. walk'.step = "walk" /\ walk'.page = walk.page + 1 /\ walk'.late = 0
    BY <1>5, <1>7
  <2>2. CountFollows'
    BY <1>2, <1>5, <2>1 DEF CountFollows
  <2>3. Offset' = Offset
    <3>1. Offset' = skip(walk.page + 1, walk.limit) + 0
      BY <1>5, <2>1 DEF Offset, skip, take
    <3> QED
      BY <1>2, <1>3, <3>1, SkipIsNat
  <2>4. Got' = Got
    <3>1. Got' = [r \in Rows |-> Got[r] + IF r \in {} THEN 1 ELSE 0]
      BY <1>5 DEF Got
    <3> QED
      BY <1>3, <3>1
  <2>5. MissesFollow' /\ RepeatsFollow' /\ QuietFollows'
    BY <1>1, <1>5, <2>3, <2>4, SameWalk DEF Inv
  <2>6. QuietWalkServesAll' /\ WalkErrorsAreCaused'
    BY <2>1 DEF QuietWalkServesAll, WalkErrorsAreCaused, Ended
  <2> QED
    BY <1>6, <2>2, <2>5, <2>6 DEF Inv
<1>8. CASE ~more
  <2> DEFINE n == Cardinality(listed)
             Beyond == {r \in Lone : Cardinality(Below(r)) >= Offset}
  <2>1. walk'.step = "ended" /\ walk'.late = walk.late
    BY <1>5, <1>8
  <2>2. n \in Nat /\ n <= Offset + walk.late /\ walk.late <= walk.entered
    <3>1. walk.total <= Offset
      BY <1>2, <1>3, <1>8, LastPageEnds DEF more
    <3>2. n <= walk.total + walk.late /\ walk.late <= walk.entered
      BY <1>1 DEF Inv, CountFollows
    <3> QED
      BY <1>1, <1>2, <1>3, <3>1, <3>2, ListedFinite
  <2>3. IsFiniteSet(Beyond) /\ Cardinality(Beyond) <= walk.late
    BY <1>1, <1>2, <1>3, <2>2, FewBehind
  <2>4. Lone' = Lone /\ Missed' = {r \in Lone : Got[r] = 0}
    BY <1>5 DEF Lone, Missed
  <2>5. /\ IsFiniteSet(Lone) /\ IsFiniteSet(Unserved) /\ IsFiniteSet(Kept)
        /\ Cardinality(Unserved) <= walk.left
        /\ SumFunctionOnSet(Got, Lone) <= Cardinality(Kept) + walk.entered
        /\ SumFunctionOnSet(Got, Lone) \in Int
        /\ Lone \in SUBSET Rows
    BY <1>1, Measures DEF Inv, MissesFollow, RepeatsFollow
  <2>6. \A r \in Lone : Cardinality(Below(r)) \in Nat
    BY <1>1, LoneRows
  <2>7. Cardinality(Missed') <= walk.left + walk.late
    <3>1. Missed' \subseteq Unserved \cup Beyond
      BY <1>3, <2>4, <2>6 DEF Unserved, Reached
    <3> HIDE DEF Beyond
    <3>2. IsFiniteSet(Unserved \cup Beyond)
          /\ Cardinality(Unserved \cup Beyond) = Cardinality(Unserved)
               + Cardinality(Beyond) - Cardinality(Unserved \cap Beyond)
          /\ IsFiniteSet(Unserved \cap Beyond)
      BY <2>3, <2>5, FS_Union, FS_Intersection
    <3>3. Cardinality(Missed') <= Cardinality(Unserved \cup Beyond)
          /\ Cardinality(Missed') \in Nat
      BY <3>1, <3>2, FS_Subset, FS_CardinalityType
    <3>4. Cardinality(Unserved) \in Nat /\ Cardinality(Beyond) \in Nat
          /\ Cardinality(Unserved \cap Beyond) \in Nat
      BY <2>3, <2>5, <3>2, FS_CardinalityType
    <3> QED
      BY <1>2, <2>3, <2>5, <3>2, <3>3, <3>4
  <2>8. SumFunctionOnSet(Got, Lone) - Cardinality(Lone \ Missed') <= walk.entered
    <3>1. Kept \subseteq Lone \ Missed'
      BY <1>3, <2>4, <2>5 DEF Kept, Reached
    <3>2. IsFiniteSet(Lone \ Missed')
      BY <2>5, FS_Subset
    <3>3. Cardinality(Kept) <= Cardinality(Lone \ Missed')
          /\ Cardinality(Kept) \in Nat /\ Cardinality(Lone \ Missed') \in Nat
      BY <2>5, <3>1, <3>2, FS_Subset, FS_CardinalityType
    <3> QED
      BY <1>2, <2>5, <3>3
  <2>9. WalkErrorsAreCaused'
    <3>1. Times(Lone)' = SumFunctionOnSet(Got, Lone)
      BY <1>5, <2>4 DEF Times
    <3> QED
      BY <1>5, <2>1, <2>4, <2>7, <2>8, <3>1 DEF WalkErrorsAreCaused
  <2>10. QuietWalkServesAll'
    <3> SUFFICES ASSUME Changes' = 0, NEW r \in Rows
                 PROVE  SumFunctionOnSet(Got, Alike(r))
                          = Cardinality(Alike(r) \cap walk.stable)
      BY <1>5 DEF QuietWalkServesAll, Times, Alike
    <3>1. Changes = 0 /\ walk.entered = 0
      BY <1>2, <1>5 DEF Changes
    <3>2. listed = walk.stable /\ SumFunctionOnSet(Got, Alike(r)) = Cardinality(Seen(r))
      BY <1>1, <3>1 DEF Inv, QuietFollows
    <3>3. n <= Offset
      BY <1>2, <1>3, <2>2, <3>1
    <3>4. Seen(r) = {i \in 1..n :
            /\ Cardinality(Below(r)) < i
            /\ i <= Cardinality(Below(r)) + Cardinality(Alike(r) \cap listed)}
      BY <1>3, <2>2, <3>3 DEF Seen
    <3> QED
      BY <1>1, <3>2, <3>4, PlacesOfAName
  <2>11. ~Walking'
    BY <2>1 DEF Walking
  <2> QED
    BY <1>6, <2>9, <2>10, <2>11 DEF Inv
<1> QED
  BY <1>7, <1>8

LEMMA StutterKeeps ==
  ASSUME Inv, UNCHANGED vars
  PROVE  Inv'
  BY DEF Inv, vars, TypeOK, Walking, CountFollows, MissesFollow, RepeatsFollow,
         QuietFollows, Unserved, Reached, Kept, Got, Lone, Below, Alike, Offset,
         skip, take, Seen, Changes, QuietWalkServesAll, WalkErrorsAreCaused,
         Ended, Missed, Times

-----------------------------------------------------------------------------
(* The theorems.                                                           *)

\* Every behaviour of the lists and of a client that pages through them keeps
\* the invariant: what came, what stands in front of the last place asked for
\* and what was counted stay within what the writes account for.
THEOREM Invariance == Spec => []Inv
<1>1. Init => Inv
  <2> SUFFICES ASSUME Init
               PROVE  Inv
    OBVIOUS
  <2>1. walk.step = "idle" /\ walk = [step |-> "idle"] /\ listed \in SUBSET Rows
    BY DEF Init
  <2>2. ~Walking /\ ~Ended
    BY <2>1 DEF Walking, Ended
  <2>3. TypeOK
    BY <2>1, <2>2 DEF TypeOK
  <2> QED
    BY <2>2, <2>3 DEF Inv, QuietWalkServesAll, WalkErrorsAreCaused
<1>2. Inv /\ [Next]_vars => Inv'
  <2> SUFFICES ASSUME Inv, [Next]_vars
               PROVE  Inv'
    OBVIOUS
  <2>1. CASE \E limit \in Limits : StartWalk(limit)
    BY <2>1, StartWalkKeeps
  <2>2. CASE Count
    BY <2>2, CountKeeps
  <2>3. CASE FindMany
    BY <2>3, FindManyKeeps
  <2>4. CASE Respond
    BY <2>4, RespondKeeps
  <2>5. CASE \E r \in Rows : Enter(r)
    BY <2>5, EnterKeeps
  <2>6. CASE \E r \in Rows : Leave(r)
    BY <2>6, LeaveKeeps
  <2>7. CASE UNCHANGED vars
    BY <2>7, StutterKeeps
  <2> QED
    BY <2>1, <2>2, <2>3, <2>4, <2>5, <2>6, <2>7 DEF Next
<1> QED
  BY <1>1, <1>2, PTL DEF Spec

\* However many rows there are, whatever their names and whatever the limit: a
\* walk through the pages that no write came across serves the rows of a name
\* as often as there are of them, and so every row with a name of its own once.
THEOREM QuietWalk == Spec => []QuietWalkServesAll
<1>1. Inv => QuietWalkServesAll
  BY DEF Inv
<1> QED
  BY <1>1, Invariance, PTL

\* Whatever writes come across a walk, the rows it misses and those it serves
\* twice are no more than the writes explain: nothing else in the arithmetic
\* of pages, skips and totals loses a row.
THEOREM ErrorsAreCaused == Spec => []WalkErrorsAreCaused
<1>1. Inv => WalkErrorsAreCaused
  BY DEF Inv
<1> QED
  BY <1>1, Invariance, PTL
=============================================================================
