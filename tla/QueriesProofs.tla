--------------------------- MODULE QueriesProofs ----------------------------
(***************************************************************************)
(* Theorems about Queries, for any snapshots, requests, candidates and      *)
(* numbers of attempts.                                                     *)
(***************************************************************************)
EXTENDS Queries, FiniteSetTheorems, SequenceTheorems, WellFoundedInduction, TLAPS

-----------------------------------------------------------------------------
(* Listings: the elements of a finite set in a strict total order.          *)

\* The elements of S before x, R holding of a pair if its first comes first.
Below(S, R, x) == {y \in S : <<y, x>> \in R}
Rank(S, R, x) == Cardinality(Below(S, R, x))

StrictOrder(R, S) ==
    /\ \A x \in S : <<x, x>> \notin R
    /\ \A x, y \in S : x # y => <<x, y>> \in R \/ <<y, x>> \in R
    /\ \A x, y, z \in S : <<x, y>> \in R /\ <<y, z>> \in R => <<x, z>> \in R

IsListing(w, S, R) ==
    /\ w \in [1..Cardinality(S) -> S]
    /\ \A i \in 1..Cardinality(S) : Rank(S, R, w[i]) = i - 1

(* Of two elements the one that comes first has fewer before it.            *)
LEMMA RankGrows ==
    ASSUME NEW S, IsFiniteSet(S), NEW R, StrictOrder(R, S),
           NEW x \in S, NEW y \in S, <<x, y>> \in R
    PROVE  Rank(S, R, x) < Rank(S, R, y)
<1> DEFINE A == Below(S, R, x)
           B == Below(S, R, y)
<1>1. A \subseteq B /\ x \in B /\ x \notin A /\ A \subseteq S /\ B \subseteq S
  BY DEF Below, StrictOrder
<1>2. IsFiniteSet(A) /\ IsFiniteSet(B)
  BY <1>1, FS_Subset
<1>3. Cardinality(A) <= Cardinality(B) /\ Cardinality(A) # Cardinality(B)
  BY <1>1, <1>2, FS_Subset
<1>4. Cardinality(A) \in Nat /\ Cardinality(B) \in Nat
  BY <1>2, FS_CardinalityType
<1>5. QED
  BY <1>3, <1>4 DEF Rank

(* There are fewer elements before one than there are.                      *)
LEMMA RankType ==
    ASSUME NEW S, IsFiniteSet(S), NEW R, StrictOrder(R, S), NEW x \in S
    PROVE  /\ Rank(S, R, x) \in 0..Cardinality(S)-1
           /\ Cardinality(S) \in Nat
<1>1. /\ Below(S, R, x) \subseteq S /\ x \notin Below(S, R, x)
  BY DEF Below, StrictOrder
<1>2. IsFiniteSet(Below(S, R, x)) /\ Cardinality(S) \in Nat
  BY <1>1, FS_Subset, FS_CardinalityType
<1>3. Rank(S, R, x) <= Cardinality(S) /\ Rank(S, R, x) # Cardinality(S)
  BY <1>1, FS_Subset DEF Rank
<1>4. Rank(S, R, x) \in Nat
  BY <1>2, FS_CardinalityType DEF Rank
<1>5. QED
  BY <1>2, <1>3, <1>4

(* Every place is somebody's: that is what Sorted's CHOOSE finds.           *)
LEMMA RankTaken ==
    ASSUME NEW S, IsFiniteSet(S), NEW R, StrictOrder(R, S), NEW i \in 1..Cardinality(S)
    PROVE  \E x \in S : Rank(S, R, x) = i - 1
<1> DEFINE n == Cardinality(S)
           f == [x \in S |-> Rank(S, R, x) + 1]
<1>1. n \in Nat
  BY FS_CardinalityType
<1>2. f \in [S -> 1..n]
  <2>1. \A x \in S : Rank(S, R, x) + 1 \in 1..n
    <3> TAKE x \in S
    <3>1. QED
      BY RankType, <1>1
  <2>2. QED
    BY <2>1
<1>3. \A x, y \in S : f[x] = f[y] => x = y
  <2> SUFFICES ASSUME NEW x \in S, NEW y \in S, x # y PROVE f[x] # f[y]
    OBVIOUS
  <2>1. Rank(S, R, x) \in Int /\ Rank(S, R, y) \in Int
    BY RankType
  <2>2. <<x, y>> \in R \/ <<y, x>> \in R
    BY DEF StrictOrder
  <2>3. QED
    BY <2>1, <2>2, RankGrows
<1>4. f \in Injection(S, 1..n)
  BY <1>2, <1>3 DEF Injection, IsInjective
<1>5. IsFiniteSet(1..n) /\ Cardinality(1..n) = n
  BY <1>1, FS_Interval
<1>6. f \in Surjection(S, 1..n)
  BY <1>4, <1>5, FS_Injection
<1>7. PICK x \in S : f[x] = i
  BY <1>6 DEF Surjection
<1>8. Rank(S, R, x) \in Int /\ Rank(S, R, x) + 1 = i
  BY <1>7, RankType
<1>9. QED
  BY <1>8

(* What Sorted computes is a listing.                                       *)
LEMMA ChosenIsListing ==
    ASSUME NEW S, IsFiniteSet(S), NEW R, StrictOrder(R, S), NEW w,
           w = [i \in 1..Cardinality(S) |-> CHOOSE x \in S : Rank(S, R, x) = i - 1]
    PROVE  IsListing(w, S, R)
BY RankTaken DEF IsListing

(* A listing has everything once, in the order.                             *)
LEMMA ListingOrder ==
    ASSUME NEW S, IsFiniteSet(S), NEW R, StrictOrder(R, S), NEW w, IsListing(w, S, R)
    PROVE  /\ Cardinality(S) \in Nat
           /\ \A i, j \in 1..Cardinality(S) : i < j => <<w[i], w[j]>> \in R
           /\ \A i, j \in 1..Cardinality(S) : w[i] = w[j] => i = j
           /\ \A x \in S : /\ Rank(S, R, x) + 1 \in 1..Cardinality(S)
                           /\ w[Rank(S, R, x) + 1] = x
<1> DEFINE n == Cardinality(S)
<1>1. n \in Nat
  BY FS_CardinalityType
<1>2. \A i \in 1..n : w[i] \in S /\ Rank(S, R, w[i]) = i - 1
  BY DEF IsListing
<1>3. \A i, j \in 1..n : w[i] = w[j] => i = j
  <2> SUFFICES ASSUME NEW i \in 1..n, NEW j \in 1..n, w[i] = w[j] PROVE i = j
    OBVIOUS
  <2>1. i - 1 = j - 1
    BY <1>2
  <2>2. QED
    BY <2>1, <1>1
<1>4. ASSUME NEW i \in 1..n, NEW j \in 1..n, i < j PROVE <<w[i], w[j]>> \in R
  <2>1. w[i] \in S /\ w[j] \in S /\ w[i] # w[j]
    BY <1>1, <1>2, <1>3, <1>4
  <2>2. <<w[j], w[i]>> \in R => FALSE
    <3> SUFFICES ASSUME <<w[j], w[i]>> \in R PROVE FALSE
      OBVIOUS
    <3>1. Rank(S, R, w[j]) < Rank(S, R, w[i])
      BY <2>1, RankGrows
    <3>2. QED
      BY <1>1, <1>2, <1>4, <3>1
  <2>3. QED
    BY <2>1, <2>2 DEF StrictOrder
<1>5. ASSUME NEW x \in S
      PROVE  Rank(S, R, x) + 1 \in 1..n /\ w[Rank(S, R, x) + 1] = x
  <2> DEFINE i == Rank(S, R, x) + 1
  <2>1. i \in 1..n /\ Rank(S, R, x) \in Int
    BY RankType, <1>1
  <2>2. w[i] \in S /\ Rank(S, R, w[i]) = Rank(S, R, x)
    BY <1>2, <2>1
  <2>3. <<w[i], x>> \notin R /\ <<x, w[i]>> \notin R
    <3>1. ASSUME <<w[i], x>> \in R PROVE FALSE
      <4>1. Rank(S, R, w[i]) < Rank(S, R, x)
        BY <3>1, <2>2, RankGrows
      <4>2. QED
        BY <4>1, <2>1, <2>2
    <3>2. ASSUME <<x, w[i]>> \in R PROVE FALSE
      <4>1. Rank(S, R, x) < Rank(S, R, w[i])
        BY <3>2, <2>2, RankGrows
      <4>2. QED
        BY <4>1, <2>1, <2>2
    <3>3. QED
      BY <3>1, <3>2
  <2>4. w[i] = x
    BY <2>2, <2>3 DEF StrictOrder
  <2>5. QED
    BY <2>1, <2>4
<1>6. QED
  BY <1>1, <1>3, <1>4, <1>5

(* There is one listing of a set.                                           *)
LEMMA ListingIsUnique ==
    ASSUME NEW S, IsFiniteSet(S), NEW R, StrictOrder(R, S),
           NEW v, IsListing(v, S, R), NEW w, IsListing(w, S, R)
    PROVE  v = w
<1>1. ASSUME NEW i \in 1..Cardinality(S) PROVE v[i] = w[i]
  <2>1. v[i] \in S /\ Rank(S, R, v[i]) = i - 1
    BY DEF IsListing
  <2>2. w[Rank(S, R, v[i]) + 1] = v[i]
    BY <2>1, ListingOrder
  <2>3. i \in Int
    BY ListingOrder
  <2>4. QED
    BY <2>1, <2>2, <2>3
<1>2. v \in [1..Cardinality(S) -> S] /\ w \in [1..Cardinality(S) -> S]
  BY DEF IsListing
<1> DEFINE D == 1..Cardinality(S)
<1>3. v \in [D -> S] /\ w \in [D -> S] /\ \A i \in D : v[i] = w[i]
  BY <1>1, <1>2
<1> HIDE DEF D
<1>4. QED
  BY <1>3

(* The elements after the k-th are listed as they are in the whole.         *)
LEMMA RestOfListing ==
    ASSUME NEW S, IsFiniteSet(S), NEW R, StrictOrder(R, S), NEW w, IsListing(w, S, R),
           NEW k \in 0..Cardinality(S), NEW T,
           T = {y \in S : k # 0 => <<w[k], y>> \in R},
           NEW v, IsListing(v, T, R)
    PROVE  /\ IsFiniteSet(T) /\ Cardinality(T) = Cardinality(S) - k
           /\ \A i \in 1..Cardinality(S)-k : v[i] = w[k + i]
<1> DEFINE n == Cardinality(S)
           B == {w[i] : i \in 1..k}
<1>1. n \in Nat /\ k \in Nat /\ k <= n /\ w \in [1..n -> S]
  <2>1. n \in Nat
    BY FS_CardinalityType
  <2>2. QED
    BY <2>1 DEF IsListing
<1>2. B \subseteq S /\ IsFiniteSet(B) /\ Cardinality(B) = k
  <2>1. B \subseteq S
    BY <1>1
  <2>2. IsFiniteSet(1..k) /\ Cardinality(1..k) = k
    BY <1>1, FS_Interval
  <2> DEFINE f == [i \in 1..k |-> w[i]]
  <2>3. f \in Bijection(1..k, B)
    <3>1. f \in [1..k -> B] /\ \A b \in B : \E i \in 1..k : f[i] = b
      OBVIOUS
    <3>2. \A i, j \in 1..k : f[i] = f[j] => i = j
      BY <1>1, ListingOrder
    <3>3. QED
      BY <3>1, <3>2 DEF Bijection, Injection, IsInjective, Surjection
  <2>4. ExistsBijection(1..k, B)
    BY <2>3 DEF ExistsBijection
  <2>5. QED
    BY <2>1, <2>2, <2>4, FS_Bijection
<1>3. \A y \in S : y \in T <=> y \notin B
  <2> TAKE y \in S
  <2> DEFINE r == Rank(S, R, y) + 1
  <2>1. r \in 1..n /\ w[r] = y
    BY ListingOrder
  <2>2. CASE r <= k
    <3>1. y \in B /\ k # 0
      BY <2>1, <2>2, <1>1
    <3>2. <<w[k], y>> \notin R
      <4>1. w[k] \in S /\ k \in 1..n
        BY <1>1, <3>1
      <4>2. r < k => <<y, w[k]>> \in R
        BY <2>1, <4>1, ListingOrder
      <4>3. r = k \/ r < k
        BY <2>1, <2>2, <1>1
      <4>4. QED
        BY <2>1, <4>1, <4>2, <4>3 DEF StrictOrder
    <3>3. QED
      BY <3>1, <3>2
  <2>3. CASE r > k
    <3>1. y \notin B
      <4> SUFFICES ASSUME NEW i \in 1..k, y = w[i] PROVE FALSE
        OBVIOUS
      <4>1. i \in 1..n /\ i # r
        BY <1>1, <2>1, <2>3
      <4>2. QED
        BY <4>1, <2>1, ListingOrder
    <3>2. k # 0 => <<w[k], y>> \in R
      <4>1. k # 0 => k \in 1..n /\ k < r
        BY <1>1, <2>3, <2>1
      <4>2. QED
        BY <4>1, <2>1, ListingOrder
    <3>3. QED
      BY <3>1, <3>2
  <2>4. QED
    BY <2>1, <2>2, <2>3, <1>1
<1>4. T = S \ B
  BY <1>3
<1>5. IsFiniteSet(T) /\ Cardinality(T) = n - k
  <2>1. S \cap B = B
    BY <1>2
  <2> HIDE DEF B
  <2>2. IsFiniteSet(S \ B) /\ Cardinality(S \ B) = n - Cardinality(S \cap B)
    BY FS_Difference
  <2>3. QED
    BY <1>2, <1>4, <2>1, <2>2
<1>6. StrictOrder(R, T)
  BY <1>4 DEF StrictOrder
<1>7. ASSUME NEW i \in 1..n-k PROVE v[i] = w[k + i]
  <2>1. v[i] \in T /\ v[i] \in S /\ Rank(T, R, v[i]) = i - 1
    BY <1>4, <1>5 DEF IsListing
  <2> DEFINE r == Rank(S, R, v[i]) + 1
             C == Below(S, R, v[i])
  <2>2. r \in 1..n /\ w[r] = v[i] /\ Cardinality(C) = r - 1 /\ IsFiniteSet(C)
    <3>1. r \in 1..n /\ w[r] = v[i]
      BY <2>1, ListingOrder
    <3>2. C \in SUBSET S
      BY DEF Below
    <3>3. IsFiniteSet(C)
      BY <3>2, FS_Subset
    <3>4. Cardinality(C) \in Nat /\ Cardinality(C) = Rank(S, R, v[i])
      BY <3>3, FS_CardinalityType DEF Rank
    <3>5. QED
      BY <3>1, <3>3, <3>4
  <2>3. B \subseteq C
    <3> SUFFICES ASSUME NEW j \in 1..k PROVE w[j] \in C
      OBVIOUS
    <3>1. j \in 1..n /\ w[j] \in S
      BY <1>1
    <3>2. r > k
      <4> SUFFICES ASSUME r <= k PROVE FALSE
        BY <1>1, <2>2
      <4>1. r \in 1..k
        BY <1>1, <2>2
      <4>2. QED
        BY <1>4, <2>1, <2>2, <4>1
    <3>3. <<w[j], w[r]>> \in R
      BY <3>1, <3>2, <2>2, <1>1, ListingOrder
    <3>4. QED
      BY <3>1, <3>3, <2>2 DEF Below
  <2>4. Below(T, R, v[i]) = C \ B
    BY <1>4 DEF Below
  <2>5. C \cap B = B
    BY <2>3
  <2>6. Cardinality(C \ B) = (r - 1) - k
    <3> HIDE DEF B, C
    <3>1. Cardinality(C \ B) = Cardinality(C) - Cardinality(C \cap B)
      BY <2>2, FS_Difference
    <3>2. QED
      BY <1>2, <2>2, <2>5, <3>1
  <2>7. (r - 1) - k = i - 1
    BY <2>1, <2>4, <2>6 DEF Rank
  <2>8. r = k + i
    BY <2>7, <2>2, <1>1
  <2>9. QED
    BY <2>2, <2>8
<1>8. QED
  BY <1>5, <1>7
-----------------------------------------------------------------------------
(* Listings of rows, and of the ids of the rows.                            *)

IdsOf(X) == {x.id : x \in X}
Distinct(X) == \A x, y \in X : x.id = y.id => x = y

\* Q says of ids what R says of the rows of X.
OfIds(X, R, Q) == \A x, y \in X : <<x, y>> \in R <=> <<x.id, y.id>> \in Q

(* A set of rows has as many ids.                                           *)
LEMMA IdsOfSet ==
    ASSUME NEW X, IsFiniteSet(X), Distinct(X)
    PROVE  IsFiniteSet(IdsOf(X)) /\ Cardinality(IdsOf(X)) = Cardinality(X)
<1> DEFINE f == [x \in X |-> x.id]
<1>1. f \in Bijection(X, IdsOf(X))
  <2>1. f \in [X -> IdsOf(X)] /\ \A i \in IdsOf(X) : \E x \in X : f[x] = i
    BY DEF IdsOf
  <2>2. \A x, y \in X : f[x] = f[y] => x = y
    BY DEF Distinct
  <2>3. QED
    BY <2>1, <2>2 DEF Bijection, Injection, IsInjective, Surjection
<1>2. ExistsBijection(X, IdsOf(X))
  BY <1>1 DEF ExistsBijection
<1>3. QED
  BY <1>2, FS_Bijection

(* The order of the ids is an order of the rows.                            *)
LEMMA OrderOfRows ==
    ASSUME NEW X, Distinct(X), NEW R, NEW Q, OfIds(X, R, Q), StrictOrder(Q, IdsOf(X))
    PROVE  StrictOrder(R, X)
<1>1. \A x \in X : x.id \in IdsOf(X)
  BY DEF IdsOf
<1>2. \A x \in X : <<x, x>> \notin R
  BY <1>1 DEF StrictOrder, OfIds
<1>3. \A x, y \in X : x # y => <<x, y>> \in R \/ <<y, x>> \in R
  BY <1>1 DEF StrictOrder, OfIds, Distinct
<1>4. \A x, y, z \in X : <<x, y>> \in R /\ <<y, z>> \in R => <<x, z>> \in R
  <2> SUFFICES ASSUME NEW x \in X, NEW y \in X, NEW z \in X,
                      <<x, y>> \in R, <<y, z>> \in R
               PROVE  <<x, z>> \in R
    OBVIOUS
  <2>1. <<x.id, y.id>> \in Q /\ <<y.id, z.id>> \in Q
    BY DEF OfIds
  <2>2. <<x.id, z.id>> \in Q
    BY <1>1, <2>1 DEF StrictOrder
  <2>3. QED
    BY <2>2 DEF OfIds
<1>5. QED
  BY <1>2, <1>3, <1>4 DEF StrictOrder

(* The ids of listed rows are the listed ids.                               *)
LEMMA IdsOfListing ==
    ASSUME NEW X, IsFiniteSet(X), Distinct(X), NEW R, NEW Q, OfIds(X, R, Q),
           NEW w, IsListing(w, X, R)
    PROVE  IsListing(Ids(w), IdsOf(X), Q)
<1> DEFINE n == Cardinality(X)
<1>1. Cardinality(IdsOf(X)) = n /\ w \in [1..n -> X]
  BY IdsOfSet DEF IsListing
<1>2. Ids(w) \in [1..n -> IdsOf(X)] /\ \A i \in 1..n : Ids(w)[i] = w[i].id
  BY <1>1 DEF Ids, IdsOf
<1>3. ASSUME NEW x \in X PROVE Rank(IdsOf(X), Q, x.id) = Rank(X, R, x)
  <2> DEFINE B == Below(X, R, x)
  <2>1. B \subseteq X
    BY DEF Below
  <2>2. IsFiniteSet(B) /\ Distinct(B)
    BY <2>1, FS_Subset DEF Distinct
  <2>3. Below(IdsOf(X), Q, x.id) = IdsOf(B)
    BY DEF Below, IdsOf, OfIds
  <2>4. Cardinality(IdsOf(B)) = Cardinality(B)
    <3> HIDE DEF B
    <3>1. QED
      BY <2>2, IdsOfSet
  <2>5. QED
    BY <2>3, <2>4 DEF Rank
<1>4. \A i \in 1..n : Rank(IdsOf(X), Q, Ids(w)[i]) = i - 1
  BY <1>1, <1>2, <1>3 DEF IsListing
<1>5. QED
  BY <1>1, <1>2, <1>4 DEF IsListing

(* What holds of the whole holds of a part of the rows.                     *)
LEMMA PartOfRows ==
    ASSUME NEW X, IsFiniteSet(X), Distinct(X), NEW R, NEW Q, OfIds(X, R, Q),
           StrictOrder(Q, IdsOf(X)), NEW Y \in SUBSET X
    PROVE  /\ IsFiniteSet(Y) /\ Distinct(Y) /\ OfIds(Y, R, Q)
           /\ StrictOrder(Q, IdsOf(Y)) /\ StrictOrder(R, Y)
<1>1. IsFiniteSet(Y) /\ Distinct(Y) /\ OfIds(Y, R, Q)
  BY FS_Subset DEF Distinct, OfIds
<1>2. IdsOf(Y) \subseteq IdsOf(X)
  BY DEF IdsOf
<1>3. StrictOrder(Q, IdsOf(Y))
  BY <1>2 DEF StrictOrder
<1>4. QED
  BY <1>1, <1>3, OrderOfRows

-----------------------------------------------------------------------------
(* Filters.  The compiled condition selects what the definition matches.    *)

\* A filter as the requests have them, and one that IsFilter lets through.
Nodes(filter) ==
    /\ Len(filter) \in Nat
    /\ filter = [i \in 1..Len(filter) |-> filter[i]]
    /\ \A i \in DOMAIN filter : Node(filter[i], i)
Fit(filter) == \A i \in DOMAIN filter : NodeFits(filter[i])

\* The row has what the filter asks of v: a row of a snapshot without
\* coverage has no Lists, and is not asked for them.
SameFor(row, v, n) ==
    /\ row[n.field] = v[n.field]
    /\ n.field = "is_unclassified" => row.lists = v.lists

(* The columns that are compared with COALESCE, or without.                 *)
LEMMA ComparisonAgrees ==
    ASSUME NEW x, NEW op, NEW value, Holds(op, x, value) \in BOOLEAN
    PROVE  /\ Coalesce(Compared(op, x, value)) = (x # Null /\ Holds(op, x, value))
           /\ x # Null => Compared(op, x, value) = Holds(op, x, value)
BY SelectionAssumption DEF Coalesce, Compared

(* A comparison is true or false.                                           *)
LEMMA HoldsIsBoolean ==
    ASSUME NEW op \in {"eq", "in", "neq", "not_in", "lt", "before", "gt", "after",
                       "lte", "gte"},
           NEW x, NEW value
    PROVE  Holds(op, x, value) \in BOOLEAN
<1>1. op \in {"eq", "in"} => Holds(op, x, value) = (x \in value)
  BY DEF Holds
<1>2. op \in {"neq", "not_in"} => Holds(op, x, value) = (x \notin value)
  <2>1. op \in {"neq", "not_in"} => op \notin {"eq", "in"}
    OBVIOUS
  <2>2. QED
    BY <2>1 DEF Holds
<1>3. op \in {"lt", "before"} => Holds(op, x, value) = (\A y \in value : x < y)
  BY DEF Holds
<1>4. op \in {"gt", "after"} => Holds(op, x, value) = (\A y \in value : x > y)
  BY DEF Holds
<1>5. op = "lte" => Holds(op, x, value) = (\A y \in value : x <= y)
  BY DEF Holds
<1>6. op = "gte" => Holds(op, x, value) = (\A y \in value : x >= y)
  BY DEF Holds
<1>7. \/ op \in {"eq", "in"} \/ op \in {"neq", "not_in"} \/ op \in {"lt", "before"}
      \/ op \in {"gt", "after"} \/ op = "lte" \/ op = "gte"
  OBVIOUS
<1>8. /\ (x \in value) \in BOOLEAN /\ (x \notin value) \in BOOLEAN
      /\ (\A y \in value : x < y) \in BOOLEAN /\ (\A y \in value : x > y) \in BOOLEAN
      /\ (\A y \in value : x <= y) \in BOOLEAN /\ (\A y \in value : x >= y) \in BOOLEAN
  OBVIOUS
<1>9. QED
  BY <1>1, <1>2, <1>3, <1>4, <1>5, <1>6, <1>7, <1>8, Zenon

(* The operators of each field.                                             *)
LEMMA OperatorsOfField ==
    /\ \A f \in Collections : Operators(f) = {"contains", "not_contains", "in",
                                              "not_in", "is_null", "not_null"}
    /\ Operators("is_unclassified") = {"eq", "neq"}
    /\ Operators("is_archived") = {"eq", "neq"}
    /\ Operators("full_name") = {"eq", "neq", "in", "not_in"}
    /\ Operators("stargazer_count") = {"eq", "neq", "lt", "lte", "gt", "gte", "in",
                                       "not_in"}
    /\ Operators("primary_language") = {"eq", "neq", "in", "not_in", "is_null",
                                        "not_null"}
    /\ Operators("pushed_at") = {"before", "after", "eq", "is_null", "not_null"}
<1>1. ASSUME NEW f \in Collections
      PROVE  Operators(f) = {"contains", "not_contains", "in", "not_in", "is_null",
                             "not_null"}
  <2>1. /\ f # "full_name" /\ f # "primary_language" /\ f # "stargazer_count"
        /\ f # "pushed_at" /\ f \notin {"is_archived", "is_unclassified"}
    BY DEF Collections
  <2>2. QED
    BY <2>1 DEF Operators
<1>2. /\ "is_unclassified" \notin Collections /\ "is_archived" \notin Collections
      /\ "full_name" \notin Collections /\ "stargazer_count" \notin Collections
      /\ "primary_language" \notin Collections /\ "pushed_at" \notin Collections
  BY DEF Collections
<1>3. Operators("is_unclassified") = {"eq", "neq"}
  BY <1>2 DEF Operators
<1>4. Operators("is_archived") = {"eq", "neq"}
  BY <1>2 DEF Operators
<1>5. Operators("full_name") = {"eq", "neq", "in", "not_in"}
  BY <1>2 DEF Operators
<1>6. Operators("stargazer_count") = {"eq", "neq", "lt", "lte", "gt", "gte", "in",
                                      "not_in"}
  BY <1>2 DEF Operators
<1>7. Operators("primary_language") = {"eq", "neq", "in", "not_in", "is_null",
                                       "not_null"}
  BY <1>2 DEF Operators
<1>8. Operators("pushed_at") = {"before", "after", "eq", "is_null", "not_null"}
  BY <1>2 DEF Operators
<1>9. QED
  BY <1>1, <1>3, <1>4, <1>5, <1>6, <1>7, <1>8

(* The fields whose rows are tables of their own: EXISTS and NOT EXISTS.    *)
LEMMA CollectionLeaf ==
    ASSUME NEW n, n.field \in Collections,
           n.op \in {"contains", "not_contains", "in", "not_in", "is_null", "not_null"},
           NEW v, NEW row, row[n.field] = v[n.field]
    PROVE  SqlLeaf(row, n) = LeafMatches(v, n) /\ LeafMatches(v, n) \in BOOLEAN
<1>1. n.field # "is_unclassified" /\ n.field \notin {"stargazer_count", "is_archived"}
  BY DEF Collections
<1>2. CASE n.op = "is_null"
  <2>1. n.op \notin {"contains", "in", "not_contains", "not_in"} /\ n.op # "not_null"
    BY <1>2
  <2>2. n.op \notin {"contains", "in"} /\ n.op \notin {"not_contains", "not_in"}
    BY <2>1
  <2>3. SqlLeaf(row, n) = ~\E x \in row[n.field] : TRUE
    BY <1>1, <1>2, <2>1, <2>2 DEF SqlLeaf
  <2>4. LeafMatches(v, n) = (v[n.field] = {})
    BY <1>1, <1>2, <2>1, <2>2 DEF LeafMatches
  <2>5. QED
    BY <2>3, <2>4
<1>3. CASE n.op = "not_null"
  <2>1. n.op \notin {"contains", "in"} /\ n.op \notin {"not_contains", "not_in"}
        /\ n.op # "is_null"
    BY <1>3
  <2>3. SqlLeaf(row, n) = \E x \in row[n.field] : TRUE
    BY <1>1, <1>3, <2>1 DEF SqlLeaf
  <2>4. LeafMatches(v, n) = (v[n.field] # {})
    BY <1>1, <1>3, <2>1 DEF LeafMatches
  <2>5. QED
    BY <2>3, <2>4
<1>4. CASE n.op \in {"contains", "in"}
  <2>1. n.op # "is_null" /\ n.op # "not_null" /\ n.op \notin {"not_contains", "not_in"}
    BY <1>4
  <2>3. SqlLeaf(row, n) = \E x \in row[n.field] : x \in n.value
    BY <1>1, <1>4, <2>1 DEF SqlLeaf
  <2>4. LeafMatches(v, n) = (n.value \cap v[n.field] # {})
    BY <1>1, <1>4, <2>1 DEF LeafMatches
  <2>5. QED
    BY <2>3, <2>4
<1>5. CASE n.op \in {"not_contains", "not_in"}
  <2>1. n.op # "is_null" /\ n.op # "not_null" /\ n.op \notin {"contains", "in"}
    BY <1>5
  <2>3. SqlLeaf(row, n) = ~\E x \in row[n.field] : x \in n.value
    BY <1>1, <1>5, <2>1 DEF SqlLeaf
  <2>4. LeafMatches(v, n) = (n.value \cap v[n.field] = {})
    BY <1>1, <1>5, <2>1 DEF LeafMatches
  <2>5. QED
    BY <2>3, <2>4
<1>6. QED
  BY <1>2, <1>3, <1>4, <1>5

(* A repository without Lists is the unclassified one.                      *)
LEMMA UnclassifiedLeaf ==
    ASSUME NEW n, n.field = "is_unclassified", n.op \in {"eq", "neq"},
           n.value \in {{0}, {1}}, NEW v, NEW row, row.lists = v.lists
    PROVE  SqlLeaf(row, n) = LeafMatches(v, n) /\ LeafMatches(v, n) \in BOOLEAN
<1>1. n.field \notin Collections /\ n.op # "is_null" /\ n.op # "not_null"
  BY DEF Collections
<1>2. LeafMatches(v, n) = Holds(n.op, Unclassified(v), n.value)
  BY <1>1 DEF LeafMatches
<1>3. SqlLeaf(row, n) = ((\E x \in row.lists : TRUE) <=> (n.op = "eq" <=> n.value = {0}))
  BY <1>1 DEF SqlLeaf
<1>4. n.op = "eq" => Holds(n.op, Unclassified(v), n.value) = (Unclassified(v) \in n.value)
  BY DEF Holds
<1>5. n.op = "neq" => Holds(n.op, Unclassified(v), n.value) = (Unclassified(v) \notin n.value)
  BY DEF Holds
<1> DEFINE listed == \E x \in row.lists : TRUE
<1>6. Unclassified(v) = IF listed THEN 0 ELSE 1
  BY DEF Unclassified
<1>7. CASE n.op = "eq"
  <2>1. (Unclassified(v) \in n.value) = (listed <=> n.value = {0})
    BY <1>6
  <2>2. (n.op = "eq" <=> n.value = {0}) = (n.value = {0})
    BY <1>7
  <2> HIDE DEF listed
  <2>3. QED
    BY <1>2, <1>3, <1>4, <1>7, <2>1, <2>2 DEF listed
<1>8. CASE n.op = "neq"
  <2>1. (Unclassified(v) \notin n.value) = (listed <=> n.value # {0})
    BY <1>6
  <2>2. (n.op = "eq" <=> n.value = {0}) = (n.value # {0})
    BY <1>8
  <2> HIDE DEF listed
  <2>3. QED
    BY <1>2, <1>3, <1>5, <1>8, <2>1, <2>2 DEF listed
<1>9. QED
  BY <1>7, <1>8

(* A column that may be null is compared with COALESCE, or by IS NULL; the  *)
(* others are never null.                                                   *)
LEMMA ColumnLeaf ==
    ASSUME NEW n, n.field \notin Collections, n.field # "is_unclassified",
           n.op \in {"eq", "in", "neq", "not_in", "lt", "before", "gt", "after", "lte",
                     "gte", "is_null", "not_null"},
           NEW v, NEW row, row[n.field] = v[n.field],
           n.field \in {"stargazer_count", "is_archived"} =>
              v[n.field] # Null /\ n.op # "is_null" /\ n.op # "not_null"
    PROVE  SqlLeaf(row, n) = LeafMatches(v, n) /\ LeafMatches(v, n) \in BOOLEAN
<1>1. CASE n.op = "is_null"
  <2>1. LeafMatches(v, n) = (v[n.field] = Null)
    BY <1>1 DEF LeafMatches
  <2>2. SqlLeaf(row, n) = (row[n.field] = Null)
    <3>1. /\ n.op \notin {"contains", "in"} /\ n.op \notin {"not_contains", "not_in"}
          /\ n.op # "not_null" /\ n.field \notin {"stargazer_count", "is_archived"}
      BY <1>1
    <3>2. QED
      BY <1>1, <3>1 DEF SqlLeaf
  <2>3. QED
    BY <2>1, <2>2
<1>2. CASE n.op = "not_null"
  <2>1. LeafMatches(v, n) = (v[n.field] # Null)
    BY <1>2 DEF LeafMatches
  <2>2. SqlLeaf(row, n) = (row[n.field] # Null)
    <3>1. /\ n.op \notin {"contains", "in"} /\ n.op \notin {"not_contains", "not_in"}
          /\ n.op # "is_null" /\ n.field \notin {"stargazer_count", "is_archived"}
      BY <1>2
    <3>2. QED
      BY <1>2, <3>1 DEF SqlLeaf
  <2>3. QED
    BY <2>1, <2>2
<1>3. CASE n.op # "is_null" /\ n.op # "not_null"
  <2> DEFINE x == v[n.field]
  <2>1. LeafMatches(v, n) = (x # Null /\ Holds(n.op, x, n.value))
    BY <1>3 DEF LeafMatches
  <2>2. Holds(n.op, x, n.value) \in BOOLEAN
    BY <1>3, HoldsIsBoolean
  <2>3. CASE n.field \in {"stargazer_count", "is_archived"}
    <3>1. SqlLeaf(row, n) = Compared(n.op, x, n.value)
      BY <1>3, <2>3 DEF SqlLeaf
    <3>2. x # Null
      BY <2>3
    <3>3. QED
      BY <2>1, <2>2, <3>1, <3>2, ComparisonAgrees
  <2>4. CASE n.field \notin {"stargazer_count", "is_archived"}
    <3>1. SqlLeaf(row, n) = Coalesce(Compared(n.op, x, n.value))
      BY <1>3, <2>4 DEF SqlLeaf
    <3>2. QED
      BY <2>1, <2>2, <3>1, ComparisonAgrees
  <2>5. QED
    BY <2>3, <2>4
<1>4. QED
  BY <1>1, <1>2, <1>3

(* A leaf that the parser takes selects what it matches, and never NULL.    *)
LEMMA LeafAgrees ==
    ASSUME NEW n, NEW i, Node(n, i), n.op \notin Composites, NodeFits(n),
           NEW v \in Repository, NEW row, SameFor(row, v, n)
    PROVE  SqlLeaf(row, n) = LeafMatches(v, n) /\ LeafMatches(v, n) \in BOOLEAN
<1>1. n.op \in Operators(n.field) /\ n.field \in Fields
  BY DEF NodeFits, IsLeaf, Node
<1>2. CASE n.field \in Collections
  BY <1>1, <1>2, OperatorsOfField, CollectionLeaf DEF SameFor, Collections
<1>3. CASE n.field = "is_unclassified"
  BY <1>1, <1>3, OperatorsOfField, UnclassifiedLeaf DEF SameFor, Node
<1>4. CASE n.field \notin Collections /\ n.field # "is_unclassified"
  <2>1. n.field \in {"full_name", "primary_language", "stargazer_count", "is_archived",
                     "pushed_at"}
    BY <1>1, <1>4 DEF Fields
  <2>2. n.op \in {"eq", "in", "neq", "not_in", "lt", "before", "gt", "after", "lte",
                  "gte", "is_null", "not_null"}
    BY <1>1, <2>1, OperatorsOfField
  <2>3. n.field \in {"stargazer_count", "is_archived"} =>
            v[n.field] # Null /\ n.op # "is_null" /\ n.op # "not_null"
    BY <1>1, <2>1, OperatorsOfField, SelectionAssumption DEF Repository
  <2>4. QED
    BY <1>4, <2>2, <2>3, ColumnLeaf DEF SameFor
<1>5. QED
  BY <1>2, <1>3, <1>4

(* Of a node whose children agree as truth values the same is true: NULL    *)
(* never arises, so AND, OR and NOT are the logical ones.                   *)
LEMMA NodeAgrees ==
    ASSUME NEW i \in Nat, NEW n, Node(n, i), NodeFits(n), NEW v \in Repository, NEW row,
           n.op \notin Composites => SameFor(row, v, n),
           NEW m, NEW s, \A c \in n.of : m[c] \in BOOLEAN /\ s[c] = m[c]
    PROVE  SqlNode(row, n, s) = NodeMatches(v, n, m) /\ NodeMatches(v, n, m) \in BOOLEAN
<1> DEFINE xs == {s[c] : c \in n.of}
<1>1. xs \subseteq BOOLEAN /\ \A c \in n.of : s[c] \in xs
  OBVIOUS
<1>2. n.op \in Composites => xs # {}
  BY DEF NodeFits
<1>3. CASE n.op = "all"
  <2>1. SqlNode(row, n, s) = SqlAll(xs)
    BY <1>3 DEF SqlNode
  <2>2. NodeMatches(v, n, m) = \A c \in n.of : m[c]
    BY <1>3 DEF NodeMatches
  <2>3. xs # {}
    BY <1>2, <1>3 DEF Composites
  <2>4. CASE \A c \in n.of : m[c]
    <3>1. xs = {TRUE} /\ FALSE \notin xs
      BY <2>3, <2>4, <1>1
    <3>2. SqlAll(xs) = TRUE
      <4> HIDE DEF xs
      <4>1. QED
        BY <3>1, Zenon DEF SqlAll
    <3>3. QED
      BY <2>1, <2>2, <2>4, <3>2
  <2>5. CASE ~\A c \in n.of : m[c]
    <3>1. FALSE \in xs
      BY <2>5
    <3>2. xs # {TRUE}
      BY <3>1
    <3>3. SqlAll(xs) = FALSE
      <4> HIDE DEF xs
      <4>1. QED
        BY <3>1, <3>2, Zenon DEF SqlAll
    <3>4. QED
      BY <2>1, <2>2, <2>5, <3>3
  <2>6. QED
    BY <2>4, <2>5
<1>4. CASE n.op = "any"
  <2>1. SqlNode(row, n, s) = SqlAny(xs)
    BY <1>4 DEF SqlNode
  <2>2. NodeMatches(v, n, m) = \E c \in n.of : m[c]
    BY <1>4 DEF NodeMatches
  <2>3. xs # {}
    BY <1>2, <1>4 DEF Composites
  <2>4. CASE \E c \in n.of : m[c]
    <3>1. TRUE \in xs
      BY <2>4
    <3>2. xs # {FALSE}
      BY <3>1
    <3>3. SqlAny(xs) = TRUE
      <4> HIDE DEF xs
      <4>1. QED
        BY <3>1, <3>2, Zenon DEF SqlAny
    <3>4. QED
      BY <2>1, <2>2, <2>4, <3>3
  <2>5. CASE ~\E c \in n.of : m[c]
    <3>1. xs = {FALSE} /\ TRUE \notin xs
      BY <2>3, <2>5, <1>1
    <3>2. SqlAny(xs) = FALSE
      <4> HIDE DEF xs
      <4>1. QED
        BY <3>1, Zenon DEF SqlAny
    <3>3. QED
      BY <2>1, <2>2, <2>5, <3>2
  <2>6. QED
    BY <2>4, <2>5
<1>5. CASE n.op = "not"
  <2>1. PICK c : n.of = {c}
    <3>1. Cardinality(n.of) = 1 /\ n.of \subseteq 1..i-1
      BY <1>5 DEF NodeFits, Composites, Node
    <3>2. IsFiniteSet(n.of)
      <4>1. IsFiniteSet(1..i-1)
        BY FS_Interval
      <4>2. QED
        BY <3>1, <4>1, FS_Subset
    <3>3. QED
      BY <3>1, <3>2, FS_Singleton
  <2>2. xs = {s[c]} /\ s[c] \in BOOLEAN
    BY <2>1
  <2>3. SqlNode(row, n, s) = SqlNot(CHOOSE x \in xs : TRUE)
    BY <1>5 DEF SqlNode
  <2>4. (CHOOSE x \in xs : TRUE) = s[c]
    BY <2>2
  <2>5. SqlNot(s[c]) = ~s[c]
    BY <2>2, SelectionAssumption DEF SqlNot
  <2>6. NodeMatches(v, n, m) = \A d \in n.of : ~m[d]
    BY <1>5 DEF NodeMatches
  <2>7. QED
    BY <2>1, <2>2, <2>3, <2>4, <2>5, <2>6
<1>6. CASE n.op \notin Composites
  <2>1. n.op # "all" /\ n.op # "any" /\ n.op # "not"
    BY <1>6 DEF Composites
  <2>2. SqlNode(row, n, s) = SqlLeaf(row, n)
    BY <2>1 DEF SqlNode
  <2>3. NodeMatches(v, n, m) = LeafMatches(v, n)
    BY <2>1 DEF NodeMatches
  <2>4. QED
    BY <1>6, <2>2, <2>3, LeafAgrees
<1>7. QED
  BY <1>3, <1>4, <1>5, <1>6 DEF Composites

(* A least counterexample: how a fact about all the nodes is proved.        *)
LEMMA LeastNode ==
    ASSUME NEW Bad \in SUBSET Nat, Bad # {}
    PROVE  \E i \in Bad : \A j \in Bad : i <= j
<1> DEFINE Less == {ss \in Nat \X Nat : ss[1] < ss[2]}
<1>1. IsWellFoundedOn(Less, Nat)
  BY NatLessThanWellFounded DEF OpToRel
<1>2. \E i \in Bad : \A j \in Bad : <<j, i>> \notin Less
  <2> HIDE DEF Less
  <2>1. QED
    BY <1>1, WFMin
<1>3. \A i, j \in Nat : j < i => <<j, i>> \in Less
  OBVIOUS
<1>4. \A i, j \in Nat : <<j, i>> \notin Less => i <= j
  BY <1>3
<1>5. QED
  BY <1>2, <1>4

\* What the two recursions ask of a function of the first n nodes.
Answers(f, filter, n, v, row) ==
    /\ f \in [1..n -> BOOLEAN]
    /\ \A i \in 1..n : /\ f[i] = NodeMatches(v, filter[i], f)
                       /\ f[i] = SqlNode(row, filter[i], f)

\* The row has what every leaf asks of v.
SameForAll(row, v, filter) ==
    \A i \in DOMAIN filter : filter[i].op \notin Composites => SameFor(row, v, filter[i])

(* The answers of some nodes give the next one's.                           *)
LEMMA OneMoreNode ==
    ASSUME NEW filter, Nodes(filter), Fit(filter), NEW v \in Repository, NEW row,
           SameForAll(row, v, filter),
           NEW n \in Nat, n + 1 <= Len(filter), NEW f, Answers(f, filter, n, v, row)
    PROVE  \E g : Answers(g, filter, n + 1, v, row)
<1> DEFINE N(i) == filter[i]
           g == [i \in 1..n+1 |-> IF i <= n THEN f[i] ELSE NodeMatches(v, filter[n+1], f)]
<1>1. ASSUME NEW i \in 1..n+1
      PROVE  /\ i \in DOMAIN filter /\ i \in Nat
             /\ Node(N(i), i) /\ NodeFits(N(i))
             /\ N(i).op \notin Composites => SameFor(row, v, N(i))
             /\ \A c \in N(i).of : c \in 1..n /\ f[c] \in BOOLEAN
  <2>1. i \in DOMAIN filter /\ i \in Nat
    BY DEF Nodes
  <2>2. Node(N(i), i) /\ NodeFits(N(i))
    BY <2>1 DEF Nodes, Fit
  <2>3. N(i).of \subseteq 1..i-1
    BY <2>2 DEF Node
  <2>4. \A c \in N(i).of : c \in 1..n
    BY <2>1, <2>3
  <2>5. QED
    BY <2>1, <2>2, <2>4 DEF SameForAll, Answers
<1>2. ASSUME NEW i \in 1..n+1
      PROVE  /\ NodeMatches(v, N(i), f) \in BOOLEAN
             /\ SqlNode(row, N(i), f) = NodeMatches(v, N(i), f)
  <2> HIDE DEF N
  <2>1. QED
    BY <1>1, NodeAgrees
<1>3. g \in [1..n+1 -> BOOLEAN] /\ \A c \in 1..n : g[c] = f[c]
  BY <1>2 DEF Answers
<1>4. ASSUME NEW i \in 1..n+1
      PROVE  g[i] = NodeMatches(v, N(i), g) /\ g[i] = SqlNode(row, N(i), g)
  <2>1. g[i] = NodeMatches(v, N(i), f)
    <3>1. CASE i <= n
      BY <3>1 DEF Answers
    <3>2. CASE ~(i <= n)
      <4>1. i = n + 1
        BY <3>2
      <4>2. QED
        BY <4>1
    <3>3. QED
      BY <3>1, <3>2
  <2>2. \A c \in N(i).of : g[c] = f[c] /\ g[c] \in BOOLEAN
    BY <1>1, <1>3 DEF Answers
  <2> HIDE DEF N, g
  <2>3. SqlNode(row, N(i), f) = NodeMatches(v, N(i), g)
    BY <1>1, <2>2, NodeAgrees
  <2>4. SqlNode(row, N(i), g) = NodeMatches(v, N(i), g)
    BY <1>1, <2>2, NodeAgrees
  <2>5. QED
    BY <1>2, <2>1, <2>3, <2>4
<1>5. Answers(g, filter, n + 1, v, row)
  <2> HIDE DEF g
  <2>1. QED
    BY <1>3, <1>4 DEF Answers
<1>6. QED
  BY <1>5

(* So there is one function that answers all the nodes in both recursions.  *)
LEMMA AnswersExist ==
    ASSUME NEW filter, Nodes(filter), Fit(filter), NEW v \in Repository, NEW row,
           SameForAll(row, v, filter)
    PROVE  \E f : Answers(f, filter, Len(filter), v, row)
<1> DEFINE Answered(n) == \E f : Answers(f, filter, n, v, row)
           Bad == {n \in 0..Len(filter) : ~Answered(n)}
<1>1. Len(filter) \in Nat
  BY DEF Nodes
<1>2. SUFFICES ASSUME Bad # {} PROVE FALSE
  BY <1>1
<1>3. PICK n \in Bad : \A j \in Bad : n <= j
  <2>1. Bad \in SUBSET Nat
    BY <1>1
  <2> HIDE DEF Bad
  <2>2. QED
    BY <1>2, <2>1, LeastNode
<1>4. Answered(0)
  <2> DEFINE f == [i \in 1..0 |-> TRUE]
  <2>1. 1..0 = {}
    OBVIOUS
  <2>2. Answers(f, filter, 0, v, row)
    BY <2>1 DEF Answers
  <2>3. QED
    BY <2>2
<1>5. n # 0 /\ n - 1 \in Nat /\ n - 1 \in 0..Len(filter) /\ n - 1 + 1 = n /\ n <= Len(filter)
  BY <1>1, <1>4
<1>6. Answered(n - 1)
  <2>1. n - 1 \notin Bad
    BY <1>3, <1>5
  <2>2. QED
    BY <1>5, <2>1
<1>7. PICK f : Answers(f, filter, n - 1, v, row)
  BY <1>6
<1>8. \E g : Answers(g, filter, n - 1 + 1, v, row)
  BY <1>5, <1>7, OneMoreNode
<1>9. Answered(n)
  BY <1>5, <1>8
<1>10. QED
  BY <1>9

(* The compiled condition of a filter selects a row exactly if the domain's *)
(* filter matches: three-valued logic makes no difference.                  *)
THEOREM SelectsWhatMatches ==
    ASSUME NEW filter, Nodes(filter), Fit(filter), NEW v \in Repository, NEW row,
           SameForAll(row, v, filter)
    PROVE  Selects(row, filter) <=> Matches(v, filter)
<1> DEFINE D == DOMAIN filter
           a == CHOOSE f : f = [i \in D |-> NodeMatches(v, filter[i], f)]
           b == CHOOSE f : f = [i \in D |-> SqlNode(row, filter[i], f)]
<1>0. D = 1..Len(filter) /\ Len(filter) \in Nat
  BY DEF Nodes
<1>1. PICK f : Answers(f, filter, Len(filter), v, row)
  BY AnswersExist
<1>2. f = [i \in D |-> NodeMatches(v, filter[i], f)]
  <2>1. f \in [D -> BOOLEAN] /\ \A i \in D : f[i] = NodeMatches(v, filter[i], f)
    BY <1>0, <1>1 DEF Answers
  <2>2. QED
    BY <2>1
<1>3. f = [i \in D |-> SqlNode(row, filter[i], f)]
  <2>1. f \in [D -> BOOLEAN] /\ \A i \in D : f[i] = SqlNode(row, filter[i], f)
    BY <1>0, <1>1 DEF Answers
  <2>2. QED
    BY <2>1
<1>4. a = [i \in D |-> NodeMatches(v, filter[i], a)]
  BY <1>2
<1>5. b = [i \in D |-> SqlNode(row, filter[i], b)]
  BY <1>3
<1>6. \A i \in D : a[i] = NodeMatches(v, filter[i], a) /\ b[i] = SqlNode(row, filter[i], b)
  <2> HIDE DEF a, b
  <2>1. QED
    BY <1>4, <1>5
<1>7. \A i \in D : a[i] \in BOOLEAN /\ b[i] = a[i]
  <2> HIDE DEF a, b
  <2> DEFINE Bad == {i \in D : ~(a[i] \in BOOLEAN /\ b[i] = a[i])}
  <2>1. SUFFICES ASSUME Bad # {} PROVE FALSE
    OBVIOUS
  <2>2. PICK i \in Bad : \A j \in Bad : i <= j
    <3>1. Bad \in SUBSET Nat
      BY <1>0
    <3> HIDE DEF Bad
    <3>2. QED
      BY <2>1, <3>1, LeastNode
  <2>3. i \in D /\ i \in Nat /\ Node(filter[i], i) /\ NodeFits(filter[i])
    BY <1>0 DEF Nodes, Fit
  <2>4. \A c \in filter[i].of : a[c] \in BOOLEAN /\ b[c] = a[c]
    <3> SUFFICES ASSUME NEW c \in filter[i].of PROVE c \in D /\ c \notin Bad
      OBVIOUS
    <3>1. c \in 1..i-1
      BY <2>3 DEF Node
    <3>2. c \in D /\ c < i
      BY <1>0, <2>3, <3>1
    <3>3. QED
      BY <1>0, <2>2, <2>3, <3>2
  <2>5. a[i] \in BOOLEAN /\ b[i] = a[i]
    <3>1. filter[i].op \notin Composites => SameFor(row, v, filter[i])
      BY <2>3 DEF SameForAll
    <3>2. /\ SqlNode(row, filter[i], b) = NodeMatches(v, filter[i], a)
          /\ NodeMatches(v, filter[i], a) \in BOOLEAN
      BY <2>3, <2>4, <3>1, NodeAgrees
    <3>3. QED
      BY <1>6, <2>3, <3>2
  <2>6. QED
    BY <2>5
<1>8. Matches(v, filter) <=> (filter # << >> => a[Len(filter)])
  BY DEF Matches
<1>9. Selects(row, filter) <=> (filter # << >> => b[Len(filter)] = TRUE)
  BY DEF Selects
<1>10. filter # << >> => Len(filter) \in D
  <2>1. Len(filter) = 0 => filter = << >>
    BY DEF Nodes
  <2>2. QED
    BY <1>0, <2>1
<1> HIDE DEF a, b, D
<1>11. QED
  BY <1>7, <1>8, <1>9, <1>10

-----------------------------------------------------------------------------
(* Orders.  ORDER BY and the keyset are the domain's comparison.            *)

Cell == Int \cup {Null}
AnyTerm == SortTerm \cup {IdTerm}

\* Two rows that differ in their Lists at most.
SameColumns(row, r) ==
    /\ row \in Repository /\ r \in Repository
    /\ \A t \in AnyTerm : row[t.field] = r[t.field]

LEMMA CellsOfRow ==
    ASSUME NEW r \in Repository, NEW t \in AnyTerm
    PROVE  /\ r[t.field] \in Cell
           /\ t.field # "pushed_at" => r[t.field] # Null
BY SelectionAssumption DEF Repository, AnyTerm, SortTerm, IdTerm, Cell

(* One term: nulls last in both directions is a strict order...             *)
LEMMA TermIsOrder ==
    ASSUME NEW t \in AnyTerm, NEW x \in Cell, NEW y \in Cell, NEW z \in Cell
    PROVE  /\ ~Precedes(t, x, x)
           /\ x # y => Precedes(t, x, y) \/ Precedes(t, y, x)
           /\ Precedes(t, x, y) /\ Precedes(t, y, z) => Precedes(t, x, z)
BY SelectionAssumption DEF Precedes, Beyond, Cell, AnyTerm, SortTerm, IdTerm

(* ...which the two ORDER BY expressions are as well, and the keyset's      *)
(* branch, though only pushed_at has an expression for its nulls.           *)
LEMMA TermsAgree ==
    ASSUME NEW t \in AnyTerm, NEW x \in Cell, NEW y \in Cell,
           t.field # "pushed_at" => x # Null /\ y # Null
    PROVE  /\ OrderTerm(t, x, y) <=> Precedes(t, x, y)
           /\ (x # Null /\ After(t, y, x) /\ x # y) <=> Precedes(t, x, y)
           /\ x # Null => ~After(t, x, x)
BY SelectionAssumption
   DEF OrderTerm, NullsLast, Lower, After, Precedes, Beyond, Cell, AnyTerm, SortTerm,
       IdTerm

LEMMA TermsOfSort ==
    ASSUME NEW sort \in Seq(SortTerm)
    PROVE  /\ Len(sort) \in Nat /\ DOMAIN sort = 1..Len(sort)
           /\ DOMAIN Append(sort, IdTerm) = 1..Len(sort)+1
           /\ \A i \in 1..Len(sort)+1 : Append(sort, IdTerm)[i] \in AnyTerm
           /\ \A i \in 1..Len(sort) : Append(sort, IdTerm)[i] = sort[i]
           /\ Append(sort, IdTerm)[Len(sort)+1] = IdTerm
<1>1. /\ Len(sort) \in Nat /\ DOMAIN sort = 1..Len(sort)
      /\ DOMAIN Append(sort, IdTerm) = 1..Len(sort)+1
      /\ \A i \in 1..Len(sort) : Append(sort, IdTerm)[i] = sort[i] /\ sort[i] \in SortTerm
      /\ Append(sort, IdTerm)[Len(sort)+1] = IdTerm
  OBVIOUS
<1>2. ASSUME NEW i \in 1..Len(sort)+1 PROVE Append(sort, IdTerm)[i] \in AnyTerm
  BY <1>1 DEF AnyTerm
<1>3. QED
  BY <1>1, <1>2

(* The comparison of two repositories by all terms and the id.              *)
LEMMA ComesBeforeIsOrder ==
    ASSUME NEW sort \in Seq(SortTerm), NEW a \in Repository, NEW b \in Repository,
           NEW c \in Repository
    PROVE  /\ ~ComesBefore(a, a, sort)
           /\ a.id # b.id => ComesBefore(a, b, sort) \/ ComesBefore(b, a, sort)
           /\ ComesBefore(a, b, sort) /\ ComesBefore(b, c, sort) => ComesBefore(a, c, sort)
<1> DEFINE n == Len(sort) + 1
           F(i) == Append(sort, IdTerm)[i].field
           P(i, x, y) == Precedes(Append(sort, IdTerm)[i], x[F(i)], y[F(i)])
<1>1. n \in Nat /\ n >= 1 /\ F(n) = "id"
  BY TermsOfSort DEF IdTerm
<1>2. ASSUME NEW x \in Repository, NEW y \in Repository
      PROVE  ComesBefore(x, y, sort) <=>
                \E i \in 1..n : P(i, x, y) /\ \A j \in 1..i-1 : x[F(j)] = y[F(j)]
  BY TermsOfSort DEF ComesBefore, Lexical
<1>3. ASSUME NEW i \in 1..n, NEW x \in Repository, NEW y \in Repository,
             NEW z \in Repository
      PROVE  /\ ~P(i, x, x)
             /\ x[F(i)] # y[F(i)] => P(i, x, y) \/ P(i, y, x)
             /\ P(i, x, y) /\ P(i, y, z) => P(i, x, z)
  <2>1. Append(sort, IdTerm)[i] \in AnyTerm
    BY TermsOfSort
  <2>2. x[F(i)] \in Cell /\ y[F(i)] \in Cell /\ z[F(i)] \in Cell
    BY <2>1, CellsOfRow
  <2>3. QED
    BY <2>1, <2>2, TermIsOrder
<1> HIDE DEF P, F, n
<1>4. ~ComesBefore(a, a, sort)
  BY <1>2, <1>3
<1>5. ASSUME a.id # b.id PROVE ComesBefore(a, b, sort) \/ ComesBefore(b, a, sort)
  <2> DEFINE Bad == {i \in 1..n : a[F(i)] # b[F(i)]}
  <2>1. Bad \in SUBSET Nat /\ n \in Bad
    BY <1>1, <1>5
  <2>2. PICK i \in Bad : \A j \in Bad : i <= j
    <3> HIDE DEF Bad
    <3>1. QED
      BY <2>1, LeastNode
  <2>3. \A j \in 1..i-1 : a[F(j)] = b[F(j)] /\ b[F(j)] = a[F(j)]
    <3> TAKE j \in 1..i-1
    <3>1. j \in 1..n /\ ~(i <= j)
      BY <1>1
    <3>2. QED
      BY <2>2, <3>1
  <2>4. i \in 1..n /\ (P(i, a, b) \/ P(i, b, a))
    BY <1>3
  <2>5. QED
    BY <1>2, <2>3, <2>4
<1>6. ASSUME ComesBefore(a, b, sort), ComesBefore(b, c, sort)
      PROVE  ComesBefore(a, c, sort)
  <2>1. PICK i \in 1..n : P(i, a, b) /\ \A j \in 1..i-1 : a[F(j)] = b[F(j)]
    BY <1>2, <1>6
  <2>2. PICK k \in 1..n : P(k, b, c) /\ \A j \in 1..k-1 : b[F(j)] = c[F(j)]
    BY <1>2, <1>6
  <2>3. P(i, a, b) /\ P(k, b, c) /\ i \in Int /\ k \in Int
    BY <2>1, <2>2, <1>1
  <2>4. CASE i < k
    <3>1. b[F(i)] = c[F(i)]
      BY <2>2, <2>4, <1>1
    <3>2. P(i, a, c)
      BY <2>1, <3>1 DEF P
    <3>3. \A j \in 1..i-1 : a[F(j)] = c[F(j)]
      BY <2>1, <2>2, <2>4, <1>1
    <3>4. QED
      BY <1>2, <3>2, <3>3
  <2>5. CASE i = k
    <3>1. P(i, a, c)
      BY <1>3, <2>1, <2>2, <2>5
    <3>2. \A j \in 1..i-1 : a[F(j)] = c[F(j)]
      BY <2>1, <2>2, <2>5
    <3>3. QED
      BY <1>2, <3>1, <3>2
  <2>6. CASE k < i
    <3>1. a[F(k)] = b[F(k)]
      BY <2>1, <2>6, <1>1
    <3>2. P(k, a, c)
      BY <2>2, <3>1 DEF P
    <3>3. \A j \in 1..k-1 : a[F(j)] = c[F(j)]
      BY <2>1, <2>2, <2>6, <1>1
    <3>4. QED
      BY <1>2, <3>2, <3>3
  <2>7. QED
    BY <2>3, <2>4, <2>5, <2>6
<1>7. QED
  BY <1>4, <1>5, <1>6

(* The rows as SQL orders them are as the domain does.                      *)
LEMMA OrderedAgrees ==
    ASSUME NEW sort \in Seq(SortTerm), NEW x, NEW y, NEW a, NEW b,
           SameColumns(x, a), SameColumns(y, b)
    PROVE  OrderedBefore(x, y, sort) <=> ComesBefore(a, b, sort)
<1> DEFINE ts == Append(sort, IdTerm)
           n == Len(sort) + 1
<1>1. DOMAIN ts = 1..n /\ n \in Nat /\ \A i \in 1..n : ts[i] \in AnyTerm
  BY TermsOfSort
<1>2. ASSUME NEW i \in 1..n
      PROVE  /\ x[ts[i].field] = a[ts[i].field] /\ y[ts[i].field] = b[ts[i].field]
             /\ OrderTerm(ts[i], x[ts[i].field], y[ts[i].field])
                  <=> Precedes(ts[i], a[ts[i].field], b[ts[i].field])
  <2>1. ts[i] \in AnyTerm /\ a \in Repository /\ b \in Repository
    BY <1>1 DEF SameColumns
  <2> HIDE DEF ts
  <2>2. x[ts[i].field] = a[ts[i].field] /\ y[ts[i].field] = b[ts[i].field]
    BY <2>1 DEF SameColumns
  <2>3. /\ a[ts[i].field] \in Cell /\ b[ts[i].field] \in Cell
        /\ ts[i].field # "pushed_at" => a[ts[i].field] # Null /\ b[ts[i].field] # Null
    BY <2>1, CellsOfRow
  <2>4. QED
    BY <2>1, <2>2, <2>3, TermsAgree
<1> HIDE DEF ts, n
<1>3. /\ OrderedBefore(x, y, sort) <=>
            \E i \in 1..n : /\ OrderTerm(ts[i], x[ts[i].field], y[ts[i].field])
                            /\ \A j \in 1..i-1 : x[ts[j].field] = y[ts[j].field]
      /\ ComesBefore(a, b, sort) <=>
            \E i \in 1..n : /\ Precedes(ts[i], a[ts[i].field], b[ts[i].field])
                            /\ \A j \in 1..i-1 : a[ts[j].field] = b[ts[j].field]
  BY <1>1 DEF OrderedBefore, ComesBefore, Lexical, ts
<1>4. \A i \in 1..n, j \in Int : j \in 1..i-1 => j \in 1..n
  BY <1>1
<1>5. QED
  BY <1>2, <1>3, <1>4

(* The keyset takes the rows after the one the cursor was made from.        *)
LEMMA KeysetAgrees ==
    ASSUME NEW sort \in Seq(SortTerm), NEW x, NEW y, NEW a, NEW b, NEW cursor,
           SameColumns(x, a), SameColumns(y, b),
           cursor.values = Values(x, sort), cursor.id = x.id
    PROVE  Keyset(y, sort, cursor) <=> ComesBefore(a, b, sort)
<1> DEFINE ts == Append(sort, IdTerm)
           m == Len(sort)
           n == Len(sort) + 1
<1>1. /\ DOMAIN ts = 1..n /\ m \in Nat /\ DOMAIN sort = 1..m
      /\ \A i \in 1..n : ts[i] \in AnyTerm
      /\ \A i \in 1..m : ts[i] = sort[i]
      /\ ts[n] = IdTerm
  BY TermsOfSort
<1>2. ASSUME NEW i \in 1..n
      PROVE  /\ x[ts[i].field] = a[ts[i].field] /\ y[ts[i].field] = b[ts[i].field]
             /\ a[ts[i].field] \in Cell /\ b[ts[i].field] \in Cell
             /\ (/\ x[ts[i].field] # Null
                 /\ After(ts[i], y[ts[i].field], x[ts[i].field]))
                  <=> Precedes(ts[i], a[ts[i].field], b[ts[i].field])
  <2>1. ts[i] \in AnyTerm /\ a \in Repository /\ b \in Repository
    BY <1>1 DEF SameColumns
  <2> HIDE DEF ts
  <2>2. x[ts[i].field] = a[ts[i].field] /\ y[ts[i].field] = b[ts[i].field]
    BY <2>1 DEF SameColumns
  <2>3. /\ a[ts[i].field] \in Cell /\ b[ts[i].field] \in Cell
        /\ ts[i].field # "pushed_at" => a[ts[i].field] # Null /\ b[ts[i].field] # Null
    BY <2>1, CellsOfRow
  <2>4. /\ (/\ a[ts[i].field] # Null
            /\ After(ts[i], b[ts[i].field], a[ts[i].field])
            /\ a[ts[i].field] # b[ts[i].field])
             <=> Precedes(ts[i], a[ts[i].field], b[ts[i].field])
        /\ a[ts[i].field] # Null => ~After(ts[i], a[ts[i].field], a[ts[i].field])
    BY <2>1, <2>3, TermsAgree
  <2>5. QED
    BY <2>2, <2>3, <2>4
<1>3. \A i \in 1..m : cursor.values[i] = x[sort[i].field]
  BY <1>1 DEF Values
<1>4. Values(y, sort) = cursor.values <=> \A i \in 1..m : y[ts[i].field] = x[ts[i].field]
  <2>1. /\ Values(y, sort) = [i \in 1..m |-> y[sort[i].field]]
        /\ cursor.values = [i \in 1..m |-> x[sort[i].field]]
    BY <1>1 DEF Values
  <2>2. Values(y, sort) = cursor.values <=> \A i \in 1..m : y[sort[i].field] = x[sort[i].field]
    BY <2>1
  <2>3. QED
    BY <1>1, <2>2
<1>5. x.id = x[ts[n].field] /\ y.id = y[ts[n].field]
  BY <1>1 DEF IdTerm
<1>6. y.id > x.id <=> Precedes(ts[n], a[ts[n].field], b[ts[n].field])
  <2>1. x.id = a.id /\ y.id = b.id /\ a.id \in Int /\ b.id \in Int
    <3>1. IdTerm \in AnyTerm /\ IdTerm.field = "id"
      BY DEF AnyTerm, IdTerm
    <3>2. x["id"] = a["id"] /\ y["id"] = b["id"]
      BY <3>1 DEF SameColumns
    <3>3. a.id \in Int /\ b.id \in Int
      BY DEF SameColumns, Repository
    <3>4. QED
      BY <3>2, <3>3
  <2>2. QED
    BY <1>1, <2>1, SelectionAssumption DEF Precedes, Beyond, IdTerm
<1> HIDE DEF ts
<1>7. ComesBefore(a, b, sort) <=>
            \E i \in 1..n : /\ Precedes(ts[i], a[ts[i].field], b[ts[i].field])
                            /\ \A j \in 1..i-1 : a[ts[j].field] = b[ts[j].field]
  BY <1>1 DEF ComesBefore, Lexical, ts
<1>8. Keyset(y, sort, cursor) <=>
        \/ \E i \in 1..m :
              /\ x[ts[i].field] # Null
              /\ After(ts[i], y[ts[i].field], x[ts[i].field])
              /\ \A j \in 1..i-1 : y[ts[j].field] = x[ts[j].field]
        \/ /\ \A j \in 1..m : y[ts[j].field] = x[ts[j].field]
           /\ y.id > x.id
  <2>1. \A i \in 1..m, j \in Int : j \in 1..i-1 => j \in 1..m
    BY <1>1
  <2>2. QED
    BY <1>1, <1>3, <1>4, <2>1, SMTT(30) DEF Keyset
<1>9. Keyset(y, sort, cursor) <=>
        \/ \E i \in 1..m :
              /\ Precedes(ts[i], a[ts[i].field], b[ts[i].field])
              /\ \A j \in 1..i-1 : a[ts[j].field] = b[ts[j].field]
        \/ /\ \A j \in 1..m : a[ts[j].field] = b[ts[j].field]
           /\ Precedes(ts[n], a[ts[n].field], b[ts[n].field])
  <2>1. \A j \in 1..m : y[ts[j].field] = x[ts[j].field] <=> a[ts[j].field] = b[ts[j].field]
    BY <1>1, <1>2
  <2>2. \A i \in 1..m, j \in Int : j \in 1..i-1 => j \in 1..m
    BY <1>1
  <2>3. \A i \in 1..m : i \in 1..n
    BY <1>1
  <2>4. QED
    BY <1>2, <1>6, <1>8, <2>1, <2>2, <2>3
<1>10. \A i \in 1..n : i \in 1..m \/ (i = n /\ i - 1 = m)
  BY <1>1
<1>11. n \in 1..n /\ n - 1 = m /\ \A i \in 1..m : i \in 1..n
  BY <1>1
<1>12. QED
  BY <1>7, <1>9, <1>10, <1>11

(* A sort names terms, however often it repeats a field.                    *)
LEMMA NormalizedType ==
    ASSUME NEW sort \in Seq(SortTerm)
    PROVE  Normalized(sort) \in Seq(SortTerm)
<1> DEFINE U == {i \in DOMAIN sort : \A j \in 1..i-1 : sort[j].field # sort[i].field}
           R == {p \in Nat \X Nat : p[1] < p[2]}
           w == Sorted(U, <)
           named == IF \E i \in DOMAIN sort : sort[i].field = "full_name" THEN << >>
                    ELSE <<[field |-> "full_name", direction |-> "asc"]>>
           firsts == [k \in DOMAIN w |-> sort[w[k]]]
<1>1. DOMAIN sort = 1..Len(sort) /\ Len(sort) \in Nat /\ U \subseteq 1..Len(sort)
  OBVIOUS
<1>2. IsFiniteSet(U) /\ U \subseteq Nat
  <2>1. IsFiniteSet(1..Len(sort))
    BY <1>1, FS_Interval
  <2> HIDE DEF U
  <2>2. IsFiniteSet(U)
    BY <1>1, <2>1, FS_Subset
  <2>3. QED
    BY <1>1, <2>2
<1>3. StrictOrder(R, U)
  <2> HIDE DEF U
  <2>1. QED
    BY <1>2 DEF StrictOrder
<1>4. Cardinality(U) \in Nat
  BY <1>2, FS_CardinalityType
<1>5. w = [i \in 1..Cardinality(U) |->
             CHOOSE x \in U : Cardinality({y \in U : y < x}) = i - 1]
  BY DEF Sorted
<1>6. \A x \in U : {y \in U : y < x} = Below(U, R, x)
  <2> HIDE DEF U
  <2>1. QED
    BY <1>2 DEF Below
<1>7. ASSUME NEW i \in 1..Cardinality(U) PROVE w[i] \in U
  <2>1. \E x \in U : Rank(U, R, x) = i - 1
    <3> HIDE DEF U, R
    <3>1. QED
      BY <1>2, <1>3, RankTaken
  <2>2. \E x \in U : Cardinality({y \in U : y < x}) = i - 1
    <3> HIDE DEF U, R
    <3>1. QED
      BY <1>6, <2>1 DEF Rank
  <2>3. (CHOOSE x \in U : Cardinality({y \in U : y < x}) = i - 1) \in U
    <3> HIDE DEF U
    <3>1. QED
      BY <2>2
  <2>4. QED
    BY <1>5, <2>3
<1>8. firsts \in Seq(SortTerm)
  <2>1. DOMAIN w = 1..Cardinality(U)
    BY <1>5
  <2>2. ASSUME NEW k \in 1..Cardinality(U) PROVE sort[w[k]] \in SortTerm
    <3>1. w[k] \in U
      BY <1>7
    <3> HIDE DEF w, U
    <3>2. w[k] \in 1..Len(sort)
      BY <1>1, <3>1
    <3>3. QED
      BY <3>2
  <2> HIDE DEF w, U
  <2>3. QED
    BY <1>4, <2>1, <2>2
<1>9. named \in Seq(SortTerm)
  <2>1. [field |-> "full_name", direction |-> "asc"] \in SortTerm
    BY DEF SortTerm
  <2>2. QED
    BY <2>1
<1>10. Normalized(sort) = firsts \o named
  BY DEF Normalized
<1> HIDE DEF firsts, named
<1>11. QED
  BY <1>8, <1>9, <1>10

-----------------------------------------------------------------------------
(* The rows of a snapshot.                                                  *)

\* The order of the ids, as one of rows.
ByIds(Y, Q) == {p \in Y \X Y : <<p[1].id, p[2].id>> \in Q}

\* What the proofs need of rows in SQL's order, for each ORDER BY.
ListsRows(w, Y, Q) ==
    /\ w \in Seq(Y) /\ Len(w) = Cardinality(Y)
    /\ IsListing(Ids(w), IdsOf(Y), Q)
    /\ IsFiniteSet(IdsOf(Y)) /\ Cardinality(IdsOf(Y)) = Cardinality(Y)

\* w has at each place what Sorted chooses.
Fills(w, Y, Q) ==
    /\ DOMAIN w = 1..Cardinality(Y) /\ w = [i \in DOMAIN w |-> w[i]]
    /\ \A i \in 1..Cardinality(Y) :
          (\E x \in Y : Rank(Y, ByIds(Y, Q), x) = i - 1)
            => w[i] \in Y /\ Rank(Y, ByIds(Y, Q), w[i]) = i - 1

(* What a list of rows in the order of their ids is a listing of.           *)
LEMMA SortedRows ==
    ASSUME NEW Y, IsFiniteSet(Y), Distinct(Y), NEW Q, StrictOrder(Q, IdsOf(Y)), NEW w,
           Fills(w, Y, Q)
    PROVE  ListsRows(w, Y, Q)
<1> DEFINE R == ByIds(Y, Q)
<1>1. OfIds(Y, R, Q)
  BY DEF OfIds, ByIds
<1>2. StrictOrder(R, Y)
  BY <1>1, OrderOfRows
<1>3. \A i \in 1..Cardinality(Y) : w[i] \in Y /\ Rank(Y, R, w[i]) = i - 1
  <2> TAKE i \in 1..Cardinality(Y)
  <2>1. \E x \in Y : Rank(Y, R, x) = i - 1
    BY <1>2, RankTaken
  <2>2. QED
    BY <2>1 DEF Fills
<1>4. Cardinality(Y) \in Nat
  BY FS_CardinalityType
<1>5. w \in [1..Cardinality(Y) -> Y]
  <2> HIDE DEF R
  <2>1. QED
    BY <1>3 DEF Fills
<1>6. IsListing(w, Y, R)
  BY <1>3, <1>5 DEF IsListing
<1>7. w \in Seq(Y) /\ Len(w) = Cardinality(Y)
  BY <1>4, <1>5
<1>8. IsListing(Ids(w), IdsOf(Y), Q)
  BY <1>1, <1>6, IdsOfListing
<1>9. QED
  BY <1>7, <1>8, IdsOfSet DEF ListsRows

LEMMA SortedById ==
    ASSUME NEW Y, IsFiniteSet(Y), Distinct(Y), NEW Q, StrictOrder(Q, IdsOf(Y)),
           \A x, y \in Y : IdBefore(x, y) <=> <<x.id, y.id>> \in Q
    PROVE  ListsRows(Sorted(Y, IdBefore), Y, Q)
<1> DEFINE w == Sorted(Y, IdBefore)
<1>1. \A x \in Y : {y \in Y : IdBefore(y, x)} = Below(Y, ByIds(Y, Q), x)
  BY DEF Below, ByIds
<1> DEFINE e(i) == CHOOSE x \in Y : Cardinality({y \in Y : IdBefore(y, x)}) = i - 1
<1>2. w = [i \in 1..Cardinality(Y) |-> e(i)]
  BY DEF Sorted
<1>3. ASSUME NEW i \in 1..Cardinality(Y), \E x \in Y : Rank(Y, ByIds(Y, Q), x) = i - 1
      PROVE  w[i] \in Y /\ Rank(Y, ByIds(Y, Q), w[i]) = i - 1
  <2>1. \E x \in Y : Cardinality({y \in Y : IdBefore(y, x)}) = i - 1
    BY <1>1, <1>3 DEF Rank
  <2>2. w[i] = CHOOSE x \in Y : Cardinality({y \in Y : IdBefore(y, x)}) = i - 1
    BY DEF Sorted
  <2>3. w[i] \in Y /\ Cardinality({y \in Y : IdBefore(y, w[i])}) = i - 1
    BY <2>1, <2>2
  <2>4. QED
    BY <1>1, <2>3 DEF Rank
<1>4. DOMAIN w = 1..Cardinality(Y) /\ w = [i \in DOMAIN w |-> w[i]]
  <2> HIDE DEF w, e
  <2>1. QED
    BY <1>2
<1> HIDE DEF w
<1>5. \A i \in 1..Cardinality(Y) :
         (\E x \in Y : Rank(Y, ByIds(Y, Q), x) = i - 1)
           => w[i] \in Y /\ Rank(Y, ByIds(Y, Q), w[i]) = i - 1
  BY <1>3
<1>6. Fills(w, Y, Q)
  BY <1>4, <1>5 DEF Fills
<1>7. QED
  BY <1>6, SortedRows DEF w

LEMMA SortedByName ==
    ASSUME NEW Y, IsFiniteSet(Y), Distinct(Y), NEW Q, StrictOrder(Q, IdsOf(Y)),
           \A x, y \in Y : NameBefore(x, y) <=> <<x.id, y.id>> \in Q
    PROVE  ListsRows(Sorted(Y, NameBefore), Y, Q)
<1> DEFINE w == Sorted(Y, NameBefore)
<1>1. \A x \in Y : {y \in Y : NameBefore(y, x)} = Below(Y, ByIds(Y, Q), x)
  BY DEF Below, ByIds
<1> DEFINE e(i) == CHOOSE x \in Y : Cardinality({y \in Y : NameBefore(y, x)}) = i - 1
<1>2. w = [i \in 1..Cardinality(Y) |-> e(i)]
  BY DEF Sorted
<1>3. ASSUME NEW i \in 1..Cardinality(Y), \E x \in Y : Rank(Y, ByIds(Y, Q), x) = i - 1
      PROVE  w[i] \in Y /\ Rank(Y, ByIds(Y, Q), w[i]) = i - 1
  <2>1. \E x \in Y : Cardinality({y \in Y : NameBefore(y, x)}) = i - 1
    BY <1>1, <1>3 DEF Rank
  <2>2. w[i] = CHOOSE x \in Y : Cardinality({y \in Y : NameBefore(y, x)}) = i - 1
    BY DEF Sorted
  <2>3. w[i] \in Y /\ Cardinality({y \in Y : NameBefore(y, w[i])}) = i - 1
    BY <2>1, <2>2
  <2>4. QED
    BY <1>1, <2>3 DEF Rank
<1>4. DOMAIN w = 1..Cardinality(Y) /\ w = [i \in DOMAIN w |-> w[i]]
  <2> HIDE DEF w, e
  <2>1. QED
    BY <1>2
<1> HIDE DEF w
<1>5. \A i \in 1..Cardinality(Y) :
         (\E x \in Y : Rank(Y, ByIds(Y, Q), x) = i - 1)
           => w[i] \in Y /\ Rank(Y, ByIds(Y, Q), w[i]) = i - 1
  BY <1>3
<1>6. Fills(w, Y, Q)
  BY <1>4, <1>5 DEF Fills
<1>7. QED
  BY <1>6, SortedRows DEF w

LEMMA SortedByTime ==
    ASSUME NEW Y, IsFiniteSet(Y), Distinct(Y), NEW Q, StrictOrder(Q, IdsOf(Y)),
           \A x, y \in Y : LaterBefore(x, y) <=> <<x.id, y.id>> \in Q
    PROVE  ListsRows(Sorted(Y, LaterBefore), Y, Q)
<1> DEFINE w == Sorted(Y, LaterBefore)
<1>1. \A x \in Y : {y \in Y : LaterBefore(y, x)} = Below(Y, ByIds(Y, Q), x)
  BY DEF Below, ByIds
<1> DEFINE e(i) == CHOOSE x \in Y : Cardinality({y \in Y : LaterBefore(y, x)}) = i - 1
<1>2. w = [i \in 1..Cardinality(Y) |-> e(i)]
  BY DEF Sorted
<1>3. ASSUME NEW i \in 1..Cardinality(Y), \E x \in Y : Rank(Y, ByIds(Y, Q), x) = i - 1
      PROVE  w[i] \in Y /\ Rank(Y, ByIds(Y, Q), w[i]) = i - 1
  <2>1. \E x \in Y : Cardinality({y \in Y : LaterBefore(y, x)}) = i - 1
    BY <1>1, <1>3 DEF Rank
  <2>2. w[i] = CHOOSE x \in Y : Cardinality({y \in Y : LaterBefore(y, x)}) = i - 1
    BY DEF Sorted
  <2>3. w[i] \in Y /\ Cardinality({y \in Y : LaterBefore(y, w[i])}) = i - 1
    BY <2>1, <2>2
  <2>4. QED
    BY <1>1, <2>3 DEF Rank
<1>4. DOMAIN w = 1..Cardinality(Y) /\ w = [i \in DOMAIN w |-> w[i]]
  <2> HIDE DEF w, e
  <2>1. QED
    BY <1>2
<1> HIDE DEF w
<1>5. \A i \in 1..Cardinality(Y) :
         (\E x \in Y : Rank(Y, ByIds(Y, Q), x) = i - 1)
           => w[i] \in Y /\ Rank(Y, ByIds(Y, Q), w[i]) = i - 1
  BY <1>3
<1>6. Fills(w, Y, Q)
  BY <1>4, <1>5 DEF Fills
<1>7. QED
  BY <1>6, SortedRows DEF w

ByOrder(Y, sort) == Sorted(Y, LAMBDA x, y : OrderedBefore(x, y, sort))

LEMMA SortedByOrder ==
    ASSUME NEW sort, NEW Y, IsFiniteSet(Y), Distinct(Y), NEW Q, StrictOrder(Q, IdsOf(Y)),
           \A x, y \in Y : OrderedBefore(x, y, sort) <=> <<x.id, y.id>> \in Q
    PROVE  ListsRows(ByOrder(Y, sort), Y, Q)
<1> DEFINE w == ByOrder(Y, sort)
<1>1. \A x \in Y : {y \in Y : OrderedBefore(y, x, sort)} = Below(Y, ByIds(Y, Q), x)
  BY DEF Below, ByIds
<1> DEFINE e(i) == CHOOSE x \in Y : Cardinality({y \in Y : OrderedBefore(y, x, sort)}) = i - 1
<1>2. w = [i \in 1..Cardinality(Y) |-> e(i)]
  BY DEF Sorted, ByOrder
<1>3. ASSUME NEW i \in 1..Cardinality(Y), \E x \in Y : Rank(Y, ByIds(Y, Q), x) = i - 1
      PROVE  w[i] \in Y /\ Rank(Y, ByIds(Y, Q), w[i]) = i - 1
  <2>1. \E x \in Y : Cardinality({y \in Y : OrderedBefore(y, x, sort)}) = i - 1
    BY <1>1, <1>3 DEF Rank
  <2>2. w[i] = CHOOSE x \in Y : Cardinality({y \in Y : OrderedBefore(y, x, sort)}) = i - 1
    BY DEF Sorted, ByOrder
  <2>3. w[i] \in Y /\ Cardinality({y \in Y : OrderedBefore(y, w[i], sort)}) = i - 1
    BY <2>1, <2>2
  <2>4. QED
    BY <1>1, <2>3 DEF Rank
<1>4. DOMAIN w = 1..Cardinality(Y) /\ w = [i \in DOMAIN w |-> w[i]]
  <2> HIDE DEF w, e
  <2>1. QED
    BY <1>2
<1> HIDE DEF w
<1>5. \A i \in 1..Cardinality(Y) :
         (\E x \in Y : Rank(Y, ByIds(Y, Q), x) = i - 1)
           => w[i] \in Y /\ Rank(Y, ByIds(Y, Q), w[i]) = i - 1
  BY <1>3
<1>6. Fills(w, Y, Q)
  BY <1>4, <1>5 DEF Fills
<1>7. QED
  BY <1>6, SortedRows DEF w

ByComparison(Y, sort) == Sorted(Y, LAMBDA x, y : ComesBefore(x, y, sort))

LEMMA SortedByComparison ==
    ASSUME NEW sort, NEW Y, IsFiniteSet(Y), Distinct(Y), NEW Q, StrictOrder(Q, IdsOf(Y)),
           \A x, y \in Y : ComesBefore(x, y, sort) <=> <<x.id, y.id>> \in Q
    PROVE  ListsRows(ByComparison(Y, sort), Y, Q)
<1> DEFINE w == ByComparison(Y, sort)
<1>1. \A x \in Y : {y \in Y : ComesBefore(y, x, sort)} = Below(Y, ByIds(Y, Q), x)
  BY DEF Below, ByIds
<1> DEFINE e(i) == CHOOSE x \in Y : Cardinality({y \in Y : ComesBefore(y, x, sort)}) = i - 1
<1>2. w = [i \in 1..Cardinality(Y) |-> e(i)]
  BY DEF Sorted, ByComparison
<1>3. ASSUME NEW i \in 1..Cardinality(Y), \E x \in Y : Rank(Y, ByIds(Y, Q), x) = i - 1
      PROVE  w[i] \in Y /\ Rank(Y, ByIds(Y, Q), w[i]) = i - 1
  <2>1. \E x \in Y : Cardinality({y \in Y : ComesBefore(y, x, sort)}) = i - 1
    BY <1>1, <1>3 DEF Rank
  <2>2. w[i] = CHOOSE x \in Y : Cardinality({y \in Y : ComesBefore(y, x, sort)}) = i - 1
    BY DEF Sorted, ByComparison
  <2>3. w[i] \in Y /\ Cardinality({y \in Y : ComesBefore(y, w[i], sort)}) = i - 1
    BY <2>1, <2>2
  <2>4. QED
    BY <1>1, <2>3 DEF Rank
<1>4. DOMAIN w = 1..Cardinality(Y) /\ w = [i \in DOMAIN w |-> w[i]]
  <2> HIDE DEF w, e
  <2>1. QED
    BY <1>2
<1> HIDE DEF w
<1>5. \A i \in 1..Cardinality(Y) :
         (\E x \in Y : Rank(Y, ByIds(Y, Q), x) = i - 1)
           => w[i] \in Y /\ Rank(Y, ByIds(Y, Q), w[i]) = i - 1
  BY <1>3
<1>6. Fills(w, Y, Q)
  BY <1>4, <1>5 DEF Fills
<1>7. QED
  BY <1>6, SortedRows DEF w

\* A snapshot and a binding that is answered from it.
Bound(b, s) ==
    /\ Snapshot(s) /\ b.kind \in OfSnapshots
    /\ Nodes(b.filter) /\ Fit(b.filter)
    /\ b.sort \in Seq(SortTerm) /\ b.selector \in Nat
    /\ (b.kind # "repositories" \/ RequiresListCoverage(b.filter)) => s.covered

\* The ids of the result, and the order they come in.
Members(s, b) ==
    IF b.kind = "repositories" THEN IdsOf({r \in s.rows : Matches(r, b.filter)})
    ELSE IF b.kind = "lists" THEN DOMAIN s.names
    ELSE IF b.kind = "of_list" THEN IdsOf({r \in s.rows : b.selector \in r.lists})
    ELSE {l \in DOMAIN s.names : \E r \in s.rows : r.id = b.selector /\ l \in r.lists}

Order(s, b) ==
    IF b.kind = "repositories"
    THEN {p \in Nat \X Nat : \E x, y \in s.rows : /\ p = <<x.id, y.id>>
                                                  /\ ComesBefore(x, y, b.sort)}
    ELSE IF b.kind = "lists"
    THEN {p \in Nat \X Nat : \/ s.names[p[1]] < s.names[p[2]]
                             \/ s.names[p[1]] = s.names[p[2]] /\ p[1] < p[2]}
    ELSE {p \in Nat \X Nat : p[1] < p[2]}

\* The statement of SQL and the domain's definition say the same.
Agree(s, b) ==
    /\ IsFiniteSet(Members(s, b)) /\ Members(s, b) \subseteq Nat
    /\ StrictOrder(Order(s, b), Members(s, b))
    /\ IsListing(Result(s, b), Members(s, b), Order(s, b))
    /\ IdsOf(Selected(s, b)) = Members(s, b)
    /\ IsFiniteSet(Selected(s, b)) /\ Distinct(Selected(s, b))
    /\ \A Y \in SUBSET Selected(s, b) : ListsRows(InSqlOrder(b, Y), Y, Order(s, b))
    /\ \A x, y \in Selected(s, b) :
          IsAfter(b, y, Position(b, x)) <=> <<x.id, y.id>> \in Order(s, b)
    /\ \A x \in Selected(s, b) : IsBoundary(b, x, Position(b, x))

(* What is stored of a snapshot: its rows, but for Lists it does not cover. *)
LEMMA StoredRows ==
    ASSUME NEW s, Snapshot(s)
    PROVE  /\ IsFiniteSet(Stored(s)) /\ Distinct(Stored(s)) /\ Distinct(s.rows)
           /\ \A x \in Stored(s) : \E r \in s.rows :
                 SameColumns(x, r) /\ (s.covered => x = r)
                 /\ \A f \in Fields \ {"lists", "is_unclassified"} : x[f] = r[f]
           /\ \A r \in s.rows : \E x \in Stored(s) :
                 SameColumns(x, r) /\ (s.covered => x = r)
                 /\ \A f \in Fields \ {"lists", "is_unclassified"} : x[f] = r[f]
<1>1. /\ s.rows \subseteq Repository /\ IsFiniteSet(s.rows)
      /\ \A r1, r2 \in s.rows : r1.id = r2.id => r1 = r2
      /\ s.covered \in BOOLEAN
  BY DEF Snapshot
<1>2. CASE s.covered
  <2>1. Stored(s) = s.rows
    BY <1>2 DEF Stored
  <2>2. \A r \in s.rows : SameColumns(r, r)
    BY <1>1 DEF SameColumns
  <2>3. QED
    BY <1>1, <2>1, <2>2 DEF Distinct
<1>3. CASE ~s.covered
  <2> DEFINE g(r) == [r EXCEPT !.lists = {}]
             f == [r \in s.rows |-> g(r)]
  <2>1. Stored(s) = {g(r) : r \in s.rows}
    BY <1>3 DEF Stored
  <2>2. ASSUME NEW r \in s.rows
        PROVE  /\ SameColumns(g(r), r) /\ g(r).id = r.id
               /\ \A c \in Fields \ {"lists", "is_unclassified"} : g(r)[c] = r[c]
    <3>1. r \in Repository
      BY <1>1
    <3>2. g(r) \in Repository /\ g(r).id = r.id
      BY <3>1 DEF Repository
    <3>3. DOMAIN r = {"id", "full_name", "stargazer_count", "is_archived", "pushed_at",
                      "primary_language", "topics", "lists"}
      BY <3>1 DEF Repository
    <3>4. \A c \in DOMAIN r \ {"lists"} : g(r)[c] = r[c]
      BY <3>3
    <3>5. \A t \in AnyTerm : t.field \in DOMAIN r \ {"lists"}
      BY <3>3 DEF AnyTerm, SortTerm, IdTerm
    <3>6. \A c \in Fields \ {"lists", "is_unclassified"} : c \in DOMAIN r \ {"lists"}
      BY <3>3 DEF Fields, Collections
    <3>7. \A t \in AnyTerm : g(r)[t.field] = r[t.field]
      BY <3>4, <3>5
    <3>8. QED
      BY <3>1, <3>2, <3>4, <3>6, <3>7 DEF SameColumns
  <2>3. f \in Surjection(s.rows, Stored(s))
    BY <2>1 DEF Surjection
  <2>4. IsFiniteSet(Stored(s))
    BY <1>1, <2>3, FS_Surjection
  <2> HIDE DEF g
  <2>5. Distinct(Stored(s)) /\ Distinct(s.rows)
    <3>1. Distinct(s.rows)
      BY <1>1 DEF Distinct
    <3>2. ASSUME NEW x \in Stored(s), NEW y \in Stored(s), x.id = y.id PROVE x = y
      <4>1. PICK r1 \in s.rows : x = g(r1)
        BY <2>1
      <4>2. PICK r2 \in s.rows : y = g(r2)
        BY <2>1
      <4>3. r1.id = r2.id
        BY <2>2, <3>2, <4>1, <4>2
      <4>4. QED
        BY <1>1, <4>1, <4>2, <4>3
    <3>3. QED
      BY <3>1, <3>2 DEF Distinct
  <2>6. QED
    BY <1>3, <2>1, <2>2, <2>4, <2>5
<1>4. QED
  BY <1>1, <1>2, <1>3

(* SQL selects the stored rows of the repositories that match.              *)
LEMMA SelectedMatches ==
    ASSUME NEW s, NEW b, Bound(b, s), b.kind = "repositories",
           NEW x \in Stored(s), NEW r \in s.rows, SameColumns(x, r), s.covered => x = r,
           \A f \in Fields \ {"lists", "is_unclassified"} : x[f] = r[f]
    PROVE  Selects(x, b.filter) <=> Matches(r, b.filter)
<1>1. Nodes(b.filter) /\ Fit(b.filter) /\ r \in Repository
  BY DEF Bound, SameColumns
<1>2. CASE s.covered
  <2>1. SameForAll(x, r, b.filter)
    BY <1>2 DEF SameForAll, SameFor
  <2>2. QED
    BY <1>1, <2>1, SelectsWhatMatches
<1>3. CASE ~s.covered
  <2>1. ~RequiresListCoverage(b.filter)
    BY <1>3 DEF Bound
  <2>2. ASSUME NEW i \in DOMAIN b.filter, b.filter[i].op \notin Composites
        PROVE  b.filter[i].field \in Fields \ {"lists", "is_unclassified"}
    <3>1. b.filter[i].field \in Fields
      BY <1>1, <2>2 DEF Nodes, Node
    <3>2. QED
      BY <2>1, <2>2, <3>1 DEF RequiresListCoverage
  <2>3. SameForAll(x, r, b.filter)
    BY <2>2 DEF SameForAll, SameFor
  <2>4. QED
    BY <1>1, <2>3, SelectsWhatMatches
<1>4. QED
  BY <1>2, <1>3

(* Smaller ids come first.                                                  *)
LEMMA NumbersInOrder ==
    ASSUME NEW I \in SUBSET Nat
    PROVE  StrictOrder({p \in Nat \X Nat : p[1] < p[2]}, I)
BY DEF StrictOrder

LEMMA RepositoriesAgree ==
    ASSUME NEW s, NEW b, Bound(b, s), b.kind = "repositories"
    PROVE  Agree(s, b)
<1> DEFINE X == {x \in Stored(s) : Selects(x, b.filter)}
           Z == {r \in s.rows : Matches(r, b.filter)}
           Q == Order(s, b)
           Of(x, r) == /\ SameColumns(x, r) /\ (s.covered => x = r)
                       /\ \A f \in Fields \ {"lists", "is_unclassified"} : x[f] = r[f]
<1>1. /\ Snapshot(s) /\ b.sort \in Seq(SortTerm)
      /\ s.rows \subseteq Repository /\ IsFiniteSet(s.rows)
  BY DEF Bound, Snapshot
<1>2. /\ IsFiniteSet(Stored(s)) /\ Distinct(Stored(s)) /\ Distinct(s.rows)
      /\ \A x \in Stored(s) : \E r \in s.rows : Of(x, r)
      /\ \A r \in s.rows : \E x \in Stored(s) : Of(x, r)
  BY <1>1, StoredRows
<1>3. ASSUME NEW x \in Stored(s), NEW r \in s.rows, Of(x, r)
      PROVE  x.id = r.id /\ (x \in X <=> r \in Z) /\ SameColumns(x, r)
  <2>1. IdTerm \in AnyTerm /\ IdTerm.field = "id"
    BY DEF AnyTerm, IdTerm
  <2>2. x["id"] = r["id"]
    BY <1>3, <2>1 DEF SameColumns
  <2>3. Selects(x, b.filter) <=> Matches(r, b.filter)
    BY <1>3, SelectedMatches
  <2>4. QED
    BY <1>3, <2>2, <2>3
<1> HIDE DEF Of
<1>4. Members(s, b) = IdsOf(Z) /\ Selected(s, b) = X
  BY DEF Members, Selected
<1>5. IdsOf(X) = IdsOf(Z)
  <2>1. ASSUME NEW i \in IdsOf(X) PROVE i \in IdsOf(Z)
    <3>1. PICK x \in X : i = x.id
      BY DEF IdsOf
    <3>2. PICK r \in s.rows : Of(x, r)
      BY <1>2
    <3>3. QED
      BY <1>3, <3>1, <3>2 DEF IdsOf
  <2>2. ASSUME NEW i \in IdsOf(Z) PROVE i \in IdsOf(X)
    <3>1. PICK r \in Z : i = r.id
      BY DEF IdsOf
    <3>2. PICK x \in Stored(s) : Of(x, r)
      BY <1>2
    <3>3. QED
      BY <1>3, <3>1, <3>2 DEF IdsOf
  <2>3. QED
    BY <2>1, <2>2
<1>6. /\ IsFiniteSet(Z) /\ Distinct(Z) /\ Z \subseteq Repository
      /\ IsFiniteSet(X) /\ Distinct(X) /\ X \subseteq Stored(s) /\ Z \subseteq s.rows
  BY <1>1, <1>2, FS_Subset DEF Distinct
<1>7. \A x, y \in s.rows : ComesBefore(x, y, b.sort) <=> <<x.id, y.id>> \in Q
  <2> SUFFICES ASSUME NEW x \in s.rows, NEW y \in s.rows
               PROVE  ComesBefore(x, y, b.sort) <=> <<x.id, y.id>> \in Q
    OBVIOUS
  <2>1. Q = {p \in Nat \X Nat : \E u, v \in s.rows : /\ p = <<u.id, v.id>>
                                                     /\ ComesBefore(u, v, b.sort)}
    BY DEF Order
  <2>2. x.id \in Nat /\ y.id \in Nat
    BY <1>1 DEF Repository
  <2>3. \A u, v \in s.rows : <<x.id, y.id>> = <<u.id, v.id>> => u = x /\ v = y
    BY <1>2 DEF Distinct
  <2> HIDE DEF Q
  <2>4. QED
    BY <2>1, <2>2, <2>3
<1>8. StrictOrder(Q, IdsOf(Z))
  <2> HIDE DEF Q
  <2>1. ASSUME NEW i \in IdsOf(Z) PROVE <<i, i>> \notin Q
    <3>1. PICK x \in s.rows : x.id = i
      BY <1>6 DEF IdsOf
    <3>2. QED
      BY <1>1, <1>7, <3>1, ComesBeforeIsOrder
  <2>2. ASSUME NEW i \in IdsOf(Z), NEW j \in IdsOf(Z), i # j
        PROVE  <<i, j>> \in Q \/ <<j, i>> \in Q
    <3>1. PICK x \in s.rows : x.id = i
      BY <1>6 DEF IdsOf
    <3>2. PICK y \in s.rows : y.id = j
      BY <1>6 DEF IdsOf
    <3>3. ComesBefore(x, y, b.sort) \/ ComesBefore(y, x, b.sort)
      BY <1>1, <2>2, <3>1, <3>2, ComesBeforeIsOrder
    <3>4. QED
      BY <1>7, <3>1, <3>2, <3>3
  <2>3. ASSUME NEW i \in IdsOf(Z), NEW j \in IdsOf(Z), NEW k \in IdsOf(Z),
               <<i, j>> \in Q, <<j, k>> \in Q
        PROVE  <<i, k>> \in Q
    <3>1. PICK x \in s.rows : x.id = i
      BY <1>6 DEF IdsOf
    <3>2. PICK y \in s.rows : y.id = j
      BY <1>6 DEF IdsOf
    <3>3. PICK z \in s.rows : z.id = k
      BY <1>6 DEF IdsOf
    <3>4. ComesBefore(x, y, b.sort) /\ ComesBefore(y, z, b.sort)
      BY <1>7, <2>3, <3>1, <3>2, <3>3
    <3>5. x \in Repository /\ y \in Repository /\ z \in Repository
      BY <1>1
    <3>6. ComesBefore(x, z, b.sort)
      BY <1>1, <3>4, <3>5, ComesBeforeIsOrder
    <3>7. QED
      BY <1>7, <3>1, <3>3, <3>6
  <2>4. QED
    BY <2>1, <2>2, <2>3 DEF StrictOrder
<1>9. IsFiniteSet(IdsOf(Z)) /\ IdsOf(Z) \subseteq Nat
  BY <1>6, IdsOfSet DEF IdsOf, Repository
<1>10. IsListing(Result(s, b), IdsOf(Z), Q)
  <2>1. Result(s, b) = Ids(ByComparison(Z, b.sort))
    BY DEF Result, ByComparison, Sorted
  <2>2. \A x, y \in Z : ComesBefore(x, y, b.sort) <=> <<x.id, y.id>> \in Q
    BY <1>6, <1>7
  <2> HIDE DEF Z, Q
  <2>3. ListsRows(ByComparison(Z, b.sort), Z, Q)
    BY <1>6, <1>8, <2>2, SortedByComparison
  <2>4. QED
    BY <2>1, <2>3 DEF ListsRows
<1>11. ASSUME NEW x \in Stored(s), NEW y \in Stored(s)
       PROVE  /\ OrderedBefore(x, y, b.sort) <=> <<x.id, y.id>> \in Q
              /\ IsAfter(b, y, Position(b, x)) <=> <<x.id, y.id>> \in Q
  <2> HIDE DEF Q
  <2>1. PICK u \in s.rows : Of(x, u)
    BY <1>2
  <2>2. PICK v \in s.rows : Of(y, v)
    BY <1>2
  <2>3. SameColumns(x, u) /\ SameColumns(y, v) /\ x.id = u.id /\ y.id = v.id
    BY <1>3, <2>1, <2>2
  <2>4. ComesBefore(u, v, b.sort) <=> <<x.id, y.id>> \in Q
    BY <1>7, <2>3
  <2>5. OrderedBefore(x, y, b.sort) <=> ComesBefore(u, v, b.sort)
    BY <1>1, <2>3, OrderedAgrees
  <2>6. IsAfter(b, y, Position(b, x)) <=> Keyset(y, b.sort, Position(b, x))
    BY DEF IsAfter
  <2>7. Position(b, x).values = Values(x, b.sort) /\ Position(b, x).id = x.id
    BY DEF Position
  <2>8. Keyset(y, b.sort, Position(b, x)) <=> ComesBefore(u, v, b.sort)
    BY <1>1, <2>3, <2>7, KeysetAgrees
  <2>9. QED
    BY <2>4, <2>5, <2>6, <2>8
<1>12. ASSUME NEW Y \in SUBSET X PROVE ListsRows(InSqlOrder(b, Y), Y, Q)
  <2> HIDE DEF Q
  <2>1. IsFiniteSet(Y) /\ Distinct(Y) /\ Y \subseteq Stored(s)
    BY <1>6, FS_Subset DEF Distinct
  <2>2. StrictOrder(Q, IdsOf(Y))
    <3>1. IdsOf(Y) \subseteq IdsOf(Z)
      BY <1>5 DEF IdsOf
    <3>2. QED
      BY <1>8, <3>1 DEF StrictOrder
  <2>3. InSqlOrder(b, Y) = ByOrder(Y, b.sort)
    BY DEF InSqlOrder, ByOrder, Sorted
  <2>4. \A x, y \in Y : OrderedBefore(x, y, b.sort) <=> <<x.id, y.id>> \in Q
    BY <1>11, <2>1
  <2>5. QED
    BY <2>1, <2>2, <2>3, <2>4, SortedByOrder
<1>13. \A x \in X : IsBoundary(b, x, Position(b, x))
  BY DEF IsBoundary, Position
<1> HIDE DEF Q, X, Z
<1>14. \A x, y \in X : IsAfter(b, y, Position(b, x)) <=> <<x.id, y.id>> \in Q
  BY <1>6, <1>11
<1>15. QED
  BY <1>4, <1>5, <1>6, <1>8, <1>9, <1>10, <1>12, <1>13, <1>14 DEF Agree, Q

LEMMA ListsAgree ==
    ASSUME NEW s, NEW b, Bound(b, s), b.kind = "lists"
    PROVE  Agree(s, b)
<1> DEFINE row(l) == [id |-> l, name |-> s.names[l]]
           X == {row(l) : l \in DOMAIN s.names}
           Q == Order(s, b)
<1>1. /\ IsFiniteSet(DOMAIN s.names) /\ DOMAIN s.names \subseteq Nat
      /\ \A l \in DOMAIN s.names : s.names[l] \in Int
  <2>1. s.names \in [DOMAIN s.names -> Int]
    BY DEF Bound, Snapshot
  <2>2. QED
    BY <2>1 DEF Bound, Snapshot
<1>2. Members(s, b) = DOMAIN s.names /\ Selected(s, b) = X
  BY DEF Members, Selected
<1>3. IdsOf(X) = DOMAIN s.names /\ Distinct(X)
  <2>1. \A l : row(l).id = l
    OBVIOUS
  <2> HIDE DEF row
  <2>2. IdsOf(X) = {row(l).id : l \in DOMAIN s.names}
    BY DEF IdsOf
  <2>3. IdsOf(X) = DOMAIN s.names
    BY <2>1, <2>2
  <2>4. Distinct(X)
    BY <2>1 DEF Distinct
  <2>5. QED
    BY <2>3, <2>4
<1>4. IsFiniteSet(X)
  <2> DEFINE f == [l \in DOMAIN s.names |-> row(l)]
  <2>1. f \in Surjection(DOMAIN s.names, X)
    BY DEF Surjection
  <2> HIDE DEF X, f
  <2>2. QED
    BY <1>1, <2>1, FS_Surjection
<1>5. \A i, j \in DOMAIN s.names :
         <<i, j>> \in Q <=> \/ s.names[i] < s.names[j]
                            \/ s.names[i] = s.names[j] /\ i < j
  <2>1. Q = {p \in Nat \X Nat : \/ s.names[p[1]] < s.names[p[2]]
                                \/ s.names[p[1]] = s.names[p[2]] /\ p[1] < p[2]}
    BY DEF Order
  <2>2. QED
    BY <1>1, <2>1
<1>6. StrictOrder(Q, DOMAIN s.names)
  <2> HIDE DEF Q
  <2>1. \A i \in DOMAIN s.names : i \in Nat /\ s.names[i] \in Int
    BY <1>1
  <2>2. QED
    BY <1>5, <2>1 DEF StrictOrder
<1>7. \A x, y \in X : NameBefore(x, y) <=> <<x.id, y.id>> \in Q
  <2> HIDE DEF Q
  <2>1. QED
    BY <1>5 DEF NameBefore
<1>8. ASSUME NEW Y \in SUBSET X PROVE ListsRows(Sorted(Y, NameBefore), Y, Q)
  <2>1. IdsOf(Y) \subseteq DOMAIN s.names
    BY <1>3 DEF IdsOf
  <2> HIDE DEF X, Q
  <2>2. IsFiniteSet(Y) /\ Distinct(Y) /\ StrictOrder(Q, IdsOf(Y))
    BY <1>3, <1>4, <1>6, <2>1, FS_Subset DEF Distinct, StrictOrder
  <2>3. QED
    BY <1>7, <2>2, SortedByName
<1>9. InSqlOrder(b, X) = Sorted(X, NameBefore)
      /\ \A Y \in SUBSET X : InSqlOrder(b, Y) = Sorted(Y, NameBefore)
  BY DEF InSqlOrder, Sorted
<1>10. IsListing(Result(s, b), DOMAIN s.names, Q)
  <2>1. Result(s, b) = Ids(Sorted(X, NameBefore))
    BY DEF Result, Sorted
  <2> HIDE DEF X, Q
  <2>2. ListsRows(Sorted(X, NameBefore), X, Q)
    BY <1>8
  <2>3. QED
    BY <1>3, <2>1, <2>2 DEF ListsRows
<1>11. \A x, y \in X : IsAfter(b, y, Position(b, x)) <=> <<x.id, y.id>> \in Q
  <2> SUFFICES ASSUME NEW x \in X, NEW y \in X
               PROVE  IsAfter(b, y, Position(b, x)) <=> <<x.id, y.id>> \in Q
    OBVIOUS
  <2>1. Position(b, x).values = <<x.name>> /\ Position(b, x).id = x.id
    BY DEF Position
  <2>2. IsAfter(b, y, Position(b, x)) <=>
            \/ y.name > x.name \/ (y.name = x.name /\ y.id > x.id)
    BY <2>1 DEF IsAfter
  <2>3. /\ x.id \in Nat /\ y.id \in Nat /\ x.name \in Int /\ y.name \in Int
        /\ NameBefore(x, y) <=> <<x.id, y.id>> \in Q
    BY <1>1, <1>7
  <2> HIDE DEF Q
  <2>4. QED
    BY <2>2, <2>3 DEF NameBefore
<1>12. \A x \in X : IsBoundary(b, x, Position(b, x))
  BY DEF IsBoundary, Position
<1> HIDE DEF X, Q
<1>13. QED
  BY <1>1, <1>2, <1>3, <1>4, <1>6, <1>8, <1>9, <1>10, <1>11, <1>12 DEF Agree, Q

\* Rows of a set in the order of their ids: the memberships.
LEMMA MembershipsAgree ==
    ASSUME NEW s, NEW b, Bound(b, s), b.kind \in {"of_list", "of_repository"},
           IsFiniteSet(Selected(s, b)), Distinct(Selected(s, b)),
           IdsOf(Selected(s, b)) = Members(s, b), Members(s, b) \subseteq Nat,
           NEW Z, IsFiniteSet(Z), Distinct(Z), IdsOf(Z) = Members(s, b),
           Result(s, b) = Ids(Sorted(Z, IdBefore))
    PROVE  Agree(s, b)
<1> DEFINE X == Selected(s, b)
           Q == Order(s, b)
<1>1. Q = {p \in Nat \X Nat : p[1] < p[2]}
  BY DEF Order
<1>2. StrictOrder(Q, Members(s, b))
  BY <1>1, NumbersInOrder
<1>3. ASSUME NEW Y, Y \subseteq X \/ Y = Z
      PROVE  ListsRows(Sorted(Y, IdBefore), Y, Q)
  <2>1. IdsOf(Y) \subseteq Members(s, b)
    BY <1>3 DEF IdsOf
  <2>2. IsFiniteSet(Y) /\ Distinct(Y) /\ StrictOrder(Q, IdsOf(Y))
    BY <1>2, <1>3, <2>1, FS_Subset DEF Distinct, StrictOrder
  <2>3. \A x \in Y : x.id \in Nat
    BY <2>1 DEF IdsOf
  <2>4. \A x, y \in Y : IdBefore(x, y) <=> <<x.id, y.id>> \in Q
    BY <1>1, <2>3 DEF IdBefore
  <2>5. QED
    BY <2>2, <2>4, SortedById
<1>4. \A Y \in SUBSET X : InSqlOrder(b, Y) = Sorted(Y, IdBefore)
  BY DEF InSqlOrder, Sorted
<1>5. IsListing(Result(s, b), Members(s, b), Q)
  <2>1. ListsRows(Sorted(Z, IdBefore), Z, Q)
    BY <1>3
  <2>2. QED
    BY <2>1 DEF ListsRows
<1>6. \A x, y \in X : IsAfter(b, y, Position(b, x)) <=> <<x.id, y.id>> \in Q
  <2> SUFFICES ASSUME NEW x \in X, NEW y \in X
               PROVE  IsAfter(b, y, Position(b, x)) <=> <<x.id, y.id>> \in Q
    OBVIOUS
  <2>1. Position(b, x).id = x.id
    BY DEF Position
  <2>2. IsAfter(b, y, Position(b, x)) <=> y.id > x.id
    BY <2>1 DEF IsAfter
  <2>3. x.id \in Nat /\ y.id \in Nat
    BY DEF IdsOf
  <2>4. QED
    BY <1>1, <2>2, <2>3
<1>7. \A x \in X : IsBoundary(b, x, Position(b, x))
  BY DEF IsBoundary, Position
<1>8. IsFiniteSet(Members(s, b))
  BY IdsOfSet
<1> HIDE DEF X, Q
<1>9. QED
  BY <1>2, <1>3, <1>4, <1>5, <1>6, <1>7, <1>8 DEF Agree, X, Q

LEMMA OfListAgrees ==
    ASSUME NEW s, NEW b, Bound(b, s), b.kind = "of_list"
    PROVE  Agree(s, b)
<1> DEFINE Z == {r \in s.rows : b.selector \in r.lists}
           row(l) == [id |-> l]
           X == {row(r.id) : r \in Z}
<1>1. s.covered /\ Snapshot(s) /\ s.rows \subseteq Repository /\ IsFiniteSet(s.rows)
  BY DEF Bound, Snapshot
<1>2. Stored(s) = s.rows
  BY <1>1 DEF Stored
<1>3. Selected(s, b) = X
  BY <1>2 DEF Selected
<1>4. IsFiniteSet(Z) /\ Distinct(Z) /\ Z \subseteq Repository
  BY <1>1, FS_Subset DEF Distinct, Snapshot
<1>5. IsFiniteSet(X)
  <2> DEFINE f == [r \in Z |-> [id |-> r.id]]
  <2>1. f \in Surjection(Z, X)
    BY DEF Surjection
  <2> HIDE DEF X, f, Z
  <2>2. QED
    BY <1>4, <2>1, FS_Surjection
<1>6. Distinct(X) /\ IdsOf(X) = IdsOf(Z) /\ IdsOf(Z) \subseteq Nat
  <2>1. \A l : row(l).id = l
    OBVIOUS
  <2>2. IdsOf(Z) \subseteq Nat
    BY <1>4 DEF IdsOf, Repository
  <2> HIDE DEF row, Z
  <2>3. IdsOf(X) = {row(r.id).id : r \in Z}
    BY DEF IdsOf
  <2>4. QED
    BY <2>1, <2>2, <2>3 DEF Distinct, IdsOf
<1>7. Members(s, b) = IdsOf(Z)
  BY DEF Members
<1>8. Result(s, b) = Ids(Sorted(Z, IdBefore))
  BY DEF Result, Sorted
<1> HIDE DEF X, Z
<1>9. QED
  BY <1>3, <1>4, <1>5, <1>6, <1>7, <1>8, MembershipsAgree

LEMMA OfRepositoryAgrees ==
    ASSUME NEW s, NEW b, Bound(b, s), b.kind = "of_repository"
    PROVE  Agree(s, b)
<1> DEFINE I == {l \in DOMAIN s.names : \E r \in s.rows : r.id = b.selector /\ l \in r.lists}
           row(l) == [id |-> l]
           X == {row(l) : l \in I}
<1>1. /\ s.covered /\ IsFiniteSet(DOMAIN s.names) /\ DOMAIN s.names \subseteq Nat
      /\ \A r \in s.rows : r.lists \subseteq DOMAIN s.names
  BY DEF Bound, Snapshot
<1>2. Stored(s) = s.rows
  BY <1>1 DEF Stored
<1>3. UNION {r.lists : r \in {r \in s.rows : r.id = b.selector}} = I
  BY <1>1
<1>4. Selected(s, b) = X
  <2>1. Selected(s, b) =
          {[id |-> l] : l \in UNION {r.lists : r \in {r \in s.rows : r.id = b.selector}}}
    BY <1>2 DEF Selected
  <2>2. QED
    BY <1>3, <2>1
<1>5. IsFiniteSet(I) /\ I \subseteq Nat
  BY <1>1, FS_Subset
<1>6. IsFiniteSet(X)
  <2> DEFINE f == [l \in I |-> [id |-> l]]
  <2>1. f \in Surjection(I, X)
    BY DEF Surjection
  <2> HIDE DEF X, f, I
  <2>2. QED
    BY <1>5, <2>1, FS_Surjection
<1>7. Distinct(X) /\ IdsOf(X) = I
  <2>1. \A l : row(l).id = l
    OBVIOUS
  <2> HIDE DEF row, I
  <2>2. IdsOf(X) = {row(l).id : l \in I}
    BY DEF IdsOf
  <2>3. IdsOf(X) = I
    BY <2>1, <2>2
  <2>4. Distinct(X)
    BY <2>1 DEF Distinct
  <2>5. QED
    BY <2>3, <2>4
<1>8. Members(s, b) = I
  BY DEF Members
<1>9. Result(s, b) = Ids(Sorted(X, IdBefore))
  BY DEF Result, Sorted
<1> HIDE DEF X, I
<1>10. QED
  BY <1>4, <1>5, <1>6, <1>7, <1>8, <1>9, MembershipsAgree

(* Whatever is asked of a snapshot, the statement that selects, orders and  *)
(* continues says what the domain defines.                                  *)
THEOREM StatementsAgree ==
    ASSUME NEW s, NEW b, Bound(b, s)
    PROVE  Agree(s, b)
BY RepositoriesAgree, ListsAgree, OfListAgrees, OfRepositoryAgrees
   DEF Bound, OfSnapshots

-----------------------------------------------------------------------------
(* The inductive invariant.                                                 *)

\* items is a beginning of the whole result w.
Starts(items, w) ==
    /\ items \in Seq(Nat) /\ w \in Seq(Nat)
    /\ Len(items) <= Len(w)
    /\ \A i \in 1..Len(items) : items[i] = w[i]

\* What the chain c has read is a beginning of w; what remains is told by next.
Follows(c, w, total) ==
    /\ Starts(c.items, w)
    /\ total \in Nat /\ Len(c.items) <= total /\ total <= Len(w)
    /\ c.total = total
    /\ c.next = None <=> Len(c.items) = total
    /\ c.next # None => Len(c.items) # 0 /\ c.next.of = c.of

\* The next cursor is the position of the last row that was read.
SnapshotChain ==
    LET b == chain.of
        s == snapshots[b.snapshot]
    IN  /\ b.snapshot \in DOMAIN snapshots
        /\ Bound(b, s)
        /\ Follows(chain, Result(s, b), Len(Result(s, b)))
        /\ chain.next # None =>
              \E x \in Selected(s, b) : /\ x.id = chain.items[Len(chain.items)]
                                        /\ chain.next = Position(b, x)

InspectedChain ==
    /\ Follows(chain, Whole(chain.of), chain.total)
    /\ chain.of.kind # "history" => chain.total = Operations
    /\ chain.next # None => chain.next.id = chain.items[Len(chain.items)]

CandidateChain ==
    /\ chain.next # None => chain.next.of = chain.of
    /\ chain.steady =>
          LET w == Ids(Sorted(Candidates, LaterBefore))
          IN  /\ Follows(chain, w, Len(w))
              /\ chain.next # None => chain.next.id = Len(chain.items)

\* A pinned request still has the binding its chain began with.
StillPinned ==
    LET a == chain.asked
    IN  Pinned(a) =>
          /\ chain.of = Binding(a)
          /\ a.kind \in OfSnapshots => SnapshotFor(a) # {} /\ IsFilter(a.filter)

ChainInv ==
    Chained =>
        /\ chain = [of |-> chain.of, items |-> chain.items, total |-> chain.total,
                    next |-> chain.next, asked |-> chain.asked,
                    steady |-> chain.steady]
        /\ chain.of.kind \in Kinds /\ chain.asked \in Requests
        /\ chain.steady \in BOOLEAN
        /\ StillPinned
        /\ chain.of.kind \in OfSnapshots => SnapshotChain
        /\ chain.of.kind \in Inspected => InspectedChain
        /\ chain.of.kind = "candidates" => CandidateChain

\* A page between its statements continues the chain or begins one.
ReadingShape ==
    reading = [count |-> reading.count, cursor |-> reading.cursor,
               request |-> reading.request, rows |-> reading.rows,
               steady |-> reading.steady]

HistoryCounted ==
    /\ reading.count \in Nat /\ reading.count <= attempts
    /\ reading.cursor # None => chain.next.id <= reading.count

\* The rows are the page's, while nothing is discovered.
CandidatesRead ==
    /\ reading.steady => reading.rows = CandidateRows(reading.request, reading.cursor)
    /\ reading.cursor # None /\ chain.steady => reading.steady

ReadingInv ==
    reading # NotReading =>
        /\ ReadingShape
        /\ reading.request \in Requests
        /\ reading.request.kind \in {"history", "candidates"}
        /\ reading.cursor # None =>
              /\ Chained /\ reading.cursor = chain.next
              /\ BoundTo(chain.next, Binding(reading.request))
        /\ reading.request.kind = "history" => HistoryCounted
        /\ reading.request.kind = "candidates" => CandidatesRead

StateInv ==
    /\ snapshots \in Seq(Collected)
    /\ now \in Nat /\ attempts \in Nat
    /\ found \in [Found -> Nat]
    /\ reading.steady \in BOOLEAN

RefusedInv ==
    /\ refused = "refused" => Chained /\ ~Pinned(chain.asked)
    /\ refused # "storage_error"

QueriesInv == StateInv /\ ChainInv /\ ReadingInv /\ RefusedInv

-----------------------------------------------------------------------------
(* Pages                                                                    *)

Least(m, n) == IF m < n THEN m ELSE n

(* The first rows of a list, and whether there are more.                    *)
LEMMA FirstRows ==
    ASSUME NEW X, NEW rows \in Seq(X), NEW limit \in 1..100
    PROVE  /\ First(limit, rows) \in Seq(X)
           /\ Len(First(limit, rows)) = Least(Len(rows), limit)
           /\ \A i \in 1..Least(Len(rows), limit) : First(limit, rows)[i] = rows[i]
           /\ HasMore(rows, limit) <=> Least(Len(rows), limit) # Len(rows)
           /\ First(limit, rows) # << >> <=> Len(rows) # 0
           /\ Len(rows) # 0 => Latest(First(limit, rows)) = rows[Least(Len(rows), limit)]
<1> DEFINE k == Least(Len(rows), limit)
           v == SubSeq(rows, 1, k)
<1>1. k \in Nat /\ k <= Len(rows) /\ Len(rows) \in Nat /\ (Len(rows) # 0 => k # 0)
  BY DEF Least
<1>2. First(limit, rows) = v
  BY DEF First, Least
<1>3. v \in Seq(X) /\ Len(v) = k /\ \A i \in 1..k : v[i] = rows[i]
  BY <1>1
<1>4. HasMore(rows, limit) <=> k # Len(rows)
  BY DEF HasMore, Least
<1>5. v # << >> <=> Len(rows) # 0
  <2>1. Len(v) = 0 <=> Len(rows) = 0
    BY <1>1, <1>3
  <2> HIDE DEF v
  <2>2. v # << >> <=> Len(v) # 0
    BY <1>3
  <2>3. QED
    BY <2>1, <2>2
<1>6. Len(rows) # 0 => Latest(v) = rows[k]
  BY <1>1, <1>3 DEF Latest
<1> HIDE DEF v
<1>7. QED
  BY <1>2, <1>3, <1>4, <1>5, <1>6

\* A page of at most limit ids that continues w after its first k.
Continues(items, w, k, limit) ==
    /\ items \in Seq(Nat)
    /\ Len(items) = Least(Len(w) - k, limit)
    /\ \A i \in 1..Len(items) : items[i] = w[k + i]

\* What a page says of the rows it was cut from: after k of n, the ids of w.
Tells(page, of, w, k, n, limit) ==
    /\ page.of = of /\ page.total = n
    /\ Continues(page.items, w, k, limit)
    /\ k + Len(page.items) <= n
    /\ page.next = None <=> k + Len(page.items) = n
    /\ page.next # None => Len(page.items) # 0 /\ page.next.of = of

(* What was read and the page that continues it are a beginning again.      *)
LEMMA StartsLonger ==
    ASSUME NEW items, NEW w, Starts(items, w), NEW p \in Seq(Nat),
           Len(items) + Len(p) <= Len(w),
           \A i \in 1..Len(p) : p[i] = w[Len(items) + i]
    PROVE  /\ Starts(items \o p, w)
           /\ Len(items \o p) = Len(items) + Len(p)
           /\ Len(p) # 0 => (items \o p)[Len(items) + Len(p)] = p[Len(p)]
<1>1. items \in Seq(Nat) /\ w \in Seq(Nat)
  BY DEF Starts
<1> DEFINE k == Len(items)
           q == items \o p
<1>2. k \in Nat /\ Len(p) \in Nat /\ Len(w) \in Nat
  BY <1>1
<1>3. /\ q \in Seq(Nat) /\ Len(q) = k + Len(p)
      /\ \A i \in 1..k+Len(p) : q[i] = IF i <= k THEN items[i] ELSE p[i - k]
  BY <1>1
<1>4. ASSUME NEW i \in 1..k+Len(p) PROVE q[i] = w[i]
  <2>1. CASE i <= k
    BY <1>3, <2>1 DEF Starts
  <2>2. CASE ~(i <= k)
    <3>1. i - k \in 1..Len(p) /\ k + (i - k) = i
      BY <1>2, <2>2
    <3>2. p[i - k] = w[i]
      BY <3>1
    <3>3. QED
      BY <1>3, <2>2, <3>2
  <2>3. QED
    BY <2>1, <2>2
<1>5. Len(p) # 0 => q[k + Len(p)] = p[Len(p)]
  <2>1. Len(p) # 0 => /\ k + Len(p) \in 1..k+Len(p) /\ ~(k + Len(p) <= k)
                      /\ k + Len(p) - k = Len(p)
    BY <1>2
  <2>2. QED
    BY <1>3, <2>1
<1> HIDE DEF q
<1>6. QED
  BY <1>1, <1>3, <1>4, <1>5 DEF Starts, q

\* The rows have the ids of w after its first k.
RestOf(rows, w, k) ==
    /\ Len(rows) = Len(w) - k
    /\ \A i \in 1..Len(w)-k : rows[i].id = w[k + i]

\* items is what the page shows of rows, the rest of w.
Cut(items, rows, limit, w, k, X) ==
    /\ Continues(items, w, k, limit)
    /\ (HasMore(rows, limit) /\ First(limit, rows) # << >>)
          <=> k + Len(items) # Len(w)
    /\ k + Len(items) <= Len(w)
    /\ First(limit, rows) # << >> <=> Len(items) # 0
    /\ Len(items) # 0 => /\ Latest(First(limit, rows)) \in X
                         /\ Latest(First(limit, rows)).id = items[Len(items)]

(* The page of a listing, cut from the rows that the statement returns.     *)
LEMMA PageOfRows ==
    ASSUME NEW X, NEW rows \in Seq(X), NEW limit \in 1..100,
           NEW w \in Seq(Nat), NEW k \in 0..Len(w), RestOf(rows, w, k),
           NEW items, items = Ids(First(limit, rows))
    PROVE  Cut(items, rows, limit, w, k, X)
<1> DEFINE m == Least(Len(rows), limit)
           v == First(limit, rows)
<1>1. /\ Len(w) \in Nat /\ k \in Nat /\ Len(rows) \in Nat /\ m \in Nat
      /\ m <= Len(rows) /\ (Len(rows) # 0 => m # 0)
      /\ Len(rows) = Len(w) - k /\ \A i \in 1..Len(w)-k : rows[i].id = w[k + i]
  BY DEF Least, RestOf
<1>2. /\ v \in Seq(X) /\ Len(v) = m /\ \A i \in 1..m : v[i] = rows[i]
      /\ HasMore(rows, limit) <=> m # Len(rows)
      /\ v # << >> <=> Len(rows) # 0
      /\ Len(rows) # 0 => Latest(v) = rows[m]
  BY FirstRows
<1> HIDE DEF v, m
<1>3. DOMAIN items = 1..m /\ \A i \in 1..m : items[i] = v[i].id
  BY <1>1, <1>2 DEF Ids, v
<1>4. \A i \in 1..m : items[i] = w[k + i] /\ w[k + i] \in Nat
  <2> TAKE i \in 1..m
  <2>1. i \in 1..Len(w)-k /\ k + i \in 1..Len(w)
    BY <1>1
  <2>2. w[k + i] \in Nat
    BY <2>1
  <2>3. items[i] = rows[i].id
    BY <1>2, <1>3
  <2>4. rows[i].id = w[k + i]
    BY <1>1, <2>1
  <2>5. QED
    BY <2>2, <2>3, <2>4
<1>5. items \in Seq(Nat) /\ Len(items) = m
  <2> DEFINE D == 1..m
  <2>1. items = [i \in DOMAIN v |-> v[i].id]
    BY DEF Ids, v
  <2>2. items = [i \in D |-> items[i]]
    <3>1. DOMAIN v = D
      BY <1>2
    <3> HIDE DEF D
    <3>2. QED
      BY <2>1, <3>1
  <2>3. \A i \in D : items[i] \in Nat
    BY <1>4
  <2>4. items \in [D -> Nat]
    <3> HIDE DEF D
    <3>1. QED
      BY <2>2, <2>3
  <2>5. QED
    BY <1>1, <2>4, SMTT(30)
<1>6. Continues(items, w, k, limit)
  BY <1>1, <1>4, <1>5 DEF Continues, m
<1>7. Len(items) # 0 => Latest(v) \in X /\ Latest(v).id = items[Len(items)]
  <2>1. Len(items) # 0 => m \in 1..m /\ m \in 1..Len(rows) /\ Len(rows) # 0
    BY <1>1, <1>5, SMTT(30)
  <2>2. QED
    BY <1>2, <1>3, <1>5, <2>1
<1>8. QED
  BY <1>1, <1>2, <1>5, <1>6, <1>7, SMTT(30) DEF v, Cut

\* The ids that come after the k-th of w.
Past(M, Q, w, k) == {i \in M : k # 0 => <<w[k], i>> \in Q}

(* The rows of the statement are the rest of the result.                    *)
LEMMA RestRows ==
    ASSUME NEW X, IsFiniteSet(X), NEW Q, IdsOf(X) \subseteq Nat,
           IsFiniteSet(IdsOf(X)), StrictOrder(Q, IdsOf(X)),
           NEW w, IsListing(w, IdsOf(X), Q),
           NEW k \in 0..Cardinality(IdsOf(X)), NEW rest \in SUBSET X,
           IdsOf(rest) = Past(IdsOf(X), Q, w, k),
           NEW v, ListsRows(v, rest, Q)
    PROVE  /\ w \in Seq(Nat) /\ Len(w) = Cardinality(IdsOf(X)) /\ k \in 0..Len(w)
           /\ v \in Seq(X) /\ RestOf(v, w, k)
<1> DEFINE S == IdsOf(X)
           n == Cardinality(S)
<1>1. n \in Nat /\ w \in [1..n -> S]
  BY FS_CardinalityType DEF IsListing
<1>2. w \in Seq(Nat) /\ Len(w) = n
  <2> HIDE DEF S
  <2>1. w \in [1..n -> Nat]
    BY <1>1 DEF S
  <2>2. QED
    BY <1>1, <2>1
<1>3. v \in Seq(rest) /\ Len(v) = Cardinality(rest) /\ IsListing(Ids(v), IdsOf(rest), Q)
      /\ Cardinality(IdsOf(rest)) = Cardinality(rest)
  BY DEF ListsRows
<1>4. /\ Cardinality(IdsOf(rest)) = n - k
      /\ \A i \in 1..n-k : Ids(v)[i] = w[k + i]
  BY <1>3, RestOfListing DEF Past
<1>5. v \in Seq(X) /\ DOMAIN v = 1..n-k /\ Len(v) = n - k
  BY <1>3, <1>4
<1>6. \A i \in 1..n-k : Ids(v)[i] = v[i].id
  BY <1>5 DEF Ids
<1>7. QED
  BY <1>2, <1>4, <1>5, <1>6 DEF RestOf

\* cursor names the k-th id of w.
Names(cursor, b, s, w, k) ==
    IF k = 0 THEN cursor = None
    ELSE \E x \in Selected(s, b) : x.id = w[k] /\ cursor = Position(b, x)

(* A cursor that is bound to something asked is not the absent one.         *)
LEMMA CursorIsSome ==
    ASSUME NEW cursor, cursor.of.kind \in Kinds
    PROVE  cursor # None
BY DEF None, Kinds, OfSnapshots, Inspected

\* The next cursor is the position of the last row of the page.
NextNames(page, b, s) ==
    page.next # None =>
        \E y \in Selected(s, b) : /\ y.id = page.items[Len(page.items)]
                                  /\ page.next = Position(b, y)

(* A page of a snapshot is the next one of the result, and its cursor names *)
(* its last row.                                                            *)
LEMMA SnapshotPages ==
    ASSUME NEW a, a.limit \in 1..100, NEW b, b = Binding(a),
           NEW s, s = snapshots[b.snapshot], Bound(b, s),
           NEW w, w = Result(s, b), NEW k \in 0..Len(w), NEW cursor,
           Names(cursor, b, s, w, k), NEW page, page = SnapshotPage(a, cursor)
    PROVE  Tells(page, b, w, k, Len(w), a.limit) /\ NextNames(page, b, s)
<1> DEFINE X == Selected(s, b)
           Q == Order(s, b)
           rest == {row \in X : cursor # None => IsAfter(b, row, cursor)}
           v == InSqlOrder(b, rest)
<1>1. /\ IsFiniteSet(X) /\ Distinct(X) /\ IdsOf(X) \subseteq Nat
      /\ IsFiniteSet(IdsOf(X)) /\ StrictOrder(Q, IdsOf(X))
      /\ IsListing(w, IdsOf(X), Q)
      /\ \A Y \in SUBSET X : ListsRows(InSqlOrder(b, Y), Y, Q)
      /\ \A x, y \in X : IsAfter(b, y, Position(b, x)) <=> <<x.id, y.id>> \in Q
  BY StatementsAgree DEF Agree
<1>2. Cardinality(IdsOf(X)) = Cardinality(X) /\ Cardinality(X) \in Nat
  BY <1>1, IdsOfSet, FS_CardinalityType
<1>3. b.kind \in Kinds
  BY DEF Bound, Kinds
<1>4. \A x : Position(b, x) # None /\ Position(b, x).of = b
  BY <1>3, CursorIsSome DEF Position
<1>5. Len(w) = Cardinality(X)
  <2>1. w \in [1..Cardinality(X) -> IdsOf(X)]
    BY <1>1, <1>2 DEF IsListing
  <2>2. QED
    BY <1>2, <2>1
<1> HIDE DEF X, Q
<1>6. IdsOf(rest) = Past(IdsOf(X), Q, w, k)
  <2>1. CASE k = 0
    <3>1. rest = X
      BY <2>1 DEF Names
    <3>2. QED
      BY <2>1, <3>1 DEF Past
  <2>2. CASE k # 0
    <3>1. PICK x \in X : x.id = w[k] /\ cursor = Position(b, x)
      BY <2>2 DEF Names, X
    <3>2. rest = {row \in X : <<x.id, row.id>> \in Q}
      BY <1>1, <1>4, <3>1
    <3>3. IdsOf(rest) = {i \in IdsOf(X) : <<x.id, i>> \in Q}
      <4> HIDE DEF rest
      <4>1. QED
        BY <3>2 DEF IdsOf
    <3>4. QED
      BY <2>2, <3>1, <3>3 DEF Past
  <2>3. QED
    BY <2>1, <2>2
<1>7. rest \in SUBSET X /\ ListsRows(v, rest, Q)
  BY <1>1
<1> HIDE DEF rest, v
<1>8. /\ w \in Seq(Nat) /\ k \in 0..Len(w)
      /\ v \in Seq(X) /\ RestOf(v, w, k)
  <2>1. k \in 0..Cardinality(IdsOf(X))
    BY <1>2, <1>5
  <2>2. QED
    BY <1>1, <1>6, <1>7, <2>1, RestRows
<1>9. /\ page.of = b /\ page.total = Cardinality(X)
      /\ page.items = Ids(First(a.limit, v))
      /\ page.next = IF HasMore(v, a.limit) /\ First(a.limit, v) # << >>
                     THEN Position(b, Latest(First(a.limit, v))) ELSE None
  BY DEF SnapshotPage, Page, X, rest, v
<1>10. /\ Continues(page.items, w, k, a.limit)
       /\ HasMore(v, a.limit) /\ First(a.limit, v) # << >>
             <=> k + Len(page.items) # Len(w)
       /\ k + Len(page.items) <= Len(w)
       /\ First(a.limit, v) # << >> <=> Len(page.items) # 0
       /\ Len(page.items) # 0 =>
             /\ Latest(First(a.limit, v)) \in X
             /\ Latest(First(a.limit, v)).id = page.items[Len(page.items)]
  <2> DEFINE limit == a.limit
             items == page.items
  <2>1. items = Ids(First(limit, v)) /\ limit \in 1..100
    BY <1>9
  <2> HIDE DEF limit, items
  <2>2. Cut(items, v, limit, w, k, X)
    BY <1>8, <2>1, PageOfRows
  <2>3. QED
    BY <2>2 DEF limit, items, Cut
<1>11. page.next = None <=> k + Len(page.items) = Len(w)
  BY <1>4, <1>9, <1>10
<1>12. ASSUME page.next # None
       PROVE  /\ Len(page.items) # 0 /\ page.next.of = b
              /\ \E y \in X : /\ y.id = page.items[Len(page.items)]
                              /\ page.next = Position(b, y)
  <2>1. /\ HasMore(v, a.limit) /\ First(a.limit, v) # << >>
        /\ page.next = Position(b, Latest(First(a.limit, v)))
    BY <1>9, <1>12
  <2>2. QED
    BY <1>4, <1>10, <2>1
<1>13. QED
  BY <1>5, <1>9, <1>10, <1>11, <1>12 DEF X, Tells, NextNames

Numbering(n, f) == [i \in 1..n |-> i - 1 + f]
ValuesOf(w, n) == {w[i] : i \in 1..n}
Ascending == {p \in Nat \X Nat : p[1] < p[2]}

(* The numbers of stored rows are listed as they are stored.                *)
LEMMA NumbersListed ==
    ASSUME NEW n \in Nat, NEW f \in {0, 1}, NEW w, w = Numbering(n, f),
           NEW S, S = ValuesOf(w, n)
    PROVE  /\ IsFiniteSet(S) /\ Cardinality(S) = n /\ S \subseteq Nat
           /\ StrictOrder(Ascending, S) /\ IsListing(w, S, Ascending)
           /\ w \in Seq(Nat) /\ Len(w) = n
<1> DEFINE Q == Ascending
<1> USE DEF Ascending, ValuesOf, Numbering
<1>1. S = f..n-1+f
  <2>1. \A x : x \in S <=> x \in f..n-1+f
    <3> TAKE x
    <3>1. ASSUME x \in f..n-1+f PROVE x \in S
      <4>1. x - f + 1 \in 1..n /\ w[x - f + 1] = x
        BY <3>1
      <4>2. QED
        BY <4>1
    <3>2. ASSUME x \in S PROVE x \in f..n-1+f
      <4>1. PICK i \in 1..n : x = w[i]
        BY <3>2
      <4>2. x = i - 1 + f
        BY <4>1
      <4>3. QED
        BY <4>2
    <3>3. QED
      BY <3>1, <3>2
  <2>2. QED
    BY <2>1
<1>2. IsFiniteSet(S) /\ Cardinality(S) = n
  <2> DEFINE l == n - 1 + f
  <2>1. f \in Int /\ l \in Int /\ (f > l => n = 0) /\ (~(f > l) => l - f + 1 = n)
        /\ (f > l \/ ~(f > l))
    OBVIOUS
  <2> HIDE DEF l
  <2>2. IsFiniteSet(f..l) /\ Cardinality(f..l) = IF f > l THEN 0 ELSE l - f + 1
    BY <2>1, FS_Interval
  <2>3. QED
    BY <1>1, <2>1, <2>2 DEF l
<1>3. S \subseteq Nat /\ StrictOrder(Q, S)
  BY <1>1, NumbersInOrder
<1>4. ASSUME NEW i \in 1..n PROVE Rank(S, Q, w[i]) = i - 1
  <2>1. w[i] = i - 1 + f
    OBVIOUS
  <2> DEFINE l == i - 2 + f
  <2>2. \A x : x \in Below(S, Q, w[i]) <=> x \in f..l
    <3> TAKE x
    <3>1. x \in Below(S, Q, w[i]) <=> x \in f..n-1+f /\ x < i - 1 + f
      BY <1>1, <1>3, <2>1 DEF Below
    <3>2. x \in f..l <=> x \in f..n-1+f /\ x < i - 1 + f
      OBVIOUS
    <3>3. QED
      BY <3>1, <3>2
  <2>3. f \in Int /\ l \in Int /\ (f > l => i - 1 = 0) /\ (~(f > l) => l - f + 1 = i - 1)
    OBVIOUS
  <2> HIDE DEF l
  <2>4. Below(S, Q, w[i]) = f..l
    BY <2>2
  <2>5. Cardinality(f..l) = IF f > l THEN 0 ELSE l - f + 1
    BY <2>3, FS_Interval
  <2>6. QED
    BY <2>3, <2>4, <2>5 DEF Rank
<1>5. w \in [1..n -> S] /\ w \in Seq(Nat) /\ Len(w) = n
  OBVIOUS
<1>6. QED
  BY <1>2, <1>3, <1>4, <1>5 DEF IsListing

(* The rows of a plan, a run and a history.                                 *)
LEMMA RowsOfKind ==
    ASSUME NEW kind, NEW n \in Nat
    PROVE  /\ FirstBoundary(kind) \in {0, 1}
           /\ Len(Rows(kind, n)) = n /\ DOMAIN Rows(kind, n) = 1..n
           /\ \A i \in 1..n : Rows(kind, n)[i] = [id |-> i - 1 + FirstBoundary(kind)]
           /\ Ids(Rows(kind, n)) = [i \in 1..n |-> i - 1 + FirstBoundary(kind)]
<1>1. FirstBoundary(kind) \in {0, 1}
  BY DEF FirstBoundary
<1> DEFINE f == FirstBoundary(kind)
           r == Rows(kind, n)
<1>2. r = [i \in 1..n |-> [id |-> i - 1 + f]]
  BY DEF Rows
<1> HIDE DEF r, f
<1>3. Len(r) = n /\ DOMAIN r = 1..n /\ \A i \in 1..n : r[i] = [id |-> i - 1 + f]
  BY <1>2
<1>4. Ids(r) = [i \in 1..n |-> r[i].id]
  BY <1>3 DEF Ids
<1>5. Ids(r) = [i \in 1..n |-> i - 1 + f]
  BY <1>3, <1>4
<1>6. QED
  BY <1>1, <1>3, <1>5 DEF r, f

\* cursor names the k-th row by its number.
Numbered(cursor, w, k) ==
    IF k = 0 THEN cursor = None ELSE cursor # None /\ cursor.id = w[k]

\* What a page says of rows that were counted earlier.
TellsStored(page, a, w, k, count, last) ==
    /\ page.of = Binding(a) /\ page.total = count
    /\ Continues(page.items, w, k, a.limit)
    /\ k + Len(page.items) <= last
    /\ page.next = None <=> k + Len(page.items) = last
    /\ page.next # None => /\ Len(page.items) # 0 /\ page.next.of = Binding(a)
                           /\ page.next.id = page.items[Len(page.items)]

(* A page of a run or a history, read after its rows were counted.          *)
LEMMA StoredPages ==
    ASSUME NEW a, a.limit \in 1..100, a.kind \in {"run", "history"},
           NEW count \in Nat, NEW last \in Nat, NEW k \in 0..last,
           NEW w, w = Ids(Rows(a.kind, last)), NEW cursor, Numbered(cursor, w, k),
           NEW page, page = StoredPage(a, cursor, count, last)
    PROVE  w \in Seq(Nat) /\ Len(w) = last /\ TellsStored(page, a, w, k, count, last)
<1> DEFINE b == Binding(a)
           f == FirstBoundary(a.kind)
           X == {Rows(a.kind, last)[i] : i \in 1..last}
           Q == {p \in Nat \X Nat : p[1] < p[2]}
           S == {w[i] : i \in 1..last}
           rest == {row \in X : cursor # None => row.id > cursor.id}
           v == Sorted(rest, IdBefore)
<1>1. /\ f \in {0, 1} /\ w = [i \in 1..last |-> i - 1 + f]
      /\ \A i \in 1..last : Rows(a.kind, last)[i] = [id |-> i - 1 + f]
  BY RowsOfKind
<1>2. /\ IsFiniteSet(S) /\ Cardinality(S) = last /\ S \subseteq Nat
      /\ StrictOrder(Q, S) /\ IsListing(w, S, Q) /\ w \in Seq(Nat) /\ Len(w) = last
  <2>1. S = ValuesOf(w, last) /\ Q = Ascending /\ w = Numbering(last, f)
    BY <1>1 DEF ValuesOf, Ascending, Numbering
  <2> HIDE DEF f, S, Q
  <2>2. QED
    BY <1>1, <2>1, NumbersListed
<1>3. IdsOf(X) = S /\ Distinct(X)
  <2> HIDE DEF f
  <2> DEFINE row(i) == [id |-> i - 1 + f]
  <2>1. \A i : row(i).id = i - 1 + f
    OBVIOUS
  <2>2. X = {row(i) : i \in 1..last}
    <3>1. \A i \in 1..last : Rows(a.kind, last)[i] = row(i)
      BY <1>1
    <3> HIDE DEF row
    <3>2. QED
      BY <3>1
  <2>3. \A i \in 1..last : w[i] = i - 1 + f
    BY <1>1
  <2> HIDE DEF row, X
  <2>4. IdsOf(X) = {row(i).id : i \in 1..last}
    BY <2>2 DEF IdsOf
  <2>5. IdsOf(X) = S
    BY <2>1, <2>3, <2>4
  <2>6. \A i, j \in 1..last : i - 1 + f = j - 1 + f => i = j
    BY <1>1
  <2>7. Distinct(X)
    BY <2>1, <2>2, <2>6 DEF Distinct
  <2>8. QED
    BY <2>5, <2>7
<1>4. IsFiniteSet(X)
  <2> DEFINE g == [i \in 1..last |-> Rows(a.kind, last)[i]]
  <2>1. g \in Surjection(1..last, X)
    BY DEF Surjection
  <2>2. IsFiniteSet(1..last)
    BY FS_Interval
  <2> HIDE DEF g, X
  <2>3. QED
    BY <2>1, <2>2, FS_Surjection
<1> HIDE DEF X, S
<1>5. IdsOf(rest) = Past(S, Q, w, k)
  <2>1. \A x \in X : x.id \in S /\ x.id \in Nat
    BY <1>2, <1>3 DEF IdsOf
  <2>2. CASE k = 0
    <3>1. rest = X
      BY <2>2 DEF Numbered
    <3>2. Past(S, Q, w, k) = S
      BY <2>2 DEF Past
    <3>3. QED
      BY <1>3, <3>1, <3>2
  <2>3. CASE k # 0
    <3>1. k \in 1..last /\ w[k] \in Nat
      BY <1>2, <2>3
    <3>2. rest = {x \in X : w[k] < x.id}
      BY <2>1, <2>3, <3>1 DEF Numbered
    <3>3. Past(S, Q, w, k) = {i \in S : w[k] < i}
      BY <1>2, <2>3, <3>1 DEF Past
    <3>4. QED
      BY <1>3, <3>2, <3>3 DEF IdsOf
  <2>4. QED
    BY <2>2, <2>3
<1>6. rest \in SUBSET X /\ ListsRows(v, rest, Q)
  <2>1. rest \in SUBSET X
    OBVIOUS
  <2> HIDE DEF rest
  <2>2. IsFiniteSet(rest) /\ Distinct(rest) /\ IdsOf(rest) \subseteq S
    BY <1>3, <1>4, <2>1, FS_Subset DEF Distinct, IdsOf
  <2>3. StrictOrder(Q, IdsOf(rest))
    BY <1>2, <2>2 DEF StrictOrder
  <2>4. \A x \in rest : x.id \in Nat
    BY <1>2, <2>2 DEF IdsOf
  <2>5. \A x, y \in rest : IdBefore(x, y) <=> <<x.id, y.id>> \in Q
    BY <2>4 DEF IdBefore
  <2> HIDE DEF Q
  <2>6. QED
    BY <2>1, <2>2, <2>3, <2>5, SortedById
<1> HIDE DEF rest, v, Q
<1>7. /\ k \in 0..Len(w) /\ v \in Seq(X) /\ RestOf(v, w, k)
  <2>1. k \in 0..Cardinality(IdsOf(X))
    BY <1>2, <1>3
  <2>2. QED
    BY <1>2, <1>3, <1>4, <1>5, <1>6, <2>1, RestRows
<1> DEFINE limit == a.limit
           items == page.items
<1>8. /\ page.of = b /\ page.total = count /\ limit \in 1..100
      /\ items = Ids(First(limit, v))
      /\ page.next = IF HasMore(v, limit) /\ First(limit, v) # << >>
                     THEN [of |-> b, values |-> << >>, id |-> Latest(First(limit, v)).id]
                     ELSE None
  BY DEF StoredPage, Page, X, rest, v
<1>9. [of |-> b, values |-> << >>, id |-> Latest(First(limit, v)).id] # None
  <2>1. b.kind \in Kinds
    BY DEF Binding, Kinds, OfSnapshots, Inspected
  <2> HIDE DEF b
  <2>2. QED
    BY <2>1, CursorIsSome
<1> HIDE DEF limit, items, b
<1>10. /\ Continues(items, w, k, limit)
       /\ HasMore(v, limit) /\ First(limit, v) # << >> <=> k + Len(items) # Len(w)
       /\ k + Len(items) <= Len(w)
       /\ First(limit, v) # << >> <=> Len(items) # 0
       /\ Len(items) # 0 => /\ Latest(First(limit, v)) \in X
                            /\ Latest(First(limit, v)).id = items[Len(items)]
  <2>1. limit \in 1..100 /\ items = Ids(First(limit, v))
    BY <1>8
  <2>2. w \in Seq(Nat)
    BY <1>2
  <2>3. QED
    <3>1. Cut(items, v, limit, w, k, X)
      BY <1>7, <2>1, <2>2, PageOfRows
    <3>2. QED
      BY <3>1 DEF Cut
<1>11. /\ page.next = None <=> k + Len(items) = last
       /\ page.next # None => /\ Len(items) # 0 /\ page.next.of = b
                              /\ page.next.id = items[Len(items)]
  <2>1. CASE HasMore(v, limit) /\ First(limit, v) # << >>
    BY <1>2, <1>8, <1>9, <1>10, <2>1
  <2>2. CASE ~(HasMore(v, limit) /\ First(limit, v) # << >>)
    BY <1>2, <1>8, <1>10, <2>2
  <2>3. QED
    BY <2>1, <2>2
<1>12. QED
  BY <1>2, <1>8, <1>10, <1>11 DEF items, limit, b, TellsStored

\* What is known of a page by its validation.
Counted(a, cursor, page, k, count, last) ==
    /\ count = last => Validated(a, cursor, page)
    /\ Validated(a, cursor, page) =>
          /\ k + Len(page.items) <= count
          /\ page.next = None <=> k + Len(page.items) = count

(* The page of counted rows is taken for what it is.                        *)
LEMMA ValidatedPages ==
    ASSUME NEW a, a.limit \in 1..100, NEW last \in Nat, NEW w,
           w = Numbering(last, FirstBoundary(a.kind)), NEW k \in 0..last, NEW cursor,
           Numbered(cursor, w, k), NEW count \in Nat, count <= last, k <= count,
           NEW page, TellsStored(page, a, w, k, count, last)
    PROVE  Counted(a, cursor, page, k, count, last)
<1> DEFINE f == FirstBoundary(a.kind)
           n == Len(page.items)
           before == IF cursor = None THEN 0 ELSE ConsumedBefore(cursor.id, f)
           limit == a.limit
<1>1. f \in {0, 1} /\ Len(w) = last
  BY DEF FirstBoundary, Numbering
<1>2a. /\ page.total = count /\ Continues(page.items, w, k, a.limit)
       /\ page.next = None <=> k + Len(page.items) = last
  BY DEF TellsStored
<1>2. \A i \in 1..last : w[i] = f + i - 1
  <2> HIDE DEF f
  <2>1. \A i \in 1..last : w[i] = i - 1 + f
    BY DEF Numbering, f
  <2>2. QED
    BY <1>1, <2>1
<1> HIDE DEF f
<1>3. before = k
  <2>1. CASE k = 0
    BY <2>1 DEF Numbered
  <2>2. CASE k # 0
    <3>1. cursor # None /\ cursor.id = f + k - 1
      BY <1>2, <2>2 DEF Numbered
    <3>2. QED
      BY <1>1, <3>1 DEF ConsumedBefore
  <2>3. QED
    BY <2>1, <2>2
<1>4. /\ n \in Nat /\ DOMAIN page.items = 1..n /\ (page.items = << >> <=> n = 0)
      /\ n = Least(last - k, limit) /\ limit \in 1..100
      /\ \A i \in 1..n : page.items[i] = w[k + i]
  <2>1. page.items \in Seq(Nat)
    BY <1>2a DEF Continues
  <2> DEFINE items == page.items
  <2> HIDE DEF items
  <2>2. items \in Seq(Nat)
    BY <2>1 DEF items
  <2>3. Len(items) \in Nat /\ DOMAIN items = 1..Len(items) /\ (items = << >> <=> Len(items) = 0)
    BY <2>2
  <2>4. QED
    BY <1>1, <1>2a, <2>3 DEF Continues, items
<1> DEFINE rest == count - k
           expected == IF rest < limit THEN rest ELSE limit
<1> HIDE DEF n, before, limit
<1>5. Validated(a, cursor, page) <=>
        /\ k \in 0..count
        /\ n = expected
        /\ \A i \in 1..n : page.items[i] = f + k + i - 1
        /\ (page.next = None) = (k + n >= count \/ n = 0)
  BY <1>3, <1>4, <1>2a DEF Validated, n, before, f, limit
<1>6. \A i \in 1..n : page.items[i] = f + k + i - 1
  <2> TAKE i \in 1..n
  <2>1. k + i \in 1..last
    BY <1>4 DEF Least
  <2>2. w[k + i] = f + (k + i) - 1
    BY <1>2, <2>1
  <2>3. QED
    BY <1>1, <1>4, <2>2
<1>7. count = last => Validated(a, cursor, page)
  <2> SUFFICES ASSUME count = last PROVE Validated(a, cursor, page)
    OBVIOUS
  <2>1. n = expected /\ (k + n = last <=> (k + n >= count \/ n = 0))
    <3>1. n \in Nat /\ limit \in 1..100 /\ n = Least(last - k, limit)
      BY <1>4
    <3>2. CASE last - k < limit
      <4>1. n = last - k
        BY <3>1, <3>2 DEF Least
      <4>2. QED
        BY <3>2, <4>1
    <3>3. CASE ~(last - k < limit)
      <4>1. n = limit
        BY <3>1, <3>3 DEF Least
      <4>2. QED
        BY <3>1, <3>3, <4>1
    <3>4. QED
      BY <3>2, <3>3
  <2>2. (page.next = None) = (k + n >= count \/ n = 0)
    BY <1>2a, <2>1 DEF n
  <2>3. QED
    BY <1>5, <1>6, <2>1, <2>2
<1>8. ASSUME Validated(a, cursor, page)
      PROVE  k + n <= count /\ (page.next = None <=> k + n = count)
  <2>1. n = expected /\ (page.next = None) = (k + n >= count \/ n = 0)
    BY <1>5, <1>8
  <2>2. k + n <= count /\ ((k + n >= count \/ n = 0) <=> k + n = count)
    BY <1>4, <2>1
  <2>3. QED
    BY <2>1, <2>2
<1>9. QED
  BY <1>7, <1>8 DEF n, Counted

PageAt(order, limit, k) == First(limit, SubSeq(order, k + 1, Len(order)))

CutAt(p, order, w, k, limit) ==
    /\ Len(order) = Len(w) /\ Continues(Ids(p), w, k, limit)
    /\ Len(p) = Len(Ids(p)) /\ k + Len(Ids(p)) <= Len(w)
    /\ k + Len(Ids(p)) < Len(w) => Len(Ids(p)) # 0

(* A page cut at an offset.                                                 *)
LEMMA OffsetRows ==
    ASSUME NEW X, NEW order \in Seq(X), NEW limit \in 1..100, NEW w \in Seq(Nat),
           w = Ids(order), NEW k \in 0..Len(order), NEW p,
           p = PageAt(order, limit, k)
    PROVE  CutAt(p, order, w, k, limit)
<1> DEFINE v == SubSeq(order, k + 1, Len(order))
<1>1. Len(order) \in Nat /\ DOMAIN order = 1..Len(order)
  OBVIOUS
<1>2. /\ v \in Seq(X) /\ Len(v) = Len(order) - k
      /\ \A i \in 1..Len(order)-k : v[i] = order[k + i]
  <2> DEFINE n == Len(order)
             m == k + 1
  <2>1. m \in Int /\ n \in Int /\ (m <= n => n - m + 1 = n - k) /\ (~(m <= n) => n - k = 0)
        /\ n - m + 1 = n - k /\ \A i \in 1..n-k : m + i - 1 = k + i
    <3>1. n \in Nat /\ k \in 0..n
      BY <1>1
    <3> HIDE DEF n
    <3>2. QED
      BY <3>1
  <2>2. \A i \in m..n : order[i] \in X
    BY <1>1
  <2> HIDE DEF m, n, v
  <2>3. /\ SubSeq(order, m, n) \in Seq(X)
        /\ Len(SubSeq(order, m, n)) = IF m <= n THEN n - m + 1 ELSE 0
        /\ \A i \in 1..n-m+1 : SubSeq(order, m, n)[i] = order[m + i - 1]
    BY <2>1, <2>2, SubSeqProperties
  <2>4. v = SubSeq(order, m, n)
    BY DEF v, m, n
  <2>5. QED
    BY <2>1, <2>3, <2>4 DEF n
<1> HIDE DEF v
<1>3. Len(order) = Len(w) /\ \A i \in 1..Len(order) : w[i] = order[i].id
  <2>1. DOMAIN w = DOMAIN order
    BY DEF Ids
  <2>2. DOMAIN w = 1..Len(w) /\ Len(w) \in Nat
    OBVIOUS
  <2>3. QED
    BY <1>1, <2>1, <2>2 DEF Ids
<1>4. RestOf(v, w, k)
  <2>1. \A i \in 1..Len(w)-k : k + i \in 1..Len(order) /\ v[i] = order[k + i]
    BY <1>1, <1>2, <1>3
  <2>2. QED
    BY <1>2, <1>3, <2>1 DEF RestOf
<1> HIDE DEF v
<1>5. Cut(Ids(p), v, limit, w, k, X)
  <2>1. k \in 0..Len(w) /\ Ids(p) = Ids(First(limit, v))
    BY <1>3 DEF v, PageAt
  <2>2. QED
    BY <1>2, <1>4, <2>1, PageOfRows
<1>6. Len(p) = Least(Len(w) - k, limit)
  <2>1. Len(First(limit, v)) = Least(Len(v), limit)
    BY <1>2, FirstRows
  <2>2. QED
    BY <1>2, <1>3, <2>1 DEF v, PageAt
<1>7. Len(Ids(p)) = Least(Len(w) - k, limit)
  BY <1>5 DEF Cut, Continues
<1>8. k + Len(Ids(p)) <= Len(w) /\ Continues(Ids(p), w, k, limit)
  BY <1>5 DEF Cut
<1>9. k + Len(Ids(p)) < Len(w) => Len(Ids(p)) # 0
  <2>1. Len(w) \in Nat /\ k \in Nat
    BY <1>1, <1>3
  <2>2. QED
    BY <1>7, <2>1 DEF Least
<1>10. QED
  BY <1>3, <1>6, <1>7, <1>8, <1>9 DEF CutAt

\* The next cursor has the last number of the page.
NextIsLast(page) == page.next # None => page.next.id = page.items[Len(page.items)]

(* A page of a plan.                                                        *)
LEMMA PlanPages ==
    ASSUME NEW a, a.limit \in 1..100, a.kind = "plan", NEW k \in 0..Operations,
           NEW w, w = Ids(Rows("plan", Operations)), NEW cursor, Numbered(cursor, w, k),
           NEW page, page = PlanPage(a, cursor)
    PROVE  /\ w \in Seq(Nat) /\ Len(w) = Operations
           /\ Tells(page, Binding(a), w, k, Operations, a.limit)
           /\ NextIsLast(page)
<1> DEFINE b == Binding(a)
           order == Rows("plan", Operations)
           limit == a.limit
           p == PageAt(order, limit, k)
<1>1. Operations \in Nat
  BY QueriesAssumption
<1>2. FirstBoundary("plan") = 1
  BY DEF FirstBoundary
<1>3. /\ order \in Seq([id : Nat]) /\ Len(order) = Operations
      /\ w \in Seq(Nat) /\ Len(w) = Operations
      /\ \A i \in 1..Operations : w[i] = i
  <2>1. order = [i \in 1..Operations |-> [id |-> i - 1 + 1]]
    BY <1>2 DEF Rows
  <2>2. order \in Seq([id : Nat]) /\ Len(order) = Operations
    <3> DEFINE D == 1..Operations
    <3>1. order = [i \in D |-> [id |-> i - 1 + 1]]
      BY <2>1
    <3>2. \A i \in D : [id |-> i - 1 + 1] \in [id : Nat]
      BY <1>1
    <3> DEFINE X == [id : Nat]
    <3> HIDE DEF order, X, D
    <3>3. order \in [D -> X]
      BY <3>1, <3>2 DEF X
    <3>4. order \in Seq(X) /\ Len(order) = Operations
      BY <1>1, <3>3 DEF D
    <3>5. QED
      BY <3>4 DEF X
  <2>3. w = [i \in 1..Operations |-> i - 1 + 1]
    BY <1>1, <1>2, RowsOfKind
  <2>4. w \in Seq(Nat) /\ Len(w) = Operations /\ \A i \in 1..Operations : w[i] = i
    BY <1>1, <2>3
  <2>5. QED
    BY <2>2, <2>4
<1>4. cursor.id = k
  <2>1. CASE k = 0
    BY <2>1 DEF Numbered, None
  <2>2. CASE k # 0
    BY <1>1, <1>3, <2>2 DEF Numbered
  <2>3. QED
    BY <2>1, <2>2
<1>5. /\ page.of = b /\ page.items = Ids(p) /\ page.total = Operations
      /\ page.next = IF k + Len(p) < Operations
                     THEN [of |-> b, values |-> << >>, id |-> k + Len(p)] ELSE None
  BY <1>3, <1>4 DEF PlanPage, PageAt
<1> HIDE DEF order, limit, p
<1>6. /\ Continues(Ids(p), w, k, limit) /\ Len(p) = Len(Ids(p))
      /\ k + Len(Ids(p)) <= Operations
      /\ k + Len(Ids(p)) < Operations => Len(Ids(p)) # 0
  <2>1. k \in 0..Len(order) /\ limit \in 1..100 /\ w = Ids(order)
        /\ p = PageAt(order, limit, k)
    BY <1>3 DEF order, limit, p
  <2>2. order \in Seq([id : Nat]) /\ w \in Seq(Nat) /\ Len(w) = Operations
    BY <1>3
  <2> DEFINE X == [id : Nat]
  <2> HIDE DEF X
  <2>3. order \in Seq(X)
    BY <2>2 DEF X
  <2>4. CutAt(p, order, w, k, limit)
    BY <2>1, <2>2, <2>3, OffsetRows
  <2>5. QED
    BY <2>2, <2>4 DEF CutAt
<1>7. b.kind \in Kinds
  BY DEF Binding, Kinds, OfSnapshots, Inspected
<1> HIDE DEF b
<1>8. [of |-> b, values |-> << >>, id |-> k + Len(p)] # None
  BY <1>7, CursorIsSome
<1>9. Len(Ids(p)) \in Nat
  BY <1>6 DEF Continues
<1>10. CASE k + Len(p) < Operations
  <2>1. Ids(p)[Len(Ids(p))] = k + Len(p)
    <3>1. Len(p) \in 1..Len(Ids(p)) /\ k + Len(p) \in 1..Operations
      BY <1>1, <1>6, <1>9, <1>10
    <3>2. QED
      BY <1>3, <1>6, <3>1 DEF Continues
  <2>2. page.next = [of |-> b, values |-> << >>, id |-> k + Len(p)]
    BY <1>5, <1>10
  <2>3. k + Len(Ids(p)) # Operations /\ Len(Ids(p)) # 0
    BY <1>1, <1>6, <1>10
  <2>4. QED
    BY <1>1, <1>3, <1>5, <1>6, <1>8, <2>1, <2>2, <2>3 DEF limit, b, Tells, NextIsLast
<1>11. CASE ~(k + Len(p) < Operations)
  <2>1. page.next = None
    BY <1>5, <1>11
  <2>2. k + Len(Ids(p)) = Operations
    BY <1>1, <1>6, <1>9, <1>11
  <2>3. QED
    BY <1>3, <1>5, <1>6, <2>1, <2>2 DEF limit, b, Tells, NextIsLast
<1>12. QED
  BY <1>10, <1>11

-----------------------------------------------------------------------------
(* Candidates, the latest discovery first.                                  *)

Later == {p \in Nat \X Nat : \/ found[p[1]] > found[p[2]]
                             \/ found[p[1]] = found[p[2]] /\ p[1] < p[2]}

(* The candidates are listed once each, in that order.                      *)
LEMMA CandidatesListed ==
    ASSUME found \in [Found -> Nat]
    PROVE  /\ IdsOf(Candidates) \subseteq Nat /\ IsFiniteSet(IdsOf(Candidates))
           /\ StrictOrder(Later, IdsOf(Candidates))
           /\ ListsRows(Sorted(Candidates, LaterBefore), Candidates, Later)
<1> DEFINE F == {r \in Found : found[r] # 0}
           row(r) == [id |-> r, at |-> found[r]]
           X == Candidates
<1>1. IsFiniteSet(Found) /\ Found \subseteq Nat
  BY QueriesAssumption
<1>2. F \subseteq Found /\ IsFiniteSet(F)
  <2>1. F \in SUBSET Found
    OBVIOUS
  <2> HIDE DEF F
  <2>2. QED
    BY <1>1, <2>1, FS_Subset
<1>3. X = {row(r) : r \in F}
  BY DEF Candidates
<1>4. IsFiniteSet(X)
  <2> DEFINE g == [r \in F |-> row(r)]
  <2>1. g \in Surjection(F, X)
    BY <1>3 DEF Surjection
  <2> HIDE DEF g, F, X
  <2>2. QED
    BY <1>2, <2>1, FS_Surjection
<1>5. \A r : row(r).id = r /\ row(r).at = found[r]
  OBVIOUS
<1> HIDE DEF row, X, F
<1>6. Distinct(X)
  BY <1>3, <1>5 DEF Distinct
<1>7. IdsOf(X) = F
  <2>1. IdsOf(X) = {row(r).id : r \in F}
    BY <1>3 DEF IdsOf
  <2>2. QED
    BY <1>5, <2>1
<1>8. \A r \in F : r \in Nat /\ found[r] \in Nat
  BY <1>1, <1>2
<1>9. \A i, j \in F : <<i, j>> \in Later <=> \/ found[i] > found[j]
                                             \/ found[i] = found[j] /\ i < j
  BY <1>8 DEF Later
<1>10. StrictOrder(Later, F)
  BY <1>8, <1>9 DEF StrictOrder
<1>11. \A x, y \in X : LaterBefore(x, y) <=> <<x.id, y.id>> \in Later
  BY <1>3, <1>5, <1>9 DEF LaterBefore
<1>12. StrictOrder(Later, IdsOf(X))
  BY <1>7, <1>10
<1>13. ListsRows(Sorted(X, LaterBefore), X, Later)
  BY <1>4, <1>6, <1>11, <1>12, SortedByTime
<1>14. IdsOf(X) \subseteq Nat /\ IsFiniteSet(IdsOf(X))
  BY <1>2, <1>7, <1>8
<1>15. QED
  BY <1>12, <1>13, <1>14 DEF X

(* A page of the candidates, while nothing is discovered.                   *)
LEMMA CandidatePages ==
    ASSUME found \in [Found -> Nat],
           NEW a, a.limit \in 1..100, a.kind = "candidates",
           NEW w, w = Ids(Sorted(Candidates, LaterBefore)), NEW k \in 0..Len(w),
           NEW cursor, cursor.id = k,
           NEW page, page = CandidatePage(a, cursor, CandidateRows(a, cursor))
    PROVE  /\ w \in Seq(Nat) /\ Tells(page, Binding(a), w, k, Len(w), a.limit)
           /\ page.next # None => page.next.id = k + Len(page.items)
<1> DEFINE b == Binding(a)
           order == Sorted(Candidates, LaterBefore)
           limit == a.limit
           p == PageAt(order, limit, k)
           X == Candidates
           M == IdsOf(X)
<1>1. M \subseteq Nat /\ ListsRows(order, X, Later)
  BY CandidatesListed
<1>2. order \in Seq(X) /\ Len(order) = Cardinality(M) /\ Len(order) \in Nat
      /\ IsListing(w, M, Later) /\ Len(order) = Cardinality(X)
  <2> HIDE DEF order, X, M
  <2>1. order \in Seq(X) /\ Len(order) = Cardinality(X) /\ Cardinality(M) = Cardinality(X)
        /\ IsListing(Ids(order), M, Later)
    BY <1>1 DEF ListsRows, M
  <2>2. QED
    BY <2>1 DEF order
<1>3. w \in Seq(Nat) /\ Len(w) = Len(order)
  <2> HIDE DEF order, X, M
  <2>1. w \in [1..Cardinality(M) -> M]
    BY <1>2 DEF IsListing
  <2> DEFINE n == Cardinality(M)
  <2> HIDE DEF n
  <2>2. w \in [1..n -> Nat] /\ n \in Nat
    BY <1>1, <1>2, <2>1 DEF n
  <2>3. w \in Seq(Nat) /\ Len(w) = n
    BY <2>2
  <2>4. QED
    BY <1>2, <2>3 DEF n
<1>4. /\ page.of = b /\ page.items = Ids(p) /\ page.total = Cardinality(X)
      /\ page.next = IF k + Len(Ids(p)) < Cardinality(X)
                     THEN [of |-> b, values |-> << >>, id |-> k + Len(Ids(p))] ELSE None
  BY DEF CandidatePage, CandidateRows, PageAt
<1>5. w = Ids(order)
  OBVIOUS
<1> HIDE DEF order, limit, p, X, M
<1>6. CutAt(p, order, w, k, limit)
  <2>1. k \in 0..Len(order) /\ limit \in 1..100 /\ p = PageAt(order, limit, k)
    BY <1>3 DEF limit, p
  <2>2. QED
    BY <1>2, <1>3, <1>5, <2>1, OffsetRows
<1>7. b.kind \in Kinds
  BY DEF Binding, Kinds, OfSnapshots, Inspected
<1> HIDE DEF b
<1> DEFINE items == Ids(p)
           n == Len(items)
<1>8. [of |-> b, values |-> << >>, id |-> k + n] # None
  BY <1>7, CursorIsSome
<1>9. /\ Continues(items, w, k, limit) /\ n = Len(p)
      /\ k + n <= Len(w) /\ (k + n < Len(w) => n # 0)
      /\ n \in Nat /\ Len(w) \in Nat /\ k \in Nat
  BY <1>2, <1>3, <1>6 DEF CutAt, Continues
<1>13. /\ page.items = items /\ page.total = Len(w)
       /\ page.next = IF k + n < Len(w) THEN [of |-> b, values |-> << >>, id |-> k + n]
                      ELSE None
  BY <1>2, <1>3, <1>4
<1> HIDE DEF items
<1>10. CASE k + n < Len(w)
  <2>1. page.next = [of |-> b, values |-> << >>, id |-> k + n]
    BY <1>10, <1>13
  <2>2. n # 0 /\ k + n # Len(w)
    BY <1>9, <1>10
  <2>3. QED
    BY <1>3, <1>4, <1>8, <1>9, <1>13, <2>1, <2>2 DEF limit, b, Tells
<1>11. CASE ~(k + n < Len(w))
  <2>1. page.next = None
    BY <1>11, <1>13
  <2>2. k + n = Len(w)
    BY <1>9, <1>11
  <2>3. QED
    BY <1>3, <1>4, <1>9, <1>13, <2>1, <2>2 DEF limit, b, Tells
<1>12. QED
  BY <1>10, <1>11

-----------------------------------------------------------------------------
(* Chains and their pages.                                                  *)

\* The chain c has read items and then the page.
Extends(c, of, items, page) ==
    /\ c.of = of /\ c.total = page.total /\ c.next = page.next
    /\ c.items = items \o page.items

(* A page noted after what was read makes a longer beginning.               *)
LEMMA NotedPage ==
    ASSUME NEW w \in Seq(Nat), NEW n \in Nat, n <= Len(w), NEW of, NEW page, NEW k,
           NEW limit, Tells(page, of, w, k, n, limit),
           NEW items, Starts(items, w), Len(items) = k,
           NEW c, Extends(c, of, items, page)
    PROVE  /\ Follows(c, w, n)
           /\ Len(c.items) = k + Len(page.items)
           /\ Len(page.items) # 0 => c.items[Len(c.items)] = page.items[Len(page.items)]
<1> DEFINE p == page.items
           q == c.items
<1> HIDE DEF p, q
<1>1. /\ p \in Seq(Nat) /\ k + Len(p) <= n
      /\ \A i \in 1..Len(p) : p[i] = w[Len(items) + i]
  BY DEF Tells, Continues, p
<1>2. Len(items) \in Nat /\ Len(p) \in Nat /\ Len(w) \in Nat /\ q = items \o p
  BY <1>1 DEF Starts, Extends, p, q
<1>3. Len(items) + Len(p) <= Len(w)
  BY <1>1, <1>2
<1>4. /\ Starts(q, w) /\ Len(q) = Len(items) + Len(p)
      /\ Len(p) # 0 => q[Len(items) + Len(p)] = p[Len(p)]
  BY <1>1, <1>2, <1>3, StartsLonger
<1>5. /\ c.next = None <=> k + Len(p) = n
      /\ c.next # None => Len(p) # 0 /\ c.next.of = of
      /\ c.total = n
  BY DEF Tells, Extends, p
<1>6. Follows(c, w, n)
  <2>1. Len(q) = k + Len(p) /\ Len(q) <= n
    BY <1>1, <1>4
  <2>2. c.next # None => Len(q) # 0
    BY <1>2, <1>5, <2>1
  <2>3. QED
    BY <1>4, <1>5, <2>1, <2>2 DEF Follows, Extends, q
<1>7. QED
  BY <1>4, <1>6 DEF p, q

(* Nothing has been read before the first page.                             *)
LEMMA NothingRead ==
    ASSUME NEW w \in Seq(Nat)
    PROVE  /\ Starts(<< >>, w) /\ Len(<< >>) = 0
           /\ \A p \in Seq(Nat) : << >> \o p = p
<1>1. Len(w) \in Nat
  OBVIOUS
<1>2. << >> \in Seq(Nat) /\ Len(<< >>) = 0
  OBVIOUS
<1>3. \A p \in Seq(Nat) : << >> \o p = p
  OBVIOUS
<1>4. QED
  BY <1>1, <1>2, <1>3 DEF Starts

(* The kinds of requests are told apart.                                    *)
LEMMA BindingKind ==
    ASSUME NEW a, a.kind \in Kinds
    PROVE  /\ Binding(a).kind = a.kind
           /\ a.kind \notin OfSnapshots => Binding(a).filter = << >>
<1>1. CASE a.kind \in OfSnapshots
  BY <1>1 DEF Binding
<1>2. CASE a.kind \in Inspected
  <2>1. a.kind \notin OfSnapshots
    BY <1>2 DEF OfSnapshots, Inspected
  <2>2. QED
    BY <1>2, <2>1 DEF Binding
<1>3. CASE a.kind \notin OfSnapshots /\ a.kind \notin Inspected
  BY <1>3 DEF Binding
<1>4. QED
  BY <1>1, <1>2, <1>3

(* A filter whose relative times have been resolved.                        *)
LEMMA ResolvedFilter ==
    ASSUME NEW filter, Nodes(filter), Fit(filter), NEW t \in Nat
    PROVE  Nodes(Resolve(filter, t)) /\ Fit(Resolve(filter, t))
<1> DEFINE n == Len(filter)
           g == Resolve(filter, t)
           Past2(m) == {t - x : x \in m.value}
           R(m) == IF m.ago THEN [m EXCEPT !.ago = FALSE, !.value = Past2(m)] ELSE m
<1>1. n \in Nat /\ DOMAIN filter = 1..n
  BY DEF Nodes
<1>2. g = [i \in 1..n |-> R(filter[i])]
  BY <1>1 DEF Resolve
<1>3. Len(g) = n /\ DOMAIN g = 1..n /\ g = [i \in 1..n |-> g[i]]
      /\ \A i \in 1..n : g[i] = R(filter[i])
  <2> HIDE DEF g, R, n
  <2>1. QED
    BY <1>1, <1>2
<1>4. ASSUME NEW i \in 1..n PROVE Node(g[i], i) /\ NodeFits(g[i])
  <2> DEFINE m == filter[i]
  <2> HIDE DEF m
  <2>1. Node(m, i) /\ NodeFits(m)
    BY <1>1 DEF Nodes, Fit, m
  <2>2. g[i] = R(m)
    BY <1>3 DEF m
  <2>3. CASE ~m.ago
    BY <2>1, <2>2, <2>3
  <2>4. CASE m.ago
    <3> DEFINE V == Past2(m)
               r == [m EXCEPT !.ago = FALSE, !.value = V]
    <3>1. g[i] = r
      BY <2>2, <2>4
    <3>2. /\ DOMAIN r = DOMAIN m /\ r.op = m.op /\ r.field = m.field /\ r.value = V
          /\ r.of = m.of /\ r.ago = FALSE
      <4>1. DOMAIN m = {"op", "field", "value", "of", "ago"}
        BY <2>1 DEF Node
      <4> HIDE DEF V
      <4>2. QED
        BY <4>1
    <3>3. m.value \subseteq Int /\ IsFiniteSet(m.value)
      BY <2>1 DEF Node
    <3>4. V \subseteq Int /\ IsFiniteSet(V) /\ Cardinality(V) = Cardinality(m.value)
      <4> DEFINE h == [x \in m.value |-> t - x]
      <4>1. V \subseteq Int
        BY <3>3
      <4>2. h \in Bijection(m.value, V)
        <5>1. h \in [m.value -> V] /\ \A y \in V : \E x \in m.value : h[x] = y
          OBVIOUS
        <5>2. \A x, y \in m.value : h[x] = h[y] => x = y
          BY <3>3
        <5>3. QED
          BY <5>1, <5>2 DEF Bijection, Injection, IsInjective, Surjection
      <4> HIDE DEF h, V
      <4>3. ExistsBijection(m.value, V)
        BY <4>2 DEF ExistsBijection
      <4>4. QED
        BY <3>3, <4>1, <4>3, FS_Bijection
    <3> HIDE DEF V, r
    <3>5. m.op \notin Composites => m.field = "pushed_at"
      BY <2>1, <2>4 DEF NodeFits, IsLeaf
    <3>6. Node(r, i)
      BY <2>1, <3>2, <3>4, <3>5 DEF Node
    <3>7. NodeFits(r)
      BY <2>1, <3>2, <3>4 DEF NodeFits, IsLeaf
    <3>8. QED
      BY <3>1, <3>6, <3>7
  <2>5. QED
    BY <2>3, <2>4
<1>5. QED
  <2> HIDE DEF g, n, R
  <2>1. Len(g) \in Nat /\ g = [i \in 1..Len(g) |-> g[i]]
    BY <1>1, <1>3
  <2>2. \A i \in DOMAIN g : Node(g[i], i) /\ NodeFits(g[i])
    BY <1>3, <1>4
  <2>3. Nodes(g) /\ Fit(g)
    BY <2>1, <2>2 DEF Nodes, Fit
  <2>4. QED
    BY <2>3 DEF g

BindingOf(a, snapshot, filter) ==
    [kind |-> a.kind, snapshot |-> snapshot, filter |-> filter,
     sort |-> IF a.kind = "repositories" THEN Normalized(a.sort) ELSE << >>,
     selector |-> a.selector]

(* The binding of a request for a snapshot.                                 *)
LEMMA BindingOfSnapshot ==
    ASSUME NEW a, a.kind \in OfSnapshots
    PROVE  /\ Binding(a) = BindingOf(a, CHOOSE i \in SnapshotFor(a) : TRUE,
                                     Resolve(a.filter, now))
           /\ Binding(a)' = BindingOf(a, CHOOSE i \in SnapshotFor(a)' : TRUE,
                                      Resolve(a.filter, now'))
<1>1. a.kind \notin Inspected
  BY DEF OfSnapshots, Inspected
<1>2. Binding(a) = BindingOf(a, CHOOSE i \in SnapshotFor(a) : TRUE, Resolve(a.filter, now))
  BY <1>1, Zenon DEF Binding, BindingOf
<1>3. Binding(a)' = BindingOf(a, CHOOSE i \in SnapshotFor(a)' : TRUE, Resolve(a.filter, now'))
  BY <1>1, Zenon DEF Binding, BindingOf
<1>4. QED
  BY <1>2, <1>3

(* A snapshot that is found for a request answers it.                       *)
LEMMA BindingIsBound ==
    ASSUME StateInv, NEW a \in Requests, a.kind \in OfSnapshots, NEW cursor,
           SnapshotAnswers(a, cursor), NEW b, b = Binding(a),
           NEW s, s = snapshots[b.snapshot]
    PROVE  b.snapshot \in DOMAIN snapshots /\ Bound(b, s)
<1>1. Request(a) /\ now \in Nat /\ snapshots \in Seq(Collected)
  BY QueriesAssumption DEF StateInv
<1>2. /\ b.kind = a.kind /\ b.snapshot = (CHOOSE i \in SnapshotFor(a) : TRUE)
      /\ b.filter = Resolve(a.filter, now) /\ b.selector = a.selector
      /\ b.sort = IF a.kind = "repositories" THEN Normalized(a.sort) ELSE << >>
  <2> DEFINE i == CHOOSE i \in SnapshotFor(a) : TRUE
             f == Resolve(a.filter, now)
  <2>1. b = BindingOf(a, i, f)
    BY BindingOfSnapshot
  <2> HIDE DEF i, f
  <2>2. /\ b.kind = a.kind /\ b.snapshot = i /\ b.filter = f /\ b.selector = a.selector
        /\ b.sort = IF a.kind = "repositories" THEN Normalized(a.sort) ELSE << >>
    BY <2>1 DEF BindingOf
  <2>3. QED
    BY <2>2 DEF i, f
<1>3. /\ SnapshotFor(a) # {} /\ IsFilter(a.filter)
      /\ (b.kind # "repositories" \/ RequiresListCoverage(b.filter)) => s.covered
  BY DEF SnapshotAnswers
<1>4. b.snapshot \in SnapshotFor(a) /\ SnapshotFor(a) \subseteq DOMAIN snapshots
  BY <1>2, <1>3 DEF SnapshotFor, Own
<1>5. s \in Collected
  BY <1>1, <1>4
<1>6. Snapshot(s)
  BY <1>5, QueriesAssumption
<1>7. Nodes(b.filter) /\ Fit(b.filter)
  <2>1. Nodes(a.filter) /\ Fit(a.filter)
    BY <1>1, <1>3 DEF Request, Nodes, Fit, IsFilter
  <2>2. QED
    BY <1>1, <1>2, <2>1, ResolvedFilter
<1>8. b.sort \in Seq(SortTerm)
  <2>1. a.sort \in Seq(SortTerm)
    BY <1>1 DEF Request
  <2>2. << >> \in Seq(SortTerm)
    OBVIOUS
  <2>3. QED
    BY <1>2, <2>1, <2>2, NormalizedType
<1>9. QED
  BY <1>1, <1>2, <1>3, <1>4, <1>6, <1>7, <1>8 DEF Bound, Request

\* Snapshots are only added.
Grown == \A i \in DOMAIN snapshots : /\ i \in DOMAIN snapshots'
                                     /\ snapshots'[i] = snapshots[i]

(* What is pinned is bound to the same snapshot and the same filter at any  *)
(* later time.                                                              *)
LEMMA PinnedBinding ==
    ASSUME StateInv, Grown, NEW a \in Requests, Pinned(a),
           a.kind \in OfSnapshots => SnapshotFor(a) # {}
    PROVE  /\ Binding(a)' = Binding(a)
           /\ a.kind \in OfSnapshots => SnapshotFor(a)' # {}
<1>1. Request(a)
  BY QueriesAssumption
<1>2. CASE a.kind \in OfSnapshots
  <2>1. a.snapshot # 0 /\ \A i \in DOMAIN a.filter : ~a.filter[i].ago
    BY <1>2 DEF Pinned
  <2>2. SnapshotFor(a) = Own \cap {a.snapshot} /\ SnapshotFor(a)' = Own' \cap {a.snapshot}
    BY <2>1 DEF SnapshotFor
  <2>3. a.snapshot \in Own /\ a.snapshot \in Own'
    BY <1>2, <2>2 DEF Own, Grown
  <2>4. SnapshotFor(a) = {a.snapshot} /\ SnapshotFor(a)' = {a.snapshot}
    BY <2>2, <2>3
  <2>5. Resolve(a.filter, now) = a.filter /\ Resolve(a.filter, now)' = a.filter
    <3>1. \A t : Resolve(a.filter, t) = [i \in DOMAIN a.filter |-> a.filter[i]]
      BY <2>1 DEF Resolve
    <3>2. a.filter = [i \in DOMAIN a.filter |-> a.filter[i]]
      BY <1>1 DEF Request
    <3>3. QED
      BY <3>1, <3>2
  <2>6. Binding(a) = BindingOf(a, CHOOSE i \in SnapshotFor(a) : TRUE, Resolve(a.filter, now))
        /\ Binding(a)' = BindingOf(a, CHOOSE i \in SnapshotFor(a)' : TRUE,
                                   Resolve(a.filter, now'))
    BY <1>2, BindingOfSnapshot
  <2>7. Resolve(a.filter, now') = Resolve(a.filter, now) /\ SnapshotFor(a)' = SnapshotFor(a)
    BY <2>4, <2>5
  <2>8. Binding(a)' = Binding(a)
    BY <2>6, <2>7, Zenon
  <2>9. QED
    BY <2>4, <2>8
<1>3. CASE a.kind \notin OfSnapshots
  <2>1. Binding(a)' = Binding(a)
    BY <1>3 DEF Binding
  <2>2. QED
    BY <1>3, <2>1
<1>4. QED
  BY <1>2, <1>3

\* The cursor of a request that is asked or continued.
Sent(cursor) == cursor = None \/ (chain.next # None /\ cursor = chain.next)

(* A chain that has a next cursor has begun.                                *)
LEMMA NextIsChained ==
    ASSUME chain.next # None
    PROVE  Chained
BY DEF Chained, NoChain

ChainShape ==
    chain = [of |-> chain.of, items |-> chain.items, total |-> chain.total,
             next |-> chain.next, asked |-> chain.asked, steady |-> chain.steady]

(* What noting a page does, whatever it is a page of.                       *)
LEMMA NoteShape ==
    ASSUME StateInv, ChainInv, NEW a \in Requests, NEW cursor, Sent(cursor), NEW page,
           Note(a, cursor, page), page.of = Binding(a),
           cursor # None => chain.of = page.of,
           a.kind \in OfSnapshots => SnapshotFor(a) # {} /\ IsFilter(a.filter),
           UNCHANGED <<snapshots, now>>
    PROVE  /\ Chained' /\ ChainShape' /\ StillPinned' /\ RefusedInv'
           /\ chain'.of = page.of /\ chain'.of.kind = a.kind /\ a.kind \in Kinds
           /\ chain'.total = page.total /\ chain'.next = page.next
           /\ chain'.items = IF cursor = None THEN page.items
                             ELSE chain.items \o page.items
           /\ chain'.asked \in Requests /\ chain'.steady \in BOOLEAN
           /\ cursor # None => Chained /\ chain'.steady = chain.steady
           /\ cursor = None => chain'.steady = reading.steady
<1>1. a.kind \in Kinds /\ page.of.kind = a.kind
  BY BindingKind, QueriesAssumption DEF Request
<1>2. refused' = "no" /\ RefusedInv'
  BY DEF Note, RefusedInv
<1>3. Grown /\ \A c \in Requests : Pinned(c)' <=> Pinned(c)
  BY DEF Grown, Pinned
<1>4. CASE cursor = None
  <2>1. chain' = [of |-> page.of, items |-> page.items, total |-> page.total,
                  next |-> page.next, asked |-> a, steady |-> reading.steady]
    BY <1>4 DEF Note
  <2>2. /\ chain'.of = page.of /\ chain'.items = page.items /\ chain'.total = page.total
        /\ chain'.next = page.next /\ chain'.asked = a
        /\ chain'.steady = reading.steady /\ reading.steady \in BOOLEAN
    BY <2>1 DEF StateInv
  <2>3. ChainShape'
    BY <2>1, <2>2 DEF ChainShape
  <2>4. Chained'
    <3>1. page.of.kind # "none"
      BY <1>1 DEF Kinds, OfSnapshots, Inspected
    <3>2. NoChain.of.kind = "none"
      BY DEF NoChain
    <3>3. chain' # NoChain
      BY <2>2, <3>1, <3>2
    <3>4. QED
      BY <3>3 DEF Chained, NoChain, None
  <2>5. StillPinned'
    <3>1. SUFFICES ASSUME Pinned(a)
                   PROVE  /\ chain'.of = Binding(a)'
                          /\ a.kind \in OfSnapshots => SnapshotFor(a)' # {} /\ IsFilter(a.filter)
      BY <1>3, <2>2 DEF StillPinned
    <3>2. Binding(a)' = Binding(a) /\ (a.kind \in OfSnapshots => SnapshotFor(a)' # {})
      BY <1>3, <3>1, PinnedBinding
    <3>3. QED
      BY <2>2, <3>2
  <2>6. QED
    BY <1>1, <1>2, <1>4, <2>2, <2>3, <2>4, <2>5
<1>5. CASE cursor # None
  <2>1. Chained /\ chain.next # None /\ cursor = chain.next
    BY <1>5, NextIsChained DEF Sent
  <2>2. ChainShape /\ chain.asked \in Requests /\ chain.steady \in BOOLEAN /\ StillPinned
    BY <2>1 DEF ChainInv, ChainShape
  <2>3. chain' = [chain EXCEPT !.items = @ \o page.items, !.total = page.total,
                               !.next = page.next]
    BY <1>5 DEF Note
  <2>4. chain' = [of |-> chain.of, items |-> chain.items \o page.items,
                  total |-> page.total, next |-> page.next, asked |-> chain.asked,
                  steady |-> chain.steady]
    BY <2>2, <2>3 DEF ChainShape
  <2>5. /\ chain'.of = chain.of /\ chain'.items = chain.items \o page.items
        /\ chain'.total = page.total /\ chain'.next = page.next
        /\ chain'.asked = chain.asked /\ chain'.steady = chain.steady
    BY <2>4
  <2>6. ChainShape'
    BY <2>4, <2>5 DEF ChainShape
  <2>7. Chained'
    <3>1. chain'.of.kind # "none"
      BY <1>1, <1>5, <2>5 DEF Kinds, OfSnapshots, Inspected
    <3>2. NoChain.of.kind = "none"
      BY DEF NoChain
    <3>3. chain' # NoChain
      BY <3>1, <3>2
    <3>4. QED
      BY <3>3 DEF Chained, NoChain, None
  <2>8. StillPinned'
    <3> DEFINE c == chain.asked
    <3>1. c \in Requests
      BY <2>2
    <3>2. PICK d \in Requests : d = c
      BY <3>1
    <3>3. SUFFICES ASSUME Pinned(d)
                   PROVE  /\ chain'.of = Binding(d)'
                          /\ d.kind \in OfSnapshots => SnapshotFor(d)' # {} /\ IsFilter(d.filter)
      BY <1>3, <2>5, <3>2 DEF StillPinned
    <3>4. /\ chain.of = Binding(d)
          /\ d.kind \in OfSnapshots => SnapshotFor(d) # {} /\ IsFilter(d.filter)
      BY <2>2, <3>2, <3>3 DEF StillPinned
    <3>5. Binding(d)' = Binding(d) /\ (d.kind \in OfSnapshots => SnapshotFor(d)' # {})
      BY <1>3, <3>3, <3>4, PinnedBinding
    <3>6. QED
      BY <2>5, <3>4, <3>5
  <2>9. QED
    BY <1>1, <1>2, <1>5, <2>1, <2>2, <2>5, <2>6, <2>7, <2>8
<1>6. QED
  BY <1>4, <1>5

(* The next cursor is bound to what the chain is of.                        *)
LEMMA NextIsOfChain ==
    ASSUME ChainInv, chain.next # None
    PROVE  Chained /\ chain.next.of = chain.of
<1>1. Chained
  BY NextIsChained
<1>2. chain.of.kind \in Kinds
  BY <1>1 DEF ChainInv
<1>3. CASE chain.of.kind \in OfSnapshots
  BY <1>1, <1>3 DEF ChainInv, SnapshotChain, Follows
<1>4. CASE chain.of.kind \in Inspected
  BY <1>1, <1>4 DEF ChainInv, InspectedChain, Follows
<1>5. CASE chain.of.kind = "candidates"
  BY <1>1, <1>5 DEF ChainInv, CandidateChain
<1>6. QED
  BY <1>1, <1>2, <1>3, <1>4, <1>5 DEF Kinds

(* A request for a page of a snapshot.                                      *)
LEMMA SnapshotQueried ==
    ASSUME StateInv, ChainInv, NEW a \in Requests, a.kind \in OfSnapshots,
           NEW cursor, Sent(cursor), SnapshotAnswers(a, cursor),
           Note(a, cursor, SnapshotPage(a, cursor)),
           UNCHANGED <<snapshots, now, attempts, found>>
    PROVE  ChainInv' /\ RefusedInv'
<1> DEFINE b == Binding(a)
           s == snapshots[b.snapshot]
           w == Result(s, b)
           page == SnapshotPage(a, cursor)
           k == IF cursor = None THEN 0 ELSE Len(chain.items)
           items == IF cursor = None THEN << >> ELSE chain.items
<1>1. /\ Request(a) /\ a.limit \in 1..100
      /\ SnapshotFor(a) # {} /\ IsFilter(a.filter)
      /\ cursor # None => cursor.of = b
  BY QueriesAssumption DEF Request, SnapshotAnswers, BoundTo
<1>2. b.snapshot \in DOMAIN snapshots /\ Bound(b, s)
  BY BindingIsBound
<1>3. Agree(s, b)
  BY <1>2, StatementsAgree
<1>4. w \in Seq(Nat)
  <2> HIDE DEF b, s, w
  <2>1. /\ IsFiniteSet(Members(s, b)) /\ Members(s, b) \subseteq Nat
        /\ IsListing(w, Members(s, b), Order(s, b))
    BY <1>3 DEF Agree, w
  <2> DEFINE n == Cardinality(Members(s, b))
  <2>2. n \in Nat /\ w \in [1..n -> Members(s, b)]
    BY <2>1, FS_CardinalityType DEF IsListing
  <2> HIDE DEF n
  <2>3. w \in [1..n -> Nat]
    BY <2>1, <2>2
  <2>4. QED
    BY <2>2, <2>3
<1>5. b.kind = a.kind /\ b.kind \in OfSnapshots
  BY BindingKind DEF Kinds
<1> HIDE DEF b, s, w, page
<1>6. ASSUME cursor # None
      PROVE  /\ chain.next # None /\ cursor = chain.next /\ chain.of = b
             /\ Starts(chain.items, w) /\ Len(chain.items) <= Len(w)
             /\ Len(chain.items) # 0
             /\ \E x \in Selected(s, b) : /\ x.id = w[Len(chain.items)]
                                          /\ cursor = Position(b, x)
  <2>1. chain.next # None /\ cursor = chain.next /\ Chained
    BY <1>6, NextIsChained DEF Sent
  <2>2. chain.of = chain.next.of
    BY <2>1, NextIsOfChain
  <2>3. chain.of = b
    BY <1>1, <1>6, <2>1, <2>2
  <2>4. SnapshotChain
    BY <1>5, <2>1, <2>3 DEF ChainInv
  <2>5. /\ Follows(chain, w, Len(w))
        /\ \E x \in Selected(s, b) : /\ x.id = chain.items[Len(chain.items)]
                                     /\ chain.next = Position(b, x)
    BY <2>1, <2>3, <2>4 DEF SnapshotChain, s, w
  <2>6. Starts(chain.items, w) /\ Len(chain.items) <= Len(w) /\ Len(chain.items) # 0
    BY <2>1, <2>5 DEF Follows
  <2>7. chain.items[Len(chain.items)] = w[Len(chain.items)]
    <3>1. Len(chain.items) \in 1..Len(chain.items)
      BY <2>6 DEF Starts
    <3>2. QED
      BY <2>6, <3>1 DEF Starts
  <2>8. QED
    BY <2>1, <2>3, <2>5, <2>6, <2>7
<1>7. k \in 0..Len(w) /\ Names(cursor, b, s, w, k) /\ Starts(items, w) /\ Len(items) = k
  <2>1. CASE cursor = None
    BY <1>4, <2>1, NothingRead DEF Names
  <2>2. CASE cursor # None
    <3>1. Len(chain.items) \in Nat /\ Len(w) \in Nat
      BY <1>6, <2>2 DEF Starts
    <3>2. QED
      BY <1>6, <2>2, <3>1 DEF Names
  <2>3. QED
    BY <2>1, <2>2
<1> HIDE DEF k, items
<1>8. /\ Tells(page, b, w, k, Len(w), a.limit)
      /\ NextNames(page, b, s)
  <2>1. page = SnapshotPage(a, cursor) /\ b = Binding(a) /\ s = snapshots[b.snapshot]
        /\ w = Result(s, b)
    BY DEF page, b, s, w
  <2>2. QED
    BY <1>1, <1>2, <1>7, <2>1, SnapshotPages
<1>9. /\ Chained' /\ ChainShape' /\ StillPinned' /\ RefusedInv'
      /\ chain'.of = page.of /\ chain'.of.kind = a.kind /\ a.kind \in Kinds
      /\ chain'.total = page.total /\ chain'.next = page.next
      /\ chain'.items = IF cursor = None THEN page.items ELSE chain.items \o page.items
      /\ chain'.asked \in Requests /\ chain'.steady \in BOOLEAN
  <2>1. Note(a, cursor, page) /\ page.of = Binding(a) /\ (cursor # None => chain.of = page.of)
    BY <1>6, <1>8 DEF Tells, page, b
  <2>2. QED
    BY <1>1, <2>1, NoteShape
<1>10. chain'.items = items \o page.items
  <2>1. page.items \in Seq(Nat)
    BY <1>8 DEF Tells, Continues
  <2>2. QED
    BY <1>4, <1>9, <2>1, NothingRead DEF items
<1>11. /\ Follows(chain', w, Len(w))
       /\ Len(page.items) # 0 =>
             chain'.items[Len(chain'.items)] = page.items[Len(page.items)]
  <2>1. Len(w) \in Nat /\ chain'.of = b
    BY <1>4, <1>8, <1>9 DEF Tells
  <2>2. Extends(chain', b, items, page)
    BY <1>9, <1>10, <2>1 DEF Extends
  <2> DEFINE c == chain'
             n == Len(w)
             limit == a.limit
  <2> HIDE DEF c, n, limit
  <2>3. Extends(c, b, items, page) /\ Tells(page, b, w, k, n, limit)
        /\ n \in Nat /\ n <= Len(w)
    BY <1>8, <2>1, <2>2 DEF c, n, limit
  <2>4. /\ Follows(c, w, n)
        /\ Len(page.items) # 0 => c.items[Len(c.items)] = page.items[Len(page.items)]
    BY <1>4, <1>7, <2>3, NotedPage
  <2>5. QED
    BY <2>4 DEF c, n
<1>12. SnapshotChain'
  <2>1. chain'.of = b /\ snapshots' = snapshots
    BY <1>8, <1>9 DEF Tells
  <2>2. chain'.next # None =>
           \E y \in Selected(s, b) : /\ y.id = chain'.items[Len(chain'.items)]
                                     /\ chain'.next = Position(b, y)
    BY <1>8, <1>9, <1>11 DEF Tells, NextNames
  <2>3. QED
    BY <1>2, <1>11, <2>1, <2>2 DEF SnapshotChain, s, w
<1>13. chain'.of.kind \notin Inspected /\ chain'.of.kind # "candidates"
  BY <1>9 DEF OfSnapshots, Inspected
<1>14. QED
  BY <1>9, <1>12, <1>13 DEF ChainInv, ChainShape

(* The whole of a plan, a run or a history, and where a cursor stands in it. *)
LEMMA InspectedCursor ==
    ASSUME StateInv, ChainInv, NEW a \in Requests, a.kind \in Inspected,
           NEW cursor, Sent(cursor), cursor # None => cursor.of = Binding(a),
           NEW w, w = Whole(Binding(a)),
           NEW items, items = IF cursor = None THEN << >> ELSE chain.items
    PROVE  /\ w \in Seq(Nat) /\ Starts(items, w) /\ Len(items) \in 0..Len(w)
           /\ Numbered(cursor, w, Len(items))
           /\ cursor # None => chain.of = Binding(a)
           /\ Len(w) = IF a.kind = "history" THEN attempts ELSE Operations
           /\ w = Ids(Rows(a.kind, Len(w)))
           /\ w = Numbering(Len(w), FirstBoundary(a.kind))
<1> DEFINE b == Binding(a)
           n == IF a.kind = "history" THEN attempts ELSE Operations
           f == FirstBoundary(a.kind)
<1>1. n \in Nat
  BY QueriesAssumption DEF StateInv
<1>2. b.kind = a.kind /\ b.kind \notin OfSnapshots
  <2>1. a.kind \in Kinds /\ a.kind \notin OfSnapshots
    BY DEF Kinds, OfSnapshots, Inspected
  <2>2. QED
    BY <2>1, BindingKind
<1> HIDE DEF b
<1>3. w = Ids(Rows(a.kind, n))
  BY <1>2 DEF Whole, b
<1>4. f \in {0, 1} /\ w = Numbering(n, f)
  BY <1>1, <1>3, RowsOfKind DEF Numbering
<1> HIDE DEF n, f
<1>5. w \in Seq(Nat) /\ Len(w) = n
  BY <1>1, <1>4, NumbersListed
<1>6. CASE cursor = None
  <2>1. items = << >>
    BY <1>6
  <2>2. Starts(items, w) /\ Len(items) = 0
    BY <1>5, <2>1, NothingRead
  <2>3. Numbered(cursor, w, Len(items)) /\ Len(items) \in 0..Len(w)
    BY <1>1, <1>5, <1>6, <2>2 DEF Numbered
  <2>4. QED
    BY <1>3, <1>4, <1>5, <1>6, <2>2, <2>3 DEF n, f
<1>7. CASE cursor # None
  <2>1. chain.next # None /\ cursor = chain.next
    BY <1>7 DEF Sent
  <2>2. Chained /\ chain.of = b
    BY <1>7, <2>1, NextIsOfChain DEF b
  <2>3. InspectedChain
    BY <1>2, <2>2 DEF ChainInv
  <2>4. Follows(chain, w, chain.total) /\ cursor.id = chain.items[Len(chain.items)]
    BY <2>1, <2>2, <2>3 DEF InspectedChain, b
  <2>5. items = chain.items
    BY <1>7
  <2>6. Starts(items, w) /\ Len(items) # 0 /\ cursor.id = items[Len(items)]
    BY <2>1, <2>4, <2>5 DEF Follows
  <2>7. Len(items) \in Nat /\ Len(items) <= Len(w)
    BY <2>6 DEF Starts
  <2>8. items[Len(items)] = w[Len(items)]
    <3>1. Len(items) \in 1..Len(items)
      BY <2>6, <2>7
    <3>2. QED
      BY <2>6, <3>1 DEF Starts
  <2>9. Numbered(cursor, w, Len(items)) /\ Len(items) \in 0..Len(w)
    BY <1>1, <1>5, <1>7, <2>6, <2>7, <2>8 DEF Numbered
  <2>10. QED
    BY <1>3, <1>4, <1>5, <2>2, <2>6, <2>9 DEF n, f, b
<1>8. QED
  BY <1>6, <1>7

(* A page of a plan, a run or a history is noted.                           *)
LEMMA InspectedNoted ==
    ASSUME StateInv, ChainInv, NEW a \in Requests, a.kind \in Inspected,
           NEW cursor, Sent(cursor), cursor # None => cursor.of = Binding(a),
           NEW w, w = Whole(Binding(a)),
           NEW items, items = IF cursor = None THEN << >> ELSE chain.items,
           NEW n \in Nat, n <= Len(w), a.kind # "history" => n = Operations,
           NEW page, Tells(page, Binding(a), w, Len(items), n, a.limit),
           NextIsLast(page),
           Note(a, cursor, page), UNCHANGED <<snapshots, now, attempts, found>>
    PROVE  ChainInv' /\ RefusedInv'
<1> DEFINE b == Binding(a)
<1>1. /\ w \in Seq(Nat) /\ Starts(items, w) /\ Len(items) \in 0..Len(w)
      /\ cursor # None => chain.of = b
  BY InspectedCursor
<1>2. /\ a.kind \in Kinds /\ a.kind \notin OfSnapshots /\ b.kind = a.kind
      /\ a.kind # "candidates"
  <2>1. a.kind \in Kinds /\ a.kind \notin OfSnapshots /\ a.kind # "candidates"
    BY DEF Kinds, OfSnapshots, Inspected
  <2>2. QED
    BY <2>1, BindingKind
<1> HIDE DEF b
<1>3. /\ Chained' /\ ChainShape' /\ StillPinned' /\ RefusedInv'
      /\ chain'.of = page.of /\ chain'.of.kind = a.kind
      /\ chain'.total = page.total /\ chain'.next = page.next
      /\ chain'.items = IF cursor = None THEN page.items ELSE chain.items \o page.items
      /\ chain'.asked \in Requests /\ chain'.steady \in BOOLEAN
  <2>1. page.of = Binding(a) /\ (cursor # None => chain.of = page.of)
    BY <1>1 DEF Tells, b
  <2>2. QED
    BY <1>2, <2>1, NoteShape
<1> DEFINE c == chain'
           k == Len(items)
           limit == a.limit
<1> HIDE DEF c, k, limit
<1>4. Tells(page, b, w, k, n, limit)
  BY DEF b, k, limit
<1>5. Extends(c, b, items, page)
  <2>1. page.items \in Seq(Nat)
    BY <1>4 DEF Tells, Continues
  <2>2. c.items = items \o page.items
    BY <1>1, <1>3, <2>1, NothingRead DEF c
  <2>3. QED
    BY <1>3, <1>4, <2>2 DEF Extends, Tells, c
<1>6. /\ Follows(c, w, n)
      /\ Len(page.items) # 0 => c.items[Len(c.items)] = page.items[Len(page.items)]
  BY <1>1, <1>4, <1>5, NotedPage DEF k
<1>7. InspectedChain'
  <2>1. c.of = b /\ c.total = n /\ c.next = page.next
    BY <1>4, <1>5 DEF Extends, Tells
  <2>2. Whole(chain.of)' = w
    <3>0. chain'.of = b
      BY <2>1 DEF c
    <3>1. Whole(b) = Ids(Rows(b.kind, IF b.kind = "history" THEN attempts ELSE Operations))
      BY <1>2 DEF Whole
    <3>2. Whole(chain.of)' = Ids(Rows(b.kind, IF b.kind = "history" THEN attempts ELSE Operations))
      BY <1>2, <3>0 DEF Whole
    <3>3. QED
      BY <3>1, <3>2 DEF b
  <2>3. c.next # None => c.next.id = c.items[Len(c.items)]
    BY <1>4, <1>6, <2>1 DEF Tells, NextIsLast
  <2>4. Follows(c, w, c.total) /\ (c.of.kind # "history" => c.total = Operations)
    BY <1>2, <1>6, <2>1
  <2>5. /\ Follows(chain', Whole(chain.of)', chain'.total)
        /\ chain'.of.kind # "history" => chain'.total = Operations
        /\ chain'.next # None => chain'.next.id = chain'.items[Len(chain'.items)]
    BY <2>2, <2>3, <2>4 DEF c
  <2>6. QED
    BY <2>5 DEF InspectedChain
<1>8. QED
  BY <1>2, <1>3, <1>7 DEF ChainInv, ChainShape

(* A page of a plan.                                                        *)
LEMMA PlanInspected ==
    ASSUME StateInv, ChainInv, NEW a \in Requests, a.kind = "plan",
           NEW cursor, Sent(cursor), cursor # None => cursor.of = Binding(a),
           Note(a, cursor, PlanPage(a, cursor)),
           UNCHANGED <<snapshots, now, attempts, found>>
    PROVE  ChainInv' /\ RefusedInv'
<1> DEFINE b == Binding(a)
           w == Whole(b)
           items == IF cursor = None THEN << >> ELSE chain.items
           page == PlanPage(a, cursor)
           k == Len(items)
           limit == a.limit
<1>1. limit \in 1..100 /\ a.kind \in Inspected /\ Operations \in Nat
  BY QueriesAssumption DEF Request, Inspected
<1>2. /\ w \in Seq(Nat) /\ k \in 0..Len(w) /\ Numbered(cursor, w, k)
      /\ Len(w) = Operations /\ w = Ids(Rows("plan", Operations))
  <2> HIDE DEF b, w, items
  <2>1. w = Whole(Binding(a)) /\ items = IF cursor = None THEN << >> ELSE chain.items
    BY DEF b, w, items
  <2>2. /\ w \in Seq(Nat) /\ Len(items) \in 0..Len(w) /\ Numbered(cursor, w, Len(items))
        /\ Len(w) = (IF a.kind = "history" THEN attempts ELSE Operations)
        /\ w = Ids(Rows(a.kind, Len(w)))
    BY <1>1, <2>1, InspectedCursor
  <2>3. QED
    BY <2>2
<1> HIDE DEF b, w, items, page, k
<1>3. /\ Tells(page, b, w, k, Operations, limit)
      /\ NextIsLast(page)
  <2>1. k \in 0..Operations /\ page = PlanPage(a, cursor)
    BY <1>2 DEF page
  <2>2. Tells(page, Binding(a), w, k, Operations, a.limit) /\ NextIsLast(page)
    BY <1>1, <1>2, <2>1, PlanPages
  <2>3. QED
    BY <2>2 DEF b, limit
<1>4. /\ Note(a, cursor, page) /\ w = Whole(Binding(a))
      /\ items = IF cursor = None THEN << >> ELSE chain.items
      /\ Operations <= Len(w)
      /\ Tells(page, Binding(a), w, Len(items), Operations, a.limit)
  BY <1>1, <1>2, <1>3 DEF page, w, b, items, k
<1>5. QED
  BY <1>1, <1>3, <1>4, InspectedNoted

(* A page of a run or of a history, whose rows have been counted.           *)
LEMMA StoredRead ==
    ASSUME StateInv, ChainInv, NEW a \in Requests, a.kind \in {"run", "history"},
           NEW cursor, Sent(cursor), cursor # None => cursor.of = Binding(a),
           NEW last, last = IF a.kind = "history" THEN attempts ELSE Operations,
           NEW count \in Nat, count <= last, a.kind = "run" => count = Operations,
           cursor # None => cursor.id <= count - 1 + FirstBoundary(a.kind),
           NEW page, page = StoredPage(a, cursor, count, last),
           UNCHANGED <<snapshots, now, attempts, found>>
    PROVE  /\ count = last => Validated(a, cursor, page)
           /\ Validated(a, cursor, page) /\ Note(a, cursor, page) =>
                 ChainInv' /\ RefusedInv'
<1> DEFINE b == Binding(a)
           w == Whole(b)
           items == IF cursor = None THEN << >> ELSE chain.items
           k == Len(items)
           limit == a.limit
           f == FirstBoundary(a.kind)
<1>1. limit \in 1..100 /\ a.kind \in Inspected /\ last \in Nat
  BY QueriesAssumption DEF Request, Inspected, StateInv
<1>2. /\ w \in Seq(Nat) /\ k \in 0..Len(w) /\ Numbered(cursor, w, k)
      /\ Len(w) = last /\ w = Ids(Rows(a.kind, last)) /\ w = Numbering(last, f)
  <2> HIDE DEF b, w, items, f
  <2>1. w = Whole(Binding(a)) /\ items = IF cursor = None THEN << >> ELSE chain.items
    BY DEF b, w, items
  <2>2. /\ w \in Seq(Nat) /\ Len(items) \in 0..Len(w) /\ Numbered(cursor, w, Len(items))
        /\ Len(w) = (IF a.kind = "history" THEN attempts ELSE Operations)
        /\ w = Ids(Rows(a.kind, Len(w))) /\ w = Numbering(Len(w), FirstBoundary(a.kind))
    BY <1>1, <2>1, InspectedCursor
  <2>3. QED
    BY <2>2 DEF f
<1> HIDE DEF b, w, items, k
<1>3. k <= count
  <2>1. CASE k = 0
    BY <2>1
  <2>2. CASE k # 0
    <3>1. cursor # None /\ cursor.id = w[k] /\ k \in 1..last
      BY <1>1, <1>2, <2>2 DEF Numbered
    <3>2. w[k] = k - 1 + f /\ f \in Int
      BY <1>2, <3>1 DEF Numbering, FirstBoundary
    <3>3. QED
      BY <3>1, <3>2
  <2>3. QED
    BY <2>1, <2>2
<1>4. TellsStored(page, a, w, k, count, last)
  <2>1. k \in 0..last
    BY <1>2
  <2>2. QED
    BY <1>1, <1>2, <2>1, StoredPages
<1>5. Counted(a, cursor, page, k, count, last)
  <2>1. k \in 0..last
    BY <1>2
  <2>2. QED
    BY <1>1, <1>2, <1>3, <1>4, <2>1, ValidatedPages
<1>6. ASSUME Validated(a, cursor, page), Note(a, cursor, page)
      PROVE  ChainInv' /\ RefusedInv'
  <2>1. Tells(page, Binding(a), w, k, count, a.limit) /\ NextIsLast(page)
    BY <1>4, <1>5, <1>6 DEF Counted, Tells, TellsStored, NextIsLast
  <2>2. /\ w = Whole(Binding(a)) /\ items = IF cursor = None THEN << >> ELSE chain.items
        /\ count <= Len(w) /\ (a.kind # "history" => count = Operations)
        /\ Tells(page, Binding(a), w, Len(items), count, a.limit)
    BY <1>2, <2>1 DEF w, b, items, k
  <2>3. QED
    BY <1>1, <1>6, <2>1, <2>2, InspectedNoted
<1>7. QED
  BY <1>5, <1>6 DEF Counted

(* A chain with one page more of the same candidates.                       *)
LEMMA CandidatesFollowed ==
    ASSUME found \in [Found -> Nat],
           NEW a, a.limit \in 1..100, a.kind = "candidates",
           NEW w, w = Ids(Sorted(Candidates, LaterBefore)), w \in Seq(Nat),
           NEW items, Starts(items, w), Len(items) \in 0..Len(w),
           NEW cursor, cursor.id = Len(items),
           NEW page, page = CandidatePage(a, cursor, CandidateRows(a, cursor)),
           NEW c, c.of = Binding(a), c.total = page.total, c.next = page.next,
           \/ c.items = items \o page.items
           \/ items = << >> /\ c.items = page.items
    PROVE  /\ Follows(c, w, Len(w))
           /\ c.next # None => c.next.id = Len(c.items)
<1> DEFINE k == Len(items)
           b == Binding(a)
           limit == a.limit
           n == Len(w)
<1>1. /\ Tells(page, b, w, k, n, limit)
      /\ page.next # None => page.next.id = k + Len(page.items)
  BY CandidatePages
<1> HIDE DEF k, b, limit, n
<1>2. page.items \in Seq(Nat)
  BY <1>1 DEF Tells, Continues
<1>3. Extends(c, b, items, page)
  BY <1>2, NothingRead DEF Extends, b
<1>4. n \in Nat /\ n <= Len(w) /\ Len(items) = k
  BY DEF n, k
<1>5. Follows(c, w, n) /\ Len(c.items) = k + Len(page.items)
  BY <1>1, <1>3, <1>4, NotedPage
<1>6. QED
  BY <1>1, <1>5 DEF n

(* A page of the candidates.                                                *)
LEMMA CandidatesQueried ==
    ASSUME StateInv, ChainInv, NEW a \in Requests, a.kind = "candidates",
           NEW cursor, Sent(cursor), cursor # None => cursor.of = Binding(a),
           NEW rows, reading.steady => rows = CandidateRows(a, cursor),
           cursor # None /\ chain.steady => reading.steady,
           Note(a, cursor, CandidatePage(a, cursor, rows)),
           UNCHANGED <<snapshots, now, attempts, found>>
    PROVE  ChainInv' /\ RefusedInv'
<1> DEFINE b == Binding(a)
           w == Ids(Sorted(Candidates, LaterBefore))
           items == IF cursor = None THEN << >> ELSE chain.items
           page == CandidatePage(a, cursor, rows)
           k == Len(items)
           limit == a.limit
<1>1. limit \in 1..100 /\ found \in [Found -> Nat]
  BY QueriesAssumption DEF Request, StateInv
<1>2. /\ a.kind \in Kinds /\ a.kind \notin OfSnapshots /\ a.kind \notin Inspected
      /\ b.kind = a.kind
  <2>1. a.kind \in Kinds /\ a.kind \notin OfSnapshots /\ a.kind \notin Inspected
    BY DEF Kinds, OfSnapshots, Inspected
  <2>2. QED
    BY <2>1, BindingKind
<1>3. page.of = b /\ (page.next # None => page.next.of = b)
  BY DEF CandidatePage
<1> HIDE DEF b, page
<1>4. cursor # None => /\ Chained /\ cursor = chain.next /\ chain.next # None
                       /\ chain.of = b /\ CandidateChain
  <2> SUFFICES ASSUME cursor # None
               PROVE  /\ Chained /\ cursor = chain.next /\ chain.next # None
                      /\ chain.of = b /\ CandidateChain
    OBVIOUS
  <2>1. chain.next # None /\ cursor = chain.next
    BY DEF Sent
  <2>2. Chained /\ chain.of = b
    BY <2>1, NextIsOfChain DEF b
  <2>3. QED
    BY <1>2, <2>1, <2>2 DEF ChainInv
<1>5. /\ Chained' /\ ChainShape' /\ StillPinned' /\ RefusedInv'
      /\ chain'.of = page.of /\ chain'.of.kind = a.kind
      /\ chain'.total = page.total /\ chain'.next = page.next
      /\ chain'.items = IF cursor = None THEN page.items ELSE chain.items \o page.items
      /\ chain'.asked \in Requests /\ chain'.steady \in BOOLEAN
      /\ cursor # None => Chained /\ chain'.steady = chain.steady
      /\ cursor = None => chain'.steady = reading.steady
  <2>1. page.of = Binding(a) /\ (cursor # None => chain.of = page.of)
        /\ Note(a, cursor, page)
    BY <1>3, <1>4 DEF b, page
  <2>2. QED
    BY <1>2, <2>1, NoteShape
<1> HIDE DEF w, k, items
<1>6. ASSUME chain'.steady
      PROVE  /\ Follows(chain', w, Len(w))
             /\ chain'.next # None => chain'.next.id = Len(chain'.items)
  <2>1. w \in Seq(Nat)
    <3>1. ListsRows(Sorted(Candidates, LaterBefore), Candidates, Later)
          /\ IdsOf(Candidates) \subseteq Nat
      BY <1>1, CandidatesListed
    <3> DEFINE m == Cardinality(Candidates)
               r == Sorted(Candidates, LaterBefore)
    <3> HIDE DEF r
    <3>2. r \in Seq(Candidates) /\ w = Ids(r)
      BY <3>1 DEF ListsRows, w, r
    <3>3. \A x \in Candidates : x.id \in Nat
      BY <3>1 DEF IdsOf
    <3> DEFINE l == Len(r)
    <3> HIDE DEF l
    <3>4. l \in Nat /\ DOMAIN r = 1..l /\ \A i \in 1..l : r[i].id \in Nat
      BY <3>2, <3>3 DEF l
    <3>5. w = [i \in 1..l |-> r[i].id]
      BY <3>2, <3>4 DEF Ids
    <3>6. QED
      BY <3>4, <3>5
  <2>2. Starts(items, w) /\ k \in 0..Len(w) /\ cursor.id = k
    <3>1. CASE cursor = None
      BY <2>1, <3>1, NothingRead DEF items, k, None
    <3>2. CASE cursor # None
      <4>1. Follows(chain, w, Len(w)) /\ cursor.id = Len(chain.items)
        BY <1>4, <1>5, <1>6, <3>2 DEF CandidateChain, w
      <4>2. Starts(chain.items, w) /\ Len(chain.items) \in 0..Len(w)
        BY <4>1, SMTT(30) DEF Follows, Starts
      <4>3. QED
        BY <3>2, <4>1, <4>2 DEF items, k
    <3>3. QED
      BY <3>1, <3>2
  <2>3. page = CandidatePage(a, cursor, CandidateRows(a, cursor))
    BY <1>5, <1>6 DEF page
  <2>4. \/ chain'.items = items \o page.items
        \/ items = << >> /\ chain'.items = page.items
    BY <1>5 DEF items
  <2> DEFINE c == chain'
  <2>5. /\ c.of = Binding(a) /\ c.total = page.total /\ c.next = page.next
        /\ \/ c.items = items \o page.items
           \/ items = << >> /\ c.items = page.items
    BY <1>3, <1>5, <2>4 DEF b
  <2>6. /\ w = Ids(Sorted(Candidates, LaterBefore)) /\ a.limit \in 1..100
        /\ Starts(items, w) /\ Len(items) \in 0..Len(w) /\ cursor.id = Len(items)
    BY <1>1, <2>2 DEF w, k
  <2> HIDE DEF c, limit
  <2>7. Follows(c, w, Len(w)) /\ (c.next # None => c.next.id = Len(c.items))
    BY <1>1, <2>1, <2>3, <2>5, <2>6, CandidatesFollowed
  <2>8. QED
    BY <2>7 DEF c
<1>7. CandidateChain'
  <2>1. Ids(Sorted(Candidates, LaterBefore))' = w
    BY DEF w, Candidates, Sorted
  <2>2. chain'.next # None => chain'.next.of = chain'.of
    BY <1>3, <1>5
  <2>3. QED
    BY <1>6, <2>1, <2>2 DEF CandidateChain
<1>8. QED
  BY <1>2, <1>5, <1>7 DEF ChainInv, ChainShape

(* What was read of a history is a beginning of the longer one.             *)
LEMMA LongerHistory ==
    ASSUME NEW kind, NEW n \in Nat, NEW m \in Nat, n <= m, NEW c, NEW total,
           Follows(c, Ids(Rows(kind, n)), total)
    PROVE  Follows(c, Ids(Rows(kind, m)), total)
<1> DEFINE f == FirstBoundary(kind)
           v == Ids(Rows(kind, n))
           w == Ids(Rows(kind, m))
<1>1. f \in {0, 1} /\ v = Numbering(n, f) /\ w = Numbering(m, f)
  BY RowsOfKind DEF Numbering
<1> HIDE DEF f, v, w
<1>2. /\ v \in Seq(Nat) /\ Len(v) = n /\ w \in Seq(Nat) /\ Len(w) = m
      /\ \A i \in 1..n : v[i] = w[i]
  <2>1. v \in Seq(Nat) /\ Len(v) = n /\ w \in Seq(Nat) /\ Len(w) = m
    BY <1>1, NumbersListed
  <2>2. \A i \in 1..n : v[i] = w[i]
    BY <1>1 DEF Numbering
  <2>3. QED
    BY <2>1, <2>2
<1>3. Follows(c, v, total)
  BY DEF v
<1> DEFINE items == c.items
<1> HIDE DEF items
<1>4. /\ items \in Seq(Nat) /\ Len(items) <= n
      /\ \A i \in 1..Len(items) : items[i] = v[i]
  BY <1>2, <1>3 DEF Follows, Starts, items
<1>5. Starts(items, w)
  <2>1. Len(items) \in Nat /\ Len(items) <= m
    BY <1>4
  <2>2. \A i \in 1..Len(items) : items[i] = w[i]
    BY <1>2, <1>4, <2>1
  <2>3. QED
    BY <1>2, <1>4, <2>1, <2>2 DEF Starts
<1>6. total \in Nat /\ total <= m
  BY <1>2, <1>3 DEF Follows
<1>7. Follows(c, w, total)
  BY <1>2, <1>3, <1>5, <1>6 DEF Follows, items
<1>8. QED
  BY <1>7 DEF w

(* Whatever others write meanwhile, a chain keeps what it was given.        *)
LEMMA ChainKept ==
    ASSUME StateInv, ChainInv, chain' = chain, Grown, attempts' \in Nat,
           attempts <= attempts', found' = found \/ chain.of.kind # "candidates"
    PROVE  ChainInv'
<1> SUFFICES ASSUME Chained
             PROVE  ChainInv'
  BY DEF ChainInv, Chained
<1> DEFINE b == chain.of
<1>1. /\ ChainShape /\ b.kind \in Kinds /\ chain.asked \in Requests
      /\ chain.steady \in BOOLEAN /\ StillPinned
  BY DEF ChainInv, ChainShape
<1>2. ChainShape'
  BY <1>1 DEF ChainShape
<1>3. StillPinned'
  <2>1. PICK d \in Requests : d = chain.asked
    BY <1>1
  <2>2. SUFFICES ASSUME Pinned(d)
                 PROVE  /\ chain.of = Binding(d)'
                        /\ d.kind \in OfSnapshots => SnapshotFor(d)' # {} /\ IsFilter(d.filter)
    BY <2>1 DEF StillPinned, Pinned
  <2>3. /\ chain.of = Binding(d)
        /\ d.kind \in OfSnapshots => SnapshotFor(d) # {} /\ IsFilter(d.filter)
    BY <1>1, <2>1, <2>2 DEF StillPinned
  <2>4. Binding(d)' = Binding(d) /\ (d.kind \in OfSnapshots => SnapshotFor(d)' # {})
    BY <2>2, <2>3, PinnedBinding
  <2>5. QED
    BY <2>3, <2>4
<1>4. b.kind \in OfSnapshots => SnapshotChain'
  <2> SUFFICES ASSUME b.kind \in OfSnapshots PROVE SnapshotChain'
    OBVIOUS
  <2>1. SnapshotChain
    BY DEF ChainInv
  <2> DEFINE s == snapshots[b.snapshot]
  <2>2. b.snapshot \in DOMAIN snapshots' /\ snapshots'[b.snapshot] = s
    BY <2>1 DEF SnapshotChain, Grown
  <2>3. /\ Bound(b, s) /\ Follows(chain, Result(s, b), Len(Result(s, b)))
        /\ chain.next # None =>
              \E x \in Selected(s, b) : /\ x.id = chain.items[Len(chain.items)]
                                        /\ chain.next = Position(b, x)
    BY <2>1 DEF SnapshotChain
  <2>4. QED
    BY <2>2, <2>3 DEF SnapshotChain
<1>5. b.kind \in Inspected => InspectedChain'
  <2> SUFFICES ASSUME b.kind \in Inspected PROVE InspectedChain'
    OBVIOUS
  <2>1. /\ Follows(chain, Whole(b), chain.total)
        /\ b.kind # "history" => chain.total = Operations
        /\ chain.next # None => chain.next.id = chain.items[Len(chain.items)]
    BY DEF ChainInv, InspectedChain
  <2>2. b.kind \notin OfSnapshots
    BY DEF OfSnapshots, Inspected
  <2>3. Whole(b) = Ids(Rows(b.kind, IF b.kind = "history" THEN attempts ELSE Operations))
    BY <2>2 DEF Whole
  <2>4. Whole(b)' = Ids(Rows(b.kind, IF b.kind = "history" THEN attempts' ELSE Operations))
    BY <2>2 DEF Whole
  <2>5. Follows(chain, Whole(b)', chain.total)
    <3>1. CASE b.kind = "history"
      <4>1. attempts \in Nat
        BY DEF StateInv
      <4>2. QED
        BY <2>1, <2>3, <2>4, <3>1, <4>1, LongerHistory
    <3>2. CASE b.kind # "history"
      BY <2>1, <2>3, <2>4, <3>2
    <3>3. QED
      BY <3>1, <3>2
  <2>6. QED
    BY <2>1, <2>5 DEF InspectedChain
<1>6. b.kind = "candidates" => CandidateChain'
  <2> SUFFICES ASSUME b.kind = "candidates" PROVE CandidateChain'
    OBVIOUS
  <2>1. CandidateChain /\ found' = found
    BY DEF ChainInv
  <2>2. Ids(Sorted(Candidates, LaterBefore))' = Ids(Sorted(Candidates, LaterBefore))
    BY <2>1 DEF Candidates, Sorted
  <2>3. QED
    BY <2>1, <2>2 DEF CandidateChain
<1>7. QED
  BY <1>1, <1>2, <1>3, <1>4, <1>5, <1>6 DEF ChainInv, ChainShape

(* A continuation with the arguments its chain began with is not refused.   *)
LEMMA PinnedIsBound ==
    ASSUME ChainInv, chain.next # None, Pinned(chain.asked)
    PROVE  /\ chain.next.of = Binding(chain.asked) /\ chain.of = Binding(chain.asked)
           /\ chain.asked.kind \in OfSnapshots => SnapshotAnswers(chain.asked, chain.next)
<1> DEFINE a == chain.asked
           b == Binding(a)
           s == snapshots[b.snapshot]
<1>1. /\ Chained /\ chain.next.of = chain.of /\ chain.of = b /\ a \in Requests
      /\ a.kind \in OfSnapshots => SnapshotFor(a) # {} /\ IsFilter(a.filter)
  BY NextIsOfChain DEF ChainInv, StillPinned
<1>2. ASSUME a.kind \in OfSnapshots PROVE SnapshotAnswers(a, chain.next)
  <2>1. b.kind \in OfSnapshots
    BY <1>2, BindingKind DEF Kinds
  <2> HIDE DEF a, b
  <2>2. SnapshotChain
    BY <1>1, <2>1 DEF ChainInv
  <2>3. Bound(b, s) /\ \E x \in Selected(s, b) : chain.next = Position(b, x)
    BY <1>1, <2>2 DEF SnapshotChain
  <2>4. \E x \in Selected(s, b) : IsBoundary(b, x, chain.next)
    BY <2>3, StatementsAgree DEF Agree
  <2>5. (b.kind # "repositories" \/ RequiresListCoverage(b.filter)) => s.covered
    BY <2>3 DEF Bound
  <2>6. QED
    BY <1>1, <1>2, <2>4, <2>5 DEF SnapshotAnswers, BoundTo, b
<1>3. QED
  BY <1>1, <1>2

(* A refusal changes no chain, and a pinned continuation is not refused.    *)
LEMMA RefusalKeeps ==
    ASSUME StateInv, ChainInv, NEW a \in Requests, NEW cursor, Sent(cursor),
           NEW why \in {"refused", "torn"}, Refuse(a, cursor, why),
           why = "refused" /\ cursor # None /\ a = chain.asked => ~Pinned(a),
           UNCHANGED <<snapshots, now, attempts, found>>
    PROVE  ChainInv' /\ RefusedInv'
<1>1. chain' = chain /\ Grown /\ attempts' \in Nat /\ attempts <= attempts'
  BY DEF Refuse, Grown, StateInv
<1>2. ChainInv'
  BY <1>1, ChainKept
<1>3. RefusedInv'
  <2>1. refused' # "storage_error"
    BY DEF Refuse
  <2>2. ASSUME refused' = "refused" PROVE Chained' /\ ~Pinned(chain.asked)'
    <3>1. why = "refused" /\ cursor # None /\ a = chain.asked
      BY <2>2 DEF Refuse
    <3>2. Chained /\ ~Pinned(chain.asked)
      BY <3>1, NextIsChained DEF Sent
    <3>3. QED
      BY <1>1, <3>2 DEF Chained, Pinned
  <2>3. QED
    BY <1>1, <2>1, <2>2 DEF RefusedInv
<1>4. QED
  BY <1>2, <1>3

\* What a discovery takes from a page of candidates that is not counted yet.
Unsteadied ==
    /\ reading.request.kind = "candidates"
    /\ reading' = [reading EXCEPT !.steady = FALSE]
    /\ chain.of.kind = "candidates" => chain'.steady = FALSE

Undisturbed ==
    /\ reading' = reading
    /\ reading.request.kind = "candidates" => chain'.steady = chain.steady /\ found' = found

(* A page between its statements stays so while others write.               *)
LEMMA ReadingKept ==
    ASSUME StateInv, ChainInv, ReadingInv, Unsteadied \/ Undisturbed, attempts' \in Nat,
           attempts <= attempts', chain'.next = chain.next, Chained => Chained'
    PROVE  ReadingInv' /\ reading'.steady \in BOOLEAN
<1>1. CASE reading = NotReading
  <2>1. Undisturbed
    BY <1>1 DEF Unsteadied, NotReading
  <2>2. QED
    BY <1>1, <2>1 DEF Undisturbed, ReadingInv, NotReading, None, StateInv
<1>2. CASE reading # NotReading
  <2> DEFINE a == reading.request
             cursor == reading.cursor
  <2>1. /\ ReadingShape /\ a \in Requests /\ a.kind \in {"history", "candidates"}
        /\ cursor # None => /\ Chained /\ cursor = chain.next
                            /\ chain.next.of = Binding(a)
        /\ a.kind = "history" => HistoryCounted
        /\ a.kind = "candidates" => CandidatesRead
    BY <1>2 DEF ReadingInv, BoundTo
  <2>2. /\ ReadingShape' /\ reading'.request = a /\ reading'.cursor = cursor
        /\ reading'.count = reading.count /\ reading'.rows = reading.rows
        /\ reading'.steady \in BOOLEAN
        /\ reading'.steady = reading.steady \/ (Unsteadied /\ reading'.steady = FALSE)
    <3>1. CASE Undisturbed
      BY <2>1, <3>1 DEF Undisturbed, ReadingShape, StateInv
    <3>2. CASE Unsteadied
      <4>1. reading' = [count |-> reading.count, cursor |-> cursor, request |-> a,
                        rows |-> reading.rows, steady |-> FALSE]
        BY <2>1, <3>2 DEF Unsteadied, ReadingShape
      <4>2. /\ reading'.request = a /\ reading'.cursor = cursor
            /\ reading'.count = reading.count /\ reading'.rows = reading.rows
            /\ reading'.steady = FALSE
        BY <4>1
      <4>3. QED
        BY <3>2, <4>1, <4>2 DEF ReadingShape
    <3>3. QED
      BY <3>1, <3>2
  <2>3. Binding(a)' = Binding(a)
    BY <2>1, <2>2 DEF Binding, OfSnapshots, Inspected
  <2> HIDE DEF a, cursor
  <2>4. Binding(reading.request)' = Binding(a)
    BY <2>2, <2>3 DEF a
  <2>5. a.kind = "history" => HistoryCounted'
    <3> SUFFICES ASSUME a.kind = "history" PROVE HistoryCounted'
      OBVIOUS
    <3>1. /\ reading.count \in Nat /\ reading.count <= attempts
          /\ cursor # None => chain.next.id <= reading.count
      BY <2>1 DEF HistoryCounted, cursor
    <3>2. reading.count <= attempts'
      BY <3>1 DEF StateInv
    <3>3. QED
      BY <2>2, <3>1, <3>2 DEF HistoryCounted
  <2>6. a.kind = "candidates" => CandidatesRead'
    <3> SUFFICES ASSUME a.kind = "candidates" PROVE CandidatesRead'
      OBVIOUS
    <3>1. /\ reading.steady => reading.rows = CandidateRows(a, cursor)
          /\ cursor # None /\ chain.steady => reading.steady
      BY <2>1 DEF CandidatesRead, a, cursor
    <3>2. CASE Undisturbed
      <4>1. found' = found /\ chain'.steady = chain.steady /\ reading' = reading
        BY <3>2 DEF Undisturbed, a
      <4>2. CandidateRows(reading.request, reading.cursor)' = CandidateRows(a, cursor)
        BY <4>1 DEF CandidateRows, Candidates, Sorted, a, cursor
      <4>3. QED
        BY <2>2, <3>1, <4>1, <4>2 DEF CandidatesRead
    <3>3. CASE Unsteadied
      <4>1. reading'.steady = FALSE
        <5>1. reading' = [count |-> reading.count, cursor |-> cursor, request |-> a,
                          rows |-> reading.rows, steady |-> FALSE]
          BY <2>1, <3>3 DEF Unsteadied, ReadingShape, a, cursor
        <5>2. QED
          BY <5>1
      <4>2. cursor # None => chain.of.kind = "candidates"
        <5> SUFFICES ASSUME cursor # None PROVE chain.of.kind = "candidates"
          OBVIOUS
        <5>1. chain.next # None /\ chain.next.of = Binding(a)
          BY <2>1
        <5>2. chain.next.of = chain.of
          BY <5>1, NextIsOfChain
        <5>3. Binding(a).kind = "candidates"
          BY DEF Binding, OfSnapshots, Inspected
        <5>4. QED
          BY <5>1, <5>2, <5>3
      <4>3. cursor # None => chain'.steady = FALSE
        BY <3>3, <4>2 DEF Unsteadied
      <4>4. QED
        BY <2>2, <4>1, <4>3 DEF CandidatesRead
    <3>4. QED
      BY <3>2, <3>3
  <2>7. QED
    BY <2>1, <2>2, <2>4, <2>5, <2>6 DEF ReadingInv, BoundTo, a
<1>3. QED
  BY <1>1, <1>2

(* Nothing has been read or refused at first.                               *)
LEMMA QueriesInit == Init => QueriesInv
<1> SUFFICES ASSUME Init PROVE QueriesInv
  OBVIOUS
<1>1. StateInv
  <2>1. snapshots \in Seq(Collected)
    <3>1. PICK s \in Collected : snapshots = <<s>>
      BY DEF Init
    <3>2. QED
      BY <3>1
  <2>2. /\ now \in Nat /\ attempts \in Nat /\ found \in [Found -> Nat]
        /\ reading.steady \in BOOLEAN
    BY QueriesAssumption DEF Init, NotReading
  <2>3. QED
    BY <2>1, <2>2 DEF StateInv
<1>2. ChainInv
  BY DEF Init, ChainInv, Chained
<1>3. ReadingInv
  BY DEF Init, ReadingInv
<1>4. RefusedInv
  BY DEF Init, RefusedInv
<1>5. QED
  BY <1>1, <1>2, <1>3, <1>4 DEF QueriesInv

(* Snapshots are published, time passes and others write.                   *)
LEMMA OthersStep ==
    ASSUME QueriesInv, Publish \/ Tick \/ Record \/ Discover \/ UNCHANGED vars
    PROVE  QueriesInv'
<1>1. StateInv /\ ChainInv /\ ReadingInv /\ RefusedInv
  BY DEF QueriesInv
<1>2. /\ snapshots' \in Seq(Collected) /\ now' \in Nat /\ found' \in [Found -> Nat]
      /\ Grown /\ attempts' \in Nat /\ attempts <= attempts'
  <2>1. CASE Publish
    <3>1. PICK s \in Collected : snapshots' = Append(snapshots, s)
      BY <2>1 DEF Publish
    <3>2. /\ snapshots' \in Seq(Collected)
          /\ DOMAIN snapshots = 1..Len(snapshots) /\ DOMAIN snapshots' = 1..(Len(snapshots) + 1)
          /\ Len(snapshots) \in Nat
          /\ \A i \in 1..Len(snapshots) : snapshots'[i] = snapshots[i]
      BY <1>1, <3>1 DEF StateInv
    <3>3. Grown
      BY <3>2 DEF Grown
    <3>4. QED
      BY <1>1, <2>1, <3>2, <3>3 DEF StateInv, Publish
  <2>2. CASE Tick \/ Record \/ UNCHANGED vars
    BY <1>1, <2>2 DEF StateInv, Grown, Tick, Record, vars
  <2>3. CASE Discover
    BY <1>1, <2>3 DEF StateInv, Grown, Discover
  <2>4. QED
    BY <2>1, <2>2, <2>3
<1>3. /\ refused' = refused /\ chain'.next = chain.next
      /\ chain'.asked = chain.asked /\ (Chained => Chained')
  <2>1. CASE Publish \/ Tick \/ Record \/ UNCHANGED vars
    BY <2>1 DEF Publish, Tick, Record, vars, Chained
  <2>2. CASE Discover /\ chain' = chain
    BY <2>2 DEF Discover, Chained
  <2>3. CASE Discover /\ chain' # chain
    <3>1. chain' = [chain EXCEPT !.steady = FALSE] /\ chain.of.kind = "candidates"
      BY <2>3 DEF Discover
    <3>2. Chained
      BY <3>1 DEF Chained, NoChain
    <3>3. ChainShape
      BY <1>1, <3>2 DEF ChainInv, ChainShape
    <3>4. chain' = [of |-> chain.of, items |-> chain.items, total |-> chain.total,
                    next |-> chain.next, asked |-> chain.asked, steady |-> FALSE]
      BY <3>1, <3>3 DEF ChainShape
    <3>5. chain'.of = chain.of /\ chain'.next = chain.next /\ chain'.asked = chain.asked
      BY <3>4
    <3>6. chain' # NoChain
      BY <3>1, <3>5 DEF NoChain
    <3>7. QED
      BY <2>3, <3>5, <3>6 DEF Discover, Chained, NoChain, None
  <2>4. QED
    BY <2>1, <2>2, <2>3
<1>4. ReadingInv' /\ reading'.steady \in BOOLEAN
  <2>1. Unsteadied \/ Undisturbed
    <3>1. CASE Publish \/ Tick \/ Record \/ UNCHANGED vars
      BY <3>1 DEF Publish, Tick, Record, vars, Undisturbed
    <3>2. CASE Discover /\ ~(reading.request.kind = "candidates" /\ found' # found)
      <4>1. reading' = reading
        BY <3>2 DEF Discover
      <4>2. found' = found => chain' = chain
        BY <3>2 DEF Discover
      <4>3. QED
        BY <3>2, <4>1, <4>2 DEF Undisturbed
    <3>3. CASE Discover /\ reading.request.kind = "candidates" /\ found' # found
      <4>1. reading' = [reading EXCEPT !.steady = FALSE]
        BY <3>3 DEF Discover
      <4>2. ASSUME chain.of.kind = "candidates" PROVE chain'.steady = FALSE
        <5>1. chain' = [chain EXCEPT !.steady = FALSE]
          BY <3>3, <4>2 DEF Discover
        <5>2. Chained
          BY <4>2 DEF Chained, NoChain
        <5>3. ChainShape
          BY <1>1, <5>2 DEF ChainInv, ChainShape
        <5>4. chain' = [of |-> chain.of, items |-> chain.items, total |-> chain.total,
                        next |-> chain.next, asked |-> chain.asked, steady |-> FALSE]
          BY <5>1, <5>3 DEF ChainShape
        <5>5. QED
          BY <5>4
      <4>3. QED
        BY <3>3, <4>1, <4>2 DEF Unsteadied
    <3>4. QED
      BY <3>1, <3>2, <3>3
  <2>2. QED
    BY <1>1, <1>2, <1>3, <2>1, ReadingKept
<1>8. StateInv'
  BY <1>2, <1>4 DEF StateInv
<1>5. RefusedInv'
  BY <1>1, <1>3 DEF RefusedInv, Pinned
<1>6. ChainInv'
  <2>1. CASE chain' = chain /\ (found' = found \/ chain.of.kind # "candidates")
    BY <1>1, <1>2, <2>1, ChainKept
  <2>2. CASE ~(chain' = chain /\ (found' = found \/ chain.of.kind # "candidates"))
    <3>1. Discover /\ chain.of.kind = "candidates" /\ found' # found
      BY <2>2 DEF Publish, Tick, Record, Discover, vars
    <3>2. chain' = [chain EXCEPT !.steady = FALSE]
      BY <3>1 DEF Discover
    <3>3. Chained
      BY <3>1 DEF Chained, NoChain
    <3>4. /\ ChainShape /\ chain.asked \in Requests /\ StillPinned /\ CandidateChain
          /\ chain.of.kind \in Kinds
      BY <1>1, <3>1, <3>3 DEF ChainInv, ChainShape
    <3>5. chain' = [of |-> chain.of, items |-> chain.items, total |-> chain.total,
                    next |-> chain.next, asked |-> chain.asked, steady |-> FALSE]
      BY <3>2, <3>4 DEF ChainShape
    <3>6. /\ chain'.of = chain.of /\ chain'.items = chain.items
          /\ chain'.total = chain.total /\ chain'.next = chain.next
          /\ chain'.asked = chain.asked /\ chain'.steady = FALSE
      BY <3>5
    <3>7. ChainShape'
      BY <3>5, <3>6 DEF ChainShape
    <3>8. CandidateChain'
      BY <3>4, <3>6 DEF CandidateChain
    <3>9. StillPinned'
      <4>1. PICK d \in Requests : d = chain.asked
        BY <3>4
      <4>2. SUFFICES ASSUME Pinned(d)
                     PROVE  /\ chain.of = Binding(d)'
                            /\ d.kind \in OfSnapshots => SnapshotFor(d)' # {} /\ IsFilter(d.filter)
        BY <3>6, <4>1 DEF StillPinned, Pinned
      <4>3. /\ chain.of = Binding(d)
            /\ d.kind \in OfSnapshots => SnapshotFor(d) # {} /\ IsFilter(d.filter)
        BY <3>4, <4>1, <4>2 DEF StillPinned
      <4>4. Binding(d)' = Binding(d) /\ (d.kind \in OfSnapshots => SnapshotFor(d)' # {})
        BY <1>1, <1>2, <4>2, <4>3, PinnedBinding
      <4>5. QED
        BY <4>3, <4>4
    <3>10. chain.of.kind \notin OfSnapshots /\ chain.of.kind \notin Inspected
      BY <3>1 DEF OfSnapshots, Inspected
    <3>11. QED
      BY <3>4, <3>6, <3>7, <3>8, <3>9, <3>10 DEF ChainInv, ChainShape
  <2>3. QED
    BY <2>1, <2>2
<1>7. QED
  BY <1>4, <1>5, <1>6, <1>8 DEF QueriesInv

(* A page that is asked for, or continued with the last cursor.             *)
LEMMA ReadsStep ==
    ASSUME QueriesInv, reading = NotReading, NEW a \in Requests, NEW cursor,
           Sent(cursor), Reads(a, cursor),
           UNCHANGED <<snapshots, now, attempts, found>>
    PROVE  QueriesInv'
<1>0. reading'.steady = TRUE
  <2>1. CASE reading' = reading
    BY <2>1 DEF NotReading
  <2>2. CASE reading' # reading
    <3>1. QueryCandidates(a, cursor) \/ CountHistory(a, cursor)
      BY <2>2 DEF Reads
    <3>2. QED
      BY <2>2, <3>1 DEF QueryCandidates, CountHistory, NotReading
  <2>3. QED
    BY <2>1, <2>2
<1>1. /\ StateInv /\ ChainInv /\ RefusedInv /\ StateInv'
      /\ attempts \in Nat /\ Operations \in Nat
  BY <1>0, QueriesAssumption DEF QueriesInv, StateInv
<1>2. cursor # None =>
         /\ chain.next # None /\ cursor = chain.next
         /\ a = chain.asked /\ Pinned(a) =>
               /\ cursor.of = Binding(a) /\ chain.of = Binding(a)
               /\ a.kind \in OfSnapshots => SnapshotAnswers(a, cursor)
  BY <1>1, PinnedIsBound DEF Sent
<1>3. CASE QuerySnapshot(a, cursor) /\ UNCHANGED reading
  <2> DEFINE page == SnapshotPage(a, cursor)
  <2>1. a.kind \in OfSnapshots
    BY <1>3 DEF QuerySnapshot
  <2>2. CASE SnapshotAnswers(a, cursor) /\ EvidenceFits(a, page)
    <3>1. Note(a, cursor, page)
      BY <1>3, <2>2 DEF QuerySnapshot
    <3>2. ChainInv' /\ RefusedInv'
      BY <1>1, <2>1, <2>2, <3>1, SnapshotQueried
    <3>3. QED
      BY <1>1, <1>3, <3>2 DEF QueriesInv, ReadingInv, NotReading, None
  <2>3. CASE ~(SnapshotAnswers(a, cursor) /\ EvidenceFits(a, page))
    <3>1. Refuse(a, cursor, "refused")
      BY <1>3, <2>3 DEF QuerySnapshot
    <3>2. Pinned(a) => EvidenceFits(a, page)
      BY <2>1 DEF Pinned, EvidenceFits
    <3> HIDE DEF page
    <3>3. cursor # None /\ a = chain.asked => ~Pinned(a)
      BY <1>2, <2>1, <2>3, <3>2
    <3>4. ChainInv' /\ RefusedInv'
      BY <1>1, <3>1, <3>3, RefusalKeeps
    <3>5. QED
      BY <1>1, <1>3, <3>4 DEF QueriesInv, ReadingInv, NotReading, None
  <2>4. QED
    BY <2>2, <2>3
<1>4. CASE QueryCandidates(a, cursor)
  <2>1. a.kind = "candidates"
    BY <1>4 DEF QueryCandidates
  <2>2. CASE cursor # None => cursor.of = Binding(a)
    <3> DEFINE rows == CandidateRows(a, cursor)
    <3>1. /\ reading' = [count |-> 0, cursor |-> cursor, request |-> a, rows |-> rows,
                         steady |-> TRUE]
          /\ chain' = chain /\ refused' = refused
      BY <1>4, <2>2 DEF QueryCandidates, BoundTo, NotReading
    <3>2. ChainInv'
      <4>1. Grown /\ attempts <= attempts' /\ attempts' \in Nat
        BY <1>1 DEF Grown
      <4>2. QED
        BY <1>1, <3>1, <4>1, ChainKept
    <3>3. RefusedInv'
      BY <1>1, <3>1 DEF RefusedInv, Chained, Pinned
    <3>4. ReadingInv'
      <4>1. /\ reading'.cursor = cursor /\ reading'.request = a
            /\ reading'.rows = rows /\ reading'.steady = TRUE /\ ReadingShape'
        BY <3>1 DEF ReadingShape
      <4>2. cursor # None => /\ Chained /\ cursor = chain.next /\ chain.next.of = Binding(a)
        BY <1>2, <2>2, NextIsChained
      <4>3. Binding(a)' = Binding(a)
        BY <2>1 DEF Binding, OfSnapshots, Inspected
      <4>4. CandidateRows(reading.request, reading.cursor)' = rows
        BY <4>1 DEF CandidateRows, Candidates, Sorted
      <4> HIDE DEF rows
      <4>5. CandidatesRead'
        BY <4>1, <4>4 DEF CandidatesRead
      <4>6. Binding(reading.request)' = Binding(a) /\ (Chained' <=> Chained)
        BY <3>1, <4>1, <4>3 DEF Chained
      <4>7. QED
        BY <2>1, <3>1, <4>1, <4>2, <4>5, <4>6 DEF ReadingInv, BoundTo
    <3>5. QED
      BY <1>1, <3>2, <3>3, <3>4 DEF QueriesInv
  <2>3. CASE ~(cursor # None => cursor.of = Binding(a))
    <3>1. Refuse(a, cursor, "refused") /\ reading' = reading
      BY <1>4, <2>3 DEF QueryCandidates, BoundTo
    <3>2. cursor # None /\ a = chain.asked => ~Pinned(a)
      BY <1>2, <2>3
    <3>3. ChainInv' /\ RefusedInv'
      BY <1>1, <3>1, <3>2, RefusalKeeps
    <3>4. QED
      BY <1>1, <3>1, <3>3 DEF QueriesInv, ReadingInv, NotReading, None
  <2>4. QED
    BY <2>2, <2>3
<1>5. ASSUME cursor # None, cursor.of = Binding(a), a.kind \in Inspected
      PROVE  LET last == IF a.kind = "history" THEN attempts ELSE Operations
             IN  last > 0 /\ cursor.id <= last - 1 + FirstBoundary(a.kind)
  <2> DEFINE last == IF a.kind = "history" THEN attempts ELSE Operations
             w == Whole(Binding(a))
             items == chain.items
             f == FirstBoundary(a.kind)
  <2>1. /\ w \in Seq(Nat) /\ Len(items) \in 0..Len(w) /\ Numbered(cursor, w, Len(items))
        /\ Len(w) = last /\ w = Numbering(last, f)
    <3> DEFINE v == w
    <3> HIDE DEF v, items, f, last
    <3>1. v = Whole(Binding(a)) /\ items = IF cursor = None THEN << >> ELSE chain.items
      BY <1>5 DEF v, items
    <3>2. /\ v \in Seq(Nat) /\ Len(items) \in 0..Len(v) /\ Numbered(cursor, v, Len(items))
          /\ Len(v) = (IF a.kind = "history" THEN attempts ELSE Operations)
          /\ v = Numbering(Len(v), FirstBoundary(a.kind))
      BY <1>1, <1>5, <3>1, InspectedCursor
    <3>3. QED
      BY <3>2 DEF v, f, last
  <2>2. f \in Int
    BY DEF FirstBoundary
  <2> HIDE DEF w, items, f, last
  <2>3. Len(items) # 0 /\ cursor.id = w[Len(items)]
    BY <1>5, <2>1 DEF Numbered
  <2>4. last \in Nat
    BY <1>1 DEF last
  <2>5. Len(items) \in 1..last
    BY <2>1, <2>3, <2>4
  <2>6. cursor.id = Len(items) - 1 + f
    BY <2>1, <2>3, <2>5 DEF Numbering
  <2>7. last > 0 /\ cursor.id <= last - 1 + f
    BY <2>2, <2>4, <2>5, <2>6
  <2>8. QED
    BY <2>7 DEF last, f
<1>6. CASE InspectPlan(a, cursor) /\ UNCHANGED reading
  <2>1. a.kind = "plan" /\ a.kind \in Inspected
    BY <1>6 DEF InspectPlan, Inspected
  <2>2. CASE cursor # None => cursor.of = Binding(a) /\ cursor.id <= Operations
    <3>1. Note(a, cursor, PlanPage(a, cursor))
      BY <1>6, <2>2 DEF InspectPlan, BoundTo
    <3>2. ChainInv' /\ RefusedInv'
      BY <1>1, <2>1, <2>2, <3>1, PlanInspected
    <3>3. QED
      BY <1>1, <1>6, <3>2 DEF QueriesInv, ReadingInv, NotReading, None
  <2>3. CASE ~(cursor # None => cursor.of = Binding(a) /\ cursor.id <= Operations)
    <3>1. Refuse(a, cursor, "refused")
      BY <1>6, <2>3 DEF InspectPlan, BoundTo
    <3>2. cursor # None /\ a = chain.asked => ~Pinned(a)
      <4> SUFFICES ASSUME cursor # None, a = chain.asked, Pinned(a) PROVE FALSE
        OBVIOUS
      <4>1. cursor.of = Binding(a)
        BY <1>2
      <4>2. cursor.id <= Operations - 1 + 1
        BY <1>5, <2>1, <4>1 DEF FirstBoundary
      <4>3. cursor.id <= Operations
        BY <1>1, <4>2
      <4>4. QED
        BY <2>3, <4>1, <4>3
    <3>3. ChainInv' /\ RefusedInv'
      BY <1>1, <3>1, <3>2, RefusalKeeps
    <3>4. QED
      BY <1>1, <1>6, <3>3 DEF QueriesInv, ReadingInv, NotReading, None
  <2>4. QED
    BY <2>2, <2>3
<1>7. CASE InspectRun(a, cursor) /\ UNCHANGED reading
  <2> DEFINE page == StoredPage(a, cursor, Operations, Operations)
  <2>1. a.kind = "run" /\ a.kind \in Inspected /\ a.kind \in {"run", "history"}
        /\ a.kind # "history"
    BY <1>7 DEF InspectRun, Inspected
  <2>2. CASE Within(a, cursor, Operations)
    <3>1. cursor # None => /\ cursor.of = Binding(a)
                           /\ cursor.id <= Operations - 1 + FirstBoundary(a.kind)
      BY <2>2 DEF Within, BoundTo
    <3>2. /\ Validated(a, cursor, page)
          /\ Validated(a, cursor, page) /\ Note(a, cursor, page) => ChainInv' /\ RefusedInv'
      <4> DEFINE last == Operations
      <4>1. last = (IF a.kind = "history" THEN attempts ELSE Operations) /\ last \in Nat
            /\ last <= last /\ page = StoredPage(a, cursor, last, last)
        BY <1>1, <2>1
      <4> HIDE DEF page
      <4>2. QED
        BY <1>1, <2>1, <3>1, <4>1, StoredRead
    <3>3. Note(a, cursor, page)
      BY <1>7, <2>2, <3>2 DEF InspectRun
    <3>4. QED
      BY <1>1, <1>7, <3>2, <3>3 DEF QueriesInv, ReadingInv, NotReading, None
  <2>3. CASE ~Within(a, cursor, Operations)
    <3>1. Refuse(a, cursor, "refused")
      BY <1>7, <2>3 DEF InspectRun
    <3>2. cursor # None /\ a = chain.asked => ~Pinned(a)
      BY <1>2, <1>5, <2>1, <2>3 DEF Within, BoundTo
    <3>3. ChainInv' /\ RefusedInv'
      BY <1>1, <3>1, <3>2, RefusalKeeps
    <3>4. QED
      BY <1>1, <1>7, <3>3 DEF QueriesInv, ReadingInv, NotReading, None
  <2>4. QED
    BY <2>2, <2>3
<1>8. CASE CountHistory(a, cursor)
  <2>1. a.kind = "history" /\ a.kind \in Inspected
    BY <1>8 DEF CountHistory, Inspected
  <2>2. CASE Within(a, cursor, attempts)
    <3>1. /\ reading' = [count |-> attempts, cursor |-> cursor, request |-> a,
                         rows |-> << >>, steady |-> TRUE]
          /\ chain' = chain /\ refused' = refused
      BY <1>8, <2>2 DEF CountHistory, NotReading
    <3>2. ChainInv'
      <4>1. Grown /\ attempts <= attempts' /\ attempts' \in Nat
        BY <1>1 DEF Grown
      <4>2. QED
        BY <1>1, <3>1, <4>1, ChainKept
    <3>3. RefusedInv'
      BY <1>1, <3>1 DEF RefusedInv, Chained, Pinned
    <3>4. ReadingInv'
      <4>1. /\ reading'.count = attempts /\ reading'.cursor = cursor
            /\ reading'.request = a /\ ReadingShape'
        BY <3>1 DEF ReadingShape
      <4>2. cursor # None => /\ Chained /\ cursor = chain.next /\ chain.next.of = Binding(a)
                             /\ chain.next.id <= attempts
        <5> SUFFICES ASSUME cursor # None
                     PROVE  /\ Chained /\ cursor = chain.next /\ chain.next.of = Binding(a)
                            /\ chain.next.id <= attempts
          OBVIOUS
        <5>1. cursor.of = Binding(a) /\ cursor.id <= attempts - 1 + 1
          BY <2>1, <2>2 DEF Within, BoundTo, FirstBoundary
        <5>2. attempts - 1 + 1 = attempts
          BY <1>1
        <5>3. QED
          BY <1>2, <5>1, <5>2, NextIsChained
      <4>3. Binding(a)' = Binding(a)
        BY <2>1 DEF Binding, OfSnapshots, Inspected
      <4>4. Chained' <=> Chained
        BY <3>1 DEF Chained
      <4>5. attempts' = attempts /\ attempts <= attempts
        BY <1>1
      <4>6. HistoryCounted'
        BY <1>1, <3>1, <4>1, <4>2, <4>5 DEF HistoryCounted
      <4>7. Binding(reading.request)' = Binding(a)
        BY <4>1, <4>3
      <4>8. QED
        BY <2>1, <3>1, <4>1, <4>2, <4>4, <4>6, <4>7 DEF ReadingInv, BoundTo
    <3>5. QED
      BY <1>1, <3>2, <3>3, <3>4 DEF QueriesInv
  <2>3. CASE ~Within(a, cursor, attempts)
    <3>1. Refuse(a, cursor, "refused") /\ reading' = reading
      BY <1>8, <2>3 DEF CountHistory
    <3>2. cursor # None /\ a = chain.asked => ~Pinned(a)
      BY <1>2, <1>5, <2>1, <2>3 DEF Within, BoundTo
    <3>3. ChainInv' /\ RefusedInv'
      BY <1>1, <3>1, <3>2, RefusalKeeps
    <3>4. QED
      BY <1>1, <3>1, <3>3 DEF QueriesInv, ReadingInv, NotReading, None
  <2>4. QED
    BY <2>2, <2>3
<1>9. QED
  BY <1>3, <1>4, <1>6, <1>7, <1>8 DEF Reads

(* The rows of a history are read after they were counted.                  *)
LEMMA ReadHistoryStep ==
    ASSUME QueriesInv, ReadHistory
    PROVE  QueriesInv'
<1> DEFINE a == reading.request
           cursor == reading.cursor
           count == reading.count
           page == StoredPage(a, cursor, count, attempts)
<1>1. /\ StateInv /\ ChainInv /\ ReadingInv
      /\ reading # NotReading /\ reading' = NotReading
      /\ UNCHANGED <<snapshots, now, attempts, found>>
  BY DEF QueriesInv, ReadHistory, NotReading
<1>2. StateInv' /\ attempts \in Nat
  BY <1>1 DEF StateInv, NotReading
<1>3. ReadingInv'
  BY <1>1 DEF ReadingInv, NotReading, None
<1>4. /\ a \in Requests /\ a.kind = "history" /\ a.kind \in {"run", "history"}
      /\ count \in Nat /\ count <= attempts
      /\ cursor # None => /\ Chained /\ cursor = chain.next
                          /\ cursor.of = Binding(a) /\ cursor.id <= count
  BY <1>1 DEF ReadingInv, HistoryCounted, BoundTo, ReadHistory
<1>5. IF Validated(a, cursor, page) THEN Note(a, cursor, page)
      ELSE Refuse(a, cursor, IF attempts # count THEN "torn" ELSE "storage_error")
  BY DEF ReadHistory
<1> HIDE DEF a, cursor, count, page
<1>6. Sent(cursor)
  BY <1>4 DEF Sent
<1>7. /\ count = attempts => Validated(a, cursor, page)
      /\ Validated(a, cursor, page) /\ Note(a, cursor, page) => ChainInv' /\ RefusedInv'
  <2> DEFINE last == attempts
  <2>1. last = (IF a.kind = "history" THEN attempts ELSE Operations)
        /\ page = StoredPage(a, cursor, count, last) /\ count <= last
        /\ (a.kind = "run" => count = Operations)
    BY <1>4 DEF page
  <2>2. cursor # None => cursor.id <= count - 1 + FirstBoundary(a.kind)
    <3>1. FirstBoundary(a.kind) = 1 /\ count - 1 + 1 = count
      BY <1>4 DEF FirstBoundary
    <3>2. QED
      BY <1>4, <3>1
  <2>3. QED
    BY <1>1, <1>4, <1>6, <2>1, <2>2, StoredRead
<1>8. CASE Validated(a, cursor, page)
  <2>1. ChainInv' /\ RefusedInv'
    BY <1>5, <1>7, <1>8
  <2>2. QED
    BY <1>2, <1>3, <2>1 DEF QueriesInv
<1>9. CASE ~Validated(a, cursor, page)
  <2>1. Refuse(a, cursor, "torn")
    BY <1>5, <1>7, <1>9
  <2>2. ChainInv' /\ RefusedInv'
    BY <1>1, <1>4, <1>6, <2>1, RefusalKeeps
  <2>3. QED
    BY <1>2, <1>3, <2>2 DEF QueriesInv
<1>10. QED
  BY <1>8, <1>9

(* The candidates are counted after their rows were read.                   *)
LEMMA CountCandidatesStep ==
    ASSUME QueriesInv, CountCandidates
    PROVE  QueriesInv'
<1> DEFINE a == reading.request
           cursor == reading.cursor
           rows == reading.rows
<1>1. /\ StateInv /\ ChainInv /\ ReadingInv
      /\ reading # NotReading /\ reading' = NotReading /\ a.kind = "candidates"
      /\ UNCHANGED <<snapshots, now, attempts, found>>
      /\ Note(a, cursor, CandidatePage(a, cursor, rows))
  BY DEF QueriesInv, CountCandidates, NotReading
<1>2. StateInv' /\ ReadingInv'
  BY <1>1 DEF StateInv, ReadingInv, NotReading, None
<1>3. /\ a \in Requests
      /\ cursor # None => /\ Chained /\ cursor = chain.next /\ cursor.of = Binding(a)
      /\ reading.steady => rows = CandidateRows(a, cursor)
      /\ cursor # None /\ chain.steady => reading.steady
  BY <1>1 DEF ReadingInv, CandidatesRead, BoundTo
<1> HIDE DEF a, cursor, rows
<1>4. Sent(cursor)
  BY <1>3 DEF Sent
<1>5. ChainInv' /\ RefusedInv'
  BY <1>1, <1>3, <1>4, CandidatesQueried
<1>6. QED
  BY <1>2, <1>5 DEF QueriesInv

(* A beginning of a listing has nothing twice.                              *)
LEMMA NothingTwice ==
    ASSUME NEW S, IsFiniteSet(S), NEW R, StrictOrder(R, S), NEW w, IsListing(w, S, R),
           NEW items, Starts(items, w)
    PROVE  /\ Len(w) = Cardinality(S)
           /\ Cardinality({items[i] : i \in DOMAIN items}) = Len(items)
<1> DEFINE n == Cardinality(S)
           k == Len(items)
           T == {items[i] : i \in DOMAIN items}
<1>1. n \in Nat /\ \A i, j \in 1..n : w[i] = w[j] => i = j
  BY ListingOrder
<1>2. Len(w) = n /\ k \in Nat /\ k <= n /\ items \in Seq(Nat)
  BY <1>1 DEF IsListing, Starts
<1>3. DOMAIN items = 1..k /\ \A i \in 1..k : items[i] = w[i]
  BY <1>2 DEF Starts
<1> HIDE DEF n
<1>4. ExistsBijection(1..k, T)
  <2> DEFINE h == [i \in 1..k |-> items[i]]
  <2> HIDE DEF k
  <2>1. \A i, j \in 1..k : items[i] = items[j] => i = j
    BY <1>1, <1>2, <1>3
  <2>2. T = {items[i] : i \in 1..k}
    BY <1>3
  <2>3. h \in [1..k -> T] /\ \A y \in T : \E i \in 1..k : h[i] = y
    BY <2>2
  <2>4. h \in Bijection(1..k, T)
    BY <2>1, <2>3 DEF Bijection, Injection, IsInjective, Surjection
  <2> HIDE DEF h, T
  <2>5. QED
    BY <2>4 DEF ExistsBijection
<1>5. Cardinality(T) = k
  <2> HIDE DEF T, k
  <2>1. QED
    BY <1>2, <1>4, FS_CountingElements
<1>6. QED
  BY <1>2, <1>5 DEF n

(* What was read is a beginning of the whole.                               *)
LEMMA StartIsSub ==
    ASSUME NEW items, NEW w, Starts(items, w)
    PROVE  Len(items) <= Len(w) /\ items = SubSeq(w, 1, Len(items))
<1> DEFINE k == Len(items)
           v == SubSeq(w, 1, k)
<1>1. /\ items \in Seq(Nat) /\ w \in Seq(Nat) /\ k \in Nat /\ k <= Len(w)
      /\ \A i \in 1..k : items[i] = w[i]
  BY DEF Starts
<1>2. v \in Seq(Nat) /\ Len(v) = k /\ \A i \in 1..k : v[i] = w[i]
  <2>1. Len(w) \in Nat
    BY <1>1
  <2>2. 1 \in 1..Len(w)+1 /\ k \in 0..Len(w)
    BY <1>1, <2>1
  <2>3. QED
    BY <1>1, <2>1, <2>2, SubSeqProperties
<1> HIDE DEF k, v
<1>3. items = [i \in 1..k |-> items[i]] /\ v = [i \in 1..k |-> v[i]]
  BY <1>1, <1>2 DEF k
<1>4. items = v
  BY <1>1, <1>2, <1>3
<1>5. QED
  BY <1>1, <1>4 DEF k, v

(* Every step keeps the invariant.                                          *)
LEMMA QueriesStep == QueriesInv /\ [Next]_vars => QueriesInv'
<1> SUFFICES ASSUME QueriesInv, [Next]_vars
             PROVE  QueriesInv'
  OBVIOUS
<1>1. CASE Publish \/ Tick \/ Record \/ Discover \/ UNCHANGED vars
  BY <1>1, OthersStep
<1>2. ASSUME NEW a \in Requests, Ask(a) PROVE QueriesInv'
  <2> DEFINE cursor == None
  <2>1. /\ reading = NotReading /\ Reads(a, cursor)
        /\ UNCHANGED <<snapshots, now, attempts, found>>
    BY <1>2 DEF Ask
  <2>2. Sent(cursor)
    BY DEF Sent
  <2> HIDE DEF cursor
  <2>3. QED
    BY <2>1, <2>2, ReadsStep
<1>3. ASSUME NEW a \in Requests, Continue(a) PROVE QueriesInv'
  <2> DEFINE cursor == chain.next
  <2>1. /\ reading = NotReading /\ cursor # None /\ Reads(a, cursor)
        /\ UNCHANGED <<snapshots, now, attempts, found>>
    BY <1>3 DEF Continue
  <2>2. Sent(cursor)
    BY <2>1 DEF Sent
  <2> HIDE DEF cursor
  <2>3. QED
    BY <2>1, <2>2, ReadsStep
<1>4. CASE ReadHistory
  BY <1>4, ReadHistoryStep
<1>5. CASE CountCandidates
  BY <1>5, CountCandidatesStep
<1>6. QED
  BY <1>1, <1>2, <1>3, <1>4, <1>5 DEF Next

LEMMA QueriesKept == Spec => []QueriesInv
BY QueriesInit, QueriesStep, PTL DEF Spec

(* Whatever the client does with its cursors, and whatever is published,    *)
(* recorded and discovered between its calls, the pages of a chain are a    *)
(* beginning of the whole result of its first request (queryRepositories    *)
(* and its keyset, queryLists, queryListMemberships, inspect).              *)
THEOREM PagesAreTheResult == Spec => []ChainsAreWhole
<1>1. QueriesInv => ChainsAreWhole
  <2> SUFFICES ASSUME QueriesInv, Chained, chain.of.kind # "candidates"
               PROVE  LET whole == Whole(chain.of)
                      IN  /\ Len(chain.items) <= Len(whole)
                          /\ chain.items = SubSeq(whole, 1, Len(chain.items))
    BY DEF ChainsAreWhole
  <2> DEFINE w == Whole(chain.of)
  <2>1. /\ chain.of.kind \in OfSnapshots \cup Inspected
        /\ chain.of.kind \in OfSnapshots => SnapshotChain
        /\ chain.of.kind \in Inspected => InspectedChain
    BY DEF QueriesInv, ChainInv, Kinds
  <2>2. CASE chain.of.kind \in OfSnapshots
    BY <2>1, <2>2, StartIsSub DEF SnapshotChain, Follows, Whole
  <2>3. CASE chain.of.kind \in Inspected
    BY <2>1, <2>3, StartIsSub DEF InspectedChain, Follows
  <2>4. QED
    BY <2>1, <2>2, <2>3
<1>2. QED
  BY <1>1, QueriesKept, PTL

(* A chain has no next cursor exactly when all that its last total counted  *)
(* has been read, nothing of it twice; only a history's total may differ    *)
(* from page to page (hasMore, consumed and pageBoundary).                  *)
THEOREM PagesEndWithTheTotal == Spec => []ChainsEndWithTheTotal
<1>1. QueriesInv => ChainsEndWithTheTotal
  <2> SUFFICES ASSUME QueriesInv, Chained
               PROVE  /\ chain.of.kind \in OfSnapshots \cup {"plan", "run"} =>
                            chain.total = Len(Whole(chain.of))
                      /\ (chain.of.kind = "candidates" => chain.steady) =>
                            /\ (chain.next = None) = (Len(chain.items) = chain.total)
                            /\ Cardinality({chain.items[i] : i \in DOMAIN chain.items})
                                  = Len(chain.items)
    BY DEF ChainsEndWithTheTotal
  <2> DEFINE b == chain.of
             items == chain.items
             twice == Cardinality({items[i] : i \in DOMAIN items}) # Len(items)
             ends == (chain.next = None) = (Len(items) = chain.total)
  <2>1. /\ b.kind \in Kinds /\ StateInv
        /\ b.kind \in OfSnapshots => SnapshotChain
        /\ b.kind \in Inspected => InspectedChain
        /\ b.kind = "candidates" => CandidateChain
    BY DEF QueriesInv, ChainInv
  <2>2. CASE b.kind \in OfSnapshots
    <3> DEFINE s == snapshots[b.snapshot]
               w == Result(s, b)
    <3>1. Bound(b, s) /\ Follows(chain, w, Len(w)) /\ Whole(b) = w
      BY <2>1, <2>2 DEF SnapshotChain, Whole
    <3>2. Agree(s, b)
      BY <3>1, StatementsAgree
    <3> HIDE DEF s, w
    <3>3. /\ IsFiniteSet(Members(s, b)) /\ StrictOrder(Order(s, b), Members(s, b))
          /\ IsListing(w, Members(s, b), Order(s, b))
      BY <3>2 DEF Agree, w
    <3>4. Starts(items, w) /\ chain.total = Len(w) /\ ends
      BY <3>1 DEF Follows
    <3>5. ~twice
      BY <3>3, <3>4, NothingTwice
    <3>6. QED
      BY <2>2, <3>1, <3>4, <3>5 DEF OfSnapshots
  <2>3. CASE b.kind \in Inspected
    <3> DEFINE n == IF b.kind = "history" THEN attempts ELSE Operations
               f == FirstBoundary(b.kind)
               w == Numbering(n, f)
    <3>1. n \in Nat /\ f \in {0, 1}
      BY <2>1, QueriesAssumption DEF StateInv, FirstBoundary
    <3>2. b.kind \notin OfSnapshots /\ Whole(b) = Ids(Rows(b.kind, n))
      BY <2>3 DEF Whole, OfSnapshots, Inspected
    <3> HIDE DEF n
    <3>3. Whole(b) = w
      BY <3>1, <3>2, RowsOfKind DEF Numbering
    <3> DEFINE S == ValuesOf(w, n)
    <3> HIDE DEF w, f, S
    <3>4. IsFiniteSet(S) /\ StrictOrder(Ascending, S) /\ IsListing(w, S, Ascending)
          /\ Len(w) = n
      BY <3>1, NumbersListed DEF w, S
    <3>5. InspectedChain /\ Follows(chain, w, chain.total)
          /\ (b.kind # "history" => chain.total = Operations)
      BY <2>1, <2>3, <3>3 DEF InspectedChain
    <3>6. Starts(items, w) /\ ends
      BY <3>5 DEF Follows
    <3>7. ~twice
      BY <3>4, <3>6, NothingTwice
    <3>8. b.kind \in {"plan", "run"} => chain.total = Len(w)
      BY <3>4, <3>5 DEF n
    <3>9. QED
      BY <2>3, <3>2, <3>3, <3>6, <3>7, <3>8
  <2>4. CASE b.kind = "candidates"
    <3>1. b.kind \notin OfSnapshots \cup {"plan", "run"}
      BY <2>4 DEF OfSnapshots
    <3>2. ASSUME chain.steady PROVE ends /\ ~twice
      <4> DEFINE w == Ids(Sorted(Candidates, LaterBefore))
                 S == IdsOf(Candidates)
      <4>1. Follows(chain, w, Len(w))
        BY <2>1, <2>4, <3>2 DEF CandidateChain
      <4>2. IsFiniteSet(S) /\ StrictOrder(Later, S) /\ IsListing(w, S, Later)
        BY <2>1, CandidatesListed DEF StateInv, ListsRows
      <4> HIDE DEF w, S
      <4>3. Starts(items, w) /\ ends
        BY <4>1 DEF Follows
      <4>4. ~twice
        BY <4>2, <4>3, NothingTwice
      <4>5. QED
        BY <4>3, <4>4
    <3>3. QED
      BY <2>4, <3>1, <3>2
  <2>5. QED
    BY <2>1, <2>2, <2>3, <2>4 DEF Kinds
<1>2. QED
  BY <1>1, QueriesKept, PTL

(* A client that names its snapshot and no relative time and repeats its    *)
(* arguments with the last cursor is never refused, and rows that nobody    *)
(* wrote between counting and reading are no storage error (the boundary    *)
(* row of queryRepositories, pageBoundary and validatedPage).               *)
THEOREM RepeatedIsAnswered == Spec => []PinnedIsAnswered
<1>1. QueriesInv => PinnedIsAnswered
  BY DEF QueriesInv, RefusedInv, PinnedIsAnswered
<1>2. QED
  BY <1>1, QueriesKept, PTL

=============================================================================
