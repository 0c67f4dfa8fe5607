--------------------------- MODULE ChangesProofs ----------------------------
(***************************************************************************)
(* Theorems about Changes, for any repositories, accounts, requests,        *)
(* protections and numbers of faults.                                       *)
(***************************************************************************)
EXTENDS Changes, FiniteSetTheorems, WellFoundedInduction, TLAPS

-----------------------------------------------------------------------------
(* Listings: what InOrder makes of a set whose elements have different keys.*)

\* The elements of S that come before x by the key k.
Earlier(S, k, x) == {y \in S : Below(k[y], k[x])}
Place(S, k, x) == Cardinality(Earlier(S, k, x))

Keyed(k, S) ==
    /\ \A x \in S : k[x] \in Nat \X Nat
    /\ \A x, y \in S : k[x] = k[y] => x = y

(* Pairs of numbers are in a strict total order.                            *)
LEMMA PairsOrdered ==
    ASSUME NEW p \in Nat \X Nat, NEW q \in Nat \X Nat, NEW r \in Nat \X Nat
    PROVE  /\ ~Below(p, p)
           /\ p # q => Below(p, q) \/ Below(q, p)
           /\ Below(p, q) /\ Below(q, r) => Below(p, r)
<1>1. /\ p = <<p[1], p[2]>> /\ p[1] \in Nat /\ p[2] \in Nat
      /\ q = <<q[1], q[2]>> /\ q[1] \in Nat /\ q[2] \in Nat
      /\ r = <<r[1], r[2]>> /\ r[1] \in Nat /\ r[2] \in Nat
  OBVIOUS
<1>2. ~Below(p, p)
  BY <1>1 DEF Below
<1>3. p # q => Below(p, q) \/ Below(q, p)
  BY <1>1 DEF Below
<1>4. Below(p, q) /\ Below(q, r) => Below(p, r)
  BY <1>1 DEF Below
<1>5. QED
  BY <1>2, <1>3, <1>4

(* Of two elements the one that comes first has fewer before it.            *)
LEMMA PlaceGrows ==
    ASSUME NEW S, IsFiniteSet(S), NEW k, Keyed(k, S),
           NEW x \in S, NEW y \in S, Below(k[x], k[y])
    PROVE  Place(S, k, x) < Place(S, k, y)
<1> DEFINE A == Earlier(S, k, x)
           B == Earlier(S, k, y)
<1>1. \A z \in S : k[z] \in Nat \X Nat
  BY DEF Keyed
<1>2. A \subseteq B
  <2> SUFFICES ASSUME NEW z \in A PROVE z \in B
    OBVIOUS
  <2>1. z \in S /\ Below(k[z], k[x])
    BY DEF Earlier
  <2>2. Below(k[z], k[y])
    BY <1>1, <2>1, PairsOrdered
  <2>3. QED
    BY <2>1, <2>2 DEF Earlier
<1>3. x \in B /\ x \notin A /\ B \subseteq S
  BY <1>1, PairsOrdered DEF Earlier
<1>4. IsFiniteSet(A) /\ IsFiniteSet(B)
  BY <1>2, <1>3, FS_Subset
<1>5. Cardinality(A) <= Cardinality(B) /\ Cardinality(A) # Cardinality(B)
  BY <1>2, <1>3, <1>4, FS_Subset
<1>6. Cardinality(A) \in Nat /\ Cardinality(B) \in Nat
  BY <1>4, FS_CardinalityType
<1>7. QED
  BY <1>5, <1>6 DEF Place

(* There are fewer elements before one than there are.                      *)
LEMMA PlaceType ==
    ASSUME NEW S, IsFiniteSet(S), NEW k, Keyed(k, S), NEW x \in S
    PROVE  /\ Place(S, k, x) \in 0..Cardinality(S)-1
           /\ Cardinality(S) \in Nat
<1>1. Earlier(S, k, x) \subseteq S /\ x \notin Earlier(S, k, x)
  BY PairsOrdered DEF Earlier, Keyed
<1>2. IsFiniteSet(Earlier(S, k, x)) /\ Cardinality(S) \in Nat
  BY <1>1, FS_Subset, FS_CardinalityType
<1>3. Place(S, k, x) <= Cardinality(S) /\ Place(S, k, x) # Cardinality(S)
  BY <1>1, FS_Subset DEF Place
<1>4. Place(S, k, x) \in Nat
  BY <1>2, FS_CardinalityType DEF Place
<1>5. QED
  BY <1>2, <1>3, <1>4

(* Every place is somebody's, and no two have the same.                     *)
LEMMA PlacesTaken ==
    ASSUME NEW S, IsFiniteSet(S), NEW k, Keyed(k, S)
    PROVE  /\ \A i \in 1..Cardinality(S) : \E x \in S : Place(S, k, x) = i - 1
           /\ \A x, y \in S : Place(S, k, x) = Place(S, k, y) => x = y
<1> DEFINE n == Cardinality(S)
           f == [x \in S |-> Place(S, k, x) + 1]
<1>1. n \in Nat
  BY FS_CardinalityType
<1>2. f \in [S -> 1..n]
  <2>1. \A x \in S : Place(S, k, x) + 1 \in 1..n
    <3> TAKE x \in S
    <3>1. QED
      BY PlaceType, <1>1
  <2>2. QED
    BY <2>1
<1>3. \A x, y \in S : Place(S, k, x) = Place(S, k, y) => x = y
  <2> SUFFICES ASSUME NEW x \in S, NEW y \in S, x # y
               PROVE  Place(S, k, x) # Place(S, k, y)
    OBVIOUS
  <2>1. Place(S, k, x) \in Int /\ Place(S, k, y) \in Int
    BY PlaceType
  <2>2. k[x] \in Nat \X Nat /\ k[y] \in Nat \X Nat /\ k[x] # k[y]
    BY DEF Keyed
  <2>3. Below(k[x], k[y]) \/ Below(k[y], k[x])
    BY <2>2, PairsOrdered
  <2>4. Place(S, k, x) < Place(S, k, y) \/ Place(S, k, y) < Place(S, k, x)
    BY <2>3, PlaceGrows
  <2>5. QED
    BY <2>1, <2>4
<1>4. \A x, y \in S : f[x] = f[y] => x = y
  <2> SUFFICES ASSUME NEW x \in S, NEW y \in S, f[x] = f[y] PROVE x = y
    OBVIOUS
  <2>1. Place(S, k, x) \in Int /\ Place(S, k, y) \in Int
    BY PlaceType
  <2>2. Place(S, k, x) = Place(S, k, y)
    BY <2>1
  <2>3. QED
    BY <1>3, <2>2
<1>5. f \in Injection(S, 1..n)
  BY <1>2, <1>4 DEF Injection, IsInjective
<1>6. IsFiniteSet(1..n) /\ Cardinality(1..n) = n
  BY <1>1, FS_Interval
<1>7. f \in Surjection(S, 1..n)
  BY <1>5, <1>6, FS_Injection
<1>8. ASSUME NEW i \in 1..n PROVE \E x \in S : Place(S, k, x) = i - 1
  <2>1. PICK x \in S : f[x] = i
    BY <1>7 DEF Surjection
  <2>2. Place(S, k, x) \in Int /\ Place(S, k, x) + 1 = i
    BY <2>1, PlaceType
  <2>3. QED
    BY <2>2
<1>9. QED
  BY <1>3, <1>8

\* w has every element of S once.
Lists(w, S) ==
    /\ IsFiniteSet(S) /\ Cardinality(S) \in Nat
    /\ w \in [1..Cardinality(S) -> S]
    /\ \A i, j \in DOMAIN w : w[i] = w[j] => i = j
    /\ \A x \in S : \E i \in DOMAIN w : w[i] = x

InPlace(w, S, k) ==
    /\ DOMAIN w = 1..Cardinality(S) /\ w = [i \in DOMAIN w |-> w[i]]
    /\ \A i \in DOMAIN w : w[i] \in S /\ Place(S, k, w[i]) = i - 1

(* A finite set is listed by the places its elements have.                  *)
LEMMA ListedByPlace ==
    ASSUME NEW S, IsFiniteSet(S), NEW k, Keyed(k, S), NEW w, InPlace(w, S, k)
    PROVE  Lists(w, S)
<1> USE DEF InPlace
<1>1. Cardinality(S) \in Nat
  BY FS_CardinalityType
<1>2. w \in [1..Cardinality(S) -> S]
  <2> DEFINE D == DOMAIN w
  <2>1. w = [i \in D |-> w[i]] /\ \A i \in D : w[i] \in S
    OBVIOUS
  <2>2. w \in [D -> S]
    BY <2>1
  <2>3. QED
    BY <2>2
<1>3. ASSUME NEW i \in DOMAIN w, NEW j \in DOMAIN w, w[i] = w[j] PROVE i = j
  <2>1. i - 1 = j - 1
    BY <1>3
  <2>2. QED
    BY <1>1, <2>1
<1>4. ASSUME NEW x \in S PROVE \E i \in DOMAIN w : w[i] = x
  <2>1. Place(S, k, x) \in 0..Cardinality(S)-1
    BY PlaceType
  <2> DEFINE i == Place(S, k, x) + 1
  <2>2. i \in DOMAIN w /\ i - 1 = Place(S, k, x)
    BY <1>1, <2>1
  <2> HIDE DEF i
  <2>3. w[i] \in S /\ Place(S, k, w[i]) = Place(S, k, x)
    BY <2>2
  <2>4. w[i] = x
    BY <2>3, PlacesTaken
  <2>5. QED
    BY <2>2, <2>4
<1>5. QED
  BY <1>1, <1>2, <1>3, <1>4 DEF Lists

Sequence(s) == s \in Seq({s[i] : i \in DOMAIN s})

(* A listing is a sequence.                                                 *)
LEMMA ListIsSequence ==
    ASSUME NEW w, NEW S, Lists(w, S)
    PROVE  Sequence(w)
<1> DEFINE T == {w[i] : i \in DOMAIN w}
           n == Cardinality(S)
<1>1. n \in Nat /\ w \in [1..n -> S]
  BY DEF Lists
<1> HIDE DEF n
<1>2. w \in [1..n -> T]
  <2>1. DOMAIN w = 1..n /\ w = [i \in 1..n |-> w[i]]
    BY <1>1
  <2>2. \A i \in 1..n : w[i] \in T
    BY <2>1
  <2> HIDE DEF T
  <2>3. QED
    BY <2>1, <2>2
<1> HIDE DEF T
<1>3. w \in Seq(T)
  BY <1>1, <1>2
<1>4. QED
  BY <1>3 DEF Sequence, T

(* Different keys of finitely many make a set finite.                       *)
LEMMA KeyedIsFinite ==
    ASSUME NEW S, NEW k, Keyed(k, S), NEW A, IsFiniteSet(A), NEW B, IsFiniteSet(B),
           \A x \in S : k[x] \in A \X B
    PROVE  IsFiniteSet(S)
<1> DEFINE f == [x \in S |-> k[x]]
<1>1. f \in Injection(S, A \X B)
  BY DEF Injection, IsInjective, Keyed
<1>2. IsFiniteSet(A \X B)
  BY FS_Product
<1>3. QED
  BY <1>1, <1>2, FS_Injection

(* What a function makes of a finite set is finite.                         *)
LEMMA ImageFinite ==
    ASSUME NEW S, IsFiniteSet(S), NEW f
    PROVE  IsFiniteSet({f[x] : x \in S})
<1> DEFINE T == {f[x] : x \in S}
           g == [x \in S |-> f[x]]
<1>1. g \in Surjection(S, T)
  BY DEF Surjection
<1> HIDE DEF T, g
<1>2. IsFiniteSet(T)
  BY <1>1, FS_Surjection
<1>3. QED
  BY <1>2 DEF T

-----------------------------------------------------------------------------
(* The dependency graph.                                                    *)

(* A least counterexample: how a fact about all numbers is proved.          *)
LEMMA LeastNumber ==
    ASSUME NEW Bad \in SUBSET Nat, Bad # {}
    PROVE  \E i \in Bad : \A j \in Bad : i <= j
<1> DEFINE Less == {ss \in Nat \X Nat : ss[1] < ss[2]}
<1>1. IsWellFoundedOn(Less, Nat)
  BY NatLessThanWellFounded DEF OpToRel
<1>2. \E i \in Bad : \A j \in Bad : <<j, i>> \notin Less
  <2> HIDE DEF Less
  <2>1. QED
    BY <1>1, WFMin
<1>3. \A i, j \in Nat : <<j, i>> \notin Less => i <= j
  OBVIOUS
<1>4. QED
  BY <1>2, <1>3

Ids(s) == {s[i].id : i \in DOMAIN s}

\* Some of the operations, each after what it depends on.
Ordered(s, ops) ==
    /\ s \in Seq({ops[i] : i \in DOMAIN ops})
    /\ \A i, j \in DOMAIN s : s[i].id = s[j].id => i = j
    /\ \A i \in DOMAIN s : \A d \in s[i].dependsOn : \E j \in 1..i-1 : s[j].id = d

\* One step of graphOrder.
Emits(ops, s) ==
    LET ready == Ready(ops, Ids(s))
    IN  IF ready = {} THEN s ELSE Append(s, ops[First(ready)])

(* What is emitted next comes after what it depends on.                     *)
LEMMA EmitsInOrder ==
    ASSUME NEW ops, Sequence(ops), NEW s, Ordered(s, ops)
    PROVE  /\ Ordered(Emits(ops, s), ops)
           /\ Len(Emits(ops, s)) \in {Len(s), Len(s) + 1}
<1> DEFINE ready == Ready(ops, Ids(s))
           T == {ops[i] : i \in DOMAIN ops}
<1>1. CASE ready = {}
  BY <1>1 DEF Emits
<1>2. CASE ready # {}
  <2>1. ready \in SUBSET DOMAIN ops /\ DOMAIN ops \in SUBSET Nat
    BY DEF Ready, Sequence
  <2>2. First(ready) \in ready
    <3>1. \E i \in ready : \A j \in ready : i <= j
      <4> HIDE DEF ready
      <4>1. QED
        BY <1>2, <2>1, LeastNumber
    <3>2. QED
      BY <3>1 DEF First
  <2> DEFINE op == ops[First(ready)]
             t == Append(s, op)
  <2>3. op \in T /\ op.id \notin Ids(s) /\ op.dependsOn \subseteq Ids(s)
    BY <2>1, <2>2 DEF Ready
  <2>4. Emits(ops, s) = t
    BY <1>2 DEF Emits
  <2>5. s \in Seq(T)
    BY DEF Ordered
  <2> HIDE DEF op, T
  <2>6. /\ t \in Seq(T) /\ Len(t) = Len(s) + 1 /\ Len(s) \in Nat
        /\ DOMAIN t = 1..Len(s)+1 /\ DOMAIN s = 1..Len(s)
        /\ \A i \in 1..Len(s) : t[i] = s[i]
        /\ t[Len(s) + 1] = op
    BY <2>3, <2>5
  <2> HIDE DEF t
  <2>7. ASSUME NEW i \in DOMAIN t, NEW j \in DOMAIN t, t[i].id = t[j].id PROVE i = j
    <3>1. CASE i \in 1..Len(s) /\ j \in 1..Len(s)
      BY <2>6, <2>7, <3>1 DEF Ordered
    <3>2. CASE i = Len(s) + 1 /\ j \in 1..Len(s)
      BY <2>3, <2>6, <2>7, <3>2 DEF Ids
    <3>3. CASE j = Len(s) + 1 /\ i \in 1..Len(s)
      BY <2>3, <2>6, <2>7, <3>3 DEF Ids
    <3>4. QED
      BY <2>6, <3>1, <3>2, <3>3
  <2>8. ASSUME NEW i \in DOMAIN t, NEW d \in t[i].dependsOn
        PROVE  \E j \in 1..i-1 : t[j].id = d
    <3>1. CASE i \in 1..Len(s)
      <4>1. PICK j \in 1..i-1 : s[j].id = d
        BY <2>6, <2>8, <3>1 DEF Ordered
      <4>2. j \in 1..Len(s)
        BY <2>6, <3>1
      <4>3. QED
        BY <2>6, <4>1, <4>2
    <3>2. CASE i = Len(s) + 1
      <4>1. PICK j \in DOMAIN s : s[j].id = d
        BY <2>3, <2>6, <2>8, <3>2 DEF Ids
      <4>2. j \in 1..i-1 /\ t[j].id = d
        BY <2>6, <3>2, <4>1
      <4>3. QED
        BY <4>2
    <3>3. QED
      BY <2>6, <3>1, <3>2
  <2>9. QED
    BY <2>4, <2>6, <2>7, <2>8 DEF Ordered, T
<1>3. QED
  BY <1>1, <1>2

\* The first n steps of graphOrder.
Run(f, ops, n) ==
    /\ DOMAIN f = 0..n /\ f = [k \in 0..n |-> f[k]]
    /\ f[0] = << >>
    /\ \A k \in 1..n : f[k] = Emits(ops, f[k - 1])

(* There is such a function for every number of steps.                      *)
LEMMA RunExists ==
    ASSUME NEW ops, NEW m \in Nat
    PROVE  \E f : Run(f, ops, m)
<1> DEFINE Bad == {n \in 0..m : ~ \E f : Run(f, ops, n)}
<1>1. SUFFICES ASSUME Bad # {} PROVE FALSE
  OBVIOUS
<1>2. PICK n \in Bad : \A j \in Bad : n <= j
  <2>1. Bad \in SUBSET Nat
    OBVIOUS
  <2> HIDE DEF Bad
  <2>2. QED
    BY <1>1, <2>1, LeastNumber
<1>3. \E f : Run(f, ops, 0)
  <2> DEFINE f == [k \in 0..0 |-> << >>]
  <2>1. Run(f, ops, 0)
    BY DEF Run
  <2>2. QED
    BY <2>1
<1>4. n # 0 /\ n \in Nat /\ n - 1 \in 0..m
  BY <1>3
<1>5. n - 1 \notin Bad
  <2>1. ~(n <= n - 1)
    BY <1>4
  <2> HIDE DEF Bad
  <2>2. QED
    BY <1>2, <2>1
<1>6. PICK f : Run(f, ops, n - 1)
  BY <1>4, <1>5
<1> DEFINE g == [k \in 0..n |-> IF k = n THEN Emits(ops, f[n - 1]) ELSE f[k]]
<1>7. \A k \in 0..n-1 : g[k] = f[k]
  BY <1>4
<1>8. g[0] = << >>
  <2>1. 0 \in 0..n-1
    BY <1>4
  <2>2. QED
    BY <1>6, <1>7, <2>1 DEF Run
<1>9. ASSUME NEW k \in 1..n PROVE g[k] = Emits(ops, g[k - 1])
  <2>1. k - 1 \in 0..n-1 /\ g[k - 1] = f[k - 1]
    BY <1>4, <1>7
  <2>2. CASE k = n
    BY <1>4, <2>1, <2>2
  <2>3. CASE k # n
    <3>1. k \in 1..n-1 /\ k \in 0..n-1
      BY <1>4, <2>3
    <3>2. f[k] = Emits(ops, f[k - 1])
      BY <1>6, <3>1 DEF Run
    <3> HIDE DEF g
    <3>3. QED
      BY <1>7, <2>1, <3>1, <3>2
  <2>4. QED
    BY <2>2, <2>3
<1>10. Run(g, ops, n)
  <2>1. DOMAIN g = 0..n /\ g = [k \in 0..n |-> g[k]]
    OBVIOUS
  <2> HIDE DEF g
  <2>2. QED
    BY <1>8, <1>9, <2>1 DEF Run
<1>11. QED
  BY <1>2, <1>10

(* graphOrder gives some of the operations, in the order of the graph.      *)
LEMMA GraphOrdered ==
    ASSUME NEW ops, Sequence(ops)
    PROVE  Ordered(GraphOrder(ops), ops) /\ Len(GraphOrder(ops)) <= Len(ops)
<1> DEFINE m == Len(ops)
           Body(f) == [n \in 0..m |-> IF n = 0 THEN << >> ELSE Emits(ops, f[n - 1])]
           e == CHOOSE f : f = Body(f)
<1>1. m \in Nat
  BY DEF Sequence
<1>2. PICK f : Run(f, ops, m)
  BY <1>1, RunExists
<1>3. f = Body(f)
  <2>1. \A n \in 0..m : f[n] = IF n = 0 THEN << >> ELSE Emits(ops, f[n - 1])
    <3> TAKE n \in 0..m
    <3>1. CASE n = 0
      BY <1>2, <3>1 DEF Run
    <3>2. CASE n # 0
      <4>1. n \in 1..m
        BY <1>1, <3>2
      <4>2. QED
        BY <1>2, <3>2, <4>1 DEF Run
    <3>3. QED
      BY <3>1, <3>2
  <2>2. DOMAIN f = 0..m /\ f = [k \in 0..m |-> f[k]]
    BY <1>2 DEF Run
  <2>3. QED
    BY <2>1, <2>2
<1>4. e = Body(e)
  BY <1>3
<1>5. GraphOrder(ops) = e[m]
  BY DEF GraphOrder, Emits, Ids
<1> HIDE DEF e
<1>6. e[0] = << >> /\ \A n \in 1..m : e[n] = Emits(ops, e[n - 1])
  <2>1. \A n \in 0..m : e[n] = IF n = 0 THEN << >> ELSE Emits(ops, e[n - 1])
    BY <1>4
  <2>2. \A n \in 1..m : n \in 0..m /\ n # 0
    BY <1>1
  <2>3. QED
    BY <1>1, <2>1, <2>2
<1> DEFINE Good(n) == Ordered(e[n], ops) /\ Len(e[n]) <= n
           Bad == {n \in 0..m : ~Good(n)}
<1>7. Bad = {}
  <2> SUFFICES ASSUME Bad # {} PROVE FALSE
    OBVIOUS
  <2>1. PICK n \in Bad : \A j \in Bad : n <= j
    <3>1. Bad \in SUBSET Nat
      OBVIOUS
    <3> HIDE DEF Bad
    <3>2. QED
      BY <3>1, LeastNumber
  <2>2. Good(0)
    BY <1>6 DEF Ordered
  <2>3. n # 0 /\ n \in 1..m /\ n - 1 \in 0..m
    BY <1>1, <2>2
  <2>4. Good(n - 1)
    <3>1. ~(n <= n - 1)
      BY <1>1, <2>3
    <3>2. n - 1 \notin Bad
      <4> HIDE DEF Bad
      <4>1. QED
        BY <2>1, <3>1
    <3>3. QED
      BY <2>3, <3>2
  <2>5. e[n] = Emits(ops, e[n - 1])
    BY <1>6, <2>3
  <2>6. Ordered(e[n], ops) /\ Len(e[n]) \in {Len(e[n - 1]), Len(e[n - 1]) + 1}
    BY <2>4, <2>5, EmitsInOrder
  <2>7. Len(e[n - 1]) \in Nat
    BY <2>4 DEF Ordered
  <2>8. Good(n)
    BY <2>3, <2>4, <2>6, <2>7
  <2>9. QED
    BY <2>1, <2>8
<1>8. Good(m)
  <2>1. m \in 0..m
    BY <1>1
  <2>2. QED
    BY <1>7, <2>1
<1>9. QED
  BY <1>5, <1>8

\* An executable graph has every operation in its order.
WholeOrder(g, ops) ==
    /\ Ordered(g, ops) /\ Len(g) = Len(ops)
    /\ \A i \in DOMAIN ops : \E k \in DOMAIN g : g[k] = ops[i]

(* An executable plan is applied as a whole, in an order of its graph.      *)
LEMMA ExecutableOrder ==
    ASSUME NEW ops, Sequence(ops), Executable(ops)
    PROVE  WholeOrder(GraphOrder(ops), ops)
<1> DEFINE g == GraphOrder(ops)
           n == Len(ops)
           h == [k \in 1..n |-> CHOOSE i \in 1..n : ops[i] = g[k]]
<1>1. Ordered(g, ops) /\ Len(g) = n
  BY GraphOrdered DEF Executable
<1>2. n \in Nat /\ DOMAIN ops = 1..n
  BY DEF Sequence
<1>3. DOMAIN g = 1..n /\ \A k \in 1..n : \E i \in 1..n : ops[i] = g[k]
  <2> DEFINE T == {ops[i] : i \in DOMAIN ops}
  <2>1. g \in Seq(T)
    BY <1>1 DEF Ordered
  <2> HIDE DEF g, T
  <2>2. DOMAIN g = 1..n /\ \A k \in 1..n : g[k] \in T
    BY <1>1, <1>2, <2>1
  <2>3. QED
    BY <1>2, <2>2 DEF T
<1> HIDE DEF g
<1>4. \A k \in 1..n : h[k] \in 1..n /\ ops[h[k]] = g[k]
  BY <1>3
<1>5. \A k, j \in 1..n : h[k] = h[j] => k = j
  <2> SUFFICES ASSUME NEW k \in 1..n, NEW j \in 1..n, h[k] = h[j] PROVE k = j
    OBVIOUS
  <2>1. g[k] = g[j]
    BY <1>4
  <2>2. QED
    BY <1>1, <1>3, <2>1 DEF Ordered
<1>6. h \in Injection(1..n, 1..n)
  <2>1. h \in [1..n -> 1..n]
    BY <1>4
  <2> HIDE DEF h
  <2>2. QED
    BY <1>5, <2>1 DEF Injection, IsInjective
<1>7. h \in Surjection(1..n, 1..n)
  <2>1. IsFiniteSet(1..n)
    BY <1>2, FS_Interval
  <2> HIDE DEF h
  <2>2. QED
    BY <1>6, <2>1, FS_Injection
<1>8. ASSUME NEW i \in DOMAIN ops PROVE \E k \in DOMAIN g : g[k] = ops[i]
  <2>1. PICK k \in 1..n : h[k] = i
    BY <1>2, <1>7 DEF Surjection
  <2>2. QED
    BY <1>3, <1>4, <2>1
<1>9. QED
  BY <1>1, <1>8 DEF WholeOrder, g

\* The first n operations in the order of the graph have a row.
Reached(rs, ops, n) == DOMAIN rs = {GraphOrder(ops)[k].id : k \in 1..n}

(* The number of rows tells how far a run has come.                         *)
LEMMA RowsCount ==
    ASSUME NEW ops, Sequence(ops), Executable(ops), NEW n \in 0..Len(ops),
           NEW rs, Reached(rs, ops, n)
    PROVE  Cardinality(DOMAIN rs) = n /\ (DOMAIN rs = Ids(ops) <=> n = Len(ops))
<1> DEFINE g == GraphOrder(ops)
           m == Len(ops)
           f == [k \in 1..n |-> g[k].id]
<1>1. WholeOrder(g, ops)
  BY ExecutableOrder
<1>2. m \in Nat /\ n \in Nat /\ n <= m /\ DOMAIN ops = 1..m
  BY DEF Sequence
<1>3. DOMAIN g = 1..m
  BY <1>1, <1>2 DEF WholeOrder, Ordered
<1> HIDE DEF g, m
<1>4. \A k \in 1..n : k \in DOMAIN g
  BY <1>2, <1>3
<1>5. \A k, j \in DOMAIN g : g[k].id = g[j].id => k = j
  BY <1>1 DEF WholeOrder, Ordered
<1>6. DOMAIN rs = {g[k].id : k \in 1..n}
  BY DEF Reached, g
<1>7. Cardinality(DOMAIN rs) = n
  <2>1. f \in Injection(1..n, DOMAIN rs) /\ f \in Surjection(1..n, DOMAIN rs)
    BY <1>4, <1>5, <1>6 DEF Injection, IsInjective, Surjection
  <2>2. IsFiniteSet(1..n) /\ Cardinality(1..n) = n
    BY <1>2, FS_Interval
  <2> HIDE DEF f
  <2>3. QED
    BY <2>1, <2>2, FS_Surjection
<1>8. Ids(ops) = {g[k].id : k \in 1..m}
  <2>1. \A i \in DOMAIN ops : \E k \in 1..m : ops[i].id = g[k].id
    BY <1>1, <1>3 DEF WholeOrder
  <2>2. \A k \in 1..m : \E i \in DOMAIN ops : g[k].id = ops[i].id
    <3> TAKE k \in 1..m
    <3> DEFINE T == {ops[i] : i \in DOMAIN ops}
    <3>1. g \in Seq(T)
      BY <1>1 DEF WholeOrder, Ordered
    <3> HIDE DEF T
    <3>2. k \in DOMAIN g
      BY <1>3
    <3>3. g[k] \in T
      BY <3>1, <3>2
    <3>4. QED
      BY <3>3 DEF T
  <2> HIDE DEF f
  <2>3. Ids(ops) \subseteq {g[k].id : k \in 1..m}
    BY <2>1 DEF Ids
  <2>4. {g[k].id : k \in 1..m} \subseteq Ids(ops)
    BY <2>2 DEF Ids
  <2>5. QED
    BY <2>3, <2>4
<1>9. n # m => DOMAIN rs # Ids(ops)
  <2> SUFFICES ASSUME n # m PROVE DOMAIN rs # Ids(ops)
    OBVIOUS
  <2>1. m \in 1..m /\ \A k \in 1..n : k # m
    BY <1>2
  <2>2. g[m].id \in Ids(ops)
    BY <1>8, <2>1
  <2>3. g[m].id \notin DOMAIN rs
    BY <1>3, <1>4, <1>5, <1>6, <2>1
  <2>4. QED
    BY <2>2, <2>3
<1>10. n = m => DOMAIN rs = Ids(ops)
  BY <1>6, <1>8
<1>11. QED
  BY <1>7, <1>9, <1>10 DEF m

\* The operation that follows the rows rs of n operations.
Follows(op, ops, rs, n) ==
    /\ \E i \in DOMAIN ops : op = ops[i]
    /\ op.id \notin DOMAIN rs
    /\ op.dependsOn \subseteq DOMAIN rs
    /\ \A new : DOMAIN new = DOMAIN rs \cup {op.id} => Reached(new, ops, n + 1)

(* The operation a run is at is a new one, after what it depends on.        *)
LEMMA CurrentIsNext ==
    ASSUME NEW ops, Sequence(ops), Executable(ops), NEW n \in 0..Len(ops)-1,
           NEW rs, Reached(rs, ops, n), NEW op, op = GraphOrder(ops)[n + 1]
    PROVE  Follows(op, ops, rs, n)
<1> DEFINE g == GraphOrder(ops)
           m == Len(ops)
           T == {ops[i] : i \in DOMAIN ops}
<1>1. WholeOrder(g, ops)
  BY ExecutableOrder
<1>2. m \in Nat /\ n \in Nat /\ n + 1 \in 1..m
  BY DEF Sequence
<1>3. Len(g) = m /\ g \in Seq(T)
  BY <1>1 DEF WholeOrder, Ordered
<1> HIDE DEF g, m, T
<1>4. DOMAIN g = 1..m
  BY <1>3
<1>5. op = g[n + 1] /\ DOMAIN rs = {g[k].id : k \in 1..n}
  BY DEF g, Reached
<1>6. n + 1 \in DOMAIN g /\ \A k \in 1..n : k \in DOMAIN g /\ k # n + 1
  BY <1>2, <1>4
<1>7. op \in T
  BY <1>3, <1>5, <1>6
<1>8. op.id \notin DOMAIN rs
  <2>1. \A k, j \in DOMAIN g : g[k].id = g[j].id => k = j
    BY <1>1 DEF WholeOrder, Ordered
  <2>2. QED
    BY <1>5, <1>6, <2>1
<1>9. op.dependsOn \subseteq DOMAIN rs
  <2>0. \A i \in DOMAIN g : \A d \in g[i].dependsOn : \E j \in 1..i-1 : g[j].id = d
    BY <1>1 DEF WholeOrder, Ordered
  <2>1. \A d \in op.dependsOn : \E j \in 1..n+1-1 : g[j].id = d
    BY <1>5, <1>6, <2>0
  <2>2. n + 1 - 1 = n
    BY <1>2
  <2>3. QED
    BY <1>5, <2>1, <2>2
<1>10. DOMAIN rs \cup {op.id} = {g[k].id : k \in 1..n+1}
  <2>1. 1..n+1 = 1..n \cup {n + 1}
    BY <1>2
  <2>2. QED
    BY <1>5, <2>1
<1>11. QED
  BY <1>7, <1>8, <1>9, <1>10 DEF T, Reached, g, Follows

-----------------------------------------------------------------------------
(* The resolver's drafts.                                                   *)

Request(req) ==
    /\ DOMAIN req = {"actions", "keepRepos", "keepLists"}
    /\ IsFiniteSet(req.actions)
    /\ \A a \in req.actions : Action(a) /\ ParsedAction(a)

OpFields == {"id", "kind", "on", "dependsOn", "listIds", "targets", "made", "from",
             "to", "stamp", "repos"}

\* The draft of each kind for its repository, List or creating action.
StarDraft(r) == [NoOp EXCEPT !.kind = "star", !.on = r]
UnstarDraft(r, acc, full) ==
    [NoOp EXCEPT !.kind = "unstar", !.on = r,
                 !.listIds = IF full THEN ListsOf(acc, r) ELSE {}]
CreateDraft(a, acc) ==
    [NoOp EXCEPT !.kind = "list_create", !.on = CHOOSE c \in a.refs : TRUE,
                 !.listIds = AllLists(acc), !.to = a.meta]
UpdateDraft(l, req, acc) ==
    [NoOp EXCEPT !.kind = "list_update", !.on = l,
                 !.from = acc.lists[l].meta, !.to = Updated(req, acc, l)]
DeleteDraft(l, acc) ==
    [NoOp EXCEPT !.kind = "list_delete", !.on = l, !.from = acc.lists[l].meta,
                 !.stamp = acc.lists[l].stamp, !.repos = MembersOf(acc, l)]
MembershipDraft(r, req, acc) ==
    [NoOp EXCEPT !.kind = "list_membership_set", !.on = r,
                 !.listIds = ListsOf(acc, r),
                 !.targets = Existing(req, acc, r), !.made = Created(req, r)]

\* What a draft of the resolver is.
DraftOf(d, req, acc, full) ==
    /\ DOMAIN d = OpFields
    /\ d.kind \in Kinds
    /\ d.id = <<0, 0>> /\ d.dependsOn = {}
    /\ d.kind = "star" =>
        /\ d.on \in ReposOf(req, {"star"}) \ acc.starred
        /\ d = StarDraft(d.on)
    /\ d.kind = "unstar" =>
        /\ d.on \in ReposOf(req, {"unstar"}) \cap acc.starred
        /\ d = UnstarDraft(d.on, acc, full)
    /\ d.kind = "list_create" =>
        \E a \in ActionsOf(req, {"list_create"}) : d = CreateDraft(a, acc)
    /\ d.kind = "list_update" =>
        /\ d.on \in TargetsOf(req, {"list_update"})
        /\ Updated(req, acc, d.on) # acc.lists[d.on].meta
        /\ d = UpdateDraft(d.on, req, acc)
    /\ d.kind = "list_delete" =>
        /\ d.on \in TargetsOf(req, {"list_delete"})
        /\ d = DeleteDraft(d.on, acc)
    /\ d.kind = "list_membership_set" =>
        /\ d.on \in ReposOf(req, Membership)
        /\ Created(req, d.on) # {} \/ Existing(req, acc, d.on) # ListsOf(acc, d.on)
        /\ d = MembershipDraft(d.on, req, acc)
    /\ d.kind # "list_membership_set" => d.made = {}

(* A draft is of one kind, and what its kind says.                          *)
LEMMA DraftKinds ==
    ASSUME NEW req, NEW acc, NEW full, NEW d \in Drafts(req, acc, full)
    PROVE  DraftOf(d, req, acc, full)
<1>1. CASE d \in StarDrafts(req, acc)
  <2>1. PICK r \in ReposOf(req, {"star"}) \ acc.starred : d = StarDraft(r)
    BY <1>1 DEF StarDrafts, StarDraft
  <2>2. /\ DOMAIN d = OpFields /\ d.kind = "star" /\ d.on = r /\ d.id = <<0, 0>>
        /\ d.dependsOn = {} /\ d.made = {}
    BY <2>1 DEF StarDraft, NoOp, OpFields
  <2>3. QED
    BY <2>1, <2>2 DEF DraftOf, Kinds
<1>2. CASE d \in UnstarDrafts(req, acc, full)
  <2>1. PICK r \in ReposOf(req, {"unstar"}) \cap acc.starred : d = UnstarDraft(r, acc, full)
    BY <1>2 DEF UnstarDrafts, UnstarDraft
  <2>2. /\ DOMAIN d = OpFields /\ d.kind = "unstar" /\ d.on = r /\ d.id = <<0, 0>>
        /\ d.dependsOn = {} /\ d.made = {}
    BY <2>1 DEF UnstarDraft, NoOp, OpFields
  <2>3. QED
    BY <2>1, <2>2 DEF DraftOf, Kinds
<1>3. CASE d \in CreateDrafts(req, acc)
  <2>1. PICK a \in ActionsOf(req, {"list_create"}) : d = CreateDraft(a, acc)
    BY <1>3 DEF CreateDrafts, CreateDraft
  <2>2. /\ DOMAIN d = OpFields /\ d.kind = "list_create" /\ d.id = <<0, 0>>
        /\ d.dependsOn = {} /\ d.made = {}
    BY <2>1 DEF CreateDraft, NoOp, OpFields
  <2>3. QED
    BY <2>1, <2>2 DEF DraftOf, Kinds
<1>4. CASE d \in UpdateDrafts(req, acc)
  <2>1. PICK l \in TargetsOf(req, {"list_update"}) :
            d = UpdateDraft(l, req, acc) /\ Updated(req, acc, l) # acc.lists[l].meta
    BY <1>4 DEF UpdateDrafts, UpdateDraft
  <2>2. /\ DOMAIN d = OpFields /\ d.kind = "list_update" /\ d.on = l /\ d.id = <<0, 0>>
        /\ d.dependsOn = {} /\ d.made = {}
    BY <2>1 DEF UpdateDraft, NoOp, OpFields
  <2>3. QED
    BY <2>1, <2>2 DEF DraftOf, Kinds
<1>5. CASE d \in DeleteDrafts(req, acc)
  <2>1. PICK l \in TargetsOf(req, {"list_delete"}) : d = DeleteDraft(l, acc)
    BY <1>5 DEF DeleteDrafts, DeleteDraft
  <2>2. /\ DOMAIN d = OpFields /\ d.kind = "list_delete" /\ d.on = l /\ d.id = <<0, 0>>
        /\ d.dependsOn = {} /\ d.made = {}
    BY <2>1 DEF DeleteDraft, NoOp, OpFields
  <2>3. QED
    BY <2>1, <2>2 DEF DraftOf, Kinds
<1>6. CASE d \in MembershipDrafts(req, acc)
  <2>1. PICK r \in ReposOf(req, Membership) :
            /\ d = MembershipDraft(r, req, acc)
            /\ Created(req, r) # {} \/ Existing(req, acc, r) # ListsOf(acc, r)
    BY <1>6 DEF MembershipDrafts, MembershipDraft
  <2>2. /\ DOMAIN d = OpFields /\ d.kind = "list_membership_set" /\ d.on = r
        /\ d.id = <<0, 0>> /\ d.dependsOn = {}
    BY <2>1 DEF MembershipDraft, NoOp, OpFields
  <2>3. QED
    BY <2>1, <2>2 DEF DraftOf, Kinds
<1>7. QED
  BY <1>1, <1>2, <1>3, <1>4, <1>5, <1>6 DEF Drafts

\* compareDrafts
DraftKey(S) == [d \in S |-> <<Rank(d.kind), d.on>>]

(* The ranks tell the kinds apart.                                          *)
LEMMA RanksDiffer ==
    ASSUME NEW k1 \in Kinds, NEW k2 \in Kinds
    PROVE  Rank(k1) \in 0..5 /\ (Rank(k1) = Rank(k2) => k1 = k2)
<1>1. ASSUME NEW k \in Kinds
      PROVE  /\ k = "star" => Rank(k) = 0
             /\ k = "unstar" => Rank(k) = 1
             /\ k = "list_create" => Rank(k) = 2
             /\ k = "list_update" => Rank(k) = 3
             /\ k = "list_delete" => Rank(k) = 4
             /\ k = "list_membership_set" => Rank(k) = 5
  BY <1>1 DEF Rank
<1>2. QED
  BY <1>1 DEF Kinds

\* A request that the resolver does not refuse, of an account.
Resolvable(req, acc, full, n) ==
    /\ Request(req)
    /\ n \in Nat /\ Account(acc, n)
    /\ ~Refused(req, acc, full)

(* What a request names is known, and numbers.                              *)
LEMMA NamesKnown ==
    ASSUME NEW req, NEW acc, NEW full, NEW n, Resolvable(req, acc, full, n)
    PROVE  /\ \A kinds : ReposOf(req, kinds) \subseteq Repo
           /\ \A kinds : TargetsOf(req, kinds) \subseteq 1..n
           /\ \A kinds : TargetsOf(req, kinds) \subseteq AllLists(acc)
           /\ req.keepLists \subseteq 1..n
           /\ \A a \in ActionsOf(req, {"list_create"}) :
                /\ (CHOOSE c \in a.refs : TRUE) \in Nat
                /\ a.refs = {CHOOSE c \in a.refs : TRUE}
<1>1. \A a \in req.actions : Action(a) /\ ParsedAction(a)
  BY DEF Resolvable, Request
<1>2. \A kinds : ReposOf(req, kinds) \subseteq Repo
  BY <1>1 DEF ReposOf, ActionsOf, Action
<1>3. /\ req.keepLists \subseteq AllLists(acc)
      /\ \A a \in req.actions : a.lists \subseteq AllLists(acc)
  BY DEF Resolvable, Refused, Unknown
<1>4. AllLists(acc) \subseteq 1..n
  BY DEF Resolvable, Account, AllLists
<1>5. \A kinds : TargetsOf(req, kinds) \subseteq AllLists(acc)
  BY <1>3 DEF TargetsOf, ActionsOf
<1>6. ASSUME NEW a \in ActionsOf(req, {"list_create"})
      PROVE  /\ (CHOOSE c \in a.refs : TRUE) \in Nat
             /\ a.refs = {CHOOSE c \in a.refs : TRUE}
  <2>1. a \in req.actions /\ a.kind = "list_create"
    BY DEF ActionsOf
  <2>2. a.refs \subseteq Nat /\ \A c, d \in a.refs : c = d
    BY <1>1, <2>1 DEF Action
  <2>3. a.refs # {}
    BY <1>1, <2>1 DEF ParsedAction, Membership
  <2>4. QED
    BY <2>2, <2>3
<1>7. QED
  BY <1>2, <1>3, <1>4, <1>5, <1>6

(* No two drafts are of the same kind for the same thing.                   *)
LEMMA DraftsKeyed ==
    ASSUME NEW req, NEW acc, NEW full, NEW n, Resolvable(req, acc, full, n)
    PROVE  LET S == Drafts(req, acc, full)
           IN  Keyed(DraftKey(S), S) /\ IsFiniteSet(S)
<1> DEFINE S == Drafts(req, acc, full)
           k == DraftKey(S)
           B == Repo \cup 1..n \cup UNION {a.refs : a \in req.actions}
<1>1. \A d \in S : DraftOf(d, req, acc, full)
  BY DraftKinds
<1> HIDE DEF S
<1>2. ASSUME NEW d \in S PROVE d.kind \in Kinds /\ d.on \in Nat /\ d.on \in B
  <2>1. DraftOf(d, req, acc, full)
    BY <1>1
  <2>2. d.kind \in Kinds
    BY <2>1 DEF DraftOf
  <2>3. Repo \subseteq Nat /\ 1..n \subseteq Nat
    BY ChangesAssumption DEF Resolvable
  <2>4. CASE d.kind \in {"star", "unstar", "list_membership_set"}
    <3>1. d.on \in Repo
      BY <2>1, <2>4, NamesKnown DEF DraftOf
    <3>2. QED
      BY <2>2, <2>3, <3>1
  <2>5. CASE d.kind \in {"list_update", "list_delete"}
    <3>1. d.on \in 1..n
      BY <2>1, <2>5, NamesKnown DEF DraftOf
    <3>2. QED
      BY <2>2, <2>3, <3>1
  <2>6. CASE d.kind = "list_create"
    <3>1. PICK a \in ActionsOf(req, {"list_create"}) : d = CreateDraft(a, acc)
      BY <2>1, <2>6 DEF DraftOf
    <3>2. d.on = CHOOSE c \in a.refs : TRUE
      BY <3>1 DEF CreateDraft, NoOp
    <3>3. a \in req.actions
      BY DEF ActionsOf
    <3>4. d.on \in Nat /\ d.on \in a.refs
      BY <3>2, NamesKnown
    <3>5. QED
      BY <2>2, <3>3, <3>4
  <2>7. QED
    BY <2>2, <2>4, <2>5, <2>6 DEF Kinds
<1>3. ASSUME NEW x \in S, NEW y \in S, x.kind = y.kind, x.on = y.on PROVE x = y
  <2>1. DraftOf(x, req, acc, full) /\ DraftOf(y, req, acc, full)
    BY <1>1
  <2>2. CASE x.kind # "list_create"
    BY <1>3, <2>1, <2>2 DEF DraftOf, Kinds
  <2>3. CASE x.kind = "list_create"
    <3>1. PICK a \in ActionsOf(req, {"list_create"}), b \in ActionsOf(req, {"list_create"}) :
            x = CreateDraft(a, acc) /\ y = CreateDraft(b, acc)
      BY <1>3, <2>1, <2>3 DEF DraftOf
    <3>2. x.on = (CHOOSE c \in a.refs : TRUE) /\ y.on = CHOOSE c \in b.refs : TRUE
      BY <3>1 DEF CreateDraft, NoOp
    <3>3. a.refs = {x.on} /\ b.refs = {y.on}
      BY <3>2, NamesKnown
    <3>4. a.refs = b.refs
      BY <1>3, <3>3
    <3>5. a = b
      BY <3>4 DEF Resolvable, Refused, Conflicting
    <3>6. QED
      BY <3>1, <3>5
  <2>4. QED
    BY <2>2, <2>3
<1>4. \A d \in S : k[d] = <<Rank(d.kind), d.on>>
  BY DEF DraftKey
<1> HIDE DEF k
<1>5. \A d \in S : k[d] \in (0..5) \X B /\ k[d] \in Nat \X Nat
  <2> TAKE d \in S
  <2>1. Rank(d.kind) \in 0..5 /\ d.on \in B /\ d.on \in Nat
    BY <1>2, RanksDiffer
  <2> HIDE DEF B
  <2>2. QED
    BY <1>4, <2>1
<1>6. \A x, y \in S : k[x] = k[y] => x = y
  <2> SUFFICES ASSUME NEW x \in S, NEW y \in S, k[x] = k[y] PROVE x = y
    OBVIOUS
  <2>1. Rank(x.kind) = Rank(y.kind) /\ x.on = y.on
    BY <1>4
  <2>2. x.kind = y.kind
    BY <1>2, <2>1, RanksDiffer
  <2>3. QED
    BY <1>3, <2>1, <2>2
<1>7. Keyed(k, S)
  BY <1>5, <1>6 DEF Keyed
<1>8. IsFiniteSet(B)
  <2>1. IsFiniteSet(Repo) /\ IsFiniteSet(1..n)
    BY ChangesAssumption, FS_Interval DEF Resolvable
  <2>2. IsFiniteSet({a.refs : a \in req.actions})
    <3> DEFINE f == [a \in req.actions |-> a.refs]
    <3>1. {f[a] : a \in req.actions} = {a.refs : a \in req.actions}
      OBVIOUS
    <3>2. IsFiniteSet(req.actions)
      BY DEF Resolvable, Request
    <3> HIDE DEF f
    <3>3. QED
      BY <3>1, <3>2, ImageFinite
  <2>3. \A T \in {a.refs : a \in req.actions} : IsFiniteSet(T)
    BY DEF Resolvable, Request, Action
  <2>4. IsFiniteSet(UNION {a.refs : a \in req.actions})
    BY <2>2, <2>3, FS_UNION
  <2>5. QED
    BY <2>1, <2>4, FS_Union
<1>9. IsFiniteSet(0..5)
  <2>1. \A i, j \in Int : IsFiniteSet(i..j)
    BY FS_Interval
  <2>2. 0 \in Int /\ 5 \in Int
    OBVIOUS
  <2>3. QED
    BY <2>1, <2>2, Zenon
<1>10. IsFiniteSet(S)
  <2> HIDE DEF B
  <2>1. QED
    BY <1>5, <1>7, <1>8, <1>9, KeyedIsFinite
<1>11. QED
  BY <1>7, <1>10 DEF k, S

-----------------------------------------------------------------------------
(* From the drafts to the operations.                                       *)

\* The ids of the operations for the drafts w that create the Lists refs, and
\* that star r.
Creating(w, refs) ==
    {<<j, 0>> : j \in {i \in DOMAIN w : w[i].kind = "list_create" /\ w[i].on \in refs}}
Starring(w, r) ==
    {<<j, 0>> : j \in {i \in DOMAIN w : w[i].kind = "star" /\ w[i].on = r}}

FromDraft(op, w, i) ==
    IF w[i].kind = "list_membership_set"
    THEN op = [w[i] EXCEPT !.id = <<i, 0>>,
                           !.dependsOn = Creating(w, w[i].made)
                                             \cup Starring(w, w[i].on),
                           !.made = Creating(w, w[i].made)]
    ELSE op = [w[i] EXCEPT !.id = <<i, 0>>]

FromDrafts(ops, w) ==
    /\ DOMAIN ops = DOMAIN w /\ ops = [i \in DOMAIN w |-> ops[i]]
    /\ \A i \in DOMAIN w : FromDraft(ops[i], w, i)

\* Every client reference of a membership has its creation.
RefsCreated(S) ==
    \A d \in S : d.kind = "list_membership_set" =>
        \A c \in d.made : \E e \in S : e.kind = "list_create" /\ e.on = c

(* The operations are the drafts in the order of their keys, with ids for   *)
(* references (operationFromDraft).                                         *)
LEMMA ResolvedDrafts ==
    ASSUME NEW S, IsFiniteSet(S), Keyed(DraftKey(S), S), RefsCreated(S)
    PROVE  \E w : Lists(w, S) /\ FromDrafts(Resolved(S), w)
<1> DEFINE key(d) == <<Rank(d.kind), d.on>>
           k == DraftKey(S)
           w == InOrder(S, key)
           at(d) == <<CHOOSE i \in DOMAIN w : w[i] = d, 0>>
           stars == {d \in S : d.kind = "star"}
           creates == {d \in S : d.kind = "list_create"}
           named(d) == <<IF d.kind = "star" THEN "star" ELSE "create", d.on>>
           ids == [n \in {<<"star", d.on>> : d \in stars}
                            \cup {<<"create", d.on>> : d \in creates} |->
                      at(CHOOSE d \in stars \cup creates : n = named(d))]
<1>1. Lists(w, S)
  <2>0. Keyed(k, S)
    OBVIOUS
  <2>1. w = [i \in 1..Cardinality(S) |->
              CHOOSE x \in S : Cardinality({y \in S : Below(key(y), key(x))}) = i - 1]
    BY DEF InOrder
  <2>2. \A x \in S : {y \in S : Below(key(y), key(x))} = Earlier(S, k, x)
    BY DEF Earlier, DraftKey
  <2>3. DOMAIN w = 1..Cardinality(S) /\ w = [i \in DOMAIN w |-> w[i]]
    BY <2>1
  <2>4. ASSUME NEW i \in DOMAIN w PROVE w[i] \in S /\ Place(S, k, w[i]) = i - 1
    <3> DEFINE P(x) == Cardinality({y \in S : Below(key(y), key(x))}) = i - 1
    <3>1. \A x \in S : P(x) <=> Place(S, k, x) = i - 1
      BY <2>2 DEF Place
    <3>2. w[i] = CHOOSE x \in S : P(x)
      BY <2>1, <2>3
    <3> HIDE DEF P, w, k
    <3>3. \E x \in S : Place(S, k, x) = i - 1
      BY <2>0, <2>3, PlacesTaken
    <3>4. w[i] \in S /\ P(w[i])
      BY <3>1, <3>2, <3>3
    <3>5. QED
      BY <3>1, <3>4
  <2> HIDE DEF w, k
  <2>5. QED
    <3>1. InPlace(w, S, k)
      BY <2>3, <2>4 DEF InPlace
    <3>2. QED
      BY <2>0, <3>1, ListedByPlace
<1>2. \A x, y \in S : x.kind = y.kind /\ x.on = y.on => x = y
  BY DEF Keyed, DraftKey
<1>3. Resolved(S) = [i \in DOMAIN w |->
          IF w[i].kind = "list_membership_set"
          THEN [w[i] EXCEPT !.id = <<i, 0>>, !.dependsOn = Needs(w[i], ids),
                            !.made = {ids[<<"create", c>>] : c \in w[i].made}]
          ELSE [w[i] EXCEPT !.id = <<i, 0>>]]
  BY DEF Resolved
<1> HIDE DEF w
<1>4. ASSUME NEW j \in DOMAIN w
      PROVE  w[j] \in S /\ at(w[j]) = <<j, 0>>
  BY <1>1 DEF Lists
<1>5. ASSUME NEW j \in DOMAIN w, w[j].kind = "star"
      PROVE  <<"star", w[j].on>> \in DOMAIN ids /\ ids[<<"star", w[j].on>>] = <<j, 0>>
  <2> DEFINE d == w[j]
             n == <<"star", w[j].on>>
  <2>1. d \in stars /\ n = named(d) /\ n \in {<<"star", e.on>> : e \in stars}
    BY <1>4, <1>5
  <2>2. \A e \in stars \cup creates : n = named(e) => e = d
    <3> SUFFICES ASSUME NEW e \in stars \cup creates, n = named(e) PROVE e = d
      OBVIOUS
    <3>1. e.kind = "star" /\ e.on = d.on
      OBVIOUS
    <3>2. QED
      BY <1>2, <1>4, <1>5, <3>1
  <2> HIDE DEF n, d, named, stars, creates
  <2>3. (CHOOSE e \in stars \cup creates : n = named(e)) = d
    BY <2>1, <2>2
  <2>4. ids[n] = at(d)
    BY <2>1, <2>3
  <2>5. QED
    BY <1>4, <2>1, <2>4 DEF n, d
<1>6. ASSUME NEW j \in DOMAIN w, w[j].kind = "list_create"
      PROVE  ids[<<"create", w[j].on>>] = <<j, 0>>
  <2> DEFINE d == w[j]
             n == <<"create", w[j].on>>
  <2>1. d \in creates /\ n = named(d) /\ n \in {<<"create", e.on>> : e \in creates}
    BY <1>4, <1>6
  <2>2. \A e \in stars \cup creates : n = named(e) => e = d
    <3> SUFFICES ASSUME NEW e \in stars \cup creates, n = named(e) PROVE e = d
      OBVIOUS
    <3>1. e.kind = "list_create" /\ e.on = d.on
      OBVIOUS
    <3>2. QED
      BY <1>2, <1>4, <1>6, <3>1
  <2> HIDE DEF n, d, named, stars, creates
  <2>3. (CHOOSE e \in stars \cup creates : n = named(e)) = d
    BY <2>1, <2>2
  <2>4. ids[n] = at(d)
    BY <2>1, <2>3
  <2>5. QED
    BY <1>4, <2>4 DEF n, d
<1>7. ASSUME NEW r, <<"star", r>> \in DOMAIN ids
      PROVE  \E j \in DOMAIN w : w[j].kind = "star" /\ w[j].on = r
  <2>1. DOMAIN ids = {<<"star", d.on>> : d \in stars}
                        \cup {<<"create", d.on>> : d \in creates}
    OBVIOUS
  <2> HIDE DEF ids
  <2>2. PICK d \in stars : r = d.on
    BY <1>7, <2>1
  <2>3. PICK j \in DOMAIN w : w[j] = d
    BY <1>1, <2>2 DEF Lists
  <2>4. QED
    BY <2>2, <2>3
<1> HIDE DEF ids, at, stars, creates
<1>8. ASSUME NEW i \in DOMAIN w, w[i].kind = "list_membership_set"
      PROVE  /\ {ids[<<"create", c>>] : c \in w[i].made} = Creating(w, w[i].made)
             /\ Needs(w[i], ids) = Creating(w, w[i].made) \cup Starring(w, w[i].on)
  <2>1. \A c \in w[i].made : \E j \in DOMAIN w : w[j].kind = "list_create" /\ w[j].on = c
    <3> TAKE c \in w[i].made
    <3>1. PICK e \in S : e.kind = "list_create" /\ e.on = c
      BY <1>4, <1>8 DEF RefsCreated
    <3>2. PICK j \in DOMAIN w : w[j] = e
      BY <1>1, <3>1 DEF Lists
    <3>3. QED
      BY <3>1, <3>2
  <2> DEFINE M == {ids[<<"create", c>>] : c \in w[i].made}
  <2>2. M \subseteq Creating(w, w[i].made)
    <3> SUFFICES ASSUME NEW c \in w[i].made
                 PROVE  ids[<<"create", c>>] \in Creating(w, w[i].made)
      OBVIOUS
    <3>1. PICK j \in DOMAIN w : w[j].kind = "list_create" /\ w[j].on = c
      BY <2>1
    <3>2. ids[<<"create", c>>] = <<j, 0>>
      BY <1>6, <3>1
    <3>3. QED
      BY <3>1, <3>2 DEF Creating
  <2>3. Creating(w, w[i].made) \subseteq M
    <3> SUFFICES ASSUME NEW j \in DOMAIN w, w[j].kind = "list_create", w[j].on \in w[i].made
                 PROVE  <<j, 0>> \in M
      BY DEF Creating
    <3>1. QED
      BY <1>6
  <2> DEFINE T == {ids[c] : c \in DOMAIN ids \cap {<<"star", w[i].on>>}}
  <2>4. Needs(w[i], ids) = M \cup T
    <3> DEFINE U == {"create"} \X w[i].made
               V == DOMAIN ids \cap {<<"star", w[i].on>>}
    <3>1. Needs(w[i], ids) = {ids[c] : c \in U \cup V}
      BY DEF Needs
    <3>2. M = {ids[c] : c \in U}
      <4>1. \A u \in U : \E c \in w[i].made : u = <<"create", c>>
        OBVIOUS
      <4>2. \A c \in w[i].made : <<"create", c>> \in U
        OBVIOUS
      <4> HIDE DEF U
      <4>3. QED
        BY <4>1, <4>2
    <3> HIDE DEF U, V, M
    <3>3. QED
      BY <3>1, <3>2 DEF V
  <2>5. T = Starring(w, w[i].on)
    <3>1. ASSUME NEW t \in T PROVE t \in Starring(w, w[i].on)
      <4>1. <<"star", w[i].on>> \in DOMAIN ids /\ t = ids[<<"star", w[i].on>>]
        OBVIOUS
      <4>2. PICK j \in DOMAIN w : w[j].kind = "star" /\ w[j].on = w[i].on
        BY <1>7, <4>1
      <4>3. t = <<j, 0>>
        BY <1>5, <4>1, <4>2
      <4>4. QED
        BY <4>2, <4>3 DEF Starring
    <3>2. ASSUME NEW j \in DOMAIN w, w[j].kind = "star", w[j].on = w[i].on
          PROVE  <<j, 0>> \in T
      <4>1. <<"star", w[i].on>> \in DOMAIN ids /\ ids[<<"star", w[i].on>>] = <<j, 0>>
        BY <1>5, <3>2
      <4>2. QED
        BY <4>1
    <3>3. Starring(w, w[i].on) \subseteq T
      BY <3>2 DEF Starring
    <3>4. QED
      BY <3>1, <3>3
  <2>6. QED
    BY <2>2, <2>3, <2>4, <2>5
<1>9. FromDrafts(Resolved(S), w)
  <2> DEFINE ops == Resolved(S)
  <2>1. DOMAIN ops = DOMAIN w /\ ops = [i \in DOMAIN w |-> ops[i]]
    BY <1>3
  <2>2. ASSUME NEW i \in DOMAIN w PROVE FromDraft(ops[i], w, i)
    BY <1>3, <1>8 DEF FromDraft
  <2> HIDE DEF ops
  <2>3. QED
    BY <2>1, <2>2 DEF FromDrafts, ops
<1>10. QED
  BY <1>1, <1>9

-----------------------------------------------------------------------------
(* The plan that the plan service makes.                                    *)

Planned(ops, req, acc, full, n) ==
    /\ Resolvable(req, acc, full, n)
    /\ Sequence(ops) /\ Executable(ops)
    /\ \E w : Lists(w, Drafts(req, acc, full)) /\ FromDrafts(ops, w)

(* The creation of every List that is referred to is among the drafts.      *)
LEMMA ReferencesCreated ==
    ASSUME NEW req, NEW acc, NEW full, NEW n, Resolvable(req, acc, full, n)
    PROVE  RefsCreated(Drafts(req, acc, full))
<1> DEFINE S == Drafts(req, acc, full)
<1>1. SUFFICES ASSUME NEW d \in S, d.kind = "list_membership_set", NEW c \in d.made
               PROVE  \E e \in S : e.kind = "list_create" /\ e.on = c
  BY DEF RefsCreated
<1>2. d.made = Created(req, d.on)
  <2>1. DraftOf(d, req, acc, full)
    BY DraftKinds
  <2>2. d = MembershipDraft(d.on, req, acc)
    BY <1>1, <2>1 DEF DraftOf
  <2>3. MembershipDraft(d.on, req, acc).made = Created(req, d.on)
    BY DEF MembershipDraft, NoOp
  <2>4. QED
    BY <2>2, <2>3
<1>3. PICK a \in ActionsOf(req, Membership) : c \in a.refs
  BY <1>2 DEF Created, ForRepo
<1>4. PICK b \in ActionsOf(req, {"list_create"}) : c \in b.refs
  BY <1>3 DEF Resolvable, Refused, Uncreated
<1> DEFINE e == CreateDraft(b, acc)
<1>5. e \in S
  BY DEF CreateDraft, CreateDrafts, Drafts
<1>6. e.kind = "list_create" /\ e.on = CHOOSE x \in b.refs : TRUE
  BY DEF CreateDraft, NoOp
<1>7. b.refs = {CHOOSE x \in b.refs : TRUE}
  BY NamesKnown
<1>8. e.on = c
  BY <1>4, <1>6, <1>7
<1>9. QED
  BY <1>5, <1>6, <1>8

(* A plan is made of a request that can be resolved, and of its drafts.     *)
LEMMA PlanIsResolved ==
    ASSUME NEW req \in Requests, NEW acc, NEW full, NEW n \in Nat, Account(acc, n),
           Plan(req, acc, full).ok
    PROVE  Planned(Plan(req, acc, full).ops, Selected(req, acc), acc, full, n)
<1> DEFINE wanted == Selected(req, acc)
           S == Drafts(wanted, acc, full)
           ops == Resolved(S)
<1>1. /\ ParsedRequest(req) /\ ~Refused(wanted, acc, full)
      /\ Plan(req, acc, full).ops = ops /\ Executable(ops)
  BY DEF Plan
<1>2. Request(wanted)
  <2> DEFINE f == [a \in req.actions |-> [a EXCEPT !.repos = RepositoriesFor(a, acc)]]
  <2>1. /\ DOMAIN req = {"actions", "keepRepos", "keepLists"}
        /\ IsFiniteSet(req.actions)
        /\ \A a \in req.actions : Action(a)
    BY ChangesAssumption
  <2>2. DOMAIN wanted = DOMAIN req /\ wanted.actions = {f[a] : a \in req.actions}
    BY <2>1 DEF Selected
  <2>3. IsFiniteSet(wanted.actions)
    <3> HIDE DEF f, wanted
    <3>1. QED
      BY <2>1, <2>2, ImageFinite
  <2>4. ASSUME NEW a \in req.actions PROVE Action(f[a]) /\ ParsedAction(f[a])
    <3>1. Action(a) /\ ParsedAction(a)
      BY <1>1, <2>1 DEF ParsedRequest
    <3>2. /\ DOMAIN a = DOMAIN NoAction
          /\ "repos" \in DOMAIN a /\ "kind" \in DOMAIN a /\ "refs" \in DOMAIN a
          /\ "lists" \in DOMAIN a /\ "fields" \in DOMAIN a /\ "byFilter" \in DOMAIN a
      BY <3>1 DEF Action, NoAction
    <3>3. /\ DOMAIN f[a] = DOMAIN NoAction /\ f[a].kind = a.kind /\ f[a].refs = a.refs
          /\ f[a].lists = a.lists /\ f[a].fields = a.fields /\ f[a].byFilter = a.byFilter
          /\ f[a].repos = RepositoriesFor(a, acc)
      BY <3>2
    <3>4. f[a].repos \subseteq a.repos /\ (~a.byFilter => f[a].repos = a.repos)
      BY <3>3 DEF RepositoriesFor
    <3> DEFINE b == f[a]
    <3> HIDE DEF f
    <3>5. Action(b)
      BY <3>1, <3>3, <3>4 DEF Action
    <3>6. a.kind \in Kinds \cup Membership
      BY <3>1 DEF Action
    <3>7. ParsedSelector(a) => ParsedSelector(b)
      BY <3>3, <3>4 DEF ParsedSelector
    <3>8. ParsedTargets(a) => ParsedTargets(b)
      BY <3>3 DEF ParsedTargets
    <3>9. ParsedAction(b)
      BY <3>1, <3>3, <3>6, <3>7, <3>8 DEF ParsedAction, Kinds, Membership
    <3>10. QED
      BY <3>5, <3>9
  <2> HIDE DEF f, wanted
  <2>5. QED
    BY <2>1, <2>2, <2>3, <2>4 DEF Request
<1> HIDE DEF wanted
<1>3. Resolvable(wanted, acc, full, n)
  BY <1>1, <1>2 DEF Resolvable
<1>4. IsFiniteSet(S) /\ Keyed(DraftKey(S), S) /\ RefsCreated(S)
  BY <1>3, DraftsKeyed, ReferencesCreated
<1> HIDE DEF S
<1>5. PICK w : Lists(w, S) /\ FromDrafts(ops, w)
  BY <1>4, ResolvedDrafts
<1>6. Sequence(ops)
  <2> DEFINE T == {ops[i] : i \in DOMAIN ops}
             m == Cardinality(S)
  <2>1. m \in Nat /\ DOMAIN ops = 1..m /\ ops = [i \in DOMAIN ops |-> ops[i]]
    BY <1>5 DEF FromDrafts, Lists
  <2>2. ops \in [1..m -> T]
    <3> HIDE DEF ops
    <3>1. \A i \in DOMAIN ops : ops[i] \in T
      OBVIOUS
    <3> HIDE DEF T
    <3>2. QED
      BY <2>1, <3>1
  <2> HIDE DEF T, m
  <2>3. ops \in Seq(T)
    BY <2>1, <2>2
  <2>4. QED
    BY <2>3 DEF Sequence, T
<1>7. QED
  BY <1>1, <1>3, <1>5, <1>6 DEF Planned, S, wanted

\* The operation op does what the draft d says.
AsDrafted(op, d) ==
    /\ DOMAIN op = OpFields
    /\ op.kind = d.kind /\ op.on = d.on /\ op.listIds = d.listIds
    /\ op.targets = d.targets /\ op.from = d.from /\ op.to = d.to
    /\ op.stamp = d.stamp /\ op.repos = d.repos
    /\ d.kind # "list_membership_set" => op.dependsOn = {} /\ op.made = {}

(* Every operation is numbered, and does what its draft says.               *)
LEMMA OperationOfDraft ==
    ASSUME NEW ops, NEW req, NEW acc, NEW full, NEW n, Planned(ops, req, acc, full, n),
           NEW i \in DOMAIN ops
    PROVE  /\ ops[i].id = <<i, 0>>
           /\ \E d : DraftOf(d, req, acc, full) /\ AsDrafted(ops[i], d)
<1>1. PICK w : Lists(w, Drafts(req, acc, full)) /\ FromDrafts(ops, w)
  BY DEF Planned
<1> DEFINE d == w[i]
<1>2. i \in DOMAIN w /\ d \in Drafts(req, acc, full) /\ FromDraft(ops[i], w, i)
  BY <1>1 DEF Lists, FromDrafts
<1>3. DraftOf(d, req, acc, full)
  BY <1>2, DraftKinds
<1>4. DOMAIN d = OpFields /\ (d.kind # "list_membership_set" => d.made = {} /\ d.dependsOn = {})
  BY <1>3 DEF DraftOf
<1>5. CASE d.kind = "list_membership_set"
  <2> DEFINE D == Creating(w, d.made) \cup Starring(w, d.on)
             M == Creating(w, d.made)
  <2>1. ops[i] = [d EXCEPT !.id = <<i, 0>>, !.dependsOn = D, !.made = M]
    BY <1>2, <1>5 DEF FromDraft
  <2> HIDE DEF D, M, d
  <2>2. ops[i].id = <<i, 0>> /\ AsDrafted(ops[i], d)
    BY <1>4, <1>5, <2>1 DEF AsDrafted, OpFields
  <2>3. QED
    BY <1>3, <2>2
<1>6. CASE d.kind # "list_membership_set"
  <2>1. ops[i] = [d EXCEPT !.id = <<i, 0>>]
    BY <1>2, <1>6 DEF FromDraft
  <2> HIDE DEF d
  <2>2. ops[i].id = <<i, 0>> /\ AsDrafted(ops[i], d)
    BY <1>4, <1>6, <2>1 DEF AsDrafted, OpFields
  <2>3. QED
    BY <1>3, <2>2
<1>7. QED
  BY <1>5, <1>6

-----------------------------------------------------------------------------
(* What is protected.                                                       *)

Spares(op, req) ==
    /\ op.kind \in {"star", "unstar"} => op.on \notin req.keepRepos
    /\ op.kind \in {"list_update", "list_delete"} => op.on \notin req.keepLists
    /\ op.kind = "list_membership_set" =>
            op.targets \cap req.keepLists = op.listIds \cap req.keepLists

\* What an operation may be about.
Typed(op) ==
    /\ op.kind \in Kinds
    /\ op.kind \in {"star", "unstar", "list_membership_set"} => op.on \in Repo

(* What is protected is not among what is asked for.                        *)
LEMMA ProtectedLeftOut ==
    ASSUME NEW req
    PROVE  /\ \A kinds : \A r \in ReposOf(req, kinds) : r \notin req.keepRepos
           /\ \A kinds : \A l \in TargetsOf(req, kinds) : l \notin req.keepLists
           /\ \A r : \A l \in AddedTo(req, r) : l \notin req.keepLists
<1>1. \A X, K : \A x \in X \ K : x \notin K
  OBVIOUS
<1>2. \A kinds : \A r \in ReposOf(req, kinds) : r \notin req.keepRepos
  BY <1>1, Zenon DEF ReposOf
<1>3. \A kinds : \A l \in TargetsOf(req, kinds) : l \notin req.keepLists
  BY <1>1, Zenon DEF TargetsOf
<1>4. \A r : \A l \in AddedTo(req, r) : l \notin req.keepLists
  BY <1>1, Zenon DEF AddedTo
<1>5. QED
  BY <1>2, <1>3, <1>4

(* A membership keeps the protected Lists it finds.                         *)
LEMMA ProtectedStay ==
    ASSUME NEW req, NEW acc, NEW r
    PROVE  Existing(req, acc, r) \cap req.keepLists = ListsOf(acc, r) \cap req.keepLists
<1> DEFINE chosen == UNION {s.lists : s \in SetsOf(req, r)}
           base == IF SetsOf(req, r) = {} THEN ListsOf(acc, r) ELSE chosen
<1>1. chosen \cap req.keepLists = {}
  BY DEF SetsOf
<1>2. AddedTo(req, r) \cap req.keepLists = {}
  BY ProtectedLeftOut
<1>3. Existing(req, acc, r) = ((base \cup AddedTo(req, r)) \ RemovedFrom(req, r))
                                \cup (ListsOf(acc, r) \cap req.keepLists)
  BY DEF Existing, WithProtected
<1>4. base \cap req.keepLists \subseteq ListsOf(acc, r)
  BY <1>1
<1> HIDE DEF base, chosen
<1>5. QED
  BY <1>2, <1>3, <1>4

(* No operation of the plan touches what the request protects.              *)
LEMMA PlanSpares ==
    ASSUME NEW ops, NEW req, NEW acc, NEW full, NEW n, Planned(ops, req, acc, full, n),
           NEW i \in DOMAIN ops
    PROVE  /\ Typed(ops[i]) /\ Spares(ops[i], req)
           /\ ops[i].kind = "list_delete" => ops[i].repos \subseteq Repo
<1>1. PICK d : DraftOf(d, req, acc, full) /\ AsDrafted(ops[i], d)
  BY OperationOfDraft
<1> DEFINE op == ops[i]
<1>2. /\ op.kind = d.kind /\ op.on = d.on /\ op.listIds = d.listIds
      /\ op.targets = d.targets /\ op.repos = d.repos
  BY <1>1 DEF AsDrafted
<1>3. Resolvable(req, acc, full, n)
  BY DEF Planned
<1>4. d.kind \in Kinds
  BY <1>1 DEF DraftOf
<1> HIDE DEF op
<1>5. CASE d.kind \in {"star", "unstar"}
  <2>1. d.on \in ReposOf(req, {d.kind})
    BY <1>1, <1>5 DEF DraftOf
  <2>2. d.on \in Repo /\ d.on \notin req.keepRepos
    BY <1>3, <2>1, NamesKnown, ProtectedLeftOut
  <2>3. QED
    BY <1>2, <1>4, <1>5, <2>2 DEF Typed, Spares, op
<1>6. CASE d.kind = "list_create"
  BY <1>2, <1>4, <1>6 DEF Typed, Spares, op
<1>7. CASE d.kind = "list_update"
  <2>1. d.on \notin req.keepLists
    BY <1>1, <1>7, ProtectedLeftOut DEF DraftOf
  <2>2. QED
    BY <1>2, <1>4, <1>7, <2>1 DEF Typed, Spares, op
<1>8. CASE d.kind = "list_delete"
  <2>1. d.on \notin req.keepLists
    BY <1>1, <1>8, ProtectedLeftOut DEF DraftOf
  <2>2. d.repos = MembersOf(acc, d.on)
    <3>1. d = DeleteDraft(d.on, acc)
      BY <1>1, <1>8 DEF DraftOf
    <3>2. DeleteDraft(d.on, acc).repos = MembersOf(acc, d.on)
      BY DEF DeleteDraft, NoOp
    <3>3. QED
      BY <3>1, <3>2
  <2>3. acc.members \subseteq (DOMAIN acc.lists) \X Repo
    BY <1>3 DEF Resolvable, Account
  <2>4. d.repos \subseteq Repo
    BY <2>2, <2>3 DEF MembersOf
  <2>5. QED
    BY <1>2, <1>4, <1>8, <2>1, <2>4 DEF Typed, Spares, op
<1>9. CASE d.kind = "list_membership_set"
  <2>1. d.on \in Repo
    BY <1>1, <1>3, <1>9, NamesKnown DEF DraftOf
  <2>2. d = MembershipDraft(d.on, req, acc)
    BY <1>1, <1>9 DEF DraftOf
  <2>3. /\ MembershipDraft(d.on, req, acc).targets = Existing(req, acc, d.on)
        /\ MembershipDraft(d.on, req, acc).listIds = ListsOf(acc, d.on)
    BY DEF MembershipDraft, NoOp
  <2>4. d.targets = Existing(req, acc, d.on) /\ d.listIds = ListsOf(acc, d.on)
    BY <2>2, <2>3
  <2>5. QED
    BY <1>2, <1>4, <1>9, <2>1, <2>4, ProtectedStay DEF Typed, Spares, op
<1>10. QED
  BY <1>4, <1>5, <1>6, <1>7, <1>8, <1>9 DEF Kinds

-----------------------------------------------------------------------------
(* The requests of a rollback.                                              *)

\* A plan whose run is undone: operations of the resolver.
Source(ops) ==
    /\ Sequence(ops)
    /\ \A i \in DOMAIN ops :
        /\ ops[i].id = <<i, 0>>
        /\ Typed(ops[i])
        /\ ops[i].kind = "list_delete" => ops[i].repos \subseteq Repo

UpTo(S, r) == Cardinality({q \in S : q <= r})

(* The repositories of a List are told apart by their number in it.         *)
LEMMA NumberedRepos ==
    ASSUME NEW S \in SUBSET Repo, NEW r \in S, NEW s \in S
    PROVE  /\ UpTo(S, r) \in 1..Cardinality(Repo)
           /\ UpTo(S, r) = UpTo(S, s) => r = s
<1> DEFINE U(x) == {q \in S : q <= x}
<1>1. Repo \subseteq Nat /\ IsFiniteSet(Repo) /\ \A x \in S : x \in Nat
  BY ChangesAssumption
<1>2. \A x \in S : /\ U(x) \subseteq Repo /\ IsFiniteSet(U(x)) /\ U(x) # {}
                   /\ Cardinality(U(x)) <= Cardinality(Repo)
  <2> TAKE x \in S
  <2>1. U(x) \in SUBSET Repo /\ x \in U(x)
    <3>1. x <= x
      BY <1>1
    <3>2. QED
      BY <3>1
  <2> HIDE DEF U
  <2>2. QED
    BY <1>1, <2>1, FS_Subset
<1>3. \A x \in S : Cardinality(U(x)) \in 1..Cardinality(Repo)
  <2> TAKE x \in S
  <2> HIDE DEF U
  <2>1. Cardinality(U(x)) \in Nat /\ Cardinality(U(x)) # 0 /\ Cardinality(Repo) \in Nat
    BY <1>1, <1>2, FS_CardinalityType, FS_EmptySet
  <2>2. QED
    BY <1>2, <2>1
<1>4. ASSUME NEW x \in S, NEW y \in S, x < y PROVE Cardinality(U(x)) # Cardinality(U(y))
  <2>1. U(x) \in SUBSET U(y) /\ y \in U(y) /\ y \notin U(x)
    <3>1. x \in Nat /\ y \in Nat /\ \A q \in S : q \in Nat
      BY <1>1
    <3>2. \A q \in S : q <= x => q <= y
      BY <1>4, <3>1
    <3>3. y <= y /\ ~(y <= x)
      BY <1>4, <3>1
    <3>4. QED
      BY <3>2, <3>3
  <2>2. IsFiniteSet(U(y))
    BY <1>2
  <2> HIDE DEF U
  <2>3. QED
    BY <2>1, <2>2, FS_Subset
<1>5. Cardinality(U(r)) = Cardinality(U(s)) => r = s
  <2>1. r \in Nat /\ s \in Nat
    BY <1>1
  <2> HIDE DEF U
  <2>2. QED
    BY <1>4, <2>1
<1>6. QED
  BY <1>3, <1>5 DEF UpTo

RequestOf(q, ops, done, post, snap, i) ==
    \/ /\ ops[i].kind = "unstar"
       /\ q = Restore(ops, done, post, <<i, 1>>, ops[i].on, ops[i].listIds, {ops[i].id})
    \/ /\ ops[i].kind = "list_delete"
       /\ \E r \in ops[i].repos :
            q = Restore(ops, done, post, <<i, UpTo(ops[i].repos, r)>>, r,
                        ListsOf(snap, r), {ops[i].id})
    \/ /\ ops[i].kind = "list_membership_set"
       /\ q = Restore(ops, done, post, <<i, 0>>, ops[i].on, ops[i].listIds,
                      Recreated(ops, done, ops[i].listIds))

(* Each request is of one operation that was done.                          *)
LEMMA RequestsOfOperations ==
    ASSUME NEW ops, Source(ops), NEW done \in SUBSET DOMAIN ops, NEW post, NEW snap,
           NEW q \in Restores(ops, done, post, snap)
    PROVE  \E i \in done : RequestOf(q, ops, done, post, snap, i)
<1> DEFINE one(id, r, lists, needs) == Restore(ops, done, post, id, r, lists, needs)
           Of(i) == CASE ops[i].kind = "unstar" ->
                              {one(<<ops[i].id[1], 1>>, ops[i].on, ops[i].listIds,
                                   {ops[i].id})}
                      [] ops[i].kind = "list_delete" ->
                              {one(NthOf(ops, i, r), r, ListsOf(snap, r), {ops[i].id}) :
                                  r \in ops[i].repos}
                      [] ops[i].kind = "list_membership_set" ->
                              {one(ops[i].id, ops[i].on, ops[i].listIds,
                                   Recreated(ops, done, ops[i].listIds))}
                      [] OTHER -> {}
<1>1. Restores(ops, done, post, snap) = UNION {Of(i) : i \in done}
  BY DEF Restores
<1>2. PICK i \in done : q \in Of(i)
  <2> HIDE DEF Of
  <2>1. QED
    BY <1>1
<1>3. ops[i].id = <<i, 0>> /\ ops[i].id[1] = i /\ Typed(ops[i])
  BY DEF Source
<1>4. \A r : NthOf(ops, i, r) = <<i, UpTo(ops[i].repos, r)>>
  BY <1>3 DEF NthOf, UpTo
<1>5. CASE ops[i].kind = "unstar"
  <2>1. q \in {one(<<ops[i].id[1], 1>>, ops[i].on, ops[i].listIds, {ops[i].id})}
    BY <1>2, <1>5
  <2>2. QED
    BY <1>3, <1>5, <2>1 DEF RequestOf
<1>6. CASE ops[i].kind = "list_delete"
  <2>1. q \in {one(NthOf(ops, i, r), r, ListsOf(snap, r), {ops[i].id}) : r \in ops[i].repos}
    BY <1>2, <1>6
  <2> HIDE DEF one
  <2>2. PICK r \in ops[i].repos : q = one(NthOf(ops, i, r), r, ListsOf(snap, r), {ops[i].id})
    BY <2>1
  <2>3. QED
    BY <1>4, <1>6, <2>2 DEF RequestOf, one
<1>7. CASE ops[i].kind = "list_membership_set"
  <2>1. q \in {one(ops[i].id, ops[i].on, ops[i].listIds,
                   Recreated(ops, done, ops[i].listIds))}
    BY <1>2, <1>7
  <2>2. QED
    BY <1>3, <1>7, <2>1 DEF RequestOf
<1>8. CASE ops[i].kind \notin {"unstar", "list_delete", "list_membership_set"}
  <2>1. Of(i) = {}
    BY <1>8
  <2> HIDE DEF Of
  <2>2. QED
    BY <1>2, <2>1
<1>9. QED
  BY <1>5, <1>6, <1>7, <1>8

\* What a request says of its repository.
GoodRequest(q, m) ==
    /\ q.id \in (1..m) \X (0..Cardinality(Repo)+1)
    /\ q.repo \in Repo
    /\ (q.expected \ q.targets) \cup (q.targets \ q.expected) \subseteq q.affects

(* A request has the number of its operation, and knows what it changes.    *)
LEMMA RequestsAreGood ==
    ASSUME NEW ops, Source(ops), NEW done \in SUBSET DOMAIN ops, NEW post, NEW snap,
           NEW q, NEW i \in done, RequestOf(q, ops, done, post, snap, i)
    PROVE  /\ GoodRequest(q, Len(ops))
           /\ q.id[1] = i
           /\ q.id[2] = 0 => ops[i].kind = "list_membership_set"
<1> DEFINE M == Cardinality(Repo)
<1>1. M \in Nat /\ i \in 1..Len(ops)
  BY ChangesAssumption, FS_CardinalityType DEF Source, Sequence
<1>2. PICK k, r, lists, needs : q = Restore(ops, done, post, <<i, k>>, r, lists, needs)
                                /\ r \in Repo /\ k \in 0..M+1
                                /\ (k = 0 => ops[i].kind = "list_membership_set")
  <2>1. CASE ops[i].kind \in {"unstar", "list_membership_set"}
    <3>1. ops[i].on \in Repo
      BY <2>1 DEF Source, Typed
    <3>2. 0 \in 0..M+1 /\ 1 \in 0..M+1
      BY <1>1
    <3> HIDE DEF M
    <3>3. CASE ops[i].kind = "unstar"
      <4>1. q = Restore(ops, done, post, <<i, 1>>, ops[i].on, ops[i].listIds, {ops[i].id})
        BY <3>3 DEF RequestOf
      <4>2. 1 # 0
        OBVIOUS
      <4>3. QED
        BY <3>1, <3>2, <4>1, <4>2, Zenon
    <3>4. CASE ops[i].kind = "list_membership_set"
      BY <3>1, <3>2, <3>4 DEF RequestOf
    <3>5. QED
      BY <2>1, <3>3, <3>4
  <2>2. CASE ops[i].kind = "list_delete"
    <3>1. PICK r \in ops[i].repos :
            q = Restore(ops, done, post, <<i, UpTo(ops[i].repos, r)>>, r,
                        ListsOf(snap, r), {ops[i].id})
      BY <2>2 DEF RequestOf
    <3>2. ops[i].repos \in SUBSET Repo
      BY <2>2 DEF Source
    <3>3. r \in Repo /\ UpTo(ops[i].repos, r) \in 1..M
      BY <3>2, NumberedRepos
    <3>4. UpTo(ops[i].repos, r) \in 0..M+1 /\ UpTo(ops[i].repos, r) # 0
      BY <1>1, <3>3
    <3> HIDE DEF M
    <3>5. QED
      BY <3>1, <3>3, <3>4
  <2>3. QED
    BY <2>1, <2>2 DEF RequestOf
<1> HIDE DEF M
<1>3. /\ q.id = <<i, k>> /\ q.repo = r
      /\ (q.expected \ q.targets) \cup (q.targets \ q.expected) \subseteq q.affects
  <2> DEFINE kept == lists \ Deleted(ops, done)
             held == Holding(post, r)
             affects == (held \ kept) \cup (kept \ held) \cup (lists \cap Deleted(ops, done))
  <2>1. /\ q.id = <<i, k>> /\ q.repo = r /\ q.expected = held /\ q.targets = kept
        /\ q.affects = affects
    BY <1>2 DEF Restore
  <2> HIDE DEF kept, held
  <2>2. QED
    BY <2>1
<1>4. QED
  BY <1>1, <1>2, <1>3 DEF GoodRequest, M

(* A request is known by its id.                                            *)
LEMMA RequestsDiffer ==
    ASSUME NEW ops, Source(ops), NEW done \in SUBSET DOMAIN ops, NEW post, NEW snap,
           NEW p \in Restores(ops, done, post, snap),
           NEW q \in Restores(ops, done, post, snap), p.id = q.id
    PROVE  p = q
<1>1. PICK i \in done : RequestOf(p, ops, done, post, snap, i)
  BY RequestsOfOperations
<1>2. PICK j \in done : RequestOf(q, ops, done, post, snap, j)
  BY RequestsOfOperations
<1>3. i = j
  BY <1>1, <1>2, RequestsAreGood
<1>4. CASE ops[i].kind \in {"unstar", "list_membership_set"}
  BY <1>1, <1>2, <1>3, <1>4 DEF RequestOf
<1>5. CASE ops[i].kind = "list_delete"
  <2> DEFINE For(r) == Restore(ops, done, post, <<i, UpTo(ops[i].repos, r)>>, r,
                               ListsOf(snap, r), {ops[i].id})
  <2>1. PICK r \in ops[i].repos : p = For(r)
    BY <1>1, <1>5 DEF RequestOf
  <2>2. PICK s \in ops[i].repos : q = For(s)
    BY <1>2, <1>3, <1>5 DEF RequestOf
  <2>3. \A x : For(x).id = <<i, UpTo(ops[i].repos, x)>>
    BY DEF Restore
  <2>4. UpTo(ops[i].repos, r) = UpTo(ops[i].repos, s)
    <3> HIDE DEF For
    <3>1. QED
      BY <2>1, <2>2, <2>3
  <2>5. ops[i].repos \in SUBSET Repo
    BY <1>5 DEF Source
  <2>6. r = s
    BY <2>4, <2>5, NumberedRepos
  <2>7. QED
    BY <2>1, <2>2, <2>6
<1>6. QED
  BY <1>1, <1>4, <1>5 DEF RequestOf

(* A group of requests has one with the least id.                           *)
LEMMA LeastRequest ==
    ASSUME NEW ops, Source(ops), NEW done \in SUBSET DOMAIN ops, NEW post, NEW snap,
           NEW group \in SUBSET Restores(ops, done, post, snap), group # {}
    PROVE  \E q \in group : q.id = LeastId(group)
<1> DEFINE k == [q \in group |-> q.id]
           M == Cardinality(Repo)
           A == 1..Len(ops)
           B == 0..M+1
<1>1. M \in Nat /\ Len(ops) \in Nat
  BY ChangesAssumption, FS_CardinalityType DEF Source, Sequence
<1>2. ASSUME NEW q \in group PROVE q.id \in A \X B
  <2>1. PICK i \in done : RequestOf(q, ops, done, post, snap, i)
    BY RequestsOfOperations
  <2>2. GoodRequest(q, Len(ops))
    BY <2>1, RequestsAreGood
  <2>3. QED
    BY <2>2 DEF GoodRequest
<1>3. A \X B \subseteq Nat \X Nat
  BY <1>1
<1>4. \A p, q \in group : p.id = q.id => p = q
  BY RequestsDiffer
<1>5. Keyed(k, group) /\ \A q \in group : k[q] = q.id /\ k[q] \in A \X B
  <2> HIDE DEF A, B
  <2>1. QED
    BY <1>2, <1>3, <1>4 DEF Keyed
<1>6. IsFiniteSet(A) /\ IsFiniteSet(B)
  BY <1>1, FS_Interval
<1> HIDE DEF k, A, B
<1>7. IsFiniteSet(group)
  BY <1>5, <1>6, KeyedIsFinite
<1>8. PICK q \in group : Place(group, k, q) = 0
  <2>1. Cardinality(group) \in Nat /\ Cardinality(group) # 0
    BY <1>7, FS_CardinalityType, FS_EmptySet
  <2>2. 1 \in 1..Cardinality(group)
    BY <2>1
  <2>3. \E q \in group : Place(group, k, q) = 1 - 1
    BY <1>5, <1>7, <2>2, PlacesTaken
  <2>4. QED
    BY <2>3
<1>9. Earlier(group, k, q) = {}
  <2>1. IsFiniteSet(Earlier(group, k, q))
    BY <1>7, FS_Subset DEF Earlier
  <2>2. QED
    BY <1>8, <2>1, FS_EmptySet DEF Place
<1>10. \A p \in group : p = q \/ Below(q.id, p.id)
  <2> TAKE p \in group
  <2>1. ~Below(p.id, q.id)
    BY <1>5, <1>9 DEF Earlier
  <2>2. p.id \in Nat \X Nat /\ q.id \in Nat \X Nat
    BY <1>2, <1>3
  <2>3. p.id # q.id => Below(q.id, p.id)
    BY <2>1, <2>2, PairsOrdered
  <2>4. QED
    BY <1>4, <2>3
<1>11. QED
  BY <1>10 DEF LeastId

-----------------------------------------------------------------------------
(* The nodes of a rollback.                                                 *)

\* A node knows all that its operation may change.
GoodNode(n, m) ==
    /\ DOMAIN n = {"op", "repos", "lists"} /\ DOMAIN n.op = OpFields
    /\ Typed(n.op)
    /\ n.op.id \in (1..m) \X (0..Cardinality(Repo)+1)
    /\ n.op.kind \in {"star", "unstar"} => n.op.on \in n.repos
    /\ n.op.kind \in {"list_update", "list_delete"} => n.op.on \in n.lists
    /\ n.op.kind = "list_membership_set" =>
        (n.op.listIds \ n.op.targets) \cup (n.op.targets \ n.op.listIds) \subseteq n.lists

(* The inverse of an operation is one node, of its number.                  *)
LEMMA InverseNodes ==
    ASSUME NEW ops, Source(ops), NEW i \in DOMAIN ops, NEW row, NEW post,
           NEW n \in Inverses(ops[i], row, post)
    PROVE  /\ GoodNode(n, Len(ops))
           /\ n.op.id = <<i, 0>> /\ ops[i].kind # "list_membership_set"
           /\ \A p \in Inverses(ops[i], row, post) : p = n
<1> DEFINE op == ops[i]
           new == [NoOp EXCEPT !.id = op.id, !.on = op.on]
           held == Holding(post, op.on)
           star == Node([new EXCEPT !.kind = "unstar", !.listIds = held], {op.on}, held)
           unstar == Node([new EXCEPT !.kind = "star"], {op.on}, {})
           create == Node([new EXCEPT !.kind = "list_delete", !.on = row.list,
                                      !.from = op.to, !.stamp = row.stamp,
                                      !.repos = {m[2] : m \in {p \in post.members :
                                                           p[1] = row.list}}],
                          {}, {row.list})
           update == Node([new EXCEPT !.kind = "list_update", !.from = op.to,
                                      !.to = op.from], {}, {op.on})
           delete == Node([new EXCEPT !.kind = "list_create", !.on = op.id[1],
                                      !.listIds = post.lists, !.to = op.from],
                          {}, {op.on})
           I == Inverses(op, row, post)
<1>1. /\ Typed(op) /\ op.id = <<i, 0>> /\ i \in 1..Len(ops) /\ Cardinality(Repo) \in Nat
  BY ChangesAssumption, FS_CardinalityType DEF Source, Sequence
<1>2. op.id \in (1..Len(ops)) \X (0..Cardinality(Repo)+1)
  BY <1>1
<1>3. n \in I
  OBVIOUS
<1> HIDE DEF op
<1>0. I = CASE op.kind = "star" -> {star}
            [] op.kind = "unstar" -> {unstar}
            [] op.kind = "list_create" -> {create}
            [] op.kind = "list_update" -> {update}
            [] op.kind = "list_delete" -> {delete}
            [] OTHER -> {}
  BY DEF Inverses
<1> HIDE DEF I, star, unstar, create, update, delete
<1>4. CASE op.kind = "star"
  <2>1. I = {star}
    BY <1>0, <1>4, Zenon
  <2>2. /\ DOMAIN star = {"op", "repos", "lists"} /\ DOMAIN star.op = OpFields
        /\ star.op.id = op.id /\ star.op.kind = "unstar" /\ star.op.on = op.on /\ star.repos = {op.on}
    BY DEF star, Node, NoOp, OpFields
  <2>3. GoodNode(star, Len(ops))
    BY <1>1, <1>2, <1>4, <2>2 DEF GoodNode, Typed, Kinds
  <2>4. QED
    BY <1>1, <1>3, <1>4, <2>1, <2>2, <2>3 DEF I, op
<1>5. CASE op.kind = "unstar"
  <2>1. I = {unstar}
    BY <1>0, <1>5, Zenon
  <2>2. /\ DOMAIN unstar = {"op", "repos", "lists"} /\ DOMAIN unstar.op = OpFields
        /\ unstar.op.id = op.id /\ unstar.op.kind = "star" /\ unstar.op.on = op.on /\ unstar.repos = {op.on}
    BY DEF unstar, Node, NoOp, OpFields
  <2>3. GoodNode(unstar, Len(ops))
    BY <1>1, <1>2, <1>5, <2>2 DEF GoodNode, Typed, Kinds
  <2>4. QED
    BY <1>1, <1>3, <1>5, <2>1, <2>2, <2>3 DEF I, op
<1>6. CASE op.kind = "list_create"
  <2>1. I = {create}
    BY <1>0, <1>6, Zenon
  <2>2. /\ DOMAIN create = {"op", "repos", "lists"} /\ DOMAIN create.op = OpFields
        /\ create.op.id = op.id /\ create.op.kind = "list_delete" /\ create.op.on = row.list
        /\ create.lists = {row.list}
    BY DEF create, Node, NoOp, OpFields
  <2>3. GoodNode(create, Len(ops))
    BY <1>1, <1>2, <2>2 DEF GoodNode, Typed, Kinds
  <2>4. QED
    BY <1>1, <1>3, <1>6, <2>1, <2>2, <2>3 DEF I, op
<1>7. CASE op.kind = "list_update"
  <2>1. I = {update}
    BY <1>0, <1>7, Zenon
  <2>2. /\ DOMAIN update = {"op", "repos", "lists"} /\ DOMAIN update.op = OpFields
        /\ update.op.id = op.id /\ update.op.kind = "list_update" /\ update.op.on = op.on
        /\ update.lists = {op.on}
    BY DEF update, Node, NoOp, OpFields
  <2>3. GoodNode(update, Len(ops))
    BY <1>1, <1>2, <2>2 DEF GoodNode, Typed, Kinds
  <2>4. QED
    BY <1>1, <1>3, <1>7, <2>1, <2>2, <2>3 DEF I, op
<1>8. CASE op.kind = "list_delete"
  <2>1. I = {delete}
    BY <1>0, <1>8, Zenon
  <2>2. /\ DOMAIN delete = {"op", "repos", "lists"} /\ DOMAIN delete.op = OpFields
        /\ delete.op.id = op.id /\ delete.op.kind = "list_create"
    BY DEF delete, Node, NoOp, OpFields
  <2>3. GoodNode(delete, Len(ops))
    BY <1>1, <1>2, <2>2 DEF GoodNode, Typed, Kinds
  <2>4. QED
    BY <1>1, <1>3, <1>8, <2>1, <2>2, <2>3 DEF I, op
<1>9. CASE op.kind = "list_membership_set"
  <2>1. I = {}
    BY <1>0, <1>9, Zenon
  <2>2. QED
    BY <1>3, <2>1
<1>10. QED
  BY <1>1, <1>4, <1>5, <1>6, <1>7, <1>8, <1>9 DEF Typed, Kinds

(* The membership of a repository knows what it changes, and has the id of  *)
(* one of its requests.                                                     *)
LEMMA MembershipNodes ==
    ASSUME NEW ops, Source(ops), NEW done \in SUBSET DOMAIN ops, NEW post, NEW snap,
           NEW r \in {q.repo : q \in Restores(ops, done, post, snap)}, NEW n,
           n = MembershipNode(Restores(ops, done, post, snap), r)
    PROVE  /\ GoodNode(n, Len(ops))
           /\ \E q \in Restores(ops, done, post, snap) : q.repo = r /\ n.op.id = q.id
<1> DEFINE requests == Restores(ops, done, post, snap)
           group == Together(requests, r)
           first == CHOOSE q \in group : q.id = LeastId(group)
           lists == UNION {q.affects : q \in group}
           renamed(id) == IF id \in DOMAIN Chosen(requests)
                          THEN Chosen(requests)[id] ELSE id
           needed == {renamed(d) : d \in UNION {q.needs : q \in group}} \ {first.id}
<1>1. group \in SUBSET requests /\ group # {} /\ \A q \in group : q.repo = r
  BY DEF Together
<1>2. first \in group /\ first.id = LeastId(group)
  <2>1. \E q \in group : q.id = LeastId(group)
    <3> HIDE DEF group
    <3>1. QED
      BY <1>1, LeastRequest
  <2> HIDE DEF group
  <2>2. QED
    BY <2>1
<1>3. n = Node([NoOp EXCEPT !.id = first.id, !.kind = "list_membership_set",
                            !.on = r, !.listIds = first.expected,
                            !.targets = first.targets, !.made = first.made,
                            !.dependsOn = needed], {r}, lists)
  BY DEF MembershipNode
<1> HIDE DEF needed, lists
<1>4. /\ DOMAIN n = {"op", "repos", "lists"} /\ DOMAIN n.op = OpFields
      /\ n.op.id = first.id /\ n.op.kind = "list_membership_set" /\ n.op.on = r
      /\ n.op.listIds = first.expected /\ n.op.targets = first.targets
      /\ n.repos = {r} /\ n.lists = lists
  <2> DEFINE op == [NoOp EXCEPT !.id = first.id, !.kind = "list_membership_set",
                                !.on = r, !.listIds = first.expected,
                                !.targets = first.targets, !.made = first.made,
                                !.dependsOn = needed]
  <2> HIDE DEF first
  <2>1. /\ DOMAIN op = OpFields
        /\ op.id = first.id /\ op.kind = "list_membership_set" /\ op.on = r
        /\ op.listIds = first.expected /\ op.targets = first.targets
    BY DEF NoOp, OpFields
  <2>2. n = Node(op, {r}, lists)
    BY <1>3
  <2> HIDE DEF op
  <2>3. QED
    BY <2>1, <2>2 DEF Node
<1>5. GoodRequest(first, Len(ops)) /\ first.affects \subseteq lists
  <2>1. first \in requests
    BY <1>1, <1>2
  <2>2. PICK i \in done : RequestOf(first, ops, done, post, snap, i)
    <3> HIDE DEF first
    <3>1. QED
      BY <2>1, RequestsOfOperations
  <2>3. GoodRequest(first, Len(ops))
    <3> HIDE DEF first
    <3>1. QED
      BY <2>2, RequestsAreGood
  <2>4. first.affects \subseteq lists
    <3> HIDE DEF first, group
    <3>1. QED
      BY <1>2 DEF lists
  <2>5. QED
    BY <2>3, <2>4
<1>6. GoodNode(n, Len(ops))
  <2> HIDE DEF first, group
  <2>1. r \in Repo
    BY <1>1, <1>2, <1>5 DEF GoodRequest
  <2>2. QED
    BY <1>4, <1>5, <2>1 DEF GoodNode, GoodRequest, Typed, Kinds
<1> HIDE DEF first, group
<1>7. QED
  BY <1>1, <1>2, <1>4, <1>6

(* A rollback plan lists what is left of the nodes, and touches nothing     *)
(* that is protected.                                                       *)
LEMMA UndoSpares ==
    ASSUME NEW ops, Source(ops), NEW rs, NEW snap, NEW req, NEW undo,
           undo = Undoing(ops, rs, snap, req).ops
    PROVE  /\ Sequence(undo)
           /\ \A i \in DOMAIN undo : Typed(undo[i]) /\ Spares(undo[i], req)
<1> DEFINE done == {i \in DOMAIN ops : ops[i].id \in DOMAIN rs
                                          /\ rs[ops[i].id].status = "succeeded"}
<1>0. done \in SUBSET DOMAIN ops
  OBVIOUS
<1> DEFINE post == After(ops, rs, done, snap)
           requests == Restores(ops, done, post, snap)
           Inv(i) == Inverses(ops[i], rs[ops[i].id], post)
           members == {q.repo : q \in requests}
           Mem(r) == MembershipNode(requests, r)
           nodes == (UNION {Inv(i) : i \in done}) \cup {Mem(r) : r \in members}
           rev == Reversed(ops, done, nodes, Chosen(requests))
           kept == Unprotected(rev, req)
           S == {n.op : n \in kept}
           key(op) == op.id
           k == [op \in S |-> op.id]
           m == Len(ops)
           M == Cardinality(Repo)
<1>1. undo = InOrder(S, key)
  BY DEF Undoing
<1>2. \A n \in nodes : \/ \E i \in done : n \in Inv(i)
                       \/ \E r \in members : n = Mem(r)
  <2> HIDE DEF Inv, Mem, members, done
  <2>1. QED
    OBVIOUS
<1>3. ASSUME NEW i \in done, NEW n \in Inv(i)
      PROVE  GoodNode(n, m) /\ n.op.id = <<i, 0>> /\ ops[i].kind # "list_membership_set"
             /\ \A p \in Inv(i) : p = n
  <2>1. i \in DOMAIN ops
    OBVIOUS
  <2> HIDE DEF post, done, Inv
  <2>2. QED
    BY <2>1, InverseNodes DEF Inv
<1>4. ASSUME NEW r \in members
      PROVE  /\ GoodNode(Mem(r), m)
             /\ \E q \in requests : q.repo = r /\ Mem(r).op.id = q.id
  <2> HIDE DEF post, done
  <2>1. QED
    BY <1>0, MembershipNodes
<1>5. ASSUME NEW q \in requests, NEW i, q.id = <<i, 0>>
      PROVE  i \in done /\ ops[i].kind = "list_membership_set"
  <2>1. PICK j \in done : RequestOf(q, ops, done, post, snap, j)
    <3> HIDE DEF post, done
    <3>1. QED
      BY <1>0, RequestsOfOperations
  <2>2. q.id[1] = j /\ (q.id[2] = 0 => ops[j].kind = "list_membership_set")
    <3> HIDE DEF post, done
    <3>1. QED
      BY <1>0, <2>1, RequestsAreGood
  <2>3. QED
    BY <1>5, <2>2
<1>6. \A p, q \in requests : p.id = q.id => p = q
  <2> HIDE DEF post, done
  <2>1. QED
    BY <1>0, RequestsDiffer
<1> HIDE DEF done, post, requests, Inv, members, Mem
<1>7. \A n \in nodes : GoodNode(n, m)
  BY <1>2, <1>3, <1>4
<1>8. ASSUME NEW n \in nodes, NEW p \in nodes, n.op.id = p.op.id PROVE n = p
  <2>1. ASSUME NEW i \in done, n \in Inv(i), NEW j \in done, p \in Inv(j) PROVE n = p
    <3>1. n.op.id = <<i, 0>> /\ p.op.id = <<j, 0>>
      BY <1>3, <2>1
    <3>2. <<i, 0>> = <<j, 0>>
      BY <1>8, <3>1
    <3>3. i = j
      BY <3>2
    <3>4. QED
      BY <1>3, <2>1, <3>3
  <2>2. ASSUME NEW r \in members, n = Mem(r), NEW s \in members, p = Mem(s) PROVE n = p
    <3>1. PICK q \in requests : q.repo = r /\ n.op.id = q.id
      BY <1>4, <2>2
    <3>2. PICK t \in requests : t.repo = s /\ p.op.id = t.id
      BY <1>4, <2>2
    <3>3. q = t
      BY <1>6, <1>8, <3>1, <3>2
    <3>4. QED
      BY <2>2, <3>1, <3>2, <3>3
  <2>3. ASSUME NEW x, NEW y, NEW i \in done, x \in Inv(i),
               NEW r \in members, y = Mem(r), x.op.id = y.op.id
        PROVE  FALSE
    <3>1. x.op.id = <<i, 0>> /\ ops[i].kind # "list_membership_set"
      BY <1>3, <2>3
    <3>2. PICK q \in requests : y.op.id = q.id
      BY <1>4, <2>3
    <3>3. q.id = <<i, 0>>
      BY <2>3, <3>1, <3>2
    <3>4. QED
      BY <1>5, <3>1, <3>3
  <2> HIDE DEF nodes
  <2>4. QED
    BY <1>2, <1>8, <2>1, <2>2, <2>3
<1> HIDE DEF nodes
<1> DEFINE More(n) == LET of == {j \in done : n.op.id \in Entries(ops, j, Chosen(requests))}
                          later == {i \in done : \E j \in of : ops[j].id \in ops[i].dependsOn}
                      IN  (UNION {Exits(ops, i, Chosen(requests)) : i \in later}) \ {n.op.id}
           With(n) == [n EXCEPT !.op.dependsOn = @ \cup More(n)]
<1>9. rev = {With(n) : n \in nodes}
  BY DEF Reversed
<1> HIDE DEF More, rev
<1>10. ASSUME NEW n \in nodes PROVE GoodNode(With(n), m) /\ With(n).op.id = n.op.id
  <2> DEFINE x == With(n)
  <2>1. GoodNode(n, m)
    BY <1>7
  <2>2. DOMAIN n = {"op", "repos", "lists"} /\ DOMAIN n.op = OpFields
    BY <2>1 DEF GoodNode
  <2>3. /\ DOMAIN x = {"op", "repos", "lists"} /\ x.repos = n.repos /\ x.lists = n.lists
        /\ x.op = [n.op EXCEPT !.dependsOn = @ \cup More(n)]
    BY <2>2
  <2> HIDE DEF x
  <2>4. /\ DOMAIN x.op = OpFields /\ x.op.id = n.op.id /\ x.op.kind = n.op.kind
        /\ x.op.on = n.op.on /\ x.op.listIds = n.op.listIds /\ x.op.targets = n.op.targets
    BY <2>2, <2>3 DEF OpFields
  <2>5. GoodNode(x, m)
    BY <2>1, <2>3, <2>4 DEF GoodNode, Typed
  <2>6. QED
    BY <2>4, <2>5 DEF x
<1>11. ASSUME NEW x \in rev, NEW y \in rev, x.op.id = y.op.id PROVE x = y
  <2> HIDE DEF With
  <2>1. PICK n \in nodes, p \in nodes : x = With(n) /\ y = With(p)
    BY <1>9
  <2>2. n.op.id = p.op.id
    BY <1>10, <1>11, <2>1
  <2>3. QED
    BY <1>8, <2>1, <2>2
<1>12. \A x \in rev : GoodNode(x, m)
  <2> HIDE DEF With
  <2>1. QED
    BY <1>9, <1>10
<1>13. ASSUME NEW x \in kept
       PROVE  x \in rev /\ Spares(x.op, req)
  <2>1. x \in rev /\ x.repos \cap req.keepRepos = {} /\ x.lists \cap req.keepLists = {}
    BY DEF Unprotected
  <2> HIDE DEF kept
  <2>2. GoodNode(x, m)
    BY <1>12, <2>1
  <2> DEFINE op == x.op
  <2>3. op.kind \in {"star", "unstar"} => op.on \notin req.keepRepos
    BY <2>1, <2>2 DEF GoodNode
  <2>4. op.kind \in {"list_update", "list_delete"} => op.on \notin req.keepLists
    BY <2>1, <2>2 DEF GoodNode
  <2>5. ASSUME op.kind = "list_membership_set"
        PROVE  op.targets \cap req.keepLists = op.listIds \cap req.keepLists
    <3>1. (op.listIds \ op.targets) \cup (op.targets \ op.listIds) \subseteq x.lists
      BY <2>2, <2>5 DEF GoodNode
    <3> HIDE DEF op
    <3>2. QED
      BY <2>1, <3>1
  <2>6. QED
    BY <2>1, <2>3, <2>4, <2>5 DEF Spares
<1> HIDE DEF kept
<1>14. ASSUME NEW op \in S
       PROVE  /\ Typed(op) /\ Spares(op, req)
              /\ op.id \in (1..m) \X (0..M+1)
  <2>1. PICK x \in kept : op = x.op
    OBVIOUS
  <2>2. GoodNode(x, m) /\ Spares(x.op, req)
    BY <1>12, <1>13
  <2>3. QED
    BY <2>1, <2>2 DEF GoodNode
<1>15. \A x, y \in S : x.id = y.id => x = y
  BY <1>11, <1>13
<1> HIDE DEF S
<1>16. m \in Nat /\ M \in Nat /\ IsFiniteSet(1..m) /\ IsFiniteSet(0..M+1)
  <2>1. m \in Nat /\ M \in Nat
    BY ChangesAssumption, FS_CardinalityType DEF Source, Sequence
  <2> HIDE DEF m, M
  <2>2. QED
    BY <2>1, FS_Interval
<1>17. Keyed(k, S) /\ IsFiniteSet(S)
  <2> DEFINE A == 1..m
             B == 0..M+1
  <2>1. A \X B \subseteq Nat \X Nat /\ IsFiniteSet(A) /\ IsFiniteSet(B)
    BY <1>16
  <2>2. \A x \in S : x.id \in A \X B
    BY <1>14
  <2> HIDE DEF A, B
  <2>3. Keyed(k, S) /\ \A x \in S : k[x] \in A \X B
    BY <1>15, <2>1, <2>2 DEF Keyed
  <2> HIDE DEF k
  <2>4. QED
    BY <2>1, <2>3, KeyedIsFinite
<1>18. Lists(undo, S)
  <2>1. undo = [i \in 1..Cardinality(S) |->
              CHOOSE x \in S : Cardinality({y \in S : Below(key(y), key(x))}) = i - 1]
    BY <1>1 DEF InOrder
  <2>2. \A x \in S : {y \in S : Below(key(y), key(x))} = Earlier(S, k, x)
    BY DEF Earlier
  <2>3. DOMAIN undo = 1..Cardinality(S) /\ undo = [i \in DOMAIN undo |-> undo[i]]
    BY <2>1
  <2>4. ASSUME NEW i \in DOMAIN undo PROVE undo[i] \in S /\ Place(S, k, undo[i]) = i - 1
    <3> DEFINE P(x) == Cardinality({y \in S : Below(key(y), key(x))}) = i - 1
    <3>1. \A x \in S : P(x) <=> Place(S, k, x) = i - 1
      BY <2>2 DEF Place
    <3>2. undo[i] = CHOOSE x \in S : P(x)
      BY <2>1, <2>3
    <3> HIDE DEF P, k
    <3>3. \E x \in S : Place(S, k, x) = i - 1
      BY <1>17, <2>3, PlacesTaken
    <3>4. undo[i] \in S /\ P(undo[i])
      BY <3>1, <3>2, <3>3
    <3>5. QED
      BY <3>1, <3>4
  <2> HIDE DEF k
  <2>5. InPlace(undo, S, k)
    BY <2>3, <2>4 DEF InPlace
  <2>6. QED
    BY <1>17, <2>5, ListedByPlace
<1>19. Sequence(undo)
  BY <1>18, ListIsSequence
<1>20. \A i \in DOMAIN undo : undo[i] \in S
  BY <1>18 DEF Lists
<1>21. QED
  BY <1>14, <1>19, <1>20

-----------------------------------------------------------------------------
(* What the edits of an account leave an account.                           *)

(* Ids that are free stay free.                                             *)
LEMMA AccountWidens ==
    ASSUME NEW a, NEW n \in Nat, NEW m \in Nat, n <= m, Account(a, n)
    PROVE  Account(a, m)
<1>1. 1..n \subseteq 1..m
  OBVIOUS
<1>2. QED
  BY <1>1 DEF Account

\* The Lists of an account by themselves.
AreLists(lists, n) ==
    /\ DOMAIN lists \subseteq 1..n
    /\ \A l \in DOMAIN lists : IsList(lists[l])

(* An account is put together from the stars, the Lists and the memberships.*)
LEMMA AccountOfParts ==
    ASSUME NEW a, NEW n, DOMAIN a = {"starred", "lists", "members"},
           a.starred \subseteq Repo, AreLists(a.lists, n),
           a.members \subseteq (DOMAIN a.lists) \X Repo
    PROVE  Account(a, n)
BY DEF Account, AreLists

(* A star changes nothing but the stars.                                    *)
LEMMA StarredAccount ==
    ASSUME NEW a, NEW n, Account(a, n), NEW r \in Repo, NEW b,
           b = [a EXCEPT !.starred = @ \cup {r}]
    PROVE  /\ Account(b, n)
           /\ b.starred = a.starred \cup {r} /\ b.lists = a.lists /\ b.members = a.members
<1>1. DOMAIN a = {"starred", "lists", "members"}
  BY DEF Account
<1>2. /\ DOMAIN b = {"starred", "lists", "members"}
      /\ b.starred = a.starred \cup {r} /\ b.lists = a.lists /\ b.members = a.members
  BY <1>1
<1>3. QED
  BY <1>2 DEF Account

(* Unstarring takes a star, and perhaps the memberships of the repository.  *)
LEMMA UnstarredAccount ==
    ASSUME NEW a, NEW n, Account(a, n), NEW r, NEW b, b = Unstarred(a, r)
    PROVE  /\ Account(b, n)
           /\ b.starred = a.starred \ {r} /\ b.lists = a.lists
           /\ b.members \subseteq a.members
           /\ \A m \in a.members : m \in b.members <=> ~clears \/ m[2] # r
<1>1. DOMAIN a = {"starred", "lists", "members"}
  BY DEF Account
<1>2. /\ DOMAIN b = {"starred", "lists", "members"}
      /\ b.starred = a.starred \ {r} /\ b.lists = a.lists
      /\ b.members = IF clears THEN {m \in a.members : m[2] # r} ELSE a.members
  BY <1>1 DEF Unstarred
<1>3. b.members \subseteq a.members
  BY <1>2
<1>4. QED
  BY <1>2, <1>3 DEF Account

\* The account b is a with the List n + 1.
CreatedIn(b, a, n, to) ==
    /\ Account(b, n + 1)
    /\ b.starred = a.starred /\ b.members = a.members
    /\ DOMAIN b.lists = DOMAIN a.lists \cup {n + 1}
    /\ \A l \in DOMAIN a.lists : b.lists[l] = a.lists[l]
    /\ b.lists[n + 1] = [meta |-> to, stamp |-> 0]

(* A new List takes a free id.                                              *)
LEMMA CreatedAccount ==
    ASSUME NEW a, NEW n \in Nat, Account(a, n), NEW to, NEW w,
           w = WithList(a.lists, n + 1, [meta |-> to, stamp |-> 0]),
           NEW b, b = [a EXCEPT !.lists = w]
    PROVE  CreatedIn(b, a, n, to)
<1> DEFINE new == [meta |-> to, stamp |-> 0]
<1>1. DOMAIN a = {"starred", "lists", "members"}
  BY DEF Account
<1>2. /\ DOMAIN b = {"starred", "lists", "members"}
      /\ b.starred = a.starred /\ b.lists = w /\ b.members = a.members
  BY <1>1
<1>3. n + 1 \notin DOMAIN a.lists /\ 1..n \subseteq 1..n+1 /\ n + 1 \in 1..n+1
  BY DEF Account
<1>4. /\ DOMAIN w = DOMAIN a.lists \cup {n + 1}
      /\ \A l \in DOMAIN a.lists : w[l] = a.lists[l]
      /\ w[n + 1] = new
  BY <1>3 DEF WithList
<1>5. IsList(new)
  BY DEF IsList
<1> HIDE DEF new
<1>6. AreLists(w, n + 1)
  BY <1>3, <1>4, <1>5 DEF Account, AreLists
<1>7. Account(b, n + 1)
  <2>1. a.members \subseteq (DOMAIN w) \X Repo /\ a.starred \subseteq Repo
    BY <1>4 DEF Account
  <2>2. QED
    BY <1>2, <1>6, <2>1, AccountOfParts
<1>8. QED
  BY <1>2, <1>4, <1>7 DEF new, CreatedIn

(* New metadata of a List.                                                  *)
LEMMA UpdatedAccount ==
    ASSUME NEW a, NEW n, Account(a, n), NEW on, NEW to, NEW b,
           b = [a EXCEPT !.lists[on].meta = to]
    PROVE  /\ Account(b, n)
           /\ b.starred = a.starred /\ b.members = a.members
           /\ DOMAIN b.lists = DOMAIN a.lists
           /\ \A l \in DOMAIN a.lists : /\ b.lists[l].stamp = a.lists[l].stamp
                                        /\ l # on => b.lists[l] = a.lists[l]
                                        /\ l = on => b.lists[l].meta = to
<1> DEFINE w == [a.lists EXCEPT ![on].meta = to]
<1>1. DOMAIN a = {"starred", "lists", "members"}
  BY DEF Account
<1>2. /\ DOMAIN b = {"starred", "lists", "members"}
      /\ b.starred = a.starred /\ b.lists = w /\ b.members = a.members
  BY <1>1
<1>3. DOMAIN w = DOMAIN a.lists
  OBVIOUS
<1>4. ASSUME NEW l \in DOMAIN a.lists
      PROVE  /\ IsList(w[l]) /\ w[l].stamp = a.lists[l].stamp
             /\ l # on => w[l] = a.lists[l]
             /\ l = on => w[l].meta = to
  <2>1. IsList(a.lists[l])
    BY DEF Account
  <2>2. CASE l = on
    <3>1. w[l] = [a.lists[l] EXCEPT !.meta = to]
      BY <2>2
    <3> HIDE DEF w
    <3>2. QED
      BY <2>1, <2>2, <3>1 DEF IsList
  <2>3. CASE l # on
    <3>1. w[l] = a.lists[l]
      BY <2>3
    <3> HIDE DEF w
    <3>2. QED
      BY <2>1, <2>3, <3>1
  <2>4. QED
    BY <2>2, <2>3
<1> HIDE DEF w
<1>5. AreLists(w, n)
  BY <1>3, <1>4 DEF Account, AreLists
<1>6. a.members \subseteq (DOMAIN w) \X Repo /\ a.starred \subseteq Repo
  BY <1>3 DEF Account
<1>7. Account(b, n)
  BY <1>2, <1>5, <1>6, AccountOfParts
<1>8. QED
  BY <1>2, <1>3, <1>4, <1>7

(* A List that is deleted takes its memberships along.                      *)
LEMMA DeletedAccount ==
    ASSUME NEW a, NEW n, Account(a, n), NEW l, NEW b, b = Without(a, l)
    PROVE  /\ Account(b, n)
           /\ b.starred = a.starred
           /\ b.members = {m \in a.members : m[1] # l}
           /\ DOMAIN b.lists = DOMAIN a.lists \ {l}
           /\ \A k \in DOMAIN a.lists \ {l} : b.lists[k] = a.lists[k]
<1> DEFINE w == [k \in DOMAIN a.lists \ {l} |-> a.lists[k]]
           M == {m \in a.members : m[1] # l}
<1>1. DOMAIN a = {"starred", "lists", "members"}
  BY DEF Account
<1>2. /\ DOMAIN b = {"starred", "lists", "members"}
      /\ b.starred = a.starred /\ b.lists = w /\ b.members = M
  BY <1>1 DEF Without
<1>3. DOMAIN w = DOMAIN a.lists \ {l} /\ \A k \in DOMAIN w : w[k] = a.lists[k]
  OBVIOUS
<1>4. M \subseteq (DOMAIN w) \X Repo
  <2> SUFFICES ASSUME NEW m \in M PROVE m \in (DOMAIN w) \X Repo
    OBVIOUS
  <2>1. m \in (DOMAIN a.lists) \X Repo /\ m[1] # l
    BY DEF Account
  <2>2. QED
    BY <1>3, <2>1
<1> HIDE DEF w, M
<1>5. AreLists(w, n) /\ a.starred \subseteq Repo
  BY <1>3 DEF Account, AreLists
<1>6. Account(b, n)
  BY <1>2, <1>4, <1>5, AccountOfParts
<1>7. QED
  BY <1>2, <1>3, <1>6 DEF M

(* Filing a repository in Lists that are there.                             *)
LEMMA FiledAccount ==
    ASSUME NEW a, NEW n, Account(a, n), NEW r \in Repo,
           NEW ids, ids \subseteq DOMAIN a.lists, NEW b, b = Filed(a, r, ids)
    PROVE  /\ Account(b, n)
           /\ b.starred = a.starred
           /\ b.members = {m \in a.members : m[2] # r} \cup (ids \X {r})
           /\ DOMAIN b.lists = DOMAIN a.lists
           /\ \A l \in DOMAIN a.lists : b.lists[l].meta = a.lists[l].meta
           /\ \A l \in DOMAIN a.lists : l \notin ids => b.lists[l] = a.lists[l]
<1> DEFINE stamped(l) == IF l \in ids /\ <<l, r>> \notin a.members
                         THEN Stamped(a.lists[l]) ELSE a.lists[l]
           w == [l \in DOMAIN a.lists |-> stamped(l)]
           M == {m \in a.members : m[2] # r} \cup (ids \X {r})
<1>1. DOMAIN a = {"starred", "lists", "members"}
  BY DEF Account
<1>2. /\ DOMAIN b = {"starred", "lists", "members"}
      /\ b.starred = a.starred /\ b.lists = w /\ b.members = M
  <2>1. b = [a EXCEPT !.members = M, !.lists = w]
    BY DEF Filed
  <2> HIDE DEF w, M
  <2>2. QED
    BY <1>1, <2>1
<1>3. DOMAIN w = DOMAIN a.lists /\ \A l \in DOMAIN w : w[l] = stamped(l)
  OBVIOUS
<1>4. \A l \in DOMAIN w : /\ IsList(w[l])
                          /\ w[l].meta = a.lists[l].meta
                          /\ l \notin ids => w[l] = a.lists[l]
  <2> TAKE l \in DOMAIN w
  <2>1. IsList(a.lists[l]) /\ w[l] = stamped(l)
    BY <1>3 DEF Account
  <2> HIDE DEF w
  <2>2. QED
    BY <2>1 DEF Stamped, IsList
<1>5. M \subseteq (DOMAIN w) \X Repo
  BY <1>3 DEF Account
<1> HIDE DEF w, M, stamped
<1>6. AreLists(w, n) /\ a.starred \subseteq Repo
  BY <1>3, <1>4 DEF Account, AreLists
<1>7. Account(b, n)
  BY <1>2, <1>5, <1>6, AccountOfParts
<1>8. QED
  BY <1>2, <1>3, <1>4, <1>7 DEF M

-----------------------------------------------------------------------------
(* What is known of every state: the ids that are taken, and of a plan that *)
(* is run, that it is a plan of what is not protected, that its rows are    *)
(* those of its first operations in order, and that no List that the run    *)
(* has created is a protected one.                                          *)

Knows ==
    /\ fresh \in Nat \ {0}
    /\ Account(account, fresh - 1)
    /\ Account(snapshot, fresh - 1)
    /\ phase \in Phases
    /\ phase = "asking" => rows = NoRows

RunPhases == {"planned", "finished", "undoing"}

CreatesAnew(op, row, n, keep) ==
    /\ row.list # 0 => row.list \in (1..n) \ keep
    /\ op.kind = "list_create" /\ row.status \in Settled => row.list # 0

Guarded ==
    phase \in RunPhases =>
        /\ Sequence(plan) /\ Executable(plan)
        /\ request.keepLists \subseteq 1..fresh - 1
        /\ \A i \in DOMAIN plan : Typed(plan[i]) /\ Spares(plan[i], request)
        /\ \E n \in 0..Len(plan) : Reached(rows, plan, n)
        /\ \A i \in DOMAIN plan : plan[i].id \in DOMAIN rows =>
               CreatesAnew(plan[i], rows[plan[i].id], fresh - 1, request.keepLists)
        /\ phase # "undoing" => Source(plan)

ShieldInv == Knows /\ Guarded

(* While a run is not over, its next operation is one without a row, and    *)
(* what it depends on has one.                                              *)
LEMMA AtCurrent ==
    ASSUME ShieldInv, Running, ~Halted
    PROVE  /\ Current \in {plan[i] : i \in DOMAIN plan}
           /\ Typed(Current) /\ Spares(Current, request)
           /\ Current.id \notin DOMAIN rows
           /\ Current.dependsOn \subseteq DOMAIN rows
           /\ \A new : DOMAIN new = DOMAIN rows \cup {Current.id} =>
                  \E n \in 0..Len(plan) : Reached(new, plan, n)
<1>1. phase \in RunPhases
  BY DEF Running, RunPhases
<1>2. /\ Sequence(plan) /\ Executable(plan)
      /\ \A i \in DOMAIN plan : Typed(plan[i]) /\ Spares(plan[i], request)
      /\ \E n \in 0..Len(plan) : Reached(rows, plan, n)
  BY <1>1 DEF ShieldInv, Guarded
<1>3. PICK n \in 0..Len(plan) : Reached(rows, plan, n)
  BY <1>2
<1>4. Cardinality(DOMAIN rows) = n /\ (DOMAIN rows = Ids(plan) <=> n = Len(plan))
  BY <1>2, <1>3, RowsCount
<1>5. n \in 0..Len(plan)-1 /\ Len(plan) \in Nat
  <2>1. DOMAIN rows # Ids(plan)
    BY DEF Halted, Ids
  <2>2. Len(plan) \in Nat
    BY <1>2 DEF Sequence
  <2>3. QED
    BY <1>3, <1>4, <2>1, <2>2
<1>6. Current = GraphOrder(plan)[n + 1]
  BY <1>4 DEF Current
<1>7. /\ \E i \in DOMAIN plan : Current = plan[i]
      /\ Current.id \notin DOMAIN rows
      /\ Current.dependsOn \subseteq DOMAIN rows
      /\ \A new : DOMAIN new = DOMAIN rows \cup {Current.id} => Reached(new, plan, n + 1)
  <2> DEFINE op == Current
  <2>1. op = GraphOrder(plan)[n + 1]
    BY <1>6
  <2> DEFINE p == plan
             rs == rows
  <2>0. Sequence(p) /\ Executable(p) /\ n \in 0..Len(p)-1 /\ Reached(rs, p, n)
        /\ op = GraphOrder(p)[n + 1]
    BY <1>2, <1>3, <1>5, <2>1
  <2> HIDE DEF op, p, rs
  <2>2. Follows(op, p, rs, n)
    BY <2>0, CurrentIsNext
  <2>3. QED
    BY <2>2 DEF op, p, rs, Follows
<1>8. n + 1 \in 0..Len(plan)
  BY <1>5
<1>9. QED
  BY <1>2, <1>7, <1>8

(* What recording the next row keeps.                                       *)
LEMMA RecordKeeps ==
    ASSUME ShieldInv, Running, ~Halted, NEW row, rows' = Recorded(Current, row),
           UNCHANGED <<origin, phase>>,
           fresh' \in Nat, fresh <= fresh', Account(account', fresh' - 1),
           CreatesAnew(Current, row, fresh' - 1, request.keepLists)
    PROVE  ShieldInv'
<1>1. /\ phase \in RunPhases /\ phase # "asking" /\ phase \in Phases
      /\ fresh \in Nat \ {0} /\ Account(snapshot, fresh - 1)
  BY DEF Running, RunPhases, ShieldInv, Knows, Phases
<1>2. /\ Sequence(plan) /\ Executable(plan)
      /\ request.keepLists \subseteq 1..fresh - 1
      /\ \A i \in DOMAIN plan : Typed(plan[i]) /\ Spares(plan[i], request)
      /\ \A i \in DOMAIN plan : plan[i].id \in DOMAIN rows =>
            CreatesAnew(plan[i], rows[plan[i].id], fresh - 1, request.keepLists)
      /\ phase # "undoing" => Source(plan)
  BY <1>1 DEF ShieldInv, Guarded
<1>3. /\ phase' = phase /\ plan' = plan /\ request' = request /\ snapshot' = snapshot
  BY DEF origin
<1>4. /\ fresh' - 1 \in Nat /\ fresh - 1 \in Nat /\ fresh - 1 <= fresh' - 1 /\ fresh' # 0
      /\ 1..fresh - 1 \subseteq 1..fresh' - 1
  <2> DEFINE m == fresh
             n == fresh'
  <2>1. m \in Nat \ {0} /\ n \in Nat /\ m <= n
    BY <1>1
  <2> HIDE DEF m, n
  <2>2. n - 1 \in Nat /\ m - 1 \in Nat /\ m - 1 <= n - 1 /\ n # 0 /\ 1..m - 1 \subseteq 1..n - 1
    BY <2>1
  <2>3. QED
    BY <2>2 DEF m, n
<1>5. 1..fresh - 1 \subseteq 1..fresh' - 1
  BY <1>4
<1>6. Account(snapshot, fresh' - 1)
  BY <1>1, <1>4, AccountWidens
<1>7. DOMAIN rows' = DOMAIN rows \cup {Current.id}
  BY DEF Recorded
<1>8. \E n \in 0..Len(plan) : Reached(rows', plan, n)
  BY <1>7, AtCurrent
<1>9. ASSUME NEW i \in DOMAIN plan, plan[i].id \in DOMAIN rows'
      PROVE  CreatesAnew(plan[i], rows'[plan[i].id], fresh' - 1, request.keepLists)
  <2>1. CASE plan[i].id = Current.id
    <3>1. rows'[plan[i].id] = row
      BY <1>7, <2>1 DEF Recorded
    <3>2. PICK j \in DOMAIN plan : Current = plan[j]
      BY AtCurrent
    <3>3. plan[i] = Current
      BY <1>2, <2>1, <3>2 DEF Executable
    <3>4. QED
      BY <3>1, <3>3
  <2>2. CASE plan[i].id # Current.id
    <3>1. plan[i].id \in DOMAIN rows
      BY <1>7, <1>9, <2>2
    <3>2. rows'[plan[i].id] = rows[plan[i].id]
      BY <2>2, <3>1 DEF Recorded
    <3>3. QED
      BY <1>2, <1>5, <3>1, <3>2 DEF CreatesAnew
  <2>3. QED
    BY <2>1, <2>2
<1>10. Knows'
  BY <1>1, <1>3, <1>4, <1>6 DEF Knows
<1>11. Guarded'
  BY <1>2, <1>3, <1>5, <1>8, <1>9 DEF Guarded
<1>12. QED
  BY <1>10, <1>11 DEF ShieldInv

(* What an edit of the account alone keeps.                                 *)
LEMMA OwnerKeeps ==
    ASSUME ShieldInv, UNCHANGED <<fresh, origin, phase, rows>>,
           Account(account', fresh - 1)
    PROVE  ShieldInv'
<1>1. /\ phase' = phase /\ plan' = plan /\ request' = request /\ snapshot' = snapshot
      /\ fresh' = fresh /\ rows' = rows
  BY DEF origin
<1>2. Knows'
  BY <1>1 DEF ShieldInv, Knows
<1>3. Guarded'
  BY <1>1 DEF ShieldInv, Guarded
<1>4. QED
  BY <1>2, <1>3 DEF ShieldInv

(* Of what a skipped operation wants nothing is created.                    *)
LEMMA RowsWithoutLists ==
    ASSUME NEW n, NEW keep, NEW op
    PROVE  /\ NoRow.list = 0 /\ DOMAIN NoRow = {"status", "list", "stamp", "listIds"}
           /\ CreatesAnew(op, Status("failed"), n, keep)
           /\ op.kind # "list_create" => CreatesAnew(op, Skipped, n, keep)
<1>1. NoRow.list = 0 /\ DOMAIN NoRow = {"status", "list", "stamp", "listIds"}
  BY DEF NoRow
<1>2. Status("failed").list = 0 /\ Status("failed").status = "failed"
  BY DEF NoRow, Status
<1>3. Skipped.list = 0
  BY DEF NoRow, Status, Skipped
<1>4. QED
  BY <1>1, <1>2, <1>3 DEF CreatesAnew, Settled

(* The List of a created row is created once.                               *)
LEMMA NothingMadeYet ==
    ASSUME ShieldInv, Running, ~Halted
    PROVE  Current.id \notin DOMAIN made
BY AtCurrent DEF made

-----------------------------------------------------------------------------
(* The steps.                                                               *)

(* No id beyond those of the account is taken at first.                     *)
LEMMA ShieldInit == Init => ShieldInv
<1> SUFFICES ASSUME Init PROVE ShieldInv
  OBVIOUS
<1> DEFINE n == Cardinality(DOMAIN account.lists)
<1>1. /\ account \in Accounts /\ snapshot = account /\ fresh = n + 1
      /\ phase = "asking" /\ rows = NoRows
  BY DEF Init
<1>2. IsFiniteSet(DOMAIN account.lists) /\ Account(account, n)
  BY <1>1, ChangesAssumption
<1>3. n \in Nat
  BY <1>2, FS_CardinalityType
<1> HIDE DEF n
<1>4. fresh \in Nat \ {0} /\ fresh - 1 = n
  BY <1>1, <1>3
<1>5. Knows
  BY <1>1, <1>2, <1>4 DEF Knows, Phases
<1>6. Guarded
  BY <1>1 DEF Guarded, RunPhases
<1>7. QED
  BY <1>5, <1>6 DEF ShieldInv

(* A failure, and an operation that is found done, only leave a row.        *)
LEMMA RowStep ==
    ASSUME ShieldInv, Block \/ Skip \/ Reject \/ Fail
    PROVE  ShieldInv'
<1>1. fresh \in Nat /\ Account(account, fresh - 1)
  BY DEF ShieldInv, Knows
<1>2. CASE Skip
  <2>1. /\ Running /\ ~Halted /\ MatchesAfter(Current) /\ rows' = Recorded(Current, Skipped)
        /\ UNCHANGED <<origin, phase>> /\ fresh' = fresh /\ account' = account
    BY <1>2 DEF Skip, remote
  <2>2. Current.kind # "list_create"
    <3>1. SUFFICES ASSUME Current.kind = "list_create" PROVE FALSE
      OBVIOUS
    <3>2. Current.id \in DOMAIN made
      BY <2>1, <3>1 DEF MatchesAfter
    <3>3. QED
      BY <2>1, <3>2, NothingMadeYet
  <2>3. CreatesAnew(Current, Skipped, fresh' - 1, request.keepLists)
    BY <2>2, RowsWithoutLists
  <2>4. QED
    BY <1>1, <2>1, <2>3, RecordKeeps
<1>3. CASE Block \/ Reject \/ Fail
  <2>1. /\ Running /\ ~Halted /\ rows' = Recorded(Current, Status("failed"))
        /\ UNCHANGED <<origin, phase>> /\ fresh' = fresh /\ account' = account
    BY <1>3 DEF Block, Reject, Fail, Dispatched, remote
  <2>2. CreatesAnew(Current, Status("failed"), fresh' - 1, request.keepLists)
    BY RowsWithoutLists
  <2>3. QED
    BY <1>1, <2>1, <2>2, RecordKeeps
<1>4. QED
  BY <1>2, <1>3

(* What every dispatched operation is.                                      *)
LEMMA DispatchedIsCurrent ==
    ASSUME ShieldInv, NEW kind, Dispatched(kind)
    PROVE  /\ Running /\ ~Halted /\ Current.kind = kind
           /\ Typed(Current) /\ Spares(Current, request)
           /\ fresh \in Nat \ {0} /\ Account(account, fresh - 1)
           /\ request.keepLists \subseteq 1..fresh - 1
<1>1. Running /\ ~Halted /\ Current.kind = kind
  BY DEF Dispatched
<1>2. Typed(Current) /\ Spares(Current, request)
  BY <1>1, AtCurrent
<1>3. phase \in RunPhases
  BY <1>1 DEF Running, RunPhases
<1>4. QED
  BY <1>1, <1>2, <1>3 DEF ShieldInv, Knows, Guarded

(* What is left of an effect once its account is known.                     *)
LEMMA EffectKeeps ==
    ASSUME ShieldInv, NEW kind, Dispatched(kind), kind # "list_create",
           NEW row, row.list = 0, Succeed(row), fresh' = fresh, Account(account', fresh - 1)
    PROVE  ShieldInv'
<1>1. Running /\ ~Halted /\ Current.kind = kind /\ fresh \in Nat
  BY DispatchedIsCurrent
<1>2. rows' = Recorded(Current, Succeeded(row)) /\ UNCHANGED <<origin, phase>>
  BY DEF Succeed
<1>3. Succeeded(row).list = 0
  BY DEF Succeeded
<1>4. CreatesAnew(Current, Succeeded(row), fresh' - 1, request.keepLists)
  BY <1>1, <1>3 DEF CreatesAnew
<1>5. QED
  BY <1>1, <1>2, <1>4, RecordKeeps

LEMMA StarStep ==
    ASSUME ShieldInv, Star
    PROVE  ShieldInv' /\ Untouched(request.keepRepos, request.keepLists)
<1>1. Dispatched("star") /\ Succeed(NoRow) /\ fresh' = fresh
  BY DEF Star
<1>2. /\ Current.on \in Repo /\ Current.on \notin request.keepRepos
      /\ Account(account, fresh - 1)
  BY <1>1, DispatchedIsCurrent DEF Typed, Spares
<1>3. account' = [account EXCEPT !.starred = @ \cup {Current.on}]
  BY DEF Star
<1>4. /\ Account(account', fresh - 1)
      /\ account'.starred = account.starred \cup {Current.on}
      /\ account'.lists = account.lists /\ account'.members = account.members
  BY <1>2, <1>3, StarredAccount
<1>5. ShieldInv'
  BY <1>1, <1>4, RowsWithoutLists, EffectKeeps
<1>6. QED
  BY <1>2, <1>4, <1>5 DEF Untouched

LEMMA UnstarStep ==
    ASSUME ShieldInv, Unstar
    PROVE  ShieldInv' /\ Untouched(request.keepRepos, request.keepLists)
<1>1. Dispatched("unstar") /\ Succeed(NoRow) /\ fresh' = fresh
  BY DEF Unstar
<1>2. /\ Current.on \in Repo /\ Current.on \notin request.keepRepos
      /\ Account(account, fresh - 1) /\ Current.kind = "unstar"
  BY <1>1, DispatchedIsCurrent DEF Typed, Spares
<1>3. account' = Unstarred(account, Current.on)
  BY DEF Unstar
<1>4. /\ Account(account', fresh - 1)
      /\ account'.starred = account.starred \ {Current.on}
      /\ account'.lists = account.lists
      /\ account'.members \subseteq account.members
      /\ \A m \in account.members : m \in account'.members <=> ~clears \/ m[2] # Current.on
  BY <1>2, <1>3, UnstarredAccount
<1>5. ShieldInv'
  BY <1>1, <1>4, RowsWithoutLists, EffectKeeps
<1>6. \A l, r : r # Current.on =>
          (<<l, r>> \in account'.members <=> <<l, r>> \in account.members)
  BY <1>4
<1>7. QED
  BY <1>2, <1>4, <1>5, <1>6 DEF Untouched

LEMMA CreateStep ==
    ASSUME ShieldInv, CreateList
    PROVE  ShieldInv' /\ Untouched(request.keepRepos, request.keepLists)
<1> DEFINE row == [NoRow EXCEPT !.list = fresh]
           n == fresh - 1
<1>1. Dispatched("list_create") /\ Succeed(row) /\ fresh' = fresh + 1
  BY DEF CreateList
<1>2. /\ fresh \in Nat \ {0} /\ Account(account, n) /\ Current.kind = "list_create"
      /\ request.keepLists \subseteq 1..n /\ Running /\ ~Halted
  BY <1>1, DispatchedIsCurrent
<1>3. n \in Nat /\ fresh = n + 1 /\ fresh' - 1 = n + 1 /\ fresh' \in Nat /\ fresh <= fresh'
  BY <1>1, <1>2
<1> HIDE DEF n
<1> DEFINE w == WithList(account.lists, n + 1, [meta |-> Current.to, stamp |-> 0])
<1>4. account' = [account EXCEPT !.lists = w]
  BY <1>3 DEF CreateList
<1> HIDE DEF w
<1>5. /\ Account(account', n + 1)
      /\ account'.starred = account.starred /\ account'.members = account.members
      /\ DOMAIN account'.lists = DOMAIN account.lists \cup {n + 1}
      /\ \A l \in DOMAIN account.lists : account'.lists[l] = account.lists[l]
  <2> DEFINE to == Current.to
             a == account
             b == account'
  <2>1. w = WithList(a.lists, n + 1, [meta |-> to, stamp |-> 0])
    BY DEF w
  <2>2. b = [a EXCEPT !.lists = w] /\ Account(a, n) /\ n \in Nat
    BY <1>2, <1>3, <1>4
  <2> HIDE DEF to, a, b
  <2>3. CreatedIn(b, a, n, to)
    BY <2>1, <2>2, CreatedAccount
  <2>4. QED
    BY <2>3 DEF CreatedIn, a, b
<1>6. row.list = fresh /\ Succeeded(row).list = fresh
  BY RowsWithoutLists DEF Succeeded
<1>7. CreatesAnew(Current, Succeeded(row), n + 1, request.keepLists)
  <2>1. n + 1 \in 1..n + 1 /\ n + 1 \notin request.keepLists /\ n + 1 # 0
    BY <1>2, <1>3
  <2> HIDE DEF row
  <2>2. QED
    BY <1>3, <1>6, <2>1 DEF CreatesAnew
<1>8. ShieldInv'
  <2>1. rows' = Recorded(Current, Succeeded(row)) /\ UNCHANGED <<origin, phase>>
    BY <1>1 DEF Succeed
  <2> HIDE DEF row
  <2>2. QED
    BY <1>2, <1>3, <1>5, <1>7, <2>1, RecordKeeps
<1>9. QED
  BY <1>5, <1>8 DEF Untouched

LEMMA UpdateStep ==
    ASSUME ShieldInv, UpdateList
    PROVE  ShieldInv' /\ Untouched(request.keepRepos, request.keepLists)
<1>1. Dispatched("list_update") /\ Succeed(NoRow) /\ fresh' = fresh
  BY DEF UpdateList
<1>2. Current.on \notin request.keepLists /\ Account(account, fresh - 1)
  BY <1>1, DispatchedIsCurrent DEF Spares
<1>3. account' = [account EXCEPT !.lists[Current.on].meta = Current.to]
  BY DEF UpdateList
<1>4. /\ Account(account', fresh - 1)
      /\ account'.starred = account.starred /\ account'.members = account.members
      /\ DOMAIN account'.lists = DOMAIN account.lists
      /\ \A l \in DOMAIN account.lists :
            l # Current.on => account'.lists[l] = account.lists[l]
  BY <1>2, <1>3, UpdatedAccount
<1>5. ShieldInv'
  BY <1>1, <1>4, RowsWithoutLists, EffectKeeps
<1>6. QED
  BY <1>2, <1>4, <1>5 DEF Untouched

LEMMA DeleteStep ==
    ASSUME ShieldInv, DeleteList
    PROVE  ShieldInv' /\ Untouched(request.keepRepos, request.keepLists)
<1>1. Dispatched("list_delete") /\ Succeed(NoRow) /\ fresh' = fresh
  BY DEF DeleteList
<1>2. Current.on \notin request.keepLists /\ Account(account, fresh - 1)
  BY <1>1, DispatchedIsCurrent DEF Spares
<1>3. account' = Without(account, Current.on)
  BY DEF DeleteList
<1>4. /\ Account(account', fresh - 1)
      /\ account'.starred = account.starred
      /\ account'.members = {m \in account.members : m[1] # Current.on}
      /\ DOMAIN account'.lists = DOMAIN account.lists \ {Current.on}
      /\ \A l \in DOMAIN account.lists \ {Current.on} :
            account'.lists[l] = account.lists[l]
  BY <1>2, <1>3, DeletedAccount
<1>5. ShieldInv'
  BY <1>1, <1>4, RowsWithoutLists, EffectKeeps
<1>6. \A l, r : l # Current.on =>
          (<<l, r>> \in account'.members <=> <<l, r>> \in account.members)
  BY <1>4
<1>7. QED
  BY <1>2, <1>4, <1>5, <1>6 DEF Untouched

(* The Lists that a membership waits for are created, and not protected.    *)
LEMMA MadeForIt ==
    ASSUME ShieldInv, Dispatched("list_membership_set")
    PROVE  \A c \in Current.made : c \in DOMAIN made /\ made[c] \notin request.keepLists
<1>1. /\ Running /\ ~Halted /\ ~Blocked(Current) /\ Shaped(Current)
      /\ Current.kind = "list_membership_set"
  BY DEF Dispatched
<1>2. Current.made \subseteq Current.dependsOn
  BY <1>1 DEF Shaped, MembershipShaped
<1>3. Current.dependsOn \subseteq DOMAIN rows /\ \E i \in DOMAIN plan : Current = plan[i]
  BY <1>1, AtCurrent
<1>4. /\ Executable(plan)
      /\ \A i \in DOMAIN plan : plan[i].id \in DOMAIN rows =>
            CreatesAnew(plan[i], rows[plan[i].id], fresh - 1, request.keepLists)
  BY <1>1 DEF ShieldInv, Guarded, Running, RunPhases
<1>5. ASSUME NEW c \in Current.made
      PROVE  c \in DOMAIN made /\ made[c] \notin request.keepLists
  <2>1. c \in DOMAIN rows /\ rows[c].status \in Settled
    BY <1>1, <1>2, <1>3 DEF Blocked
  <2>2. PICK j \in DOMAIN plan : plan[j].id = c /\ plan[j].kind = "list_create"
    BY <1>3, <1>4 DEF Executable
  <2>3. rows[c].list # 0 /\ rows[c].list \notin request.keepLists
    BY <1>4, <2>1, <2>2 DEF CreatesAnew
  <2>4. QED
    BY <2>1, <2>3 DEF made
<1>6. QED
  BY <1>5

LEMMA MembershipStep ==
    ASSUME ShieldInv, SetMembership
    PROVE  ShieldInv' /\ Untouched(request.keepRepos, request.keepLists)
<1> DEFINE ids == TargetIds(Current)
           row == [NoRow EXCEPT !.listIds = ids]
           keep == request.keepLists
           r == Current.on
<1>1. /\ Dispatched("list_membership_set") /\ Succeed(row) /\ fresh' = fresh
      /\ ids \subseteq DOMAIN account.lists /\ account' = Filed(account, r, ids)
  BY DEF SetMembership
<1>2. /\ r \in Repo /\ Account(account, fresh - 1)
      /\ Current.targets \cap keep = Current.listIds \cap keep
  BY <1>1, DispatchedIsCurrent DEF Typed, Spares
<1>3. ListsOf(account, r) = Current.listIds
  BY <1>1 DEF Dispatched, MatchesBefore, GetRepositoryListIds
<1>4. \A l \in keep : l \in ids <=> l \in Current.targets
  BY <1>1, MadeForIt DEF TargetIds
<1>5. \A l \in keep : l \in ids <=> <<l, r>> \in account.members
  <2>1. \A l : l \in ListsOf(account, r) <=> <<l, r>> \in account.members
    BY <1>2 DEF ListsOf, Account
  <2>2. QED
    BY <1>2, <1>3, <1>4, <2>1
<1> HIDE DEF ids, keep, r
<1>6. /\ Account(account', fresh - 1)
      /\ account'.starred = account.starred
      /\ account'.members = {m \in account.members : m[2] # r} \cup (ids \X {r})
      /\ DOMAIN account'.lists = DOMAIN account.lists
      /\ \A l \in DOMAIN account.lists :
            account'.lists[l].meta = account.lists[l].meta
  BY <1>1, <1>2, FiledAccount
<1>7. ShieldInv'
  <2>1. row.list = 0
    BY RowsWithoutLists
  <2> HIDE DEF row
  <2>2. QED
    BY <1>1, <1>6, <2>1, EffectKeeps
<1>8. \A l \in keep, q \in Repo :
          <<l, q>> \in account'.members <=> <<l, q>> \in account.members
  BY <1>5, <1>6
<1>9. QED
  BY <1>6, <1>7, <1>8 DEF Untouched, keep

(* No row yet is the rows of no operation.                                  *)
LEMMA NothingReached ==
    ASSUME NEW ops, Sequence(ops)
    PROVE  (\E n \in 0..Len(ops) : Reached(NoRows, ops, n)) /\ DOMAIN NoRows = {}
<1>1. DOMAIN NoRows = {}
  BY DEF NoRows
<1>2. {GraphOrder(ops)[k].id : k \in 1..0} = {}
  OBVIOUS
<1>3. 0 \in 0..Len(ops)
  BY DEF Sequence
<1>4. QED
  BY <1>1, <1>2, <1>3 DEF Reached

LEMMA AskStep ==
    ASSUME ShieldInv, Ask
    PROVE  ShieldInv'
<1>1. PICK req \in Requests :
          LET p == Plan(req, snapshot, complete)
          IN  /\ request' = Selected(req, snapshot)
              /\ plan' = IF p.ok THEN p.ops ELSE << >>
              /\ phase' = IF p.ok THEN "planned" ELSE "refused"
  BY DEF Ask
<1>2. /\ phase = "asking" /\ rows = NoRows /\ rows' = rows /\ fresh' = fresh
      /\ account' = account /\ snapshot' = snapshot /\ fresh - 1 \in Nat
      /\ fresh \in Nat \ {0} /\ Account(account, fresh - 1) /\ Account(snapshot, fresh - 1)
  BY DEF Ask, remote, ShieldInv, Knows
<1> DEFINE p == Plan(req, snapshot, complete)
           n == fresh - 1
<1>3. CASE p.ok
  <2>1. phase' = "planned" /\ plan' = p.ops /\ request' = Selected(req, snapshot)
    BY <1>1, <1>3
  <2>2. Planned(plan', request', snapshot, complete, n)
    BY <1>2, <1>3, <2>1, PlanIsResolved
  <2> HIDE DEF p
  <2>3. /\ Sequence(plan') /\ Executable(plan')
        /\ Resolvable(request', snapshot, complete, n)
    BY <2>2 DEF Planned
  <2>4. request'.keepLists \subseteq 1..n
    BY <2>3, NamesKnown
  <2>5. ASSUME NEW i \in DOMAIN plan'
        PROVE  /\ Typed(plan'[i]) /\ Spares(plan'[i], request') /\ plan'[i].id = <<i, 0>>
               /\ plan'[i].kind = "list_delete" => plan'[i].repos \subseteq Repo
    BY <2>2, PlanSpares, OperationOfDraft
  <2>6. Source(plan')
    BY <2>3, <2>5 DEF Source
  <2>7. \E k \in 0..Len(plan') : Reached(rows', plan', k)
    BY <1>2, <2>3, NothingReached
  <2>8. DOMAIN rows' = {}
    BY <1>2 DEF NoRows
  <2>9. Knows'
    BY <1>2, <2>1 DEF Knows, Phases
  <2>10. Guarded'
    BY <1>2, <2>1, <2>3, <2>4, <2>5, <2>6, <2>7, <2>8 DEF Guarded
  <2>11. QED
    BY <2>9, <2>10 DEF ShieldInv
<1>4. CASE ~p.ok
  <2>1. phase' = "refused"
    BY <1>1, <1>4
  <2>2. QED
    BY <1>2, <2>1 DEF ShieldInv, Knows, Guarded, RunPhases, Phases
<1>5. QED
  BY <1>3, <1>4

LEMMA RollbackStep ==
    ASSUME ShieldInv, CreateRollback
    PROVE  ShieldInv'
<1>1. PICK shield \in {s \in Shields : s.keepLists \subseteq 1..fresh - 1} :
        LET req == [NoRequest EXCEPT !.keepRepos = shield.keepRepos,
                                     !.keepLists = shield.keepLists]
            undo == Undo(plan, rows, stop, Completed, snapshot, complete, req)
        IN  /\ request' = req
            /\ plan' = undo.ops
            /\ phase' = IF undo.ok THEN "undoing" ELSE "irreversible"
  BY DEF CreateRollback
<1> DEFINE req == [NoRequest EXCEPT !.keepRepos = shield.keepRepos,
                                    !.keepLists = shield.keepLists]
           undo == Undo(plan, rows, stop, Completed, snapshot, complete, req)
           taken == Undoing(plan, rows, snapshot, req)
<1>2. /\ phase = "finished" /\ rows' = NoRows /\ fresh' = fresh
      /\ account' = account /\ snapshot' = snapshot
      /\ fresh \in Nat \ {0} /\ Account(account, fresh - 1) /\ Account(snapshot, fresh - 1)
      /\ Source(plan)
  BY DEF CreateRollback, remote, ShieldInv, Knows, Guarded, RunPhases
<1>3. CASE undo.ok
  <2>1. phase' = "undoing" /\ plan' = undo.ops /\ request' = req
    BY <1>1, <1>3
  <2>2. undo.ops = taken.ops /\ Executable(taken.ops)
    <3>1. complete /\ AuditHolds(plan, rows, stop, Completed)
      BY <1>3 DEF Undo
    <3>2. undo = [ok |-> taken.ok /\ Executable(taken.ops), ops |-> taken.ops]
      BY <3>1 DEF Undo
    <3> HIDE DEF undo, taken
    <3>3. QED
      BY <1>3, <3>2
  <2>3. req.keepLists = shield.keepLists
    BY DEF NoRequest
  <2> HIDE DEF undo, req
  <2>4. /\ Sequence(plan')
        /\ \A i \in DOMAIN plan' : Typed(plan'[i]) /\ Spares(plan'[i], request')
    BY <1>2, <2>1, <2>2, UndoSpares
  <2> HIDE DEF taken
  <2>5. Executable(plan') /\ request'.keepLists \subseteq 1..fresh - 1
    BY <2>1, <2>2, <2>3
  <2>6. (\E k \in 0..Len(plan') : Reached(rows', plan', k)) /\ DOMAIN rows' = {}
    BY <1>2, <2>4, NothingReached
  <2>7. Knows'
    BY <1>2, <2>1 DEF Knows, Phases
  <2>8. Guarded'
    BY <1>2, <2>1, <2>4, <2>5, <2>6 DEF Guarded
  <2>9. QED
    BY <2>7, <2>8 DEF ShieldInv
<1>4. CASE ~undo.ok
  <2>1. phase' = "irreversible"
    BY <1>1, <1>4
  <2>2. QED
    BY <1>2, <2>1 DEF ShieldInv, Knows, Guarded, RunPhases, Phases
<1>5. QED
  BY <1>3, <1>4

LEMMA FinishStep ==
    ASSUME ShieldInv, Finish
    PROVE  ShieldInv'
<1>1. /\ phase \in {"planned", "undoing"} /\ phase' = (IF phase = "planned" THEN "finished" ELSE "undone")
      /\ account' = account /\ fresh' = fresh /\ snapshot' = snapshot /\ rows' = rows
      /\ plan' = plan /\ request' = request
  BY DEF Finish, Running, remote, origin
<1>2. Knows'
  BY <1>1 DEF ShieldInv, Knows, Phases
<1>3. CASE phase = "planned"
  <2>1. phase' = "finished"
    BY <1>1, <1>3
  <2>2. Guarded'
    BY <1>1, <1>3, <2>1 DEF ShieldInv, Guarded, RunPhases
  <2>3. QED
    BY <1>2, <2>2 DEF ShieldInv
<1>4. CASE phase = "undoing"
  <2>1. phase' = "undone"
    BY <1>1, <1>4
  <2>2. Guarded'
    BY <2>1 DEF Guarded, RunPhases
  <2>3. QED
    BY <1>2, <2>2 DEF ShieldInv
<1>5. QED
  BY <1>1, <1>3, <1>4

(* The new metadata of a List that the owner changes.                       *)
LEMMA OwnerStep ==
    ASSUME ShieldInv, Owner
    PROVE  ShieldInv'
<1> DEFINE n == fresh - 1
<1>1. /\ Account(account, n) /\ UNCHANGED <<fresh, origin, phase, rows>>
  <2>1. \E items : Touch(items)
    BY DEF Owner, OwnerEditsLists, OwnerRenames, OwnerStars, OwnerUnstars, OwnerUpdates,
           OwnerDeletes, OwnerFiles, OwnerRemoves
  <2>2. QED
    BY <2>1 DEF Touch, ShieldInv, Knows
<1> HIDE DEF n
<1>2. SUFFICES Account(account', n)
  BY <1>1, OwnerKeeps DEF n
<1>3. ASSUME NEW r \in Repo, OwnerStars(r) PROVE Account(account', n)
  BY <1>1, <1>3, StarredAccount DEF OwnerStars
<1>4. ASSUME NEW r \in Repo, OwnerUnstars(r) PROVE Account(account', n)
  BY <1>1, <1>4, UnstarredAccount DEF OwnerUnstars
<1>5. ASSUME NEW l \in DOMAIN account.lists, NEW f \in Field, OwnerUpdates(l, f)
      PROVE  Account(account', n)
  <2> DEFINE to == [account.lists[l].meta EXCEPT ![f] = 1 - @]
  <2>1. account' = [account EXCEPT !.lists[l].meta = to]
    BY <1>5 DEF OwnerUpdates
  <2> HIDE DEF to
  <2>2. QED
    BY <1>1, <2>1, UpdatedAccount
<1>6. ASSUME NEW l \in DOMAIN account.lists, OwnerDeletes(l) PROVE Account(account', n)
  BY <1>1, <1>6, DeletedAccount DEF OwnerDeletes
<1>7. ASSUME NEW l \in DOMAIN account.lists, NEW r \in Repo, OwnerFiles(l, r)
      PROVE  Account(account', n)
  <2> DEFINE ids == ListsOf(account, r) \cup {l}
  <2>1. account' = Filed(account, r, ids)
    BY <1>7 DEF OwnerFiles
  <2>2. ids \subseteq DOMAIN account.lists
    BY DEF ListsOf
  <2> HIDE DEF ids
  <2>3. QED
    BY <1>1, <2>1, <2>2, FiledAccount
<1>8. ASSUME NEW l \in DOMAIN account.lists, NEW r \in Repo, OwnerRemoves(l, r)
      PROVE  Account(account', n)
  <2> DEFINE ids == ListsOf(account, r) \ {l}
  <2>1. account' = Filed(account, r, ids)
    BY <1>8 DEF OwnerRemoves
  <2>2. ids \subseteq DOMAIN account.lists
    BY DEF ListsOf
  <2> HIDE DEF ids
  <2>3. QED
    BY <1>1, <2>1, <2>2, FiledAccount
<1>9. ASSUME NEW r \in Repo, OwnerRenames(r) PROVE Account(account', n)
  BY <1>1, <1>9 DEF OwnerRenames
<1>10. QED
  BY <1>3, <1>4, <1>5, <1>6, <1>7, <1>8, <1>9 DEF Owner, OwnerEditsLists

(* Every step keeps the invariant, and every effect spares what is protected.*)
LEMMA ShieldStep ==
    ASSUME ShieldInv, [Next]_vars
    PROVE  ShieldInv' /\ (Effect => Untouched(request.keepRepos, request.keepLists))
<1>1. CASE Effect
  BY <1>1, StarStep, UnstarStep, CreateStep, UpdateStep, DeleteStep, MembershipStep
     DEF Effect
<1>2. CASE ~Effect
  <2>1. CASE Next
    BY <1>2, <2>1, AskStep, RowStep, FinishStep, RollbackStep, OwnerStep DEF Next
  <2>2. CASE UNCHANGED vars
    <3>1. UNCHANGED <<fresh, origin, phase, rows>> /\ account' = account
      BY <2>2 DEF vars, origin
    <3>2. Account(account', fresh - 1)
      BY <3>1 DEF ShieldInv, Knows
    <3>3. QED
      BY <1>2, <3>1, <3>2, OwnerKeeps
  <2>3. QED
    BY <2>1, <2>2
<1>3. QED
  BY <1>1, <1>2

-----------------------------------------------------------------------------
(* The theorems.                                                            *)

(* Every state the specification reaches is one of those described.         *)
LEMMA ShieldInvariant == Spec => []ShieldInv
<1>1. Init => ShieldInv
  BY ShieldInit
<1>2. ShieldInv /\ [Next]_vars => ShieldInv'
  BY ShieldStep
<1>3. QED
  BY <1>1, <1>2, PTL DEF Spec

(* No step of a plan or of a rollback plan touches what its request         *)
(* protects: no star of a protected repository, no protected List, and no   *)
(* repository in one but by unstarring it (protectedRepositoryIds and       *)
(* protectedListIds of operation-resolver.ts and rollback-service.ts),      *)
(* whatever the account, the request, the rows of the run, the order of the *)
(* operations and the changes of the owner in between.                      *)
THEOREM ShieldsAreKept == Spec => ShieldsHold
<1>1. ShieldInv /\ [Next]_vars
          => [Effect => Untouched(request.keepRepos, request.keepLists)]_vars
  BY ShieldStep
<1>2. QED
  BY <1>1, ShieldInvariant, PTL DEF Spec, ShieldsHold

-----------------------------------------------------------------------------
(* What the operations of a plan expect, and that they leave each other's   *)
(* expectations alone.                                                      *)

\* What the i-th operation of a plan says of the account it was made from.
Fits(op, i, ops, req, acc) ==
    /\ op.id = <<i, 0>>
    /\ op.kind \in Kinds
    /\ op.kind # "list_membership_set" => op.dependsOn = {}
    /\ op.kind = "star" => op.on \notin acc.starred
    /\ op.kind = "unstar" => op.on \in acc.starred /\ op.on \in ReposOf(req, {"unstar"})
    /\ op.kind = "list_update" =>
        /\ op.on \in DOMAIN acc.lists /\ op.from = acc.lists[op.on].meta
        /\ op.from # op.to
    /\ op.kind = "list_delete" =>
        /\ op.on \in DOMAIN acc.lists /\ op.from = acc.lists[op.on].meta
        /\ op.stamp = acc.lists[op.on].stamp
    /\ op.kind = "list_membership_set" =>
        /\ op.on \in ReposOf(req, Membership)
        /\ op.listIds = ListsOf(acc, op.on)
        /\ op.targets \subseteq DOMAIN acc.lists
        /\ op.made \subseteq op.dependsOn
        /\ \A d \in op.dependsOn : \E j \in DOMAIN ops :
              ops[j].id = d /\ ops[j].kind \in {"star", "list_create"}

\* Neither of two operations takes away what the other one expects.
Apart(p, q) ==
    /\ p.kind = q.kind => p.on # q.on
    /\ p.kind = "list_delete" /\ q.kind = "list_update" => p.on # q.on
    /\ p.kind = "list_delete" /\ q.kind = "list_membership_set" =>
            p.on \notin q.targets \cup q.listIds

Coherent(ops, req, acc) ==
    /\ \A i \in DOMAIN ops : Fits(ops[i], i, ops, req, acc)
    /\ \A i, j \in DOMAIN ops : i # j => Apart(ops[i], ops[j])

(* A membership is among Lists that the repository is in, or that the       *)
(* request mentions for it; both are known.                                 *)
LEMMA TargetsMentioned ==
    ASSUME NEW req, NEW acc, NEW full, NEW n, Resolvable(req, acc, full, n), NEW r
    PROVE  /\ Existing(req, acc, r) \subseteq ListsOf(acc, r) \cup MentionedFor(req, r)
           /\ ListsOf(acc, r) \cup MentionedFor(req, r) \subseteq DOMAIN acc.lists
<1> DEFINE chosen == UNION {s.lists : s \in SetsOf(req, r)}
           base == IF SetsOf(req, r) = {} THEN ListsOf(acc, r) ELSE chosen
           mentioned == MentionedFor(req, r)
<1>1. \A kinds \in SUBSET Membership : ForRepo(req, r, kinds) \subseteq ForRepo(req, r, Membership)
  BY DEF ForRepo, ActionsOf
<1>2. \A a \in ForRepo(req, r, Membership) : a.lists \ req.keepLists \subseteq mentioned
  BY DEF MentionedFor
<1>3. /\ {"list_membership_set"} \in SUBSET Membership
      /\ {"list_membership_add"} \in SUBSET Membership
  BY DEF Membership
<1>4. AddedTo(req, r) \subseteq mentioned
  <2>1. \A a \in ForRepo(req, r, {"list_membership_add"}) : a.lists \ req.keepLists \subseteq mentioned
    BY <1>1, <1>2, <1>3
  <2> HIDE DEF mentioned
  <2>2. QED
    BY <2>1 DEF AddedTo
<1>5. chosen \subseteq mentioned
  <2>1. \A a \in ForRepo(req, r, {"list_membership_set"}) : a.lists \ req.keepLists \subseteq mentioned
    BY <1>1, <1>2, <1>3
  <2> HIDE DEF mentioned
  <2>2. \A s \in SetsOf(req, r) : s.lists \subseteq mentioned
    BY <2>1 DEF SetsOf
  <2>3. QED
    BY <2>2
<1>6. Existing(req, acc, r) = ((base \cup AddedTo(req, r)) \ RemovedFrom(req, r))
                                \cup (ListsOf(acc, r) \cap req.keepLists)
  BY DEF Existing, WithProtected
<1>7. base \subseteq ListsOf(acc, r) \cup mentioned
  <2> HIDE DEF chosen, mentioned
  <2>1. QED
    BY <1>5
<1>8. mentioned \subseteq DOMAIN acc.lists
  <2>1. \A a \in req.actions : a.lists \subseteq AllLists(acc)
    BY DEF Resolvable, Refused, Unknown
  <2>2. QED
    BY <2>1 DEF AllLists, MentionedFor, ForRepo, ActionsOf
<1>9. ListsOf(acc, r) \subseteq DOMAIN acc.lists
  BY DEF ListsOf
<1> HIDE DEF base, chosen, mentioned
<1>10. Existing(req, acc, r) \subseteq ListsOf(acc, r) \cup mentioned
  BY <1>4, <1>6, <1>7
<1>11. QED
  BY <1>8, <1>9, <1>10 DEF mentioned

(* The fields of each kind of draft.                                        *)
LEMMA DraftFields ==
    ASSUME NEW d, NEW req, NEW acc, NEW full, DraftOf(d, req, acc, full)
    PROVE  /\ d.kind = "list_update" =>
                d.from = acc.lists[d.on].meta /\ d.to = Updated(req, acc, d.on)
           /\ d.kind = "list_delete" =>
                d.from = acc.lists[d.on].meta /\ d.stamp = acc.lists[d.on].stamp
           /\ d.kind = "list_membership_set" =>
                d.listIds = ListsOf(acc, d.on) /\ d.targets = Existing(req, acc, d.on)
<1>1. CASE d.kind = "list_update"
  <2>1. d = UpdateDraft(d.on, req, acc)
    BY <1>1 DEF DraftOf
  <2>2. \A l : /\ UpdateDraft(l, req, acc).from = acc.lists[l].meta
               /\ UpdateDraft(l, req, acc).to = Updated(req, acc, l)
    BY DEF UpdateDraft, NoOp
  <2>3. d.from = acc.lists[d.on].meta /\ d.to = Updated(req, acc, d.on)
    BY <2>1, <2>2, Zenon
  <2>4. QED
    BY <1>1, <2>3
<1>2. CASE d.kind = "list_delete"
  <2>1. d = DeleteDraft(d.on, acc)
    BY <1>2 DEF DraftOf
  <2>2. \A l : /\ DeleteDraft(l, acc).from = acc.lists[l].meta
               /\ DeleteDraft(l, acc).stamp = acc.lists[l].stamp
    BY DEF DeleteDraft, NoOp
  <2>3. d.from = acc.lists[d.on].meta /\ d.stamp = acc.lists[d.on].stamp
    BY <2>1, <2>2, Zenon
  <2>4. QED
    BY <1>2, <2>3
<1>3. CASE d.kind = "list_membership_set"
  <2>1. d = MembershipDraft(d.on, req, acc)
    BY <1>3 DEF DraftOf
  <2>2. \A r : /\ MembershipDraft(r, req, acc).listIds = ListsOf(acc, r)
               /\ MembershipDraft(r, req, acc).targets = Existing(req, acc, r)
    BY DEF MembershipDraft, NoOp
  <2>3. d.listIds = ListsOf(acc, d.on) /\ d.targets = Existing(req, acc, d.on)
    BY <2>1, <2>2, Zenon
  <2>4. QED
    BY <1>3, <2>3
<1>4. QED
  BY <1>1, <1>2, <1>3

(* What a membership depends on stars its repository or creates its Lists.  *)
LEMMA MembershipNeeds ==
    ASSUME NEW ops, NEW req, NEW acc, NEW full, NEW n, Planned(ops, req, acc, full, n),
           NEW i \in DOMAIN ops, ops[i].kind = "list_membership_set"
    PROVE  /\ ops[i].made \subseteq ops[i].dependsOn
           /\ \A d \in ops[i].dependsOn : \E j \in DOMAIN ops :
                  ops[j].id = d /\ ops[j].kind \in {"star", "list_create"}
<1>1. PICK w : Lists(w, Drafts(req, acc, full)) /\ FromDrafts(ops, w)
  BY DEF Planned
<1>2. DOMAIN ops = DOMAIN w /\ \A j \in DOMAIN w : FromDraft(ops[j], w, j)
  BY <1>1 DEF FromDrafts
<1>3. \A j \in DOMAIN w : DOMAIN w[j] = OpFields
  BY <1>1, DraftKinds DEF Lists, DraftOf
<1>4. \A j \in DOMAIN w : ops[j].kind = w[j].kind /\ ops[j].id = <<j, 0>>
  <2> TAKE j \in DOMAIN w
  <2>1. FromDraft(ops[j], w, j) /\ DOMAIN w[j] = OpFields
    BY <1>2, <1>3
  <2> DEFINE D == Creating(w, w[j].made) \cup Starring(w, w[j].on)
             M == Creating(w, w[j].made)
             v == w[j]
  <2>2. \/ ops[j] = [v EXCEPT !.id = <<j, 0>>, !.dependsOn = D, !.made = M]
        \/ ops[j] = [v EXCEPT !.id = <<j, 0>>]
    BY <2>1 DEF FromDraft
  <2> HIDE DEF D, M, v
  <2>3. DOMAIN v = OpFields
    BY <2>1 DEF v
  <2>4. QED
    BY <2>2, <2>3 DEF v, OpFields
<1> DEFINE D == Creating(w, w[i].made) \cup Starring(w, w[i].on)
           M == Creating(w, w[i].made)
           v == w[i]
<1>5. ops[i].dependsOn = D /\ ops[i].made = M
  <2>1. ops[i] = [v EXCEPT !.id = <<i, 0>>, !.dependsOn = D, !.made = M]
    BY <1>2, <1>4 DEF FromDraft
  <2>2. DOMAIN v = OpFields
    BY <1>2, <1>3
  <2> HIDE DEF D, M, v
  <2>3. QED
    BY <2>1, <2>2 DEF OpFields
<1>6. \A d \in D : \E j \in DOMAIN w : d = <<j, 0>> /\ w[j].kind \in {"star", "list_create"}
  BY DEF Creating, Starring
<1>7. M \subseteq D
  OBVIOUS
<1> HIDE DEF D, M
<1>8. QED
  BY <1>2, <1>4, <1>5, <1>6, <1>7

(* Two operations of a plan are of two drafts.                              *)
LEMMA DraftsOfOperations ==
    ASSUME NEW ops, NEW req, NEW acc, NEW full, NEW n, Planned(ops, req, acc, full, n),
           NEW i \in DOMAIN ops, NEW j \in DOMAIN ops, i # j
    PROVE  ops[i].kind = ops[j].kind => ops[i].on # ops[j].on
<1> DEFINE S == Drafts(req, acc, full)
<1>1. PICK w : Lists(w, S) /\ FromDrafts(ops, w)
  BY DEF Planned
<1>2. Keyed(DraftKey(S), S)
  BY DraftsKeyed DEF Planned
<1>3. DOMAIN ops = DOMAIN w /\ \A k \in DOMAIN w : FromDraft(ops[k], w, k)
  BY <1>1 DEF FromDrafts
<1>4. w[i] \in S /\ w[j] \in S /\ w[i] # w[j]
  BY <1>1, <1>3 DEF Lists
<1>5. ASSUME NEW k \in DOMAIN w PROVE ops[k].kind = w[k].kind /\ ops[k].on = w[k].on
  <2>1. FromDraft(ops[k], w, k) /\ DOMAIN w[k] = OpFields
    BY <1>1, <1>3, DraftKinds DEF Lists, DraftOf
  <2> DEFINE D == Creating(w, w[k].made) \cup Starring(w, w[k].on)
             M == Creating(w, w[k].made)
             v == w[k]
  <2>2. \/ ops[k] = [v EXCEPT !.id = <<k, 0>>, !.dependsOn = D, !.made = M]
        \/ ops[k] = [v EXCEPT !.id = <<k, 0>>]
    BY <2>1 DEF FromDraft
  <2>3. DOMAIN v = OpFields
    BY <2>1
  <2> HIDE DEF D, M, v
  <2>4. QED
    BY <2>2, <2>3 DEF v, OpFields
<1>6. ASSUME w[i].kind = w[j].kind, w[i].on = w[j].on PROVE FALSE
  <2>1. DraftKey(S)[w[i]] = DraftKey(S)[w[j]]
    BY <1>4, <1>6 DEF DraftKey
  <2>2. QED
    BY <1>2, <1>4, <2>1 DEF Keyed
<1>7. QED
  BY <1>3, <1>5, <1>6

(* A List that is deleted is neither updated nor mentioned by a membership. *)
LEMMA DeletedAlone ==
    ASSUME NEW req, NEW acc, NEW full, NEW n, Resolvable(req, acc, full, n),
           NEW l \in TargetsOf(req, {"list_delete"})
    PROVE  /\ l \notin TargetsOf(req, {"list_update"})
           /\ \A r \in ReposOf(req, Membership) :
                  l \notin MentionedFor(req, r) \cup ListsOf(acc, r)
<1>1. ~Conflicting(req, acc)
  BY DEF Resolvable, Refused
<1>2. QED
  BY <1>1 DEF Conflicting

(* What the resolver makes is coherent.                                     *)
LEMMA PlanCoheres ==
    ASSUME NEW ops, NEW req, NEW acc, NEW full, NEW n, Planned(ops, req, acc, full, n)
    PROVE  Coherent(ops, req, acc)
<1>1. Resolvable(req, acc, full, n)
  BY DEF Planned
<1>2. ASSUME NEW i \in DOMAIN ops PROVE Fits(ops[i], i, ops, req, acc)
  <2>1. PICK d : DraftOf(d, req, acc, full) /\ AsDrafted(ops[i], d)
    BY OperationOfDraft
  <2> DEFINE op == ops[i]
  <2>2. /\ op.id = <<i, 0>>
        /\ op.kind = d.kind /\ op.on = d.on /\ op.listIds = d.listIds
        /\ op.targets = d.targets /\ op.from = d.from /\ op.to = d.to
        /\ op.stamp = d.stamp /\ op.kind \in Kinds
        /\ d.kind # "list_membership_set" => op.dependsOn = {}
    BY <2>1, OperationOfDraft DEF AsDrafted, DraftOf
  <2>3. op.kind = "star" => op.on \notin acc.starred
    BY <2>1, <2>2 DEF DraftOf
  <2>4. op.kind = "unstar" => op.on \in acc.starred /\ op.on \in ReposOf(req, {"unstar"})
    BY <2>1, <2>2 DEF DraftOf
  <2>5. ASSUME op.kind = "list_update"
        PROVE  /\ op.on \in DOMAIN acc.lists /\ op.from = acc.lists[op.on].meta
               /\ op.from # op.to
    <3>1. d.from = acc.lists[d.on].meta /\ d.to = Updated(req, acc, d.on)
      <4>1. DraftOf(d, req, acc, full) /\ d.kind = "list_update"
        BY <2>1, <2>2, <2>5
      <4>2. QED
        BY <4>1, DraftFields, Zenon
    <3>2. d.on \in TargetsOf(req, {"list_update"}) /\ Updated(req, acc, d.on) # acc.lists[d.on].meta
      BY <2>1, <2>2, <2>5 DEF DraftOf
    <3>3. d.on \in DOMAIN acc.lists
      BY <1>1, <3>2, NamesKnown DEF AllLists
    <3>4. QED
      BY <2>2, <3>1, <3>2, <3>3
  <2>6. ASSUME op.kind = "list_delete"
        PROVE  /\ op.on \in DOMAIN acc.lists /\ op.from = acc.lists[op.on].meta
               /\ op.stamp = acc.lists[op.on].stamp
    <3>1. d.from = acc.lists[d.on].meta /\ d.stamp = acc.lists[d.on].stamp
      <4>1. DraftOf(d, req, acc, full) /\ d.kind = "list_delete"
        BY <2>1, <2>2, <2>6
      <4>2. QED
        BY <4>1, DraftFields, Zenon
    <3>2. d.on \in TargetsOf(req, {"list_delete"})
      BY <2>1, <2>2, <2>6 DEF DraftOf
    <3>3. d.on \in DOMAIN acc.lists
      BY <1>1, <3>2, NamesKnown DEF AllLists
    <3>4. QED
      BY <2>2, <3>1, <3>3
  <2>7. ASSUME op.kind = "list_membership_set"
        PROVE  /\ op.on \in ReposOf(req, Membership)
               /\ op.listIds = ListsOf(acc, op.on)
               /\ op.targets \subseteq DOMAIN acc.lists
    <3>1. d.listIds = ListsOf(acc, d.on) /\ d.targets = Existing(req, acc, d.on)
      <4>1. DraftOf(d, req, acc, full) /\ d.kind = "list_membership_set"
        BY <2>1, <2>2, <2>7
      <4>2. QED
        BY <4>1, DraftFields, Zenon
    <3>2. d.on \in ReposOf(req, Membership)
      BY <2>1, <2>2, <2>7 DEF DraftOf
    <3>3. Existing(req, acc, d.on) \subseteq DOMAIN acc.lists
      BY <1>1, TargetsMentioned
    <3>4. QED
      BY <2>2, <3>1, <3>2, <3>3
  <2>8. ASSUME op.kind = "list_membership_set"
        PROVE  /\ op.made \subseteq op.dependsOn
               /\ \A e \in op.dependsOn : \E j \in DOMAIN ops :
                      ops[j].id = e /\ ops[j].kind \in {"star", "list_create"}
    BY <2>8, MembershipNeeds
  <2> HIDE DEF op
  <2>9. Fits(op, i, ops, req, acc)
    BY <2>2, <2>3, <2>4, <2>5, <2>6, <2>7, <2>8 DEF Fits
  <2>10. QED
    BY <2>9 DEF op
<1>3. ASSUME NEW i \in DOMAIN ops, NEW j \in DOMAIN ops, i # j
      PROVE  Apart(ops[i], ops[j])
  <2>1. PICK d : DraftOf(d, req, acc, full) /\ AsDrafted(ops[i], d)
    BY OperationOfDraft
  <2>2. PICK e : DraftOf(e, req, acc, full) /\ AsDrafted(ops[j], e)
    BY OperationOfDraft
  <2> DEFINE p == ops[i]
             q == ops[j]
  <2>3. p.kind = d.kind /\ p.on = d.on
    BY <2>1 DEF AsDrafted
  <2>4. q.kind = e.kind /\ q.on = e.on /\ q.targets = e.targets /\ q.listIds = e.listIds
    BY <2>2 DEF AsDrafted
  <2>5. p.kind = q.kind => p.on # q.on
    BY <1>3, DraftsOfOperations
  <2> HIDE DEF p, q
  <2>6. ASSUME p.kind = "list_delete", q.kind = "list_update" PROVE p.on # q.on
    <3>1. d.on \in TargetsOf(req, {"list_delete"}) /\ e.on \in TargetsOf(req, {"list_update"})
      BY <2>1, <2>2, <2>3, <2>4, <2>6 DEF DraftOf
    <3>2. QED
      BY <1>1, <2>3, <2>4, <3>1, DeletedAlone
  <2>7. ASSUME p.kind = "list_delete", q.kind = "list_membership_set"
        PROVE  p.on \notin q.targets \cup q.listIds
    <3>1. d.on \in TargetsOf(req, {"list_delete"}) /\ e.on \in ReposOf(req, Membership)
      BY <2>1, <2>2, <2>3, <2>4, <2>7 DEF DraftOf
    <3>2. d.on \notin MentionedFor(req, e.on) \cup ListsOf(acc, e.on)
      BY <1>1, <3>1, DeletedAlone
    <3>3. e.listIds = ListsOf(acc, e.on) /\ e.targets = Existing(req, acc, e.on)
      <4>1. DraftOf(e, req, acc, full) /\ e.kind = "list_membership_set"
        BY <2>2, <2>4, <2>7
      <4>2. QED
        BY <4>1, DraftFields, Zenon
    <3>4. Existing(req, acc, e.on) \subseteq ListsOf(acc, e.on) \cup MentionedFor(req, e.on)
      BY <1>1, TargetsMentioned
    <3>5. QED
      BY <2>3, <2>4, <3>2, <3>3, <3>4
  <2>8. QED
    BY <2>5, <2>6, <2>7 DEF Apart, p, q
<1>4. QED
  BY <1>2, <1>3 DEF Coherent

-----------------------------------------------------------------------------
(* What an undisturbed run finds: every operation that has no row yet finds *)
(* what it expects, and every other one is settled.  Excepted are the       *)
(* memberships of a repository that the request unstars too.                *)

TornIn(r, req) ==
    /\ \E a \in ActionsOf(req, {"unstar"}) : r \in a.repos
    /\ \E a \in ActionsOf(req, Membership) : r \in a.repos
Exempt(op, req) == op.kind = "list_membership_set" /\ TornIn(op.on, req)

\* The account a is for op as the snapshot acc was.
Waits(op, a, acc, req) ==
    /\ op.kind = "star" => op.on \notin a.starred
    /\ op.kind = "unstar" => op.on \in a.starred
    /\ op.kind = "list_update" =>
        op.on \in DOMAIN a.lists /\ a.lists[op.on].meta = op.from
    /\ op.kind = "list_delete" =>
        op.on \in DOMAIN a.lists /\ a.lists[op.on] = acc.lists[op.on]
    /\ op.kind = "list_membership_set" /\ ~Exempt(op, req) =>
        ListsOf(a, op.on) = op.listIds

Deletes(ops, l) == \E i \in DOMAIN ops : ops[i].kind = "list_delete" /\ ops[i].on = l

Undisturbed(ops, rs, a, acc, req) ==
    /\ \A i \in DOMAIN ops :
        /\ ops[i].id \notin DOMAIN rs => Waits(ops[i], a, acc, req)
        /\ ops[i].id \in DOMAIN rs /\ ~Exempt(ops[i], req) =>
               rs[ops[i].id].status \in Settled
    /\ \A l \in DOMAIN acc.lists : l \in DOMAIN a.lists \/ Deletes(ops, l)
    /\ \A o \in DOMAIN rs : rs[o].list # 0 =>
           rs[o].list \in DOMAIN a.lists /\ rs[o].list \notin DOMAIN acc.lists

\* Nobody else has changed the account, and nothing was refused or has failed.
Unfailed == \A o \in DOMAIN rows : rows[o].status \in Settled
Calm == touched = {} /\ (faults = 0 \/ Unfailed)

HoldInv ==
    /\ faults \in Nat
    /\ touched = {} => moved = {}
    /\ phase = "asking" => account = snapshot
    /\ Applying => Coherent(plan, request, snapshot)
    /\ Applying /\ Calm => Undisturbed(plan, rows, account, snapshot, request)

(* Of the account it was made from, a plan finds everything as it expects.  *)
LEMMA FitsAtFirst ==
    ASSUME NEW ops, NEW req, NEW acc, Coherent(ops, req, acc), NEW rs, DOMAIN rs = {}
    PROVE  Undisturbed(ops, rs, acc, acc, req)
<1>1. ASSUME NEW i \in DOMAIN ops PROVE Waits(ops[i], acc, acc, req)
  <2>1. Fits(ops[i], i, ops, req, acc)
    BY DEF Coherent
  <2>2. QED
    BY <2>1 DEF Fits, Waits
<1>2. QED
  BY <1>1 DEF Undisturbed

(* What each kind of effect leaves of what another operation waits for.     *)
LEMMA StarLeaves ==
    ASSUME NEW c, NEW p, NEW i, NEW j, NEW ops, NEW req, NEW acc,
           Fits(c, i, ops, req, acc), Fits(p, j, ops, req, acc), Apart(c, p), Apart(p, c),
           c.kind = "star", NEW a, Waits(p, a, acc, req),
           NEW b, b.starred = a.starred \cup {c.on}, b.lists = a.lists,
           b.members = a.members
    PROVE  Waits(p, b, acc, req)
<1>1. ListsOf(b, p.on) = ListsOf(a, p.on)
  BY DEF ListsOf
<1>2. QED
  BY <1>1 DEF Waits, Apart

LEMMA UnstarLeaves ==
    ASSUME NEW c, NEW p, NEW i, NEW j, NEW ops, NEW req, NEW acc,
           Fits(c, i, ops, req, acc), Fits(p, j, ops, req, acc), Apart(c, p), Apart(p, c),
           c.kind = "unstar", NEW a, Waits(p, a, acc, req),
           NEW b, b.starred = a.starred \ {c.on}, b.lists = a.lists,
           b.members \subseteq a.members,
           \A m \in a.members : m[2] # c.on => m \in b.members
    PROVE  Waits(p, b, acc, req)
<1>1. ASSUME p.kind = "list_membership_set", p.on = c.on PROVE Exempt(p, req)
  <2>1. c.on \in ReposOf(req, {"unstar"}) /\ p.on \in ReposOf(req, Membership)
    BY <1>1 DEF Fits
  <2>2. QED
    BY <1>1, <2>1 DEF Exempt, TornIn, ReposOf
<1>2. p.on # c.on => ListsOf(b, p.on) = ListsOf(a, p.on)
  <2>1. SUFFICES ASSUME p.on # c.on PROVE ListsOf(b, p.on) = ListsOf(a, p.on)
    OBVIOUS
  <2>2. \A l : <<l, p.on>> \in b.members <=> <<l, p.on>> \in a.members
    <3>1. \A l : <<l, p.on>>[2] # c.on
      BY <2>1
    <3>2. QED
      BY <3>1
  <2>3. QED
    BY <2>2 DEF ListsOf
<1>3. QED
  BY <1>1, <1>2 DEF Waits, Apart

LEMMA CreateLeaves ==
    ASSUME NEW p, NEW req, NEW acc, NEW to, NEW a, NEW n \in Nat, Account(a, n),
           Waits(p, a, acc, req), NEW b, CreatedIn(b, a, n, to)
    PROVE  Waits(p, b, acc, req)
<1>1. /\ b.starred = a.starred /\ b.members = a.members
      /\ DOMAIN b.lists = DOMAIN a.lists \cup {n + 1}
      /\ \A l \in DOMAIN a.lists : b.lists[l] = a.lists[l]
  BY DEF CreatedIn
<1>2. ListsOf(b, p.on) = ListsOf(a, p.on)
  <2>1. \A l : <<l, p.on>> \in a.members => l \in DOMAIN a.lists
    BY DEF Account
  <2>2. QED
    BY <1>1, <2>1 DEF ListsOf
<1>3. QED
  BY <1>1, <1>2 DEF Waits

LEMMA UpdateLeaves ==
    ASSUME NEW c, NEW p, Apart(c, p), Apart(p, c), NEW req, NEW acc,
           c.kind = "list_update", NEW a, Waits(p, a, acc, req),
           NEW b, b.starred = a.starred, b.members = a.members,
           DOMAIN b.lists = DOMAIN a.lists,
           \A l \in DOMAIN a.lists : l # c.on => b.lists[l] = a.lists[l]
    PROVE  Waits(p, b, acc, req)
<1>1. ListsOf(b, p.on) = ListsOf(a, p.on)
  BY DEF ListsOf
<1>2. QED
  BY <1>1 DEF Waits, Apart

LEMMA DeleteLeaves ==
    ASSUME NEW c, NEW p, NEW i, NEW j, NEW ops, NEW req, NEW acc,
           Fits(p, j, ops, req, acc), Apart(c, p), Apart(p, c),
           c.kind = "list_delete", NEW a, Waits(p, a, acc, req),
           NEW b, b.starred = a.starred,
           b.members = {m \in a.members : m[1] # c.on},
           DOMAIN b.lists = DOMAIN a.lists \ {c.on},
           \A l \in DOMAIN a.lists \ {c.on} : b.lists[l] = a.lists[l]
    PROVE  Waits(p, b, acc, req)
<1>1. ASSUME p.kind = "list_membership_set", ~Exempt(p, req)
      PROVE  ListsOf(b, p.on) = p.listIds
  <2>1. ListsOf(a, p.on) = p.listIds /\ c.on \notin p.listIds
    BY <1>1 DEF Waits, Apart
  <2>2. \A l : l # c.on => (<<l, p.on>> \in b.members <=> <<l, p.on>> \in a.members)
    OBVIOUS
  <2>3. ListsOf(b, p.on) = ListsOf(a, p.on) \ {c.on}
    BY <2>2 DEF ListsOf
  <2>4. QED
    BY <2>1, <2>3
<1>2. QED
  BY <1>1 DEF Waits, Apart

LEMMA MembershipLeaves ==
    ASSUME NEW c, NEW p, NEW i, NEW j, NEW ops, NEW req, NEW acc,
           Fits(p, j, ops, req, acc), Apart(c, p), Apart(p, c),
           c.kind = "list_membership_set", NEW a, Waits(p, a, acc, req),
           NEW ids, \A l \in ids : l \in c.targets \/ l \notin DOMAIN acc.lists,
           NEW b, b.starred = a.starred,
           b.members = {m \in a.members : m[2] # c.on} \cup (ids \X {c.on}),
           DOMAIN b.lists = DOMAIN a.lists,
           \A l \in DOMAIN a.lists : b.lists[l].meta = a.lists[l].meta,
           \A l \in DOMAIN a.lists : l \notin ids => b.lists[l] = a.lists[l]
    PROVE  Waits(p, b, acc, req)
<1>1. p.kind = "list_delete" => p.on \notin ids
  BY DEF Fits, Apart
<1>2. p.on # c.on => ListsOf(b, p.on) = ListsOf(a, p.on)
  <2>1. SUFFICES ASSUME p.on # c.on PROVE ListsOf(b, p.on) = ListsOf(a, p.on)
    OBVIOUS
  <2>2. \A l : <<l, p.on>> \in b.members <=> <<l, p.on>> \in a.members
    BY <2>1
  <2>3. QED
    BY <2>2 DEF ListsOf
<1>3. p.kind = "list_membership_set" => p.on # c.on
  BY DEF Apart
<1>4. QED
  BY <1>1, <1>2, <1>3 DEF Waits

\* An undisturbed run at its next operation, the k-th.
AtWork(k) ==
    /\ ShieldInv /\ HoldInv /\ phase = "planned" /\ Calm /\ ~Halted
    /\ k \in DOMAIN plan /\ Current = plan[k]

(* The next operation of a run is one of its plan.                          *)
LEMMA WorkAt ==
    ASSUME ShieldInv, HoldInv, phase = "planned", Calm, ~Halted
    PROVE  \E k : AtWork(k)
<1>1. Running
  BY DEF Running
<1>2. PICK k \in DOMAIN plan : Current = plan[k]
  BY <1>1, AtCurrent
<1>3. QED
  BY <1>2 DEF AtWork

(* What is known of it.                                                     *)
LEMMA WorkIs ==
    ASSUME NEW k, AtWork(k)
    PROVE  /\ Running /\ ~Halted /\ k \in DOMAIN plan /\ Current = plan[k]
           /\ Coherent(plan, request, snapshot)
           /\ Undisturbed(plan, rows, account, snapshot, request)
           /\ Fits(Current, k, plan, request, snapshot)
           /\ Waits(Current, account, snapshot, request)
           /\ Current.id \notin DOMAIN rows /\ Current.dependsOn \subseteq DOMAIN rows
           /\ Typed(Current) /\ fresh \in Nat \ {0}
           /\ Account(account, fresh - 1) /\ Account(snapshot, fresh - 1)
<1>1. /\ Running /\ Applying /\ ShieldInv /\ ~Halted /\ Calm
      /\ k \in DOMAIN plan /\ Current = plan[k]
  BY DEF AtWork, Running, Applying
<1>2. Coherent(plan, request, snapshot) /\ Undisturbed(plan, rows, account, snapshot, request)
  BY <1>1 DEF AtWork, HoldInv
<1>3. /\ Current.id \notin DOMAIN rows /\ Current.dependsOn \subseteq DOMAIN rows
      /\ Typed(Current)
  BY <1>1, AtCurrent
<1>4. Fits(Current, k, plan, request, snapshot) /\ Waits(Current, account, snapshot, request)
  BY <1>1, <1>2, <1>3 DEF Coherent, Undisturbed
<1>5. QED
  BY <1>1, <1>2, <1>3, <1>4 DEF ShieldInv, Knows

(* It is not blocked, its shape is valid, and it finds what it expects.     *)
LEMMA WorkIsDispatched ==
    ASSUME NEW k, AtWork(k)
    PROVE  /\ ~Blocked(Current) /\ Shaped(Current)
           /\ ~Exempt(Current, request) => MatchesBefore(Current)
<1> DEFINE c == Current
<1>1. /\ Running /\ ~Halted /\ k \in DOMAIN plan /\ c = plan[k]
      /\ Coherent(plan, request, snapshot)
      /\ Undisturbed(plan, rows, account, snapshot, request)
      /\ Fits(c, k, plan, request, snapshot) /\ Waits(c, account, snapshot, request)
      /\ c.dependsOn \subseteq DOMAIN rows
      /\ Account(account, fresh - 1) /\ Account(snapshot, fresh - 1)
  BY WorkIs
<1>2. c.kind \in Kinds /\ (c.kind # "list_membership_set" => c.dependsOn = {})
  BY <1>1 DEF Fits
<1>3. ASSUME NEW d \in c.dependsOn
      PROVE  d # c.id /\ rows[d].status \in Settled
  <2>1. c.kind = "list_membership_set"
    BY <1>2
  <2>2. PICK j \in DOMAIN plan : plan[j].id = d /\ plan[j].kind \in {"star", "list_create"}
    BY <1>1, <2>1 DEF Fits
  <2>3. d # c.id
    <3>1. plan[j].id = <<j, 0>> /\ c.id = <<k, 0>>
      BY <1>1 DEF Coherent, Fits
    <3>2. plan[j].kind # plan[k].kind
      BY <1>1, <2>1, <2>2
    <3>3. j # k
      BY <3>2
    <3>4. <<j, 0>> # <<k, 0>>
      BY <3>3
    <3>5. QED
      BY <2>2, <3>1, <3>4
  <2>4. ~Exempt(plan[j], request)
    BY <2>2 DEF Exempt
  <2>5. QED
    BY <1>1, <2>2, <2>3, <2>4 DEF Undisturbed
<1>4. ~Blocked(c)
  BY <1>3 DEF Blocked
<1>5. Shaped(c)
  <2>1. c.id \notin c.dependsOn
    BY <1>3
  <2>2. UpdateShaped(c)
    BY <1>1 DEF Fits, UpdateShaped
  <2>3. MembershipShaped(c)
    BY <1>1, <2>1 DEF Fits, MembershipShaped
  <2>4. QED
    BY <2>1, <2>2, <2>3 DEF Shaped
<1>6. ASSUME ~Exempt(c, request) PROVE MatchesBefore(c)
  <2>0. c.id \notin DOMAIN made
    BY <1>1, NothingMadeYet DEF AtWork
  <2> HIDE DEF c
  <2>1. CASE c.kind = "star"
    BY <1>1, <2>1 DEF MatchesBefore, CheckStar, Waits
  <2>2. CASE c.kind = "unstar"
    BY <1>1, <2>2 DEF MatchesBefore, CheckStar, Waits
  <2>3. CASE c.kind = "list_create"
    BY <2>0, <2>3 DEF MatchesBefore
  <2>4. CASE c.kind = "list_update"
    BY <1>1, <2>4 DEF MatchesBefore, GetUserList, Waits
  <2>5. CASE c.kind = "list_delete"
    <3>1. /\ c.on \in DOMAIN account.lists /\ account.lists[c.on] = snapshot.lists[c.on]
          /\ c.from = snapshot.lists[c.on].meta /\ c.stamp = snapshot.lists[c.on].stamp
          /\ c.on \in DOMAIN snapshot.lists
      BY <1>1, <2>5 DEF Waits, Fits
    <3>2. IsList(snapshot.lists[c.on])
      BY <1>1, <3>1 DEF Account
    <3>3. GetUserList(c.on) = [meta |-> c.from, stamp |-> c.stamp]
      BY <3>1, <3>2 DEF GetUserList, IsList
    <3>4. QED
      BY <2>5, <3>3 DEF MatchesBefore, SameList
  <2>6. CASE c.kind = "list_membership_set"
    BY <1>1, <1>6, <2>6 DEF MatchesBefore, GetRepositoryListIds, Waits
  <2>7. QED
    BY <1>2, <2>1, <2>2, <2>3, <2>4, <2>5, <2>6 DEF Kinds
<1>7. QED
  BY <1>4, <1>5, <1>6

(* The Lists of a membership are there.                                     *)
LEMMA TargetsAreThere ==
    ASSUME NEW k, AtWork(k), Current.kind = "list_membership_set",
           Dispatched("list_membership_set")
    PROVE  /\ TargetIds(Current) \subseteq DOMAIN account.lists
           /\ \A l \in TargetIds(Current) :
                  l \in Current.targets \/ l \notin DOMAIN snapshot.lists
<1> DEFINE c == Current
<1>1. /\ k \in DOMAIN plan /\ c = plan[k] /\ ShieldInv
      /\ Coherent(plan, request, snapshot)
      /\ Undisturbed(plan, rows, account, snapshot, request)
      /\ Fits(c, k, plan, request, snapshot)
  BY WorkIs DEF AtWork
<1>2. ASSUME NEW l \in c.targets PROVE l \in DOMAIN account.lists
  <2>1. l \in DOMAIN snapshot.lists
    BY <1>1 DEF Fits
  <2>2. ~Deletes(plan, l)
    <3>1. SUFFICES ASSUME NEW i \in DOMAIN plan, plan[i].kind = "list_delete", plan[i].on = l
                   PROVE  FALSE
      BY DEF Deletes
    <3>2. i # k
      BY <1>1, <3>1
    <3>3. Apart(plan[i], c)
      BY <1>1, <3>2 DEF Coherent
    <3>4. QED
      BY <3>1, <3>3 DEF Apart
  <2>3. QED
    BY <1>1, <2>1, <2>2 DEF Undisturbed
<1>3. ASSUME NEW o \in c.made
      PROVE  made[o] \in DOMAIN account.lists /\ made[o] \notin DOMAIN snapshot.lists
  <2>1. o \in DOMAIN made
    BY <1>1, MadeForIt
  <2>2. o \in DOMAIN rows /\ rows[o].list # 0 /\ made[o] = rows[o].list
    BY <2>1 DEF made
  <2>3. QED
    BY <1>1, <2>2 DEF Undisturbed
<1>4. QED
  BY <1>2, <1>3 DEF TargetIds

(* What recording a settled row leaves of an undisturbed run.               *)
LEMMA WorkKeeps ==
    ASSUME NEW k, AtWork(k), NEW row, rows' = Recorded(Current, row),
           row.status \in Settled \/ Exempt(Current, request),
           \A i \in DOMAIN plan : i # k /\ Waits(plan[i], account, snapshot, request)
               => Waits(plan[i], account', snapshot, request),
           \A l \in DOMAIN account.lists :
               l \in DOMAIN account'.lists \/ Deletes(plan, l),
           \A l \in DOMAIN account.lists : l \notin DOMAIN snapshot.lists
               => l \in DOMAIN account'.lists,
           row.list # 0 => row.list \in DOMAIN account'.lists
                               /\ row.list \notin DOMAIN snapshot.lists
    PROVE  Undisturbed(plan, rows', account', snapshot, request)
<1>1. /\ Running /\ ~Halted /\ k \in DOMAIN plan /\ Current = plan[k]
      /\ Undisturbed(plan, rows, account, snapshot, request)
      /\ Coherent(plan, request, snapshot)
  BY WorkIs
<1>2. DOMAIN rows' = DOMAIN rows \cup {Current.id}
  BY DEF Recorded
<1>3. rows'[Current.id] = row
  BY <1>2 DEF Recorded
<1>4. \A o \in DOMAIN rows : o # Current.id => rows'[o] = rows[o]
  BY DEF Recorded
<1>5. \A i \in DOMAIN plan : plan[i].id = Current.id => i = k
  <2> TAKE i \in DOMAIN plan
  <2>1. plan[i].id = <<i, 0>> /\ plan[k].id = <<k, 0>>
    BY <1>1 DEF Coherent, Fits
  <2>2. QED
    BY <1>1, <2>1
<1>6. ASSUME NEW i \in DOMAIN plan
      PROVE  /\ plan[i].id \notin DOMAIN rows' => Waits(plan[i], account', snapshot, request)
             /\ plan[i].id \in DOMAIN rows' /\ ~Exempt(plan[i], request) =>
                    rows'[plan[i].id].status \in Settled
  <2>1. CASE i = k
    BY <1>1, <1>2, <1>3, <2>1
  <2>2. CASE i # k
    <3>1. plan[i].id # Current.id
      BY <1>5, <2>2
    <3>2. plan[i].id \in DOMAIN rows' <=> plan[i].id \in DOMAIN rows
      BY <1>2, <3>1
    <3>3. plan[i].id \in DOMAIN rows => rows'[plan[i].id] = rows[plan[i].id]
      BY <1>4, <3>1
    <3>4. QED
      BY <1>1, <2>2, <3>2, <3>3 DEF Undisturbed
  <2>3. QED
    BY <2>1, <2>2
<1>7. \A l \in DOMAIN snapshot.lists : l \in DOMAIN account'.lists \/ Deletes(plan, l)
  BY <1>1 DEF Undisturbed
<1>8. ASSUME NEW o \in DOMAIN rows', rows'[o].list # 0
      PROVE  rows'[o].list \in DOMAIN account'.lists /\ rows'[o].list \notin DOMAIN snapshot.lists
  <2>1. CASE o = Current.id
    BY <1>3, <1>8, <2>1
  <2>2. CASE o # Current.id
    <3>1. o \in DOMAIN rows /\ rows'[o] = rows[o]
      BY <1>2, <1>4, <2>2
    <3>2. QED
      BY <1>1, <1>8, <3>1 DEF Undisturbed
  <2>3. QED
    BY <2>1, <2>2
<1>9. QED
  BY <1>6, <1>7, <1>8 DEF Undisturbed

(* What is not about an undisturbed run is kept by every step of a run.     *)
LEMMA HoldKeeps ==
    ASSUME HoldInv, Running, UNCHANGED <<origin, phase, touched, moved>>, faults' \in Nat,
           phase = "planned" /\ Calm' => Undisturbed(plan, rows', account', snapshot, request)
    PROVE  HoldInv'
<1>1. /\ phase' = phase /\ plan' = plan /\ request' = request /\ snapshot' = snapshot
      /\ phase \in {"planned", "undoing"}
  BY DEF origin, Running
<1>2. Applying => Coherent(plan, request, snapshot) /\ phase = "planned"
  BY <1>1 DEF HoldInv, Applying
<1>3. QED
  BY <1>1, <1>2 DEF HoldInv, Applying

(* Two other operations of a plan.                                          *)
LEMMA OthersApart ==
    ASSUME NEW k, AtWork(k), NEW i \in DOMAIN plan, i # k
    PROVE  /\ Fits(plan[i], i, plan, request, snapshot)
           /\ Apart(Current, plan[i]) /\ Apart(plan[i], Current)
BY WorkIs DEF Coherent

LEMMA SucceededIsSettled ==
    ASSUME NEW ids, NEW l
    PROVE  /\ Succeeded(NoRow).status \in Settled /\ Succeeded(NoRow).list = 0
           /\ Succeeded([NoRow EXCEPT !.list = l]).status \in Settled
           /\ Succeeded([NoRow EXCEPT !.list = l]).list = l
           /\ Succeeded([NoRow EXCEPT !.listIds = ids]).status \in Settled
           /\ Succeeded([NoRow EXCEPT !.listIds = ids]).list = 0
BY DEF Succeeded, NoRow, Settled

LEMMA WorkStars ==
    ASSUME NEW k, AtWork(k), Star
    PROVE  Undisturbed(plan, rows', account', snapshot, request)
<1>1. /\ Dispatched("star") /\ rows' = Recorded(Current, Succeeded(NoRow))
      /\ account' = [account EXCEPT !.starred = @ \cup {Current.on}]
  BY DEF Star, Succeed
<1>2. /\ Current.kind = "star" /\ Current.on \in Repo
      /\ Account(account, fresh - 1) /\ Fits(Current, k, plan, request, snapshot)
  BY <1>1, WorkIs DEF Dispatched, Typed
<1>3. /\ account'.starred = account.starred \cup {Current.on}
      /\ account'.lists = account.lists /\ account'.members = account.members
  BY <1>1, <1>2, StarredAccount
<1>4. ASSUME NEW i \in DOMAIN plan, i # k, Waits(plan[i], account, snapshot, request)
      PROVE  Waits(plan[i], account', snapshot, request)
  BY <1>2, <1>3, <1>4, OthersApart, StarLeaves
<1>5. QED
  BY <1>1, <1>3, <1>4, SucceededIsSettled, WorkKeeps

LEMMA WorkUnstars ==
    ASSUME NEW k, AtWork(k), Unstar
    PROVE  Undisturbed(plan, rows', account', snapshot, request)
<1>1. /\ Dispatched("unstar") /\ rows' = Recorded(Current, Succeeded(NoRow))
      /\ account' = Unstarred(account, Current.on)
  BY DEF Unstar, Succeed
<1>2. /\ Current.kind = "unstar"
      /\ Account(account, fresh - 1) /\ Fits(Current, k, plan, request, snapshot)
  BY <1>1, WorkIs DEF Dispatched
<1>3. /\ account'.starred = account.starred \ {Current.on}
      /\ account'.lists = account.lists
      /\ account'.members \subseteq account.members
      /\ \A m \in account.members : m[2] # Current.on => m \in account'.members
  BY <1>1, <1>2, UnstarredAccount
<1>4. ASSUME NEW i \in DOMAIN plan, i # k, Waits(plan[i], account, snapshot, request)
      PROVE  Waits(plan[i], account', snapshot, request)
  BY <1>2, <1>3, <1>4, OthersApart, UnstarLeaves
<1>5. QED
  BY <1>1, <1>3, <1>4, SucceededIsSettled, WorkKeeps

LEMMA WorkCreates ==
    ASSUME NEW k, AtWork(k), CreateList
    PROVE  Undisturbed(plan, rows', account', snapshot, request)
<1> DEFINE row == [NoRow EXCEPT !.list = fresh]
           n == fresh - 1
           w == WithList(account.lists, fresh, [meta |-> Current.to, stamp |-> 0])
           to == Current.to
<1>1. /\ rows' = Recorded(Current, Succeeded(row)) /\ account' = [account EXCEPT !.lists = w]
  BY DEF CreateList, Succeed
<1>2. fresh \in Nat \ {0} /\ Account(account, n) /\ Account(snapshot, n)
  BY WorkIs
<1>3. n \in Nat /\ fresh = n + 1
  BY <1>2
<1>4. w = WithList(account.lists, n + 1, [meta |-> to, stamp |-> 0])
  BY <1>3
<1>5. Succeeded(row).status \in Settled /\ Succeeded(row).list = n + 1
  BY <1>3, SucceededIsSettled
<1> HIDE DEF w, n, row, to
<1>6. CreatedIn(account', account, n, to)
  BY <1>1, <1>2, <1>3, <1>4, CreatedAccount
<1>7. /\ DOMAIN account'.lists = DOMAIN account.lists \cup {n + 1}
  BY <1>6 DEF CreatedIn
<1>8. ASSUME NEW i \in DOMAIN plan, i # k, Waits(plan[i], account, snapshot, request)
      PROVE  Waits(plan[i], account', snapshot, request)
  BY <1>2, <1>3, <1>6, <1>8, CreateLeaves
<1>9. n + 1 \notin DOMAIN snapshot.lists
  BY <1>2, <1>3 DEF Account
<1>10. QED
  BY <1>1, <1>5, <1>7, <1>8, <1>9, WorkKeeps

LEMMA WorkUpdates ==
    ASSUME NEW k, AtWork(k), UpdateList
    PROVE  Undisturbed(plan, rows', account', snapshot, request)
<1>1. /\ Dispatched("list_update") /\ rows' = Recorded(Current, Succeeded(NoRow))
      /\ account' = [account EXCEPT !.lists[Current.on].meta = Current.to]
  BY DEF UpdateList, Succeed
<1>2. Current.kind = "list_update" /\ Account(account, fresh - 1)
  BY <1>1, WorkIs DEF Dispatched
<1>3. /\ account'.starred = account.starred /\ account'.members = account.members
      /\ DOMAIN account'.lists = DOMAIN account.lists
      /\ \A l \in DOMAIN account.lists :
            l # Current.on => account'.lists[l] = account.lists[l]
  BY <1>1, <1>2, UpdatedAccount
<1>4. ASSUME NEW i \in DOMAIN plan, i # k, Waits(plan[i], account, snapshot, request)
      PROVE  Waits(plan[i], account', snapshot, request)
  BY <1>2, <1>3, <1>4, OthersApart, UpdateLeaves
<1>5. QED
  BY <1>1, <1>3, <1>4, SucceededIsSettled, WorkKeeps

LEMMA WorkDeletes ==
    ASSUME NEW k, AtWork(k), DeleteList
    PROVE  Undisturbed(plan, rows', account', snapshot, request)
<1>1. /\ Dispatched("list_delete") /\ rows' = Recorded(Current, Succeeded(NoRow))
      /\ account' = Without(account, Current.on)
  BY DEF DeleteList, Succeed
<1>2. /\ Current.kind = "list_delete" /\ Account(account, fresh - 1)
      /\ Fits(Current, k, plan, request, snapshot) /\ k \in DOMAIN plan /\ Current = plan[k]
  BY <1>1, WorkIs DEF Dispatched
<1>3. /\ account'.starred = account.starred
      /\ account'.members = {m \in account.members : m[1] # Current.on}
      /\ DOMAIN account'.lists = DOMAIN account.lists \ {Current.on}
      /\ \A l \in DOMAIN account.lists \ {Current.on} :
            account'.lists[l] = account.lists[l]
  BY <1>1, <1>2, DeletedAccount
<1>4. ASSUME NEW i \in DOMAIN plan, i # k, Waits(plan[i], account, snapshot, request)
      PROVE  Waits(plan[i], account', snapshot, request)
  BY <1>2, <1>3, <1>4, OthersApart, DeleteLeaves
<1>5. Deletes(plan, Current.on)
  BY <1>2 DEF Deletes
<1>6. Current.on \in DOMAIN snapshot.lists
  BY <1>2 DEF Fits
<1>7. QED
  BY <1>1, <1>3, <1>4, <1>5, <1>6, SucceededIsSettled, WorkKeeps

LEMMA WorkFiles ==
    ASSUME NEW k, AtWork(k), SetMembership
    PROVE  Undisturbed(plan, rows', account', snapshot, request)
<1> DEFINE ids == TargetIds(Current)
           row == [NoRow EXCEPT !.listIds = ids]
<1>1. /\ Dispatched("list_membership_set") /\ rows' = Recorded(Current, Succeeded(row))
      /\ ids \subseteq DOMAIN account.lists /\ account' = Filed(account, Current.on, ids)
  BY DEF SetMembership, Succeed
<1>2. /\ Current.kind = "list_membership_set" /\ Account(account, fresh - 1)
      /\ Current.on \in Repo
  BY <1>1, WorkIs DEF Dispatched, Typed
<1>3. \A l \in ids : l \in Current.targets \/ l \notin DOMAIN snapshot.lists
  BY <1>1, <1>2, TargetsAreThere
<1>4. Succeeded(row).status \in Settled /\ Succeeded(row).list = 0
  BY SucceededIsSettled
<1> HIDE DEF ids, row
<1>5. /\ account'.starred = account.starred
      /\ account'.members = {m \in account.members : m[2] # Current.on}
                                \cup (ids \X {Current.on})
      /\ DOMAIN account'.lists = DOMAIN account.lists
      /\ \A l \in DOMAIN account.lists : account'.lists[l].meta = account.lists[l].meta
      /\ \A l \in DOMAIN account.lists : l \notin ids => account'.lists[l] = account.lists[l]
  BY <1>1, <1>2, FiledAccount
<1>6. ASSUME NEW i \in DOMAIN plan, i # k, Waits(plan[i], account, snapshot, request)
      PROVE  Waits(plan[i], account', snapshot, request)
  BY <1>2, <1>3, <1>5, <1>6, OthersApart, MembershipLeaves
<1>7. QED
  BY <1>1, <1>4, <1>5, <1>6, WorkKeeps

(* A row alone: what is skipped is settled, and nothing fails but the       *)
(* memberships that are excepted.                                           *)
LEMMA WorkNotes ==
    ASSUME NEW k, AtWork(k), Block \/ Skip \/ Reject \/ Fail, Calm'
    PROVE  Undisturbed(plan, rows', account', snapshot, request)
<1>1. /\ ~Blocked(Current) /\ Shaped(Current)
      /\ ~Exempt(Current, request) => MatchesBefore(Current)
  BY WorkIsDispatched
<1>1a. SameIdentity(Current)
  BY DEF AtWork, Calm, HoldInv, SameIdentity
<1>2. CASE Skip
  <2>1. rows' = Recorded(Current, Skipped) /\ account' = account
    BY <1>2 DEF Skip, remote
  <2>2. Skipped.status \in Settled /\ Skipped.list = 0
    BY DEF Skipped, Status, NoRow, Settled
  <2>3. QED
    BY <2>1, <2>2, WorkKeeps
<1>3. CASE Block
  BY <1>1, <1>3 DEF Block
<1>4. CASE Reject \/ Fail
  <2>1. rows' = Recorded(Current, Status("failed")) /\ account' = account
    BY <1>4 DEF Reject, Fail, remote
  <2>2. Status("failed").list = 0
    BY DEF Status, NoRow
  <2>3. Exempt(Current, request)
    <3>1. CASE Reject
      BY <1>1, <1>1a, <3>1 DEF Reject
    <3>2. CASE Fail
      <4>1. faults \in Nat
        BY DEF AtWork, HoldInv
      <4>2. PICK kind \in Kinds : Dispatched(kind)
        BY <3>2 DEF Fail
      <4>3. faults' = faults
        <5>1. Recorded(Current, Status("failed"))[Current.id].status = "failed"
          BY DEF Recorded, Status, NoRow
        <5>2. Current.id \in DOMAIN Recorded(Current, Status("failed"))
          BY DEF Recorded
        <5>3. ~Unfailed'
          BY <2>1, <5>1, <5>2 DEF Unfailed, Settled
        <5>4. faults' = 0
          BY <5>3 DEF Calm
        <5>5. faults' = faults \/ faults' = faults + 1
          BY <3>2 DEF Fail
        <5>6. QED
          BY <4>1, <5>4, <5>5
      <4>4. /\ Current.kind = "list_membership_set"
            /\ ~(TargetIds(Current) \subseteq DOMAIN account.lists)
        <5>1. faults # faults + 1
          BY <4>1
        <5>2. QED
          BY <3>2, <4>3, <5>1 DEF Fail
      <4>5. Dispatched("list_membership_set")
        BY <4>2, <4>4 DEF Dispatched
      <4>6. QED
        BY <4>4, <4>5, TargetsAreThere
    <3>3. QED
      BY <1>4, <3>1, <3>2
  <2>4. QED
    BY <2>1, <2>2, <2>3, WorkKeeps
<1>5. QED
  BY <1>2, <1>3, <1>4

LEMMA HoldInit == Init => HoldInv
BY DEF Init, HoldInv, Applying

LEMMA HoldAsk ==
    ASSUME ShieldInv, HoldInv, Ask
    PROVE  HoldInv'
<1>1. PICK req \in Requests :
          LET p == Plan(req, snapshot, complete)
          IN  /\ request' = Selected(req, snapshot)
              /\ plan' = IF p.ok THEN p.ops ELSE << >>
              /\ phase' = IF p.ok THEN "planned" ELSE "refused"
  BY DEF Ask
<1>2. /\ phase = "asking" /\ rows = NoRows /\ rows' = rows
      /\ account' = account /\ snapshot' = snapshot /\ account = snapshot
      /\ faults' = faults /\ faults \in Nat
      /\ touched' = touched /\ moved' = moved /\ (touched = {} => moved = {})
      /\ fresh \in Nat \ {0} /\ Account(snapshot, fresh - 1)
  BY DEF Ask, remote, ShieldInv, Knows, HoldInv
<1> DEFINE p == Plan(req, snapshot, complete)
           n == fresh - 1
<1>3. CASE p.ok
  <2>1. phase' = "planned" /\ plan' = p.ops /\ request' = Selected(req, snapshot)
    BY <1>1, <1>3
  <2>2. Planned(plan', request', snapshot, complete, n)
    BY <1>2, <1>3, <2>1, PlanIsResolved
  <2> HIDE DEF p, n
  <2>3. Coherent(plan', request', snapshot)
    BY <2>2, PlanCoheres
  <2>4. DOMAIN rows' = {}
    BY <1>2 DEF NoRows
  <2>5. Undisturbed(plan', rows', snapshot, snapshot, request')
    BY <2>3, <2>4, FitsAtFirst
  <2>6. QED
    BY <1>2, <2>1, <2>3, <2>5 DEF HoldInv
<1>4. CASE ~p.ok
  <2>1. phase' = "refused"
    BY <1>1, <1>4
  <2>2. QED
    BY <1>2, <2>1 DEF HoldInv, Applying
<1>5. QED
  BY <1>3, <1>4

(* A step of a run replaces no row.                                         *)
LEMMA UnfailedBefore ==
    ASSUME ShieldInv, Block \/ Skip \/ Reject \/ Fail \/ Effect, Unfailed'
    PROVE  Unfailed
<1>1. Running /\ ~Halted /\ \E row : rows' = Recorded(Current, row)
  <2>1. CASE Block \/ Skip \/ Reject
    BY <2>1 DEF Block, Skip, Reject
  <2>2. CASE Fail
    <3>1. PICK kind \in Kinds : Dispatched(kind)
      BY <2>2 DEF Fail
    <3>2. QED
      BY <2>2, <3>1 DEF Fail, Dispatched
  <2>3. CASE Effect
    BY <2>3 DEF Effect, Star, Unstar, CreateList, UpdateList, DeleteList,
                SetMembership, Succeed, Dispatched
  <2>4. QED
    BY <2>1, <2>2, <2>3
<1>2. Current.id \notin DOMAIN rows
  BY <1>1, AtCurrent
<1>3. \A o \in DOMAIN rows : o \in DOMAIN rows' /\ rows'[o] = rows[o]
  BY <1>1, <1>2 DEF Recorded
<1>4. QED
  BY <1>3 DEF Unfailed

(* A step of a run: of an undisturbed one it leaves one.                    *)
LEMMA HoldWork ==
    ASSUME ShieldInv, HoldInv, Block \/ Skip \/ Reject \/ Fail \/ Effect
    PROVE  HoldInv'
<1>1. /\ Running /\ ~Halted /\ UNCHANGED <<origin, phase, touched, moved>>
      /\ faults' = faults \/ (Fail /\ faults' = faults + 1)
  <2>1. CASE Block \/ Skip \/ Reject
    BY <2>1 DEF Block, Skip, Reject, remote
  <2>2. CASE Fail
    <3>1. PICK kind \in Kinds : Dispatched(kind)
      BY <2>2 DEF Fail
    <3>2. QED
      BY <2>2, <3>1 DEF Fail, Dispatched, remote
  <2>3. CASE Effect
    BY <2>3 DEF Effect, Star, Unstar, CreateList, UpdateList, DeleteList,
                SetMembership, Succeed, Dispatched
  <2>4. QED
    BY <2>1, <2>2, <2>3
<1>2. faults \in Nat /\ faults' \in Nat /\ (faults' = 0 => faults = 0)
  BY <1>1 DEF HoldInv
<1>3. ASSUME phase = "planned", Calm'
      PROVE  Undisturbed(plan, rows', account', snapshot, request)
  <2>1. Calm
    BY <1>1, <1>2, <1>3, UnfailedBefore DEF Calm
  <2>2. PICK k : AtWork(k)
    BY <1>1, <1>3, <2>1, WorkAt
  <2>3. CASE Effect
    BY <2>2, <2>3, WorkStars, WorkUnstars, WorkCreates, WorkUpdates, WorkDeletes,
       WorkFiles DEF Effect
  <2>4. CASE ~Effect
    BY <1>3, <2>2, <2>4, WorkNotes
  <2>5. QED
    BY <2>3, <2>4
<1>4. QED
  BY <1>1, <1>2, <1>3, HoldKeeps

(* Every change of the owner is on record.                                  *)
LEMMA OwnerTouches ==
    ASSUME Owner
    PROVE  \E items : Touch(items) /\ items # {}
<1>1. \A x, S : {x} # {} /\ {x} \cup S # {}
  OBVIOUS
<1>2. ASSUME NEW r \in Repo, OwnerStars(r) \/ OwnerUnstars(r)
      PROVE  \E items : Touch(items) /\ items # {}
  BY <1>1, <1>2 DEF OwnerStars, OwnerUnstars
<1>3. ASSUME NEW l \in DOMAIN account.lists,
             NEW f \in Field, OwnerUpdates(l, f)
      PROVE  \E items : Touch(items) /\ items # {}
  BY <1>1, <1>3 DEF OwnerUpdates
<1>4. ASSUME NEW l \in DOMAIN account.lists, OwnerDeletes(l)
      PROVE  \E items : Touch(items) /\ items # {}
  BY <1>1, <1>4 DEF OwnerDeletes
<1>5. ASSUME NEW l \in DOMAIN account.lists,
             NEW r \in Repo, OwnerFiles(l, r) \/ OwnerRemoves(l, r)
      PROVE  \E items : Touch(items) /\ items # {}
  BY <1>1, <1>5 DEF OwnerFiles, OwnerRemoves
<1>6. ASSUME NEW r \in Repo, OwnerRenames(r)
      PROVE  \E items : Touch(items) /\ items # {}
  BY <1>1, <1>6 DEF OwnerRenames
<1>7. QED
  BY <1>2, <1>3, <1>4, <1>5, <1>6 DEF Owner, OwnerEditsLists

(* The end of a run, the plan of a rollback and the owner: the first leaves *)
(* everything as it is, the second is no plan of a request, and after the   *)
(* third the run is not undisturbed.                                        *)
LEMMA HoldOthers ==
    ASSUME ShieldInv, HoldInv, Finish \/ CreateRollback \/ Owner \/ UNCHANGED vars
    PROVE  HoldInv'
<1>1. CASE Finish
  <2>1. /\ phase \in {"planned", "undoing"}
        /\ phase' = (IF phase = "planned" THEN "finished" ELSE "undone")
        /\ account' = account /\ snapshot' = snapshot /\ rows' = rows
        /\ plan' = plan /\ request' = request /\ touched' = touched /\ faults' = faults
        /\ moved' = moved
    BY <1>1 DEF Finish, Running, remote, origin
  <2>2. QED
    BY <2>1 DEF HoldInv, Applying, Calm, Unfailed
<1>2. CASE CreateRollback
  <2>1. /\ phase' \in {"undoing", "irreversible"} /\ faults' = faults
        /\ touched' = touched /\ moved' = moved
    BY <1>2 DEF CreateRollback, remote
  <2>2. QED
    BY <2>1 DEF HoldInv, Applying
<1>3. CASE Owner
  <2>1. PICK items : Touch(items) /\ items # {}
    BY <1>3, OwnerTouches
  <2>2. /\ touched' # {} /\ phase # "asking" /\ faults' = faults
        /\ phase' = phase /\ plan' = plan /\ request' = request /\ snapshot' = snapshot
    BY <2>1 DEF Touch, origin
  <2>3. QED
    BY <2>2 DEF HoldInv, Applying, Calm, Unfailed
<1>4. CASE UNCHANGED vars
  BY <1>4 DEF vars, HoldInv, Applying, Calm, Unfailed
<1>5. QED
  BY <1>1, <1>2, <1>3, <1>4

LEMMA HoldStep ==
    ASSUME ShieldInv, HoldInv, [Next]_vars
    PROVE  HoldInv'
BY HoldAsk, HoldWork, HoldOthers DEF Next

(* Every undisturbed run finds what its plan expects.                       *)
LEMMA HoldInvariant == Spec => []HoldInv
<1>1. Init => HoldInv
  BY HoldInit
<1>2. ShieldInv /\ HoldInv /\ [Next]_vars => HoldInv'
  BY HoldStep
<1>3. QED
  BY <1>1, <1>2, ShieldInvariant, PTL DEF Spec

(* If nobody else changes the account and GitHub refuses nothing, no        *)
(* operation of a plan fails (operationFromDraft, compareDrafts and the     *)
(* conflict rules of operation-resolver.ts against matchesBefore of         *)
(* mutation-executor.ts), whatever was asked of whatever account, but the   *)
(* membership of a repository that the same request unstars.                *)
THEOREM PlansHold == Spec => []PlanHolds
<1>1. HoldInv => PlanHolds
  <2>1. SUFFICES ASSUME HoldInv, Applying, Steady, NEW i \in DOMAIN plan,
                        plan[i].id \in DOMAIN rows,
                        ~(plan[i].kind = "list_membership_set" /\ Torn(plan[i].on))
                 PROVE  rows[plan[i].id].status \in Settled
    BY DEF PlanHolds
  <2>0. Calm
    BY <2>1 DEF Steady, Calm
  <2>2. ~Exempt(plan[i], request)
    BY <2>1 DEF Exempt, TornIn, Torn
  <2>3. QED
    BY <2>0, <2>1, <2>2 DEF HoldInv, Undisturbed
<1>2. QED
  BY <1>1, HoldInvariant, PTL

-----------------------------------------------------------------------------
(* What a run that nobody disturbs has done to the account: exactly what    *)
(* the operations with a row say.                                           *)

\* An operation of this kind, for this repository or List, has a row.
Hit(ops, rs, kind, x) ==
    \E i \in DOMAIN ops :
        ops[i].kind = kind /\ ops[i].on = x /\ ops[i].id \in DOMAIN rs

StarsSo(ops, rs, a, acc) ==
    \A r \in Repo : r \in a.starred <=>
        Hit(ops, rs, "star", r) \/ (r \in acc.starred /\ ~Hit(ops, rs, "unstar", r))

ListsSo(ops, rs, a, acc) ==
    /\ \A l \in DOMAIN acc.lists :
           l \in DOMAIN a.lists <=> ~Hit(ops, rs, "list_delete", l)
    /\ \A l \in (DOMAIN a.lists) \ DOMAIN acc.lists :
           \E o \in DOMAIN rs : rs[o].list = l
    /\ \A o, p \in DOMAIN rs : rs[o].list # 0 /\ rs[o].list = rs[p].list => o = p

MetasSo(ops, rs, a, acc) ==
    /\ \A i \in DOMAIN ops : ops[i].id \in DOMAIN rs =>
        /\ ops[i].kind = "list_update" =>
            /\ ops[i].on \in DOMAIN a.lists
            /\ a.lists[ops[i].on].meta = ops[i].to
        /\ ops[i].kind = "list_create" =>
            /\ rs[ops[i].id].list \in (DOMAIN a.lists) \ DOMAIN acc.lists
            /\ a.lists[rs[ops[i].id].list].meta = ops[i].to
    /\ \A l \in DOMAIN acc.lists :
           l \in DOMAIN a.lists /\ ~Hit(ops, rs, "list_update", l) =>
               a.lists[l].meta = acc.lists[l].meta

NewOnes(rs, refs) == {rs[c].list : c \in refs}

\* A repository is in the Lists of its membership, or where it was.
FiledAs(op, rs, a) ==
    /\ op.made \subseteq DOMAIN rs
    /\ \A c \in op.made : rs[c].list # 0
    /\ ListsOf(a, op.on) = op.targets \cup NewOnes(rs, op.made)
LeftIn(ops, rs, acc, cl, r) ==
    IF cl /\ Hit(ops, rs, "unstar", r) THEN {}
    ELSE {l \in ListsOf(acc, r) : ~Hit(ops, rs, "list_delete", l)}
FilesSo(ops, rs, a, acc, req, cl) ==
    \A r \in Repo : ~TornIn(r, req) =>
        /\ \A i \in DOMAIN ops :
            (/\ ops[i].kind = "list_membership_set" /\ ops[i].on = r
             /\ ops[i].id \in DOMAIN rs) => FiledAs(ops[i], rs, a)
        /\ ~Hit(ops, rs, "list_membership_set", r) =>
            ListsOf(a, r) = LeftIn(ops, rs, acc, cl, r)

AsPlanned(ops, rs, a, acc, req, cl) ==
    /\ StarsSo(ops, rs, a, acc)
    /\ ListsSo(ops, rs, a, acc)
    /\ MetasSo(ops, rs, a, acc)
    /\ FilesSo(ops, rs, a, acc, req, cl)

\* The k-th operation, which had no row, gets one.
RowFor(k, row, ops, rs, rs2) ==
    /\ k \in DOMAIN ops
    /\ ops[k].id \notin DOMAIN rs
    /\ DOMAIN rs2 = DOMAIN rs \cup {ops[k].id}
    /\ rs2[ops[k].id] = row
    /\ \A o \in DOMAIN rs : rs2[o] = rs[o]
    /\ \A i \in DOMAIN ops : ops[i].id = ops[k].id => i = k

LEMMA HitGrows ==
    ASSUME NEW k, NEW row, NEW ops, NEW rs, NEW rs2, RowFor(k, row, ops, rs, rs2),
           NEW kind, NEW x
    PROVE  Hit(ops, rs2, kind, x) <=>
               Hit(ops, rs, kind, x) \/ (ops[k].kind = kind /\ ops[k].on = x)
BY DEF Hit, RowFor

(* A star or its removal makes the stars what the rows say.                 *)
LEMMA StarsGo ==
    ASSUME NEW k, NEW row, NEW ops, NEW rs, NEW rs2, RowFor(k, row, ops, rs, rs2),
           NEW req, NEW acc, Coherent(ops, req, acc), NEW a, NEW a2,
           StarsSo(ops, rs, a, acc),
           ops[k].kind = "star" => a2.starred = a.starred \cup {ops[k].on},
           ops[k].kind = "unstar" => a2.starred = a.starred \ {ops[k].on},
           ops[k].kind \notin {"star", "unstar"} => a2.starred = a.starred
    PROVE  StarsSo(ops, rs2, a2, acc)
<1> DEFINE p == ops[k]
<1>1. ASSUME NEW r \in Repo
      PROVE  r \in a2.starred <=>
                Hit(ops, rs2, "star", r) \/ (r \in acc.starred /\ ~Hit(ops, rs2, "unstar", r))
  <2>1. /\ Hit(ops, rs2, "star", r) <=> Hit(ops, rs, "star", r) \/ (p.kind = "star" /\ p.on = r)
        /\ Hit(ops, rs2, "unstar", r) <=>
              Hit(ops, rs, "unstar", r) \/ (p.kind = "unstar" /\ p.on = r)
    BY HitGrows
  <2>2. r \in a.starred <=>
            Hit(ops, rs, "star", r) \/ (r \in acc.starred /\ ~Hit(ops, rs, "unstar", r))
    BY DEF StarsSo
  <2>3. Hit(ops, rs, "star", r) => r \notin acc.starred
    BY DEF Hit, Coherent, Fits
  <2>4. p.kind = "unstar" => p.on \in acc.starred
    BY DEF Coherent, Fits, RowFor
  <2>5. CASE p.kind = "star"
    BY <2>1, <2>2, <2>5
  <2>6. CASE p.kind = "unstar"
    BY <2>1, <2>2, <2>3, <2>4, <2>6
  <2>7. CASE p.kind \notin {"star", "unstar"}
    BY <2>1, <2>2, <2>7
  <2>8. QED
    BY <2>5, <2>6, <2>7
<1>2. QED
  BY <1>1 DEF StarsSo

(* A List created or deleted makes the Lists what the rows say.             *)
LEMMA ListsGo ==
    ASSUME NEW k, NEW row, NEW ops, NEW rs, NEW rs2, RowFor(k, row, ops, rs, rs2),
           NEW req, NEW acc, Coherent(ops, req, acc), NEW a, NEW a2,
           ListsSo(ops, rs, a, acc), Undisturbed(ops, rs, a, acc, req),
           ops[k].kind = "list_delete" => DOMAIN a2.lists = DOMAIN a.lists \ {ops[k].on},
           ops[k].kind = "list_create" =>
               /\ DOMAIN a2.lists = DOMAIN a.lists \cup {row.list}
               /\ row.list \notin DOMAIN a.lists /\ row.list \notin DOMAIN acc.lists,
           ops[k].kind \notin {"list_delete", "list_create"} =>
               DOMAIN a2.lists = DOMAIN a.lists,
           ops[k].kind # "list_create" => row.list = 0
    PROVE  ListsSo(ops, rs2, a2, acc)
<1> DEFINE p == ops[k]
           D == DOMAIN a.lists
           D2 == DOMAIN a2.lists
           S == DOMAIN acc.lists
<1>1. /\ DOMAIN rs2 = DOMAIN rs \cup {p.id} /\ rs2[p.id] = row
      /\ \A o \in DOMAIN rs : rs2[o] = rs[o]
  BY DEF RowFor
<1>2. p.kind = "list_delete" => p.on \in S
  BY DEF RowFor, Coherent, Fits
<1>3. \A o \in DOMAIN rs : rs[o].list # 0 => rs[o].list \in D /\ rs[o].list \notin S
  BY DEF Undisturbed
<1>4. /\ \A l \in S : l \in D <=> ~Hit(ops, rs, "list_delete", l)
      /\ \A l \in D \ S : \E o \in DOMAIN rs : rs[o].list = l
      /\ \A o, q \in DOMAIN rs : rs[o].list # 0 /\ rs[o].list = rs[q].list => o = q
  BY DEF ListsSo
<1>5. \A l \in S : Hit(ops, rs2, "list_delete", l) <=>
          Hit(ops, rs, "list_delete", l) \/ (p.kind = "list_delete" /\ p.on = l)
  BY HitGrows
<1> HIDE DEF p, D, D2, S
<1>6. /\ p.kind = "list_delete" => D2 = D \ {p.on}
      /\ p.kind = "list_create" => D2 = D \cup {row.list} /\ row.list \notin D /\ row.list \notin S
      /\ p.kind \notin {"list_delete", "list_create"} => D2 = D
      /\ p.kind # "list_create" => row.list = 0
  BY DEF p, D, D2, S
<1>7. \A l \in S : l \in D2 <=> ~Hit(ops, rs2, "list_delete", l)
  <2> TAKE l \in S
  <2>1. CASE p.kind = "list_delete"
    BY <1>4, <1>5, <1>6, <2>1
  <2>2. CASE p.kind = "list_create"
    BY <1>4, <1>5, <1>6, <2>2
  <2>3. CASE p.kind \notin {"list_delete", "list_create"}
    BY <1>4, <1>5, <1>6, <2>3
  <2>4. QED
    BY <2>1, <2>2, <2>3
<1>8. ASSUME NEW l \in D2 \ S PROVE \E o \in DOMAIN rs2 : rs2[o].list = l
  <2>1. CASE l \in D
    <3>1. PICK o \in DOMAIN rs : rs[o].list = l
      BY <1>4, <1>8, <2>1
    <3>2. QED
      BY <1>1, <3>1
  <2>2. CASE l \notin D
    <3>1. l = row.list
      BY <1>6, <1>8, <2>2
    <3>2. QED
      BY <1>1, <3>1
  <2>3. QED
    BY <2>1, <2>2
<1>9. ASSUME NEW o \in DOMAIN rs2, NEW q \in DOMAIN rs2, rs2[o].list # 0,
             rs2[o].list = rs2[q].list
      PROVE  o = q
  <2>1. row.list # 0 => row.list \notin D
    BY <1>6
  <2>2. CASE o \in DOMAIN rs /\ q \in DOMAIN rs
    BY <1>1, <1>4, <1>9, <2>2
  <2>3. CASE o \in DOMAIN rs /\ q \notin DOMAIN rs
    <3>1. rs[o].list = row.list /\ rs[o].list # 0
      BY <1>1, <1>9, <2>3
    <3>2. QED
      BY <1>3, <2>1, <2>3, <3>1
  <2>4. CASE o \notin DOMAIN rs /\ q \in DOMAIN rs
    <3>1. rs[q].list = row.list /\ rs[q].list # 0
      BY <1>1, <1>9, <2>4
    <3>2. QED
      BY <1>3, <2>1, <2>4, <3>1
  <2>5. CASE o \notin DOMAIN rs /\ q \notin DOMAIN rs
    BY <1>1, <2>5
  <2>6. QED
    BY <2>2, <2>3, <2>4, <2>5
<1>10. QED
  BY <1>7, <1>8, <1>9 DEF ListsSo, D2, S

(* New metadata are what the rows say.                                      *)
LEMMA MetasGo ==
    ASSUME NEW k, NEW row, NEW ops, NEW rs, NEW rs2, RowFor(k, row, ops, rs, rs2),
           NEW req, NEW acc, Coherent(ops, req, acc), NEW a, NEW a2,
           MetasSo(ops, rs, a, acc),
           \A l \in DOMAIN a.lists :
               ~(ops[k].kind = "list_delete" /\ ops[k].on = l) => l \in DOMAIN a2.lists,
           \A l \in DOMAIN a2.lists : l \in DOMAIN a.lists \/ l \notin DOMAIN acc.lists,
           \A l \in DOMAIN a.lists :
               ~(ops[k].kind \in {"list_update", "list_delete"} /\ ops[k].on = l) =>
                   a2.lists[l].meta = a.lists[l].meta,
           ops[k].kind = "list_delete" => ops[k].on \notin DOMAIN a2.lists,
           ops[k].kind = "list_update" =>
               ops[k].on \in DOMAIN a2.lists /\ a2.lists[ops[k].on].meta = ops[k].to,
           ops[k].kind = "list_create" =>
               /\ row.list \in (DOMAIN a2.lists) \ DOMAIN acc.lists
               /\ a2.lists[row.list].meta = ops[k].to
    PROVE  MetasSo(ops, rs2, a2, acc)
<1> DEFINE p == ops[k]
<1>1. /\ k \in DOMAIN ops
      /\ DOMAIN rs2 = DOMAIN rs \cup {p.id} /\ rs2[p.id] = row
      /\ \A o \in DOMAIN rs : rs2[o] = rs[o]
      /\ \A i \in DOMAIN ops : ops[i].id = p.id => i = k
  BY DEF RowFor
<1>2. p.kind \in {"list_update", "list_delete"} => p.on \in DOMAIN acc.lists
  BY <1>1 DEF Coherent, Fits
<1>3. ASSUME NEW i \in DOMAIN ops, ops[i].id \in DOMAIN rs2
      PROVE  /\ ops[i].kind = "list_update" =>
                 ops[i].on \in DOMAIN a2.lists /\ a2.lists[ops[i].on].meta = ops[i].to
             /\ ops[i].kind = "list_create" =>
                 /\ rs2[ops[i].id].list \in (DOMAIN a2.lists) \ DOMAIN acc.lists
                 /\ a2.lists[rs2[ops[i].id].list].meta = ops[i].to
  <2>1. CASE i = k
    BY <1>1, <2>1
  <2>2. CASE i # k
    <3>1. ops[i].id \in DOMAIN rs /\ rs2[ops[i].id] = rs[ops[i].id]
      BY <1>1, <1>3, <2>2
    <3>2. Apart(p, ops[i])
      BY <1>1, <2>2 DEF Coherent
    <3>3. ASSUME ops[i].kind = "list_update"
          PROVE  ops[i].on \in DOMAIN a2.lists /\ a2.lists[ops[i].on].meta = ops[i].to
      <4>1. ops[i].on \in DOMAIN a.lists /\ a.lists[ops[i].on].meta = ops[i].to
        BY <3>1, <3>3 DEF MetasSo
      <4>2. ~(p.kind \in {"list_update", "list_delete"} /\ p.on = ops[i].on)
        BY <3>2, <3>3 DEF Apart
      <4>3. QED
        BY <4>1, <4>2
    <3>4. ASSUME ops[i].kind = "list_create"
          PROVE  /\ rs2[ops[i].id].list \in (DOMAIN a2.lists) \ DOMAIN acc.lists
                 /\ a2.lists[rs2[ops[i].id].list].meta = ops[i].to
      <4> DEFINE l == rs[ops[i].id].list
      <4>1. l \in (DOMAIN a.lists) \ DOMAIN acc.lists /\ a.lists[l].meta = ops[i].to
        BY <3>1, <3>4 DEF MetasSo
      <4>2. ~(p.kind \in {"list_update", "list_delete"} /\ p.on = l)
        BY <1>2, <4>1
      <4> HIDE DEF l
      <4>3. l \in (DOMAIN a2.lists) \ DOMAIN acc.lists /\ a2.lists[l].meta = ops[i].to
        BY <4>1, <4>2
      <4>4. QED
        BY <3>1, <4>3 DEF l
    <3>5. QED
      BY <3>3, <3>4
  <2>3. QED
    BY <2>1, <2>2
<1>4. ASSUME NEW l \in DOMAIN acc.lists, l \in DOMAIN a2.lists,
             ~Hit(ops, rs2, "list_update", l)
      PROVE  a2.lists[l].meta = acc.lists[l].meta
  <2>1. ~Hit(ops, rs, "list_update", l) /\ ~(p.kind = "list_update" /\ p.on = l)
    BY <1>4, HitGrows
  <2>2. l \in DOMAIN a.lists
    BY <1>4
  <2>3. a.lists[l].meta = acc.lists[l].meta
    BY <2>1, <2>2 DEF MetasSo
  <2>4. CASE p.kind = "list_delete" /\ p.on = l
    BY <1>4, <2>4
  <2>5. CASE ~(p.kind = "list_delete" /\ p.on = l)
    BY <2>1, <2>2, <2>3, <2>5
  <2>6. QED
    BY <2>4, <2>5
<1>5. QED
  BY <1>3, <1>4 DEF MetasSo


(* Memberships are what the rows say.                                       *)
LEMMA FilesGo ==
    ASSUME NEW k, NEW row, NEW ops, NEW rs, NEW rs2, RowFor(k, row, ops, rs, rs2),
           NEW req, NEW acc, Coherent(ops, req, acc), NEW a, NEW a2, NEW cl,
           FilesSo(ops, rs, a, acc, req, cl), Undisturbed(ops, rs, a, acc, req),
           ops[k].kind \notin {"list_membership_set", "list_delete", "unstar"} =>
               \A r \in Repo : ListsOf(a2, r) = ListsOf(a, r),
           ops[k].kind = "list_delete" =>
               \A r \in Repo : ListsOf(a2, r) = ListsOf(a, r) \ {ops[k].on},
           ops[k].kind = "unstar" =>
               \A r \in Repo : ListsOf(a2, r) =
                   IF cl /\ r = ops[k].on THEN {} ELSE ListsOf(a, r),
           ops[k].kind = "list_membership_set" =>
               /\ \A r \in Repo : r # ops[k].on => ListsOf(a2, r) = ListsOf(a, r)
               /\ ~TornIn(ops[k].on, req) => FiledAs(ops[k], rs2, a2)
    PROVE  FilesSo(ops, rs2, a2, acc, req, cl)
<1> DEFINE p == ops[k]
<1>1. /\ k \in DOMAIN ops
      /\ DOMAIN rs2 = DOMAIN rs \cup {p.id} /\ rs2[p.id] = row
      /\ \A o \in DOMAIN rs : rs2[o] = rs[o]
      /\ \A i \in DOMAIN ops : ops[i].id = p.id => i = k
  BY DEF RowFor
<1>2. p.kind = "list_delete" => p.on \in DOMAIN acc.lists
  BY <1>1 DEF Coherent, Fits
<1>3. ASSUME NEW r \in Repo, ~TornIn(r, req), NEW i \in DOMAIN ops,
             ops[i].kind = "list_membership_set", ops[i].on = r, ops[i].id \in DOMAIN rs2
      PROVE  FiledAs(ops[i], rs2, a2)
  <2>1. CASE i = k
    BY <1>3, <2>1
  <2>2. CASE i # k
    <3> DEFINE q == ops[i]
    <3>1. q.id \in DOMAIN rs
      BY <1>1, <1>3, <2>2
    <3>2. Apart(p, q) /\ Fits(q, i, ops, req, acc)
      BY <1>1, <2>2 DEF Coherent
    <3>3. FiledAs(q, rs, a)
      BY <1>3, <3>1 DEF FilesSo
    <3>4. ListsOf(a2, r) = ListsOf(a, r)
      <4>1. CASE p.kind = "list_membership_set"
        BY <1>3, <3>2, <4>1 DEF Apart
      <4>2. CASE p.kind = "unstar"
        <5>1. p.on \in ReposOf(req, {"unstar"}) /\ r \in ReposOf(req, Membership)
          BY <1>1, <1>3, <3>2, <4>2 DEF Coherent, Fits
        <5>2. p.on # r
          BY <1>3, <5>1 DEF TornIn, ReposOf
        <5>3. QED
          BY <4>2, <5>2
      <4>3. CASE p.kind = "list_delete"
        <5>1. p.on \notin q.targets
          BY <1>3, <3>2, <4>3 DEF Apart
        <5>2. p.on \notin NewOnes(rs, q.made)
          <6>1. \A c \in q.made : rs[c].list \notin DOMAIN acc.lists
            BY <3>3 DEF FiledAs, Undisturbed
          <6>2. QED
            BY <1>2, <4>3, <6>1 DEF NewOnes
        <5>3. p.on \notin ListsOf(a, r)
          BY <1>3, <3>3, <5>1, <5>2 DEF FiledAs
        <5>4. QED
          BY <4>3, <5>3
      <4>4. CASE p.kind \notin {"list_membership_set", "list_delete", "unstar"}
        BY <4>4
      <4>5. QED
        BY <4>1, <4>2, <4>3, <4>4
    <3>5. q.made \subseteq DOMAIN rs2 /\ \A c \in q.made : rs2[c] = rs[c]
      BY <1>1, <3>3 DEF FiledAs
    <3>6. NewOnes(rs2, q.made) = NewOnes(rs, q.made)
      BY <3>5 DEF NewOnes
    <3>7. QED
      BY <1>3, <3>3, <3>4, <3>5, <3>6 DEF FiledAs
  <2>3. QED
    BY <2>1, <2>2
<1>4. ASSUME NEW r \in Repo, ~TornIn(r, req), ~Hit(ops, rs2, "list_membership_set", r)
      PROVE  ListsOf(a2, r) = LeftIn(ops, rs2, acc, cl, r)
  <2>1. /\ ~Hit(ops, rs, "list_membership_set", r)
        /\ ~(p.kind = "list_membership_set" /\ p.on = r)
        /\ Hit(ops, rs2, "unstar", r) <=>
              Hit(ops, rs, "unstar", r) \/ (p.kind = "unstar" /\ p.on = r)
        /\ \A l : Hit(ops, rs2, "list_delete", l) <=>
              Hit(ops, rs, "list_delete", l) \/ (p.kind = "list_delete" /\ p.on = l)
    BY <1>4, HitGrows
  <2>2. ListsOf(a, r) = LeftIn(ops, rs, acc, cl, r)
    BY <1>4, <2>1 DEF FilesSo
  <2> DEFINE L == ListsOf(acc, r)
             D(x) == Hit(ops, rs, "list_delete", x)
             D2(x) == Hit(ops, rs2, "list_delete", x)
             U == Hit(ops, rs, "unstar", r)
             U2 == Hit(ops, rs2, "unstar", r)
             A == ListsOf(a, r)
             A2 == ListsOf(a2, r)
  <2>3. A = IF cl /\ U THEN {} ELSE {l \in L : ~D(l)}
    BY <2>2 DEF LeftIn
  <2>4. CASE p.kind = "list_membership_set"
    <3>1. A2 = A
      BY <1>4, <2>1, <2>4
    <3>2. (U2 <=> U) /\ \A l : D2(l) <=> D(l)
      BY <2>1, <2>4
    <3> HIDE DEF A, A2, U, U2, D, D2, L
    <3>3. A2 = IF cl /\ U2 THEN {} ELSE {l \in L : ~D2(l)}
      BY <2>3, <3>1, <3>2
    <3>4. QED
      BY <3>3 DEF LeftIn, A2, U2, D2, L
  <2>5. CASE p.kind = "list_delete"
    <3>1. A2 = A \ {p.on}
      BY <1>4, <2>5
    <3>2. (U2 <=> U) /\ \A l : D2(l) <=> D(l) \/ p.on = l
      BY <2>1, <2>5
    <3> HIDE DEF A, A2, U, U2, D, D2, L
    <3>3. A2 = IF cl /\ U2 THEN {} ELSE {l \in L : ~D2(l)}
      BY <2>3, <3>1, <3>2
    <3>4. QED
      BY <3>3 DEF LeftIn, A2, U2, D2, L
  <2>6. CASE p.kind = "unstar"
    <3>1. A2 = IF cl /\ r = p.on THEN {} ELSE A
      BY <1>4, <2>6
    <3>2. (U2 <=> U \/ p.on = r) /\ \A l : D2(l) <=> D(l)
      BY <2>1, <2>6
    <3> HIDE DEF A, A2, U, U2, D, D2, L
    <3>3. A2 = IF cl /\ U2 THEN {} ELSE {l \in L : ~D2(l)}
      BY <2>3, <3>1, <3>2
    <3>4. QED
      BY <3>3 DEF LeftIn, A2, U2, D2, L
  <2>7. CASE p.kind \notin {"list_membership_set", "list_delete", "unstar"}
    <3>1. A2 = A
      BY <1>4, <2>7
    <3>2. (U2 <=> U) /\ \A l : D2(l) <=> D(l)
      BY <2>1, <2>7
    <3> HIDE DEF A, A2, U, U2, D, D2, L
    <3>3. A2 = IF cl /\ U2 THEN {} ELSE {l \in L : ~D2(l)}
      BY <2>3, <3>1, <3>2
    <3>4. QED
      BY <3>3 DEF LeftIn, A2, U2, D2, L
  <2>8. QED
    BY <2>4, <2>5, <2>6, <2>7
<1>5. QED
  BY <1>3, <1>4 DEF FilesSo

\* What the operation op, which has got this row, has changed: the account
\* was a and is a2, and rs2 are the rows now.
StarsMove(op, a, a2) ==
    /\ op.kind = "star" => a2.starred = a.starred \cup {op.on}
    /\ op.kind = "unstar" => a2.starred = a.starred \ {op.on}
    /\ op.kind \notin {"star", "unstar"} => a2.starred = a.starred
ListsMove(op, row, a, a2, acc) ==
    /\ op.kind = "list_delete" => DOMAIN a2.lists = DOMAIN a.lists \ {op.on}
    /\ op.kind = "list_create" =>
        /\ DOMAIN a2.lists = DOMAIN a.lists \cup {row.list}
        /\ row.list \notin DOMAIN a.lists /\ row.list \notin DOMAIN acc.lists
    /\ op.kind \notin {"list_delete", "list_create"} => DOMAIN a2.lists = DOMAIN a.lists
    /\ op.kind # "list_create" => row.list = 0
MetasMove(op, row, a, a2) ==
    /\ \A l \in DOMAIN a.lists :
           ~(op.kind \in {"list_update", "list_delete"} /\ op.on = l) =>
               a2.lists[l].meta = a.lists[l].meta
    /\ op.kind = "list_update" =>
           op.on \in DOMAIN a2.lists /\ a2.lists[op.on].meta = op.to
    /\ op.kind = "list_create" => a2.lists[row.list].meta = op.to
FilesMove(op, rs2, a, a2, req, cl) ==
    /\ op.kind \notin {"list_membership_set", "list_delete", "unstar"} =>
           \A r \in Repo : ListsOf(a2, r) = ListsOf(a, r)
    /\ op.kind = "list_delete" =>
           \A r \in Repo : ListsOf(a2, r) = ListsOf(a, r) \ {op.on}
    /\ op.kind = "unstar" =>
           \A r \in Repo : ListsOf(a2, r) =
               IF cl /\ r = op.on THEN {} ELSE ListsOf(a, r)
    /\ op.kind = "list_membership_set" =>
           /\ \A r \in Repo : r # op.on => ListsOf(a2, r) = ListsOf(a, r)
           /\ ~TornIn(op.on, req) => FiledAs(op, rs2, a2)
Moves(op, row, rs2, a, a2, acc, req, cl) ==
    /\ StarsMove(op, a, a2)
    /\ ListsMove(op, row, a, a2, acc)
    /\ MetasMove(op, row, a, a2)
    /\ FilesMove(op, rs2, a, a2, req, cl)

(* An operation that does what its kind says leaves what the rows say.      *)
LEMMA PlannedGo ==
    ASSUME NEW k, NEW row, NEW ops, NEW rs, NEW rs2, RowFor(k, row, ops, rs, rs2),
           NEW req, NEW acc, Coherent(ops, req, acc), NEW a, NEW a2, NEW cl,
           AsPlanned(ops, rs, a, acc, req, cl), Undisturbed(ops, rs, a, acc, req),
           Moves(ops[k], row, rs2, a, a2, acc, req, cl)
    PROVE  AsPlanned(ops, rs2, a2, acc, req, cl)
<1>1. /\ StarsSo(ops, rs, a, acc) /\ ListsSo(ops, rs, a, acc) /\ MetasSo(ops, rs, a, acc)
      /\ FilesSo(ops, rs, a, acc, req, cl)
  BY DEF AsPlanned
<1>2. /\ StarsMove(ops[k], a, a2) /\ ListsMove(ops[k], row, a, a2, acc)
      /\ MetasMove(ops[k], row, a, a2) /\ FilesMove(ops[k], rs2, a, a2, req, cl)
  BY DEF Moves
<1>3. StarsSo(ops, rs2, a2, acc)
  BY <1>1, <1>2, StarsGo DEF StarsMove
<1>4. ListsSo(ops, rs2, a2, acc)
  BY <1>1, <1>2, ListsGo DEF ListsMove
<1>5. MetasSo(ops, rs2, a2, acc)
  <2> DEFINE p == ops[k]
  <2>1. p.kind \in Kinds
    BY DEF Coherent, Fits, RowFor
  <2>2. /\ \A l \in DOMAIN a.lists :
               ~(p.kind = "list_delete" /\ p.on = l) => l \in DOMAIN a2.lists
        /\ \A l \in DOMAIN a2.lists : l \in DOMAIN a.lists \/ l \notin DOMAIN acc.lists
        /\ p.kind = "list_delete" => p.on \notin DOMAIN a2.lists
        /\ p.kind = "list_create" => row.list \in (DOMAIN a2.lists) \ DOMAIN acc.lists
    BY <1>2 DEF ListsMove
  <2>3. /\ \A l \in DOMAIN a.lists :
               ~(p.kind \in {"list_update", "list_delete"} /\ p.on = l) =>
                   a2.lists[l].meta = a.lists[l].meta
        /\ p.kind = "list_update" =>
               p.on \in DOMAIN a2.lists /\ a2.lists[p.on].meta = p.to
        /\ p.kind = "list_create" => a2.lists[row.list].meta = p.to
    BY <1>2 DEF MetasMove
  <2>4. QED
    BY <1>1, <2>2, <2>3, MetasGo
<1>6. FilesSo(ops, rs2, a2, acc, req, cl)
  BY <1>1, <1>2, FilesGo DEF FilesMove
<1>7. QED
  BY <1>3, <1>4, <1>5, <1>6 DEF AsPlanned

(* The next operation of a run gets its row.                                *)
LEMMA WorkRow ==
    ASSUME NEW k, AtWork(k), NEW row, rows' = Recorded(Current, row)
    PROVE  RowFor(k, row, plan, rows, rows')
<1>1. /\ k \in DOMAIN plan /\ Current = plan[k] /\ Coherent(plan, request, snapshot)
      /\ Current.id \notin DOMAIN rows
  BY WorkIs
<1>2. DOMAIN rows' = DOMAIN rows \cup {Current.id}
  BY DEF Recorded
<1>3. rows'[Current.id] = row /\ \A o \in DOMAIN rows : rows'[o] = rows[o]
  BY <1>1, <1>2 DEF Recorded
<1>4. \A i \in DOMAIN plan : plan[i].id = Current.id => i = k
  <2> TAKE i \in DOMAIN plan
  <2>1. plan[i].id = <<i, 0>> /\ plan[k].id = <<k, 0>>
    BY <1>1 DEF Coherent, Fits
  <2>2. QED
    BY <1>1, <2>1
<1>5. QED
  BY <1>1, <1>2, <1>3, <1>4 DEF RowFor

(* The Lists of a membership are those that its rows name.                  *)
LEMMA TargetsAreNamed ==
    ASSUME NEW k, AtWork(k), NEW row, rows' = Recorded(Current, row),
           Current.made \subseteq DOMAIN made, NEW a,
           ListsOf(a, Current.on) = TargetIds(Current)
    PROVE  FiledAs(Current, rows', a)
<1>1. RowFor(k, row, plan, rows, rows')
  BY WorkRow
<1>2. ASSUME NEW c \in Current.made
      PROVE  /\ c \in DOMAIN rows' /\ rows'[c].list # 0 /\ made[c] = rows'[c].list
  <2>1. c \in DOMAIN rows /\ rows[c].list # 0 /\ made[c] = rows[c].list
    BY DEF made
  <2>2. QED
    BY <1>1, <2>1 DEF RowFor
<1>3. {made[c] : c \in Current.made} = NewOnes(rows', Current.made)
  BY <1>2 DEF NewOnes
<1>4. QED
  BY <1>2, <1>3 DEF FiledAs, TargetIds

\* The account is what the rows of the plan say.
SoFar == AsPlanned(plan, rows, account, snapshot, request, clears)

LEMMA SoFarGoes ==
    ASSUME NEW k, AtWork(k), SoFar, NEW row, rows' = Recorded(Current, row),
           Moves(Current, row, rows', account, account', snapshot, request, clears)
    PROVE  AsPlanned(plan, rows', account', snapshot, request, clears)
<1>1. /\ Current = plan[k] /\ Coherent(plan, request, snapshot)
      /\ Undisturbed(plan, rows, account, snapshot, request)
  BY WorkIs
<1>2. RowFor(k, row, plan, rows, rows')
  BY WorkRow
<1>3. Moves(plan[k], row, rows', account, account', snapshot, request, clears)
  BY <1>1
<1>4. QED
  BY <1>1, <1>2, <1>3, PlannedGo DEF SoFar

LEMMA StarMoves ==
    ASSUME NEW k, AtWork(k), Star, SoFar
    PROVE  AsPlanned(plan, rows', account', snapshot, request, clears)
<1> DEFINE c == Current
           row == Succeeded(NoRow)
<1>1. /\ Dispatched("star") /\ rows' = Recorded(Current, row)
      /\ account' = [account EXCEPT !.starred = @ \cup {c.on}]
  BY DEF Star, Succeed
<1>2. c.kind = "star" /\ c.on \in Repo /\ Account(account, fresh - 1)
  BY <1>1, WorkIs DEF Dispatched, Typed
<1>3. /\ account'.starred = account.starred \cup {c.on}
      /\ account'.lists = account.lists /\ account'.members = account.members
  BY <1>1, <1>2, StarredAccount
<1>4. row.list = 0
  BY SucceededIsSettled
<1>5. \A r : ListsOf(account', r) = ListsOf(account, r)
  BY <1>3 DEF ListsOf
<1> HIDE DEF c, row
<1>6. StarsMove(c, account, account')
  BY <1>2, <1>3 DEF StarsMove
<1>7. ListsMove(c, row, account, account', snapshot)
  BY <1>2, <1>3, <1>4 DEF ListsMove
<1>8. MetasMove(c, row, account, account')
  BY <1>2, <1>3 DEF MetasMove
<1>9. FilesMove(c, rows', account, account', request, clears)
  BY <1>2, <1>5 DEF FilesMove
<1>10. Moves(Current, row, rows', account, account', snapshot, request, clears)
  BY <1>6, <1>7, <1>8, <1>9 DEF Moves, c
<1>11. QED
  BY <1>1, <1>10, SoFarGoes

LEMMA UnstarMoves ==
    ASSUME NEW k, AtWork(k), Unstar, SoFar
    PROVE  AsPlanned(plan, rows', account', snapshot, request, clears)
<1> DEFINE c == Current
           row == Succeeded(NoRow)
<1>1. /\ Dispatched("unstar") /\ rows' = Recorded(Current, row)
      /\ account' = Unstarred(account, c.on)
  BY DEF Unstar, Succeed
<1>2. c.kind = "unstar" /\ Account(account, fresh - 1)
  BY <1>1, WorkIs DEF Dispatched
<1>3. /\ account'.starred = account.starred \ {c.on} /\ account'.lists = account.lists
      /\ account'.members \subseteq account.members
      /\ \A m \in account.members : m \in account'.members <=> ~clears \/ m[2] # c.on
  BY <1>1, <1>2, UnstarredAccount
<1>4. row.list = 0
  BY SucceededIsSettled
<1>5. ASSUME NEW r
      PROVE  ListsOf(account', r) = IF clears /\ r = c.on THEN {} ELSE ListsOf(account, r)
  <2>1. \A l : <<l, r>> \in account'.members <=>
            <<l, r>> \in account.members /\ (~clears \/ r # c.on)
    BY <1>3
  <2>2. QED
    BY <1>3, <2>1 DEF ListsOf
<1> HIDE DEF c, row
<1>6. StarsMove(c, account, account')
  BY <1>2, <1>3 DEF StarsMove
<1>7. ListsMove(c, row, account, account', snapshot)
  BY <1>2, <1>3, <1>4 DEF ListsMove
<1>8. MetasMove(c, row, account, account')
  BY <1>2, <1>3 DEF MetasMove
<1>9. FilesMove(c, rows', account, account', request, clears)
  BY <1>2, <1>5 DEF FilesMove
<1>10. Moves(Current, row, rows', account, account', snapshot, request, clears)
  BY <1>6, <1>7, <1>8, <1>9 DEF Moves, c
<1>11. QED
  BY <1>1, <1>10, SoFarGoes

LEMMA CreateMoves ==
    ASSUME NEW k, AtWork(k), CreateList, SoFar
    PROVE  AsPlanned(plan, rows', account', snapshot, request, clears)
<1> DEFINE c == Current
           row == Succeeded([NoRow EXCEPT !.list = fresh])
           n == fresh - 1
           w == WithList(account.lists, fresh, [meta |-> c.to, stamp |-> 0])
           to == c.to
<1>1. /\ rows' = Recorded(Current, row) /\ account' = [account EXCEPT !.lists = w]
      /\ Dispatched("list_create")
  BY DEF CreateList, Succeed
<1>2. /\ fresh \in Nat \ {0} /\ Account(account, n) /\ Account(snapshot, n)
      /\ c.kind = "list_create"
  BY <1>1, WorkIs DEF Dispatched
<1>3. n \in Nat /\ fresh = n + 1
  BY <1>2
<1>4. w = WithList(account.lists, n + 1, [meta |-> to, stamp |-> 0])
  BY <1>3
<1>5. row.list = n + 1
  BY <1>3, SucceededIsSettled
<1> HIDE DEF w, n, row, to, c
<1>6. CreatedIn(account', account, n, to)
  BY <1>1, <1>2, <1>3, <1>4, CreatedAccount
<1>7. /\ account'.starred = account.starred /\ account'.members = account.members
      /\ DOMAIN account'.lists = DOMAIN account.lists \cup {n + 1}
      /\ \A l \in DOMAIN account.lists : account'.lists[l] = account.lists[l]
      /\ account'.lists[n + 1].meta = to
  BY <1>6 DEF CreatedIn
<1>8. n + 1 \notin DOMAIN snapshot.lists /\ n + 1 \notin DOMAIN account.lists
  BY <1>2, <1>3 DEF Account
<1>9. \A r : ListsOf(account', r) = ListsOf(account, r)
  <2>1. \A l, r : <<l, r>> \in account.members => l \in DOMAIN account.lists
    BY <1>2 DEF Account
  <2>2. QED
    BY <1>7, <2>1 DEF ListsOf
<1>10. StarsMove(c, account, account')
  BY <1>2, <1>7 DEF StarsMove
<1>11. ListsMove(c, row, account, account', snapshot)
  BY <1>2, <1>5, <1>7, <1>8 DEF ListsMove
<1>12. MetasMove(c, row, account, account')
  BY <1>2, <1>5, <1>7 DEF MetasMove, to
<1>13. FilesMove(c, rows', account, account', request, clears)
  BY <1>2, <1>9 DEF FilesMove
<1>14. Moves(Current, row, rows', account, account', snapshot, request, clears)
  BY <1>10, <1>11, <1>12, <1>13 DEF Moves, c
<1>15. QED
  BY <1>1, <1>14, SoFarGoes

LEMMA UpdateMoves ==
    ASSUME NEW k, AtWork(k), UpdateList, SoFar
    PROVE  AsPlanned(plan, rows', account', snapshot, request, clears)
<1> DEFINE c == Current
           row == Succeeded(NoRow)
<1>1. /\ Dispatched("list_update") /\ rows' = Recorded(Current, row)
      /\ account' = [account EXCEPT !.lists[c.on].meta = c.to]
  BY DEF UpdateList, Succeed
<1>2. /\ c.kind = "list_update" /\ Account(account, fresh - 1)
      /\ c.on \in DOMAIN account.lists
  BY <1>1, WorkIs DEF Dispatched, Waits
<1>3. /\ account'.starred = account.starred /\ account'.members = account.members
      /\ DOMAIN account'.lists = DOMAIN account.lists
      /\ \A l \in DOMAIN account.lists : /\ l # c.on => account'.lists[l] = account.lists[l]
                                         /\ l = c.on => account'.lists[l].meta = c.to
  BY <1>1, <1>2, UpdatedAccount
<1>4. row.list = 0
  BY SucceededIsSettled
<1>5. \A r : ListsOf(account', r) = ListsOf(account, r)
  BY <1>3 DEF ListsOf
<1> HIDE DEF c, row
<1>6. StarsMove(c, account, account')
  BY <1>2, <1>3 DEF StarsMove
<1>7. ListsMove(c, row, account, account', snapshot)
  BY <1>2, <1>3, <1>4 DEF ListsMove
<1>8. MetasMove(c, row, account, account')
  BY <1>2, <1>3 DEF MetasMove
<1>9. FilesMove(c, rows', account, account', request, clears)
  BY <1>2, <1>5 DEF FilesMove
<1>10. Moves(Current, row, rows', account, account', snapshot, request, clears)
  BY <1>6, <1>7, <1>8, <1>9 DEF Moves, c
<1>11. QED
  BY <1>1, <1>10, SoFarGoes

LEMMA DeleteMoves ==
    ASSUME NEW k, AtWork(k), DeleteList, SoFar
    PROVE  AsPlanned(plan, rows', account', snapshot, request, clears)
<1> DEFINE c == Current
           row == Succeeded(NoRow)
<1>1. /\ Dispatched("list_delete") /\ rows' = Recorded(Current, row)
      /\ account' = Without(account, c.on)
  BY DEF DeleteList, Succeed
<1>2. c.kind = "list_delete" /\ Account(account, fresh - 1)
  BY <1>1, WorkIs DEF Dispatched
<1>3. /\ account'.starred = account.starred
      /\ account'.members = {m \in account.members : m[1] # c.on}
      /\ DOMAIN account'.lists = DOMAIN account.lists \ {c.on}
      /\ \A l \in DOMAIN account.lists \ {c.on} :
            account'.lists[l] = account.lists[l]
  BY <1>1, <1>2, DeletedAccount
<1>4. row.list = 0
  BY SucceededIsSettled
<1>5. ASSUME NEW r PROVE ListsOf(account', r) = ListsOf(account, r) \ {c.on}
  <2>1. \A l : l # c.on => (<<l, r>> \in account'.members <=> <<l, r>> \in account.members)
    BY <1>3
  <2>2. QED
    BY <1>3, <2>1 DEF ListsOf
<1> HIDE DEF c, row
<1>6. StarsMove(c, account, account')
  BY <1>2, <1>3 DEF StarsMove
<1>7. ListsMove(c, row, account, account', snapshot)
  BY <1>2, <1>3, <1>4 DEF ListsMove
<1>8. MetasMove(c, row, account, account')
  BY <1>2, <1>3 DEF MetasMove
<1>9. FilesMove(c, rows', account, account', request, clears)
  BY <1>2, <1>5 DEF FilesMove
<1>10. Moves(Current, row, rows', account, account', snapshot, request, clears)
  BY <1>6, <1>7, <1>8, <1>9 DEF Moves, c
<1>11. QED
  BY <1>1, <1>10, SoFarGoes

LEMMA FileMoves ==
    ASSUME NEW k, AtWork(k), SetMembership, SoFar
    PROVE  AsPlanned(plan, rows', account', snapshot, request, clears)
<1> DEFINE c == Current
           ids == TargetIds(Current)
           row == Succeeded([NoRow EXCEPT !.listIds = ids])
<1>1. /\ Dispatched("list_membership_set") /\ rows' = Recorded(Current, row)
      /\ ids \subseteq DOMAIN account.lists /\ account' = Filed(account, c.on, ids)
  BY DEF SetMembership, Succeed
<1>2. /\ c.kind = "list_membership_set" /\ Account(account, fresh - 1) /\ c.on \in Repo
      /\ ShieldInv
  BY <1>1, WorkIs DEF Dispatched, Typed, AtWork
<1>3. c.made \subseteq DOMAIN made
  BY <1>1, <1>2, MadeForIt
<1>4. row.list = 0
  BY SucceededIsSettled
<1> HIDE DEF ids, row
<1>5. /\ account'.starred = account.starred
      /\ account'.members = {m \in account.members : m[2] # c.on} \cup (ids \X {c.on})
      /\ DOMAIN account'.lists = DOMAIN account.lists
      /\ \A l \in DOMAIN account.lists : account'.lists[l].meta = account.lists[l].meta
  BY <1>1, <1>2, FiledAccount
<1>6. ASSUME NEW r, r # c.on PROVE ListsOf(account', r) = ListsOf(account, r)
  <2>1. \A l : <<l, r>> \in account'.members <=> <<l, r>> \in account.members
    BY <1>5, <1>6
  <2>2. QED
    BY <1>5, <2>1 DEF ListsOf
<1>7. ListsOf(account', c.on) = ids
  <2>1. \A l : <<l, c.on>> \in account'.members <=> l \in ids
    BY <1>5
  <2>2. QED
    BY <1>1, <1>5, <2>1 DEF ListsOf
<1>8. FiledAs(c, rows', account')
  BY <1>1, <1>3, <1>7, TargetsAreNamed DEF ids
<1> HIDE DEF c
<1>9. StarsMove(c, account, account')
  BY <1>2, <1>5 DEF StarsMove
<1>10. ListsMove(c, row, account, account', snapshot)
  BY <1>2, <1>4, <1>5 DEF ListsMove
<1>11. MetasMove(c, row, account, account')
  BY <1>2, <1>5 DEF MetasMove
<1>12. FilesMove(c, rows', account, account', request, clears)
  BY <1>2, <1>6, <1>8 DEF FilesMove
<1>13. Moves(Current, row, rows', account, account', snapshot, request, clears)
  BY <1>9, <1>10, <1>11, <1>12 DEF Moves, c
<1>14. QED
  BY <1>1, <1>13, SoFarGoes

(* What is skipped is a membership that is there already.                   *)
LEMMA SkipMoves ==
    ASSUME NEW k, AtWork(k), Skip, SoFar
    PROVE  AsPlanned(plan, rows', account', snapshot, request, clears)
<1> DEFINE c == Current
<1>1. /\ rows' = Recorded(Current, Skipped) /\ account' = account /\ MatchesAfter(Current)
  BY DEF Skip, remote
<1>2. /\ c.kind \in Kinds /\ Fits(c, k, plan, request, snapshot)
      /\ Waits(c, account, snapshot, request) /\ c.id \notin DOMAIN made
  BY WorkIs, NothingMadeYet DEF AtWork, Fits
<1>3. c.kind = "list_membership_set"
  <2> HIDE DEF c
  <2>0. MatchesAfter(c)
    BY <1>1 DEF c
  <2>1. c.kind # "star"
    BY <1>2, <2>0 DEF MatchesAfter, CheckStar, Waits
  <2>2. c.kind # "unstar"
    BY <1>2, <2>0 DEF MatchesAfter, CheckStar, Waits
  <2>3. c.kind # "list_create"
    BY <1>2, <2>0 DEF MatchesAfter
  <2>4. c.kind # "list_update"
    BY <1>2, <2>0 DEF MatchesAfter, GetUserList, Waits, Fits
  <2>5. c.kind # "list_delete"
    BY <1>2, <2>0 DEF MatchesAfter, Waits
  <2>6. QED
    BY <1>2, <2>1, <2>2, <2>3, <2>4, <2>5 DEF Kinds
<1>4. c.made \subseteq DOMAIN made /\ ListsOf(account, c.on) = TargetIds(Current)
  BY <1>1, <1>3 DEF MatchesAfter, GetRepositoryListIds
<1>5. FiledAs(c, rows', account')
  BY <1>1, <1>4, TargetsAreNamed
<1>6. Skipped.list = 0
  BY DEF Skipped, Status, NoRow
<1> HIDE DEF c
<1>7. StarsMove(c, account, account') /\ MetasMove(c, Skipped, account, account')
  BY <1>1, <1>3 DEF StarsMove, MetasMove
<1>8. ListsMove(c, Skipped, account, account', snapshot)
  BY <1>1, <1>3, <1>6 DEF ListsMove
<1>9. FilesMove(c, rows', account, account', request, clears)
  BY <1>1, <1>3, <1>5 DEF FilesMove
<1>10. Moves(Current, Skipped, rows', account, account', snapshot, request, clears)
  BY <1>7, <1>8, <1>9 DEF Moves, c
<1>11. QED
  BY <1>1, <1>10, SoFarGoes

DoneInv ==
    /\ \A m \in snapshot.members : m[2] \in snapshot.starred
    /\ Applying => \E n \in Nat : Planned(plan, request, snapshot, complete, n)
    /\ Applying /\ touched = {} /\ Unfailed => SoFar

LEMMA DoneInit == Init => DoneInv
<1> SUFFICES ASSUME Init PROVE DoneInv
  OBVIOUS
<1>1. account \in Accounts /\ snapshot = account /\ phase = "asking"
  BY DEF Init
<1>2. \A m \in account.members : m[2] \in account.starred
  BY <1>1, ChangesAssumption
<1>3. QED
  BY <1>1, <1>2 DEF DoneInv, Applying

(* Without rows the account is the one that the plan was made from.         *)
LEMMA PlannedAtFirst ==
    ASSUME NEW ops, NEW rs, DOMAIN rs = {}, NEW acc, NEW req, NEW cl
    PROVE  AsPlanned(ops, rs, acc, acc, req, cl)
<1>1. \A kind, x : ~Hit(ops, rs, kind, x)
  BY DEF Hit
<1>2. StarsSo(ops, rs, acc, acc) /\ ListsSo(ops, rs, acc, acc)
  BY <1>1 DEF StarsSo, ListsSo
<1>3. MetasSo(ops, rs, acc, acc)
  BY DEF MetasSo
<1>4. \A r : LeftIn(ops, rs, acc, cl, r) = ListsOf(acc, r)
  <2> TAKE r
  <2>1. LeftIn(ops, rs, acc, cl, r) = {l \in ListsOf(acc, r) : ~Hit(ops, rs, "list_delete", l)}
    BY <1>1 DEF LeftIn
  <2>2. QED
    BY <1>1, <2>1
<1>5. FilesSo(ops, rs, acc, acc, req, cl)
  BY <1>4 DEF FilesSo
<1>6. QED
  BY <1>2, <1>3, <1>5 DEF AsPlanned

LEMMA DoneAsk ==
    ASSUME ShieldInv, HoldInv, DoneInv, Ask
    PROVE  DoneInv'
<1>1. PICK req \in Requests :
          LET p == Plan(req, snapshot, complete)
          IN  /\ request' = Selected(req, snapshot)
              /\ plan' = IF p.ok THEN p.ops ELSE << >>
              /\ phase' = IF p.ok THEN "planned" ELSE "refused"
  BY DEF Ask
<1>2. /\ phase = "asking" /\ rows = NoRows /\ rows' = rows
      /\ account' = account /\ snapshot' = snapshot /\ account = snapshot
      /\ complete' = complete /\ clears' = clears
      /\ fresh \in Nat \ {0} /\ Account(snapshot, fresh - 1)
  BY DEF Ask, remote, ShieldInv, Knows, HoldInv
<1> DEFINE p == Plan(req, snapshot, complete)
           n == fresh - 1
<1>3. n \in Nat
  BY <1>2
<1>4. CASE p.ok
  <2>1. phase' = "planned" /\ plan' = p.ops /\ request' = Selected(req, snapshot)
    BY <1>1, <1>4
  <2>2. Planned(plan', request', snapshot, complete, n)
    BY <1>2, <1>4, <2>1, PlanIsResolved
  <2>3. DOMAIN rows' = {}
    BY <1>2 DEF NoRows
  <2>4. AsPlanned(plan', rows', snapshot, snapshot, request', clears)
    BY <2>3, PlannedAtFirst
  <2> HIDE DEF p, n
  <2>5. QED
    BY <1>2, <1>3, <2>2, <2>4 DEF DoneInv, SoFar
<1>5. CASE ~p.ok
  <2>1. phase' = "refused"
    BY <1>1, <1>5
  <2>2. QED
    BY <1>2, <2>1 DEF DoneInv, Applying
<1>6. QED
  BY <1>4, <1>5

LEMMA DoneWork ==
    ASSUME ShieldInv, HoldInv, DoneInv, Block \/ Skip \/ Reject \/ Fail \/ Effect
    PROVE  DoneInv'
<1>1. /\ Running /\ ~Halted /\ UNCHANGED <<origin, phase, touched, clears>>
      /\ Effect \/ Skip \/ rows' = Recorded(Current, Status("failed"))
  <2>1. CASE Block \/ Skip \/ Reject
    BY <2>1 DEF Block, Skip, Reject, remote
  <2>2. CASE Fail
    <3>1. PICK kind \in Kinds : Dispatched(kind)
      BY <2>2 DEF Fail
    <3>2. QED
      BY <2>2, <3>1 DEF Fail, Dispatched, remote
  <2>3. CASE Effect
    BY <2>3 DEF Effect, Star, Unstar, CreateList, UpdateList, DeleteList,
                SetMembership, Succeed, Dispatched
  <2>4. QED
    BY <2>1, <2>2, <2>3
<1>2. /\ phase' = phase /\ plan' = plan /\ request' = request /\ snapshot' = snapshot
      /\ touched' = touched /\ complete' = complete /\ clears' = clears
      /\ phase \in {"planned", "undoing"}
  BY <1>1 DEF origin, Running
<1>3. ASSUME phase = "planned", touched = {}, Unfailed'
      PROVE  AsPlanned(plan, rows', account', snapshot, request, clears)
  <2>1. Unfailed
    BY <1>3, UnfailedBefore
  <2>2. SoFar
    BY <1>3, <2>1 DEF DoneInv, Applying
  <2>3. PICK k : AtWork(k)
    BY <1>1, <1>3, <2>1, WorkAt DEF Calm
  <2>4. CASE Effect
    BY <2>2, <2>3, <2>4, StarMoves, UnstarMoves, CreateMoves, UpdateMoves, DeleteMoves,
       FileMoves DEF Effect
  <2>5. CASE Skip
    BY <2>2, <2>3, <2>5, SkipMoves
  <2>6. CASE rows' = Recorded(Current, Status("failed"))
    <3>1. Recorded(Current, Status("failed"))[Current.id].status = "failed"
      BY DEF Recorded, Status, NoRow
    <3>2. Current.id \in DOMAIN Recorded(Current, Status("failed"))
      BY DEF Recorded
    <3>3. ~Unfailed'
      BY <2>6, <3>1, <3>2 DEF Unfailed, Settled
    <3>4. QED
      BY <1>3, <3>3
  <2>7. QED
    BY <1>1, <2>4, <2>5, <2>6
<1>4. phase = "planned" /\ touched = {} /\ Unfailed' =>
          AsPlanned(plan', rows', account', snapshot', request', clears')
  BY <1>2, <1>3
<1>5. Applying => phase = "planned" /\ \E n \in Nat : Planned(plan, request, snapshot, complete, n)
  BY <1>2 DEF DoneInv, Applying
<1>6. QED
  BY <1>2, <1>4, <1>5 DEF DoneInv, Applying, SoFar

LEMMA DoneOthers ==
    ASSUME ShieldInv, HoldInv, DoneInv, Finish \/ CreateRollback \/ Owner \/ UNCHANGED vars
    PROVE  DoneInv'
<1>1. CASE Finish
  <2>1. /\ phase \in {"planned", "undoing"}
        /\ phase' = (IF phase = "planned" THEN "finished" ELSE "undone")
        /\ account' = account /\ snapshot' = snapshot /\ rows' = rows /\ clears' = clears
        /\ plan' = plan /\ request' = request /\ touched' = touched /\ complete' = complete
    BY <1>1 DEF Finish, Running, remote, origin
  <2>2. QED
    BY <2>1 DEF DoneInv, Applying, Unfailed, SoFar
<1>2. CASE CreateRollback
  <2>1. phase' \in {"undoing", "irreversible"} /\ snapshot' = snapshot
    BY <1>2 DEF CreateRollback
  <2>2. QED
    BY <2>1 DEF DoneInv, Applying
<1>3. CASE Owner
  <2>1. /\ touched' # {} /\ phase' = phase /\ plan' = plan /\ request' = request
        /\ snapshot' = snapshot /\ complete' = complete
    <3>1. PICK items : Touch(items) /\ items # {}
      BY <1>3, OwnerTouches
    <3>2. QED
      BY <3>1 DEF Touch, origin
  <2>2. QED
    BY <2>1 DEF DoneInv, Applying
<1>4. CASE UNCHANGED vars
  BY <1>4 DEF vars, DoneInv, Applying, Unfailed, SoFar
<1>5. QED
  BY <1>1, <1>2, <1>3, <1>4

(* The account that an undisturbed run without a failure has left so far is *)
(* what the operations with a row say.                                      *)
LEMMA DoneInvariant == Spec => []DoneInv
<1>1. Init => DoneInv
  BY DoneInit
<1>2. ShieldInv /\ HoldInv /\ DoneInv /\ [Next]_vars => DoneInv'
  BY DoneAsk, DoneWork, DoneOthers DEF Next
<1>3. QED
  BY <1>1, <1>2, ShieldInvariant, HoldInvariant, PTL DEF Spec

-----------------------------------------------------------------------------
(* What the operations of a plan say of the request: each change that is    *)
(* asked for and not there already has its operation.                       *)

\* The ids of the operations that create the Lists refs.
Makers(ops, refs) ==
    {ops[j].id : j \in {i \in DOMAIN ops : ops[i].kind = "list_create" /\ ops[i].on \in refs}}

DraftedAs(op, d, ops) ==
    /\ op.kind = d.kind /\ op.on = d.on /\ op.targets = d.targets /\ op.to = d.to
    /\ d.kind = "list_membership_set" => op.made = Makers(ops, d.made)

Drafted(ops, S) ==
    /\ \A i \in DOMAIN ops : \E d \in S : DraftedAs(ops[i], d, ops)
    /\ \A d \in S : \E i \in DOMAIN ops : DraftedAs(ops[i], d, ops)

(* Every operation has its draft and every draft its operation.             *)
LEMMA OperationsAreDrafted ==
    ASSUME NEW ops, NEW req, NEW acc, NEW full, NEW n, Planned(ops, req, acc, full, n)
    PROVE  Drafted(ops, Drafts(req, acc, full))
<1> DEFINE S == Drafts(req, acc, full)
<1>1. PICK w : Lists(w, S) /\ FromDrafts(ops, w)
  BY DEF Planned
<1>2. /\ DOMAIN ops = DOMAIN w /\ \A k \in DOMAIN w : FromDraft(ops[k], w, k)
      /\ \A k \in DOMAIN w : w[k] \in S
      /\ \A d \in S : \E k \in DOMAIN w : w[k] = d
  BY <1>1 DEF FromDrafts, Lists
<1>3. \A k \in DOMAIN w : DOMAIN w[k] = OpFields
  BY <1>2, DraftKinds DEF DraftOf
<1> HIDE DEF S
<1>4. ASSUME NEW k \in DOMAIN w
      PROVE  /\ ops[k].kind = w[k].kind /\ ops[k].on = w[k].on /\ ops[k].id = <<k, 0>>
             /\ ops[k].targets = w[k].targets /\ ops[k].to = w[k].to
             /\ w[k].kind = "list_membership_set" => ops[k].made = Creating(w, w[k].made)
  <2> DEFINE D == Creating(w, w[k].made) \cup Starring(w, w[k].on)
             M == Creating(w, w[k].made)
             v == w[k]
             op == ops[k]
  <2>1. FromDraft(op, w, k) /\ DOMAIN v = OpFields
    BY <1>2, <1>3
  <2>2. IF v.kind = "list_membership_set"
        THEN op = [v EXCEPT !.id = <<k, 0>>, !.dependsOn = D, !.made = M]
        ELSE op = [v EXCEPT !.id = <<k, 0>>]
    BY <2>1 DEF FromDraft
  <2> HIDE DEF D, M, v, op
  <2>3. /\ op.kind = v.kind /\ op.on = v.on /\ op.id = <<k, 0>>
        /\ op.targets = v.targets /\ op.to = v.to
        /\ v.kind = "list_membership_set" => op.made = M
    BY <2>1, <2>2 DEF OpFields
  <2>4. QED
    BY <2>3 DEF v, op, M
<1>5. \A refs : Creating(w, refs) = Makers(ops, refs)
  <2> TAKE refs
  <2>1. {i \in DOMAIN w : w[i].kind = "list_create" /\ w[i].on \in refs}
            = {i \in DOMAIN ops : ops[i].kind = "list_create" /\ ops[i].on \in refs}
    BY <1>2, <1>4
  <2>2. \A j \in DOMAIN ops : ops[j].id = <<j, 0>>
    BY <1>2, <1>4
  <2>3. QED
    BY <2>1, <2>2 DEF Creating, Makers
<1>6. \A k \in DOMAIN w : DraftedAs(ops[k], w[k], ops)
  BY <1>4, <1>5 DEF DraftedAs
<1>7. QED
  BY <1>2, <1>6 DEF Drafted, S

\* There is an operation of this kind for x.
Has(ops, kind, x) == \E i \in DOMAIN ops : ops[i].kind = kind /\ ops[i].on = x

MeansStars(ops, req, acc) ==
    \A r : /\ Has(ops, "star", r) <=> r \in ReposOf(req, {"star"}) \ acc.starred
           /\ Has(ops, "unstar", r) <=> r \in ReposOf(req, {"unstar"}) \cap acc.starred
MeansLists(ops, req, acc) ==
    /\ \A l : Has(ops, "list_delete", l) <=> l \in TargetsOf(req, {"list_delete"})
    /\ \A i \in DOMAIN ops : ops[i].kind = "list_create" =>
           \E a \in ActionsOf(req, {"list_create"}) : a.refs = {ops[i].on}
    /\ \A a \in ActionsOf(req, {"list_create"}) : \E i \in DOMAIN ops :
           ops[i].kind = "list_create" /\ a.refs = {ops[i].on} /\ ops[i].to = a.meta
MeansMetas(ops, req, acc) ==
    /\ \A i \in DOMAIN ops : ops[i].kind = "list_update" =>
           /\ ops[i].on \in TargetsOf(req, {"list_update"})
           /\ ops[i].to = Updated(req, acc, ops[i].on)
    /\ \A l \in TargetsOf(req, {"list_update"}) :
           Has(ops, "list_update", l) \/ Updated(req, acc, l) = acc.lists[l].meta
MeansFiles(ops, req, acc) ==
    /\ \A i \in DOMAIN ops : ops[i].kind = "list_membership_set" =>
           /\ ops[i].on \in ReposOf(req, Membership)
           /\ ops[i].targets = Existing(req, acc, ops[i].on)
           /\ ops[i].made = Makers(ops, Created(req, ops[i].on))
    /\ \A r \in ReposOf(req, Membership) :
           \/ Has(ops, "list_membership_set", r)
           \/ Created(req, r) = {} /\ Existing(req, acc, r) = ListsOf(acc, r)
Means(ops, req, acc) ==
    /\ MeansStars(ops, req, acc) /\ MeansLists(ops, req, acc)
    /\ MeansMetas(ops, req, acc) /\ MeansFiles(ops, req, acc)

(* The star, unstar and delete drafts are those for what is asked for.      *)
LEMMA PlanMeansStars ==
    ASSUME NEW ops, NEW req, NEW acc, NEW full, NEW n, Planned(ops, req, acc, full, n)
    PROVE  MeansStars(ops, req, acc)
<1> DEFINE S == Drafts(req, acc, full)
<1>1. Drafted(ops, S) /\ \A d \in S : DraftOf(d, req, acc, full)
  BY OperationsAreDrafted, DraftKinds
<1>2. ASSUME NEW r, r \in ReposOf(req, {"star"}) \ acc.starred PROVE Has(ops, "star", r)
  <2>1. StarDraft(r) \in S
    BY <1>2 DEF Drafts, StarDrafts, StarDraft
  <2>2. StarDraft(r).kind = "star" /\ StarDraft(r).on = r
    BY DEF StarDraft, NoOp
  <2> HIDE DEF S
  <2>3. PICK i \in DOMAIN ops : DraftedAs(ops[i], StarDraft(r), ops)
    BY <1>1, <2>1 DEF Drafted
  <2>4. QED
    BY <2>2, <2>3 DEF DraftedAs, Has
<1>3. ASSUME NEW r, r \in ReposOf(req, {"unstar"}) \cap acc.starred PROVE Has(ops, "unstar", r)
  <2> DEFINE d == UnstarDraft(r, acc, full)
  <2>1. d \in S
    BY <1>3 DEF Drafts, UnstarDrafts, UnstarDraft
  <2>2. d.kind = "unstar" /\ d.on = r
    BY DEF UnstarDraft, NoOp
  <2> HIDE DEF S, d
  <2>3. PICK i \in DOMAIN ops : DraftedAs(ops[i], d, ops)
    BY <1>1, <2>1 DEF Drafted
  <2>4. QED
    BY <2>2, <2>3 DEF DraftedAs, Has
<1> HIDE DEF S
<1>4. ASSUME NEW i \in DOMAIN ops
      PROVE  /\ ops[i].kind = "star" => ops[i].on \in ReposOf(req, {"star"}) \ acc.starred
             /\ ops[i].kind = "unstar" => ops[i].on \in ReposOf(req, {"unstar"}) \cap acc.starred
  <2>1. PICK d \in S : DraftedAs(ops[i], d, ops)
    BY <1>1 DEF Drafted
  <2>2. QED
    BY <1>1, <2>1 DEF DraftedAs, DraftOf
<1>5. QED
  BY <1>2, <1>3, <1>4 DEF MeansStars, Has

LEMMA PlanMeansLists ==
    ASSUME NEW ops, NEW req, NEW acc, NEW full, NEW n, Planned(ops, req, acc, full, n)
    PROVE  MeansLists(ops, req, acc)
<1> DEFINE S == Drafts(req, acc, full)
<1>1. Drafted(ops, S) /\ \A d \in S : DraftOf(d, req, acc, full)
  BY OperationsAreDrafted, DraftKinds
<1>2. \A a \in ActionsOf(req, {"list_create"}) : a.refs = {CHOOSE c \in a.refs : TRUE}
  BY NamesKnown DEF Planned
<1>3. \A a : CreateDraft(a, acc).kind = "list_create" /\ CreateDraft(a, acc).to = a.meta
                /\ CreateDraft(a, acc).on = CHOOSE c \in a.refs : TRUE
  BY DEF CreateDraft, NoOp
<1>4. ASSUME NEW l, l \in TargetsOf(req, {"list_delete"}) PROVE Has(ops, "list_delete", l)
  <2> DEFINE d == DeleteDraft(l, acc)
  <2>1. d \in S
    BY <1>4 DEF Drafts, DeleteDrafts, DeleteDraft
  <2>2. d.kind = "list_delete" /\ d.on = l
    BY DEF DeleteDraft, NoOp
  <2> HIDE DEF S, d
  <2>3. PICK i \in DOMAIN ops : DraftedAs(ops[i], d, ops)
    BY <1>1, <2>1 DEF Drafted
  <2>4. QED
    BY <2>2, <2>3 DEF DraftedAs, Has
<1>5. ASSUME NEW a \in ActionsOf(req, {"list_create"})
      PROVE  \E i \in DOMAIN ops :
                ops[i].kind = "list_create" /\ a.refs = {ops[i].on} /\ ops[i].to = a.meta
  <2> DEFINE d == CreateDraft(a, acc)
  <2>1. d \in S
    BY DEF Drafts, CreateDrafts, CreateDraft
  <2>2. d.kind = "list_create" /\ a.refs = {d.on} /\ d.to = a.meta
    <3>1. a.refs = {CHOOSE c \in a.refs : TRUE}
      BY <1>2
    <3>2. d.on = CHOOSE c \in a.refs : TRUE
      BY <1>3
    <3>3. QED
      BY <1>3, <3>1, <3>2
  <2> HIDE DEF S, d
  <2>3. PICK i \in DOMAIN ops : DraftedAs(ops[i], d, ops)
    BY <1>1, <2>1 DEF Drafted
  <2>4. QED
    BY <2>2, <2>3 DEF DraftedAs
<1> HIDE DEF S
<1>6. ASSUME NEW i \in DOMAIN ops
      PROVE  /\ ops[i].kind = "list_delete" => ops[i].on \in TargetsOf(req, {"list_delete"})
             /\ ops[i].kind = "list_create" =>
                    \E a \in ActionsOf(req, {"list_create"}) : a.refs = {ops[i].on}
  <2>1. PICK d \in S : DraftedAs(ops[i], d, ops)
    BY <1>1 DEF Drafted
  <2>2. DraftOf(d, req, acc, full) /\ ops[i].kind = d.kind /\ ops[i].on = d.on
    BY <1>1, <2>1 DEF DraftedAs
  <2>3. d.kind = "list_delete" => d.on \in TargetsOf(req, {"list_delete"})
    BY <2>2 DEF DraftOf
  <2>4. ASSUME d.kind = "list_create"
        PROVE  \E a \in ActionsOf(req, {"list_create"}) : a.refs = {d.on}
    <3>1. PICK a \in ActionsOf(req, {"list_create"}) : d = CreateDraft(a, acc)
      BY <2>2, <2>4 DEF DraftOf
    <3>2. d.on = CHOOSE c \in a.refs : TRUE
      BY <1>3, <3>1
    <3>3. a.refs = {d.on}
      BY <1>2, <3>2
    <3>4. QED
      BY <3>3
  <2>5. QED
    BY <2>2, <2>3, <2>4
<1>7. QED
  BY <1>4, <1>5, <1>6 DEF MeansLists, Has

LEMMA PlanMeansMetas ==
    ASSUME NEW ops, NEW req, NEW acc, NEW full, NEW n, Planned(ops, req, acc, full, n)
    PROVE  MeansMetas(ops, req, acc)
<1> DEFINE S == Drafts(req, acc, full)
<1>1. Drafted(ops, S) /\ \A d \in S : DraftOf(d, req, acc, full)
  BY OperationsAreDrafted, DraftKinds
<1>2. ASSUME NEW l \in TargetsOf(req, {"list_update"}),
             Updated(req, acc, l) # acc.lists[l].meta
      PROVE  Has(ops, "list_update", l)
  <2> DEFINE d == UpdateDraft(l, req, acc)
  <2>1. d \in S
    BY <1>2 DEF Drafts, UpdateDrafts, UpdateDraft
  <2>2. d.kind = "list_update" /\ d.on = l
    BY DEF UpdateDraft, NoOp
  <2> HIDE DEF S, d
  <2>3. PICK i \in DOMAIN ops : DraftedAs(ops[i], d, ops)
    BY <1>1, <2>1 DEF Drafted
  <2>4. QED
    BY <2>2, <2>3 DEF DraftedAs, Has
<1> HIDE DEF S
<1>3. ASSUME NEW i \in DOMAIN ops, ops[i].kind = "list_update"
      PROVE  /\ ops[i].on \in TargetsOf(req, {"list_update"})
             /\ ops[i].to = Updated(req, acc, ops[i].on)
  <2>1. PICK d \in S : DraftedAs(ops[i], d, ops)
    BY <1>1 DEF Drafted
  <2>2. /\ DraftOf(d, req, acc, full) /\ d.kind = "list_update"
        /\ ops[i].on = d.on /\ ops[i].to = d.to
    BY <1>1, <1>3, <2>1 DEF DraftedAs
  <2>3. d.on \in TargetsOf(req, {"list_update"})
    BY <2>2 DEF DraftOf
  <2>4. d.to = Updated(req, acc, d.on)
    BY <2>2, DraftFields, Zenon
  <2>5. QED
    BY <2>2, <2>3, <2>4
<1>4. QED
  BY <1>2, <1>3 DEF MeansMetas

LEMMA PlanMeansFiles ==
    ASSUME NEW ops, NEW req, NEW acc, NEW full, NEW n, Planned(ops, req, acc, full, n)
    PROVE  MeansFiles(ops, req, acc)
<1> DEFINE S == Drafts(req, acc, full)
<1>1. Drafted(ops, S) /\ \A d \in S : DraftOf(d, req, acc, full)
  BY OperationsAreDrafted, DraftKinds
<1>2. \A r : MembershipDraft(r, req, acc).made = Created(req, r)
  BY DEF MembershipDraft, NoOp
<1>3. ASSUME NEW r \in ReposOf(req, Membership),
             Created(req, r) # {} \/ Existing(req, acc, r) # ListsOf(acc, r)
      PROVE  Has(ops, "list_membership_set", r)
  <2> DEFINE d == MembershipDraft(r, req, acc)
  <2>1. d \in S
    BY <1>3 DEF Drafts, MembershipDrafts, MembershipDraft
  <2>2. d.kind = "list_membership_set" /\ d.on = r
    BY DEF MembershipDraft, NoOp
  <2> HIDE DEF S, d
  <2>3. PICK i \in DOMAIN ops : DraftedAs(ops[i], d, ops)
    BY <1>1, <2>1 DEF Drafted
  <2>4. QED
    BY <2>2, <2>3 DEF DraftedAs, Has
<1> HIDE DEF S
<1>4. ASSUME NEW i \in DOMAIN ops, ops[i].kind = "list_membership_set"
      PROVE  /\ ops[i].on \in ReposOf(req, Membership)
             /\ ops[i].targets = Existing(req, acc, ops[i].on)
             /\ ops[i].made = Makers(ops, Created(req, ops[i].on))
  <2>1. PICK d \in S : DraftedAs(ops[i], d, ops)
    BY <1>1 DEF Drafted
  <2>2. /\ DraftOf(d, req, acc, full) /\ d.kind = "list_membership_set"
        /\ ops[i].on = d.on /\ ops[i].targets = d.targets
        /\ ops[i].made = Makers(ops, d.made)
    BY <1>1, <1>4, <2>1 DEF DraftedAs
  <2>3. d.on \in ReposOf(req, Membership) /\ d = MembershipDraft(d.on, req, acc)
    BY <2>2 DEF DraftOf
  <2>4. d.targets = Existing(req, acc, d.on)
    BY <2>2, DraftFields, Zenon
  <2>5. d.made = Created(req, d.on)
    BY <1>2, <2>3, Zenon
  <2>6. QED
    BY <2>2, <2>3, <2>4, <2>5
<1>5. QED
  BY <1>3, <1>4 DEF MeansFiles

-----------------------------------------------------------------------------
(* What a plan that has been applied to its end has done, against what was  *)
(* asked for.                                                               *)

\* The plan ops has been applied to its end without a failure.
Ended(ops, rs, a, acc, req, full, cl) ==
    /\ \E n : Planned(ops, req, acc, full, n)
    /\ AsPlanned(ops, rs, a, acc, req, cl)
    /\ Undisturbed(ops, rs, a, acc, req)
    /\ DOMAIN rs = Ids(ops)
    /\ \E n : Account(a, n)
    /\ \A m \in acc.members : m[2] \in acc.starred

Asks(req, kind, r) == \E b \in req.actions : b.kind = kind /\ r \in b.repos
Files(req, r) == \E b \in req.actions : b.kind \in Membership /\ r \in b.repos

(* What is known of such a plan.                                            *)
LEMMA EndedPlan ==
    ASSUME NEW ops, NEW rs, NEW a, NEW acc, NEW req, NEW full, NEW cl,
           Ended(ops, rs, a, acc, req, full, cl)
    PROVE  /\ Means(ops, req, acc) /\ ~Conflicting(req, acc)
           /\ \A kind, x : Hit(ops, rs, kind, x) <=> Has(ops, kind, x)
           /\ \A i, j \in DOMAIN ops : ops[i].id = ops[j].id => i = j
<1>1. PICK n : Planned(ops, req, acc, full, n)
  BY DEF Ended
<1>2. Means(ops, req, acc)
  BY <1>1, PlanMeansStars, PlanMeansLists, PlanMeansMetas, PlanMeansFiles DEF Means
<1>3. ~Conflicting(req, acc)
  BY <1>1 DEF Planned, Resolvable, Refused
<1>4. \A i \in DOMAIN ops : ops[i].id \in DOMAIN rs
  BY DEF Ended, Ids
<1>5. \A kind, x : Hit(ops, rs, kind, x) <=> Has(ops, kind, x)
  BY <1>4 DEF Hit, Has
<1>6. \A i, j \in DOMAIN ops : ops[i].id = ops[j].id => i = j
  BY <1>1 DEF Planned, Executable
<1>7. QED
  BY <1>2, <1>3, <1>5, <1>6

(* What is asked for in the request's words, and without the protected.     *)
LEMMA AskedFor ==
    ASSUME NEW req
    PROVE  /\ \A r : r \in ReposOf(req, {"star"}) <=>
                         r \notin req.keepRepos /\ Asks(req, "star", r)
           /\ \A r : r \in ReposOf(req, {"unstar"}) <=>
                         r \notin req.keepRepos /\ Asks(req, "unstar", r)
           /\ \A r : r \in ReposOf(req, Membership) <=>
                         r \notin req.keepRepos /\ Files(req, r)
           /\ \A l : l \in TargetsOf(req, {"list_delete"}) <=>
                  /\ l \notin req.keepLists
                  /\ \E b \in req.actions : b.kind = "list_delete" /\ l \in b.lists
           /\ \A l : l \in TargetsOf(req, {"list_update"}) <=>
                  /\ l \notin req.keepLists
                  /\ \E b \in req.actions : b.kind = "list_update" /\ l \in b.lists
           /\ \A r : TornIn(r, req) <=> Asks(req, "unstar", r) /\ Files(req, r)
<1>1. \A kinds, r : r \in ReposOf(req, kinds) <=>
          /\ r \notin req.keepRepos
          /\ \E b \in req.actions : b.kind \in kinds /\ r \in b.repos
  BY DEF ReposOf, ActionsOf
<1>2. \A kinds, l : l \in TargetsOf(req, kinds) <=>
          /\ l \notin req.keepLists
          /\ \E b \in req.actions : b.kind \in kinds /\ l \in b.lists
  BY DEF TargetsOf, ActionsOf
<1>3. \A r : TornIn(r, req) <=> Asks(req, "unstar", r) /\ Files(req, r)
  BY DEF TornIn, ActionsOf, Asks, Files
<1>4. \A kind, x : x \in {kind} <=> x = kind
  OBVIOUS
<1>5. \A r : /\ r \in ReposOf(req, {"star"}) <=> r \notin req.keepRepos /\ Asks(req, "star", r)
             /\ r \in ReposOf(req, {"unstar"}) <=>
                    r \notin req.keepRepos /\ Asks(req, "unstar", r)
             /\ r \in ReposOf(req, Membership) <=> r \notin req.keepRepos /\ Files(req, r)
  BY <1>1 DEF Asks, Files
<1>6. \A l : /\ l \in TargetsOf(req, {"list_delete"}) <=>
                  /\ l \notin req.keepLists
                  /\ \E b \in req.actions : b.kind = "list_delete" /\ l \in b.lists
             /\ l \in TargetsOf(req, {"list_update"}) <=>
                  /\ l \notin req.keepLists
                  /\ \E b \in req.actions : b.kind = "list_update" /\ l \in b.lists
  BY <1>2
<1>7. QED
  BY <1>3, <1>5, <1>6

StarsAsked(a, acc, req) ==
    \A r \in Repo : r \in a.starred <=>
        IF r \in req.keepRepos THEN r \in acc.starred
        ELSE Asks(req, "star", r) \/ (r \in acc.starred /\ ~Asks(req, "unstar", r))

(* The stars are those that are asked for.                                  *)
LEMMA EndsWithStars ==
    ASSUME NEW ops, NEW rs, NEW a, NEW acc, NEW req, NEW full, NEW cl,
           Ended(ops, rs, a, acc, req, full, cl)
    PROVE  StarsAsked(a, acc, req)
<1>1. ASSUME NEW r \in Repo
      PROVE  r \in a.starred <=>
                IF r \in req.keepRepos THEN r \in acc.starred
                ELSE Asks(req, "star", r) \/ (r \in acc.starred /\ ~Asks(req, "unstar", r))
  <2> DEFINE kept == r \in req.keepRepos
             before == r \in acc.starred
             star == Asks(req, "star", r)
             unstar == Asks(req, "unstar", r)
  <2>1. r \in a.starred <=> Has(ops, "star", r) \/ (before /\ ~Has(ops, "unstar", r))
    <3>1. StarsSo(ops, rs, a, acc)
      BY DEF Ended, AsPlanned
    <3>2. QED
      BY <3>1, EndedPlan DEF StarsSo
  <2>2. /\ Has(ops, "star", r) <=> ~kept /\ star /\ ~before
        /\ Has(ops, "unstar", r) <=> ~kept /\ unstar /\ before
    BY EndedPlan, AskedFor DEF Means, MeansStars
  <2>3. kept \/ ~star \/ ~unstar
    <3>1. ReposOf(req, {"star"}) \cap ReposOf(req, {"unstar"}) = {}
      BY EndedPlan DEF Conflicting
    <3>2. QED
      BY <3>1, AskedFor
  <2>4. QED
    BY <2>1, <2>2, <2>3
<1>2. QED
  BY <1>1 DEF StarsAsked

ListsAsked(rs, a, acc, req) ==
    /\ \A l \in DOMAIN acc.lists :
        l \in DOMAIN a.lists <=>
            \/ l \in req.keepLists
            \/ ~ \E b \in req.actions : b.kind = "list_delete" /\ l \in b.lists
    /\ DOMAIN a.lists \ DOMAIN acc.lists =
           {rs[o].list : o \in {p \in DOMAIN rs : rs[p].list # 0}}

(* The Lists are those that are asked for, and the new ones those that the  *)
(* rows name.                                                               *)
LEMMA EndsWithLists ==
    ASSUME NEW ops, NEW rs, NEW a, NEW acc, NEW req, NEW full, NEW cl,
           Ended(ops, rs, a, acc, req, full, cl)
    PROVE  ListsAsked(rs, a, acc, req)
<1>1. ListsSo(ops, rs, a, acc) /\ Undisturbed(ops, rs, a, acc, req)
  BY DEF Ended, AsPlanned
<1>2. ASSUME NEW l \in DOMAIN acc.lists
      PROVE  l \in DOMAIN a.lists <=>
                \/ l \in req.keepLists
                \/ ~ \E b \in req.actions : b.kind = "list_delete" /\ l \in b.lists
  <2>1. l \in DOMAIN a.lists <=> ~Has(ops, "list_delete", l)
    BY <1>1, EndedPlan DEF ListsSo
  <2>2. Has(ops, "list_delete", l) <=> l \in TargetsOf(req, {"list_delete"})
    BY EndedPlan DEF Means, MeansLists
  <2>3. QED
    BY <2>1, <2>2, AskedFor
<1>3. \A o \in DOMAIN rs : rs[o].list # 0 =>
          rs[o].list \in DOMAIN a.lists /\ rs[o].list \notin DOMAIN acc.lists
  BY <1>1 DEF Undisturbed
<1>4. \A l \in DOMAIN a.lists \ DOMAIN acc.lists :
          \E o \in DOMAIN rs : rs[o].list = l /\ l # 0
  <2>1. PICK n : Account(a, n)
    BY DEF Ended
  <2>2. DOMAIN a.lists \subseteq 1..n
    BY <2>1 DEF Account
  <2>3. \A l \in DOMAIN a.lists : l # 0
    BY <2>2
  <2>4. QED
    BY <1>1, <2>3 DEF ListsSo
<1>5. DOMAIN a.lists \ DOMAIN acc.lists =
          {rs[o].list : o \in {p \in DOMAIN rs : rs[p].list # 0}}
  BY <1>3, <1>4
<1>6. QED
  BY <1>2, <1>5 DEF ListsAsked

Says(req, l, f) ==
    {b \in req.actions : /\ b.kind = "list_update" /\ l \in b.lists
                         /\ l \notin req.keepLists
                         /\ \E v \in b.fields : v[1] = f}
MetasAsked(a, acc, req) ==
    \A l \in DOMAIN acc.lists : l \in DOMAIN a.lists => \A f \in Field :
        IF Says(req, l, f) = {}
        THEN a.lists[l].meta[f] = acc.lists[l].meta[f]
        ELSE \A b \in Says(req, l, f) : <<f, a.lists[l].meta[f]>> \in b.fields

(* The metadata of a List are those that are asked for.                     *)
LEMMA EndsWithMetas ==
    ASSUME NEW ops, NEW rs, NEW a, NEW acc, NEW req, NEW full, NEW cl,
           Ended(ops, rs, a, acc, req, full, cl)
    PROVE  MetasAsked(a, acc, req)
<1>1. MetasSo(ops, rs, a, acc) /\ MeansMetas(ops, req, acc)
  BY EndedPlan DEF Ended, AsPlanned, Means
<1>2. SUFFICES ASSUME NEW l \in DOMAIN acc.lists, l \in DOMAIN a.lists, NEW f \in Field
               PROVE  /\ Says(req, l, f) = {} =>
                            a.lists[l].meta[f] = acc.lists[l].meta[f]
                      /\ \A b \in Says(req, l, f) : <<f, a.lists[l].meta[f]>> \in b.fields
  BY DEF MetasAsked
<1>3. CASE l \notin TargetsOf(req, {"list_update"})
  <2>1. Says(req, l, f) = {}
    BY <1>3, AskedFor DEF Says
  <2>2. ~Has(ops, "list_update", l)
    BY <1>1, <1>3 DEF MeansMetas, Has
  <2>3. a.lists[l].meta = acc.lists[l].meta
    BY <1>1, <1>2, <2>2, EndedPlan DEF MetasSo
  <2>4. QED
    BY <2>1, <2>3
<1>4. CASE l \in TargetsOf(req, {"list_update"})
  <2> DEFINE C == Changes(req, l)
             x == CHOOSE v \in C : v[1] = f
             value == a.lists[l].meta[f]
  <2>1. a.lists[l].meta = Updated(req, acc, l)
    <3>1. CASE Has(ops, "list_update", l)
      <4>1. PICK i \in DOMAIN ops : ops[i].kind = "list_update" /\ ops[i].on = l
        BY <3>1 DEF Has
      <4>2. ops[i].id \in DOMAIN rs
        BY DEF Ended, Ids
      <4>3. a.lists[l].meta = ops[i].to
        BY <1>1, <4>1, <4>2 DEF MetasSo
      <4>4. QED
        BY <1>1, <4>1, <4>3 DEF MeansMetas
    <3>2. CASE ~Has(ops, "list_update", l)
      <4>1. a.lists[l].meta = acc.lists[l].meta
        BY <1>1, <1>2, <3>2, EndedPlan DEF MetasSo
      <4>2. Updated(req, acc, l) = acc.lists[l].meta
        BY <1>1, <1>4, <3>2 DEF MeansMetas
      <4>3. QED
        BY <4>1, <4>2
    <3>3. QED
      BY <3>1, <3>2
  <2>2. value = IF \E v \in C : v[1] = f THEN x[2] ELSE acc.lists[l].meta[f]
    BY <2>1 DEF Updated
  <2>3. C = UNION {b.fields : b \in {d \in ActionsOf(req, {"list_update"}) : l \in d.lists}}
    BY DEF Changes
  <2>4. ASSUME NEW b \in Says(req, l, f)
        PROVE  <<f, value>> \in b.fields
    <3>1. b \in ActionsOf(req, {"list_update"}) /\ l \in b.lists
      BY <2>4 DEF Says, ActionsOf
    <3>2. PICK v \in b.fields : v[1] = f
      BY <2>4 DEF Says
    <3>3. v \in C
      BY <2>3, <3>1, <3>2
    <3>4. x \in C /\ x[1] = f
      BY <3>2, <3>3
    <3>5. value = x[2]
      BY <2>2, <3>2, <3>3
    <3>6. x[2] = v[2]
      <4> DEFINE U == UNION {d.fields : d \in ActionsOf(req, {"list_update"})}
      <4>1. C \subseteq U
        BY <2>3
      <4>2. ~Conflicting(req, acc)
        BY EndedPlan
      <4>3. \A y, z \in U : ~({y, z} \subseteq C /\ y[1] = z[1] /\ y[2] # z[2])
        BY <1>4, <4>2 DEF Conflicting
      <4> HIDE DEF C, U, x
      <4>4. QED
        BY <3>2, <3>3, <3>4, <4>1, <4>3
    <3>7. v \in Field \X Nat
      <4>1. PICK n : Planned(ops, req, acc, full, n)
        BY DEF Ended
      <4>2. Action(b)
        BY <3>1, <4>1 DEF Planned, Resolvable, Request, ActionsOf
      <4>3. QED
        BY <3>2, <4>2 DEF Action
    <3>8. v = <<f, value>>
      BY <3>2, <3>5, <3>6, <3>7
    <3>9. QED
      BY <3>2, <3>8
  <2>5. ASSUME Says(req, l, f) = {}
        PROVE  value = acc.lists[l].meta[f]
    <3>1. \A v \in C : v[1] # f
      <4>1. SUFFICES ASSUME NEW v \in C, v[1] = f PROVE FALSE
        OBVIOUS
      <4>2. PICK b \in ActionsOf(req, {"list_update"}) : l \in b.lists /\ v \in b.fields
        BY <2>3, <4>1
      <4>3. b \in Says(req, l, f)
        BY <1>4, <4>1, <4>2, AskedFor DEF Says, ActionsOf
      <4>4. QED
        BY <2>5, <4>3
    <3>2. QED
      BY <2>2, <3>1
  <2>6. QED
    BY <2>4, <2>5
<1>5. QED
  BY <1>3, <1>4

(* A membership of the request puts a repository in its Lists and in the    *)
(* ones that are created for it.                                            *)
LEMMA FilesOfMembers ==
    ASSUME NEW ops, NEW rs, NEW a, NEW acc, NEW req, NEW full, NEW cl,
           Ended(ops, rs, a, acc, req, full, cl),
           NEW r \in Repo, ~TornIn(r, req), r \in ReposOf(req, Membership)
    PROVE  ListsOf(a, r) = Existing(req, acc, r) \cup NewOnes(rs, Makers(ops, Created(req, r)))
<1>1. FilesSo(ops, rs, a, acc, req, cl) /\ MeansFiles(ops, req, acc)
  BY EndedPlan DEF Ended, AsPlanned, Means
<1>2. CASE Has(ops, "list_membership_set", r)
  <2>1. PICK i \in DOMAIN ops : ops[i].kind = "list_membership_set" /\ ops[i].on = r
    BY <1>2 DEF Has
  <2>2. ops[i].id \in DOMAIN rs
    BY DEF Ended, Ids
  <2>3. FiledAs(ops[i], rs, a)
    BY <1>1, <2>1, <2>2 DEF FilesSo
  <2>4. ops[i].targets = Existing(req, acc, r) /\ ops[i].made = Makers(ops, Created(req, r))
    BY <1>1, <2>1 DEF MeansFiles
  <2>5. QED
    BY <2>1, <2>3, <2>4 DEF FiledAs
<1>3. CASE ~Has(ops, "list_membership_set", r)
  <2>1. Created(req, r) = {} /\ Existing(req, acc, r) = ListsOf(acc, r)
    BY <1>1, <1>3 DEF MeansFiles
  <2>2. ListsOf(a, r) = LeftIn(ops, rs, acc, cl, r)
    BY <1>1, <1>3, EndedPlan DEF FilesSo
  <2>3. ~Hit(ops, rs, "unstar", r)
    <3>1. r \notin ReposOf(req, {"unstar"})
      BY AskedFor
    <3>2. QED
      BY <3>1, EndedPlan DEF Means, MeansStars
  <2>4. \A l \in ListsOf(acc, r) : ~Hit(ops, rs, "list_delete", l)
    <3>1. \A l \in ListsOf(acc, r) : l \notin TargetsOf(req, {"list_delete"})
      BY EndedPlan DEF Conflicting
    <3>2. QED
      BY <3>1, EndedPlan DEF Means, MeansLists
  <2>5. ListsOf(a, r) = ListsOf(acc, r)
    BY <2>2, <2>3, <2>4 DEF LeftIn
  <2>6. NewOnes(rs, Makers(ops, {})) = {}
    BY DEF NewOnes, Makers
  <2>7. QED
    BY <2>1, <2>5, <2>6
<1>4. QED
  BY <1>2, <1>3

(* Any other repository is in the Lists it was in, but the deleted ones,    *)
(* and unless unstarring it takes it out of all.                            *)
LEMMA FilesOfOthers ==
    ASSUME NEW ops, NEW rs, NEW a, NEW acc, NEW req, NEW full, NEW cl,
           Ended(ops, rs, a, acc, req, full, cl),
           NEW r \in Repo, ~TornIn(r, req), r \notin ReposOf(req, Membership), NEW l
    PROVE  l \in ListsOf(a, r) <=>
               /\ l \in ListsOf(acc, r) /\ l \notin TargetsOf(req, {"list_delete"})
               /\ ~(cl /\ r \in ReposOf(req, {"unstar"}))
<1>1. FilesSo(ops, rs, a, acc, req, cl) /\ MeansFiles(ops, req, acc)
  BY EndedPlan DEF Ended, AsPlanned, Means
<1>2. ~Hit(ops, rs, "list_membership_set", r)
  BY <1>1, EndedPlan DEF MeansFiles, Has
<1>3. ListsOf(a, r) = LeftIn(ops, rs, acc, cl, r)
  BY <1>1, <1>2 DEF FilesSo
<1>4. Hit(ops, rs, "unstar", r) <=> r \in ReposOf(req, {"unstar"}) \cap acc.starred
  BY EndedPlan DEF Means, MeansStars
<1>5. \A k : Hit(ops, rs, "list_delete", k) <=> k \in TargetsOf(req, {"list_delete"})
  BY EndedPlan DEF Means, MeansLists
<1>6. l \in ListsOf(acc, r) => r \in acc.starred
  BY DEF Ended, ListsOf
<1>7. QED
  BY <1>3, <1>4, <1>5, <1>6 DEF LeftIn

Of(req, kind, l, r) == \E b \in req.actions : b.kind = kind /\ l \in b.lists /\ r \in b.repos
Cuts(req, l) == \E b \in req.actions : b.kind = "list_delete" /\ l \in b.lists
Wants(req, acc, cl, l, r) ==
    IF r \in req.keepRepos
    THEN <<l, r>> \in acc.members /\ (l \in req.keepLists \/ ~Cuts(req, l))
    ELSE IF l \in req.keepLists
    THEN <<l, r>> \in acc.members /\ ~(Asks(req, "unstar", r) /\ cl)
    ELSE /\ ~Of(req, "list_membership_remove", l, r) /\ ~Cuts(req, l)
         /\ \/ Of(req, "list_membership_add", l, r) \/ Of(req, "list_membership_set", l, r)
            \/ /\ <<l, r>> \in acc.members /\ ~Asks(req, "list_membership_set", r)
               /\ ~(Asks(req, "unstar", r) /\ cl)

(* Where a repository is to be after the memberships of a request.          *)
LEMMA ExistingAsked ==
    ASSUME NEW req, NEW acc, NEW r, NEW l, l \notin req.keepLists
    PROVE  l \in Existing(req, acc, r) <=>
               /\ ~Of(req, "list_membership_remove", l, r)
               /\ \/ Of(req, "list_membership_add", l, r)
                  \/ Of(req, "list_membership_set", l, r)
                  \/ l \in ListsOf(acc, r) /\ ~Asks(req, "list_membership_set", r)
<1> DEFINE chosen == UNION {s.lists : s \in SetsOf(req, r)}
           base == IF SetsOf(req, r) = {} THEN ListsOf(acc, r) ELSE chosen
<1>1. Existing(req, acc, r) = ((base \cup AddedTo(req, r)) \ RemovedFrom(req, r))
                                \cup (ListsOf(acc, r) \cap req.keepLists)
  BY DEF Existing, WithProtected
<1>2. \A kind : \A b : b \in ForRepo(req, r, {kind}) <=>
          b \in req.actions /\ b.kind = kind /\ r \in b.repos
  BY DEF ForRepo, ActionsOf
<1>3. l \in AddedTo(req, r) <=> Of(req, "list_membership_add", l, r)
  BY <1>2 DEF AddedTo, Of
<1>4. l \in RemovedFrom(req, r) <=> Of(req, "list_membership_remove", l, r)
  BY <1>2 DEF RemovedFrom, Of
<1> DEFINE F == ForRepo(req, r, {"list_membership_set"})
<1>5. SetsOf(req, r) = {} <=> ~Asks(req, "list_membership_set", r)
  <2>1. SetsOf(req, r) = {[lists |-> b.lists \ req.keepLists, refs |-> b.refs] : b \in F}
    BY DEF SetsOf
  <2>2. \A b : b \in F <=> b \in req.actions /\ b.kind = "list_membership_set" /\ r \in b.repos
    BY <1>2
  <2> HIDE DEF F
  <2>3. SetsOf(req, r) = {} <=> F = {}
    BY <2>1
  <2>4. QED
    BY <2>2, <2>3 DEF Asks
<1>6. l \in chosen <=> Of(req, "list_membership_set", l, r)
  <2>1. \A b \in ForRepo(req, r, {"list_membership_set"}) :
            [lists |-> b.lists \ req.keepLists, refs |-> b.refs] \in SetsOf(req, r)
    BY DEF SetsOf
  <2>2. \A s \in SetsOf(req, r) : \E b \in ForRepo(req, r, {"list_membership_set"}) :
            s.lists = b.lists \ req.keepLists
    BY DEF SetsOf
  <2>3. \A b : [lists |-> b.lists \ req.keepLists, refs |-> b.refs].lists
                   = b.lists \ req.keepLists
    OBVIOUS
  <2>4. ASSUME l \in chosen PROVE Of(req, "list_membership_set", l, r)
    <3>1. PICK s \in SetsOf(req, r) : l \in s.lists
      BY <2>4
    <3>2. PICK b \in F : s.lists = b.lists \ req.keepLists
      BY <2>2
    <3>3. l \in b.lists
      BY <3>1, <3>2
    <3>4. b \in req.actions /\ b.kind = "list_membership_set" /\ r \in b.repos
      BY <1>2
    <3>5. QED
      BY <3>3, <3>4 DEF Of
  <2>5. ASSUME Of(req, "list_membership_set", l, r) PROVE l \in chosen
    <3>1. PICK b \in ForRepo(req, r, {"list_membership_set"}) : l \in b.lists
      BY <1>2, <2>5 DEF Of
    <3>2. QED
      BY <2>1, <2>3, <3>1
  <2>6. QED
    BY <2>4, <2>5
<1>7. Of(req, "list_membership_set", l, r) => Asks(req, "list_membership_set", r)
  BY DEF Of, Asks
<1>8. l \in base <=> \/ Of(req, "list_membership_set", l, r)
                     \/ l \in ListsOf(acc, r) /\ ~Asks(req, "list_membership_set", r)
  <2> HIDE DEF chosen
  <2>1. QED
    BY <1>5, <1>6, <1>7
<1> HIDE DEF base
<1>9. QED
  BY <1>1, <1>3, <1>4, <1>8

FilesAsked(a, acc, req, cl) ==
    \A l \in DOMAIN acc.lists : \A r \in Repo : ~TornIn(r, req) =>
        (<<l, r>> \in a.members <=> Wants(req, acc, cl, l, r))

(* A repository is in the Lists that it is asked to be in.                  *)
LEMMA EndsWithFiles ==
    ASSUME NEW ops, NEW rs, NEW a, NEW acc, NEW req, NEW full, NEW cl,
           Ended(ops, rs, a, acc, req, full, cl)
    PROVE  FilesAsked(a, acc, req, cl)
<1> SUFFICES ASSUME NEW l \in DOMAIN acc.lists, NEW r \in Repo, ~TornIn(r, req)
             PROVE  <<l, r>> \in a.members <=> Wants(req, acc, cl, l, r)
  BY DEF FilesAsked
<1> DEFINE kept == r \in req.keepRepos
           keep == l \in req.keepLists
           old == <<l, r>> \in acc.members
           now == <<l, r>> \in a.members
           cut == Cuts(req, l)
           unstar == Asks(req, "unstar", r)
           set == Asks(req, "list_membership_set", r)
           of(kind) == Of(req, kind, l, r)
<1>1. now <=> l \in ListsOf(a, r)
  <2>1. PICK n : Account(a, n)
    BY DEF Ended
  <2>2. now => l \in DOMAIN a.lists
    BY <2>1 DEF Account
  <2>3. QED
    BY <2>2 DEF ListsOf
<1>2. old <=> l \in ListsOf(acc, r)
  BY DEF ListsOf
<1>3. PICK n : Resolvable(req, acc, full, n)
  BY DEF Ended, Planned
<1>4. /\ l \in TargetsOf(req, {"list_delete"}) <=> ~keep /\ cut
      /\ r \in ReposOf(req, {"unstar"}) <=> ~kept /\ unstar
      /\ r \in ReposOf(req, Membership) <=> ~kept /\ Files(req, r)
      /\ ~(unstar /\ Files(req, r))
  BY AskedFor DEF Cuts
<1>5. CASE r \in ReposOf(req, Membership)
  <2>1. ~kept /\ ~unstar
    BY <1>4, <1>5
  <2>2. now <=> l \in Existing(req, acc, r)
    <3>1. l \notin NewOnes(rs, Makers(ops, Created(req, r)))
      <4>1. SUFFICES ASSUME NEW c \in Makers(ops, Created(req, r)), rs[c].list = l
                     PROVE  FALSE
        BY DEF NewOnes
      <4>2. PICK j \in DOMAIN ops : c = ops[j].id /\ ops[j].kind = "list_create"
        BY <4>1 DEF Makers
      <4>3. c \in DOMAIN rs
        BY <4>2 DEF Ended, Ids
      <4>4. rs[c].list \notin DOMAIN acc.lists
        BY <4>2, <4>3 DEF Ended, AsPlanned, MetasSo
      <4>5. QED
        BY <4>1, <4>4
    <3>2. ListsOf(a, r) = Existing(req, acc, r) \cup NewOnes(rs, Makers(ops, Created(req, r)))
      BY <1>5, FilesOfMembers
    <3>3. QED
      BY <1>1, <3>1, <3>2
  <2>3. CASE keep
    <3>1. l \in Existing(req, acc, r) <=> l \in ListsOf(acc, r)
      BY <2>3, ProtectedStay
    <3>2. QED
      BY <1>2, <2>1, <2>2, <2>3, <3>1 DEF Wants
  <2>4. CASE ~keep
    <3>1. l \in Existing(req, acc, r) <=>
              /\ ~of("list_membership_remove")
              /\ of("list_membership_add") \/ of("list_membership_set") \/ (old /\ ~set)
      BY <1>2, <2>4, ExistingAsked
    <3>2. cut => l \notin Existing(req, acc, r)
      <4>1. SUFFICES ASSUME cut PROVE l \notin Existing(req, acc, r)
        OBVIOUS
      <4>2. l \in TargetsOf(req, {"list_delete"})
        BY <1>4, <2>4, <4>1
      <4>3. l \notin MentionedFor(req, r) \cup ListsOf(acc, r)
        BY <1>3, <1>5, <4>2, DeletedAlone
      <4>4. QED
        BY <1>3, <4>3, TargetsMentioned
    <3>3. QED
      BY <2>1, <2>2, <2>4, <3>1, <3>2 DEF Wants
  <2>5. QED
    BY <2>3, <2>4
<1>6. CASE r \notin ReposOf(req, Membership)
  <2>1. now <=> old /\ ~(~keep /\ cut) /\ ~(cl /\ ~kept /\ unstar)
    <3>1. l \in ListsOf(a, r) <=>
               /\ l \in ListsOf(acc, r) /\ l \notin TargetsOf(req, {"list_delete"})
               /\ ~(cl /\ r \in ReposOf(req, {"unstar"}))
      BY <1>6, FilesOfOthers
    <3>2. QED
      BY <1>1, <1>2, <1>4, <3>1
  <2>2. CASE kept
    BY <2>1, <2>2 DEF Wants
  <2>3. CASE ~kept
    <3>1. ~Files(req, r)
      BY <1>4, <1>6, <2>3
    <3>2. /\ ~of("list_membership_remove") /\ ~of("list_membership_add")
          /\ ~of("list_membership_set") /\ ~set
      BY <3>1 DEF Files, Of, Asks, Membership
    <3>3. QED
      BY <2>1, <2>3, <3>2 DEF Wants
  <2>4. QED
    BY <2>2, <2>3
<1>7. QED
  BY <1>5, <1>6

NewAsked(rs, a, req) ==
    \A b \in ActionsOf(req, {"list_create"}) :
        \E l \in {rs[o].list : o \in {p \in DOMAIN rs : rs[p].list # 0}} :
            /\ a.lists[l].meta = b.meta
            /\ \A r \in Repo : ~TornIn(r, req) =>
                (<<l, r>> \in a.members <=>
                    /\ r \notin req.keepRepos
                    /\ \E d \in req.actions :
                        d.kind \in Membership /\ r \in d.repos /\ b.refs \subseteq d.refs)

(* Every List that is asked for is there, with the repositories that the    *)
(* request puts in it.                                                      *)
LEMMA EndsWithNew ==
    ASSUME NEW ops, NEW rs, NEW a, NEW acc, NEW req, NEW full, NEW cl,
           Ended(ops, rs, a, acc, req, full, cl)
    PROVE  NewAsked(rs, a, req)
<1> SUFFICES ASSUME NEW b \in ActionsOf(req, {"list_create"})
             PROVE  \E l \in {rs[o].list : o \in {p \in DOMAIN rs : rs[p].list # 0}} :
                        /\ a.lists[l].meta = b.meta
                        /\ \A r \in Repo : ~TornIn(r, req) =>
                            (<<l, r>> \in a.members <=>
                                /\ r \notin req.keepRepos
                                /\ \E d \in req.actions : /\ d.kind \in Membership
                                                          /\ r \in d.repos
                                                          /\ b.refs \subseteq d.refs)
  BY DEF NewAsked
<1>1. PICK i \in DOMAIN ops :
          ops[i].kind = "list_create" /\ b.refs = {ops[i].on} /\ ops[i].to = b.meta
  BY EndedPlan DEF Means, MeansLists
<1> DEFINE id == ops[i].id
           l == rs[id].list
           c == ops[i].on
<1>2. id \in DOMAIN rs
  BY DEF Ended, Ids
<1>3. l \in (DOMAIN a.lists) \ DOMAIN acc.lists /\ a.lists[l].meta = b.meta
  <2>1. MetasSo(ops, rs, a, acc)
    BY DEF Ended, AsPlanned
  <2>2. QED
    BY <1>1, <1>2, <2>1 DEF MetasSo
<1>4. PICK n : Account(a, n)
  BY DEF Ended
<1>5. l # 0
  <2>1. l \in 1..n
    BY <1>3, <1>4 DEF Account
  <2>2. QED
    BY <2>1
<1>6. PICK m : Resolvable(req, acc, full, m)
  BY DEF Ended, Planned
<1>7. ASSUME NEW r \in Repo, ~TornIn(r, req)
      PROVE  <<l, r>> \in a.members <=>
                /\ r \notin req.keepRepos
                /\ \E d \in req.actions :
                    d.kind \in Membership /\ r \in d.repos /\ b.refs \subseteq d.refs
  <2>1. <<l, r>> \in a.members <=> l \in ListsOf(a, r)
    BY <1>3 DEF ListsOf
  <2>2. c \in Created(req, r) <=>
            \E d \in req.actions : d.kind \in Membership /\ r \in d.repos /\ b.refs \subseteq d.refs
    <3>1. \A d : b.refs \subseteq d.refs <=> c \in d.refs
      BY <1>1
    <3> HIDE DEF c
    <3>2. QED
      BY <3>1 DEF Created, ForRepo, ActionsOf
  <2>3. CASE r \in ReposOf(req, Membership)
    <3>1. ListsOf(a, r) = Existing(req, acc, r) \cup NewOnes(rs, Makers(ops, Created(req, r)))
      BY <1>7, <2>3, FilesOfMembers
    <3>2. l \notin Existing(req, acc, r)
      <4>1. Existing(req, acc, r) \subseteq DOMAIN acc.lists
        BY <1>6, TargetsMentioned
      <4>2. QED
        BY <1>3, <4>1
    <3>3. l \in NewOnes(rs, Makers(ops, Created(req, r))) <=> c \in Created(req, r)
      <4>1. ASSUME c \in Created(req, r)
            PROVE  l \in NewOnes(rs, Makers(ops, Created(req, r)))
        <5>1. id \in Makers(ops, Created(req, r))
          BY <1>1, <4>1 DEF Makers
        <5>2. QED
          BY <5>1 DEF NewOnes
      <4>2. ASSUME l \in NewOnes(rs, Makers(ops, Created(req, r)))
            PROVE  c \in Created(req, r)
        <5>1. PICK o \in Makers(ops, Created(req, r)) : rs[o].list = l
          BY <4>2 DEF NewOnes
        <5>2. PICK j \in DOMAIN ops :
                  ops[j].id = o /\ ops[j].kind = "list_create" /\ ops[j].on \in Created(req, r)
          BY <5>1 DEF Makers
        <5>3. o \in DOMAIN rs
          BY <5>2 DEF Ended, Ids
        <5>4. o = id
          <6>1. \A p, q \in DOMAIN rs : rs[p].list # 0 /\ rs[p].list = rs[q].list => p = q
            BY DEF Ended, AsPlanned, ListsSo
          <6>2. QED
            BY <1>2, <1>5, <5>1, <5>3, <6>1
        <5>5. i = j
          BY <5>2, <5>4, EndedPlan
        <5>6. QED
          BY <5>2, <5>5
      <4>3. QED
        BY <4>1, <4>2
    <3>4. r \notin req.keepRepos
      BY <2>3, AskedFor
    <3> HIDE DEF l, c
    <3>5. QED
      BY <2>1, <2>2, <3>1, <3>2, <3>3, <3>4
  <2>4. CASE r \notin ReposOf(req, Membership)
    <3>1. l \notin ListsOf(a, r)
      <4>1. l \notin ListsOf(acc, r)
        BY <1>3 DEF ListsOf
      <4>2. QED
        BY <1>7, <2>4, <4>1, FilesOfOthers
    <3>2. r \in req.keepRepos \/ ~Files(req, r)
      BY <2>4, AskedFor
    <3> HIDE DEF l, c
    <3>3. QED
      BY <2>1, <3>1, <3>2 DEF Files
  <2>5. QED
    BY <2>3, <2>4
<1> HIDE DEF id
<1>8. l \in {rs[o].list : o \in {p \in DOMAIN rs : rs[p].list # 0}}
  BY <1>2, <1>5
<1> HIDE DEF l, c
<1>9. QED
  BY <1>3, <1>7, <1>8

(* What the request wants of a membership, in the words of the property.    *)
LEMMA WantedIsAsked ==
    ASSUME NEW l, NEW r
    PROVE  WantedIn(l, r) <=> Wants(request, snapshot, clears, l, r)
<1>1. \A kind : Of(request, kind, l, r) <=>
          \E b \in request.actions : b.kind = kind /\ l \in b.lists /\ r \in b.repos
  BY DEF Of
<1>2. \A kind : Asks(request, kind, r) <=>
          \E b \in request.actions : b.kind = kind /\ r \in b.repos
  BY DEF Asks
<1>3. Cuts(request, l) <=>
          \E b \in request.actions : b.kind = "list_delete" /\ l \in b.lists
  BY DEF Cuts
<1>4. QED
  BY <1>1, <1>2, <1>3 DEF WantedIn, Wants

(* What applying a plan to its end does to the account is what the request  *)
(* says, action by action, with what is protected taken out                 *)
(* (resolveOperationRequests), whatever is asked of whatever account: the   *)
(* stars, the Lists, their metadata and what is in them; of the memberships *)
(* of a repository that the same request unstars it says nothing.           *)
THEOREM PlansDoWhatIsAsked == Spec => []AsRequested
<1>1. ShieldInv /\ HoldInv /\ DoneInv => AsRequested
  <2> SUFFICES ASSUME ShieldInv, HoldInv, DoneInv, phase = "finished", Completed,
                      touched = {}
               PROVE  AsRequested
    BY DEF AsRequested
  <2>1. Applying /\ Unfailed /\ Calm /\ DOMAIN rows = Ids(plan)
    BY DEF Applying, Completed, Unfailed, Calm, Ids
  <2>2. Ended(plan, rows, account, snapshot, request, complete, clears)
    BY <2>1 DEF DoneInv, HoldInv, ShieldInv, Knows, SoFar, Ended
  <2> DEFINE new == {made[o] : o \in DOMAIN made}
             asked(kind, r) == \E a \in request.actions : a.kind = kind /\ r \in a.repos
             free == {r \in Repo : ~Torn(r)}
             said(l, f) == {a \in request.actions :
                               /\ a.kind = "list_update" /\ l \in a.lists
                               /\ l \notin request.keepLists
                               /\ \E v \in a.fields : v[1] = f}
  <2>3. new = {rows[o].list : o \in {p \in DOMAIN rows : rows[p].list # 0}}
    BY DEF made
  <2>4. \A r \in Repo : r \in free <=> ~TornIn(r, request)
    BY DEF Torn, TornIn
  <2>5. \A r \in Repo : r \in account.starred <=>
            IF r \in request.keepRepos THEN r \in snapshot.starred
            ELSE asked("star", r) \/ (r \in snapshot.starred /\ ~asked("unstar", r))
    <3>1. StarsAsked(account, snapshot, request)
      BY <2>2, EndsWithStars
    <3>2. QED
      BY <3>1 DEF StarsAsked, Asks
  <2>6. \A l \in DOMAIN snapshot.lists : l \in DOMAIN account.lists <=>
            \/ l \in request.keepLists
            \/ ~ \E a \in request.actions : a.kind = "list_delete" /\ l \in a.lists
    BY <2>2, EndsWithLists DEF ListsAsked
  <2>7. \A l \in DOMAIN snapshot.lists : \A r \in free :
            <<l, r>> \in account.members <=> WantedIn(l, r)
    <3>1. FilesAsked(account, snapshot, request, clears)
      BY <2>2, EndsWithFiles
    <3>2. \A r \in free : r \in Repo /\ ~TornIn(r, request)
      BY <2>4
    <3> HIDE DEF free
    <3>3. QED
      BY <3>1, <3>2, WantedIsAsked DEF FilesAsked
  <2>8. \A l \in DOMAIN snapshot.lists : l \in DOMAIN account.lists => \A f \in Field :
            IF said(l, f) = {}
            THEN account.lists[l].meta[f] = snapshot.lists[l].meta[f]
            ELSE \A a \in said(l, f) : <<f, account.lists[l].meta[f]>> \in a.fields
    <3>1. MetasAsked(account, snapshot, request)
      BY <2>2, EndsWithMetas
    <3>2. \A l, f : said(l, f) = Says(request, l, f)
      BY DEF Says
    <3> HIDE DEF said
    <3>3. QED
      BY <3>1, <3>2 DEF MetasAsked
  <2>9. DOMAIN account.lists \ DOMAIN snapshot.lists = new
    <3>1. ListsAsked(rows, account, snapshot, request)
      BY <2>2, EndsWithLists
    <3> HIDE DEF new
    <3>2. QED
      BY <2>3, <3>1, Zenon DEF ListsAsked
  <2>10. \A a \in ActionsOf(request, {"list_create"}) : \E l \in new :
            /\ account.lists[l].meta = a.meta
            /\ \A r \in free : <<l, r>> \in account.members <=>
                  /\ r \notin request.keepRepos
                  /\ \E b \in request.actions :
                      b.kind \in Membership /\ r \in b.repos /\ a.refs \subseteq b.refs
    <3>1. NewAsked(rows, account, request)
      BY <2>2, EndsWithNew
    <3>2. \A r \in free : r \in Repo /\ ~TornIn(r, request)
      BY <2>4
    <3> HIDE DEF free, new
    <3>3. QED
      BY <2>3, <3>1, <3>2 DEF NewAsked
  <2>11. QED
    BY <2>5, <2>6, <2>7, <2>8, <2>9, <2>10, Zenon DEF AsRequested
<1>2. QED
  BY <1>1, ShieldInvariant, HoldInvariant, DoneInvariant, PTL

=============================================================================
