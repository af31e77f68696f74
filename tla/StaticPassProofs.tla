--------------------------- MODULE StaticPassProofs ---------------------------
(***************************************************************************)
(* The static pass, proved for every disk, every way to spell what is      *)
(* scanned, and every depth of directories: the variables have their       *)
(* types; the test records and the smells are those of the disk's test     *)
(* files, in order; and pytest is sent to what was scanned, with the       *)
(* nearest environment.                                                    *)
(***************************************************************************)
EXTENDS StaticPass, FiniteSetTheorems, SequenceTheorems, TLAPS

-------------------------------------------------------------------------------
(* Numbers *)

\* Whoever counts on from 0 reaches every number.
LEMMA Counting ==
  ASSUME NEW S \in SUBSET Nat, 0 \in S, \A m \in S : m + 1 \in S
  PROVE  Nat \subseteq S
<1> SUFFICES ASSUME NEW k \in Nat, k \notin S PROVE FALSE
  OBVIOUS
<1> DEFINE T == {m \in S : m =< k}
           f == [m \in T |-> m + 1]
<1>1. T \in SUBSET Nat /\ 0 \in T
  <2>1. 0 =< k
    OBVIOUS
  <2> QED BY <2>1
<1>2. \A m \in T : m + 1 \in T
  <2> SUFFICES ASSUME NEW m \in T PROVE m + 1 =< k
    OBVIOUS
  <2>1. m \in Nat /\ m =< k /\ m # k
    OBVIOUS
  <2> QED BY <2>1
<1>3. \A m \in T : m =< k
  OBVIOUS
<1> HIDE DEF T
<1>4. IsFiniteSet(T)
  BY <1>1, <1>3, FS_BoundedSetOfNaturals
<1>5. f \in Injection(T, T)
  <2>1. \A a \in T, b \in T : f[a] = f[b] => a = b
    BY <1>1
  <2> QED BY <1>2, <2>1 DEF Injection, IsInjective
<1>6. f \in Surjection(T, T)
  BY <1>4, <1>5, FS_Injection
<1>7. PICK m \in T : f[m] = 0
  BY <1>1, <1>6 DEF Surjection
<1> QED BY <1>1, <1>7

\* A set of numbers that is not empty has a least element.
LEMMA LeastNumber ==
  ASSUME NEW S \in SUBSET Nat, S # {}
  PROVE  \E n \in S : \A m \in S : n =< m
<1> DEFINE U == {n \in Nat : \A m \in S : n =< m}
<1> SUFFICES ASSUME \A n \in S : n \notin U PROVE FALSE
  OBVIOUS
<1>1. U \in SUBSET Nat /\ 0 \in U
  OBVIOUS
<1>2. \A n \in U : n + 1 \in U
  <2> SUFFICES ASSUME NEW n \in U, NEW m \in S PROVE n + 1 =< m
    OBVIOUS
  <2>1. n \in Nat /\ m \in Nat /\ n =< m /\ n # m
    OBVIOUS
  <2> QED BY <2>1
<1>3. PICK k \in S : TRUE
  OBVIOUS
<1>4. k + 1 =< k
  <2>1. k + 1 \in Nat
    OBVIOUS
  <2>2. k + 1 \in U
    <3> HIDE DEF U
    <3> QED BY <1>1, <1>2, <2>1, Counting
  <2> QED BY <2>2
<1> QED BY <1>4

\* The numbers up to k are k.
LEMMA FirstNumbers ==
  ASSUME NEW k \in Nat
  PROVE  IsFiniteSet(1..k) /\ Cardinality(1..k) = k
<1>1. 1 \in Int /\ k \in Int
  OBVIOUS
<1>2. IsFiniteSet(1..k) /\ Cardinality(1..k) = IF 1 > k THEN 0 ELSE k - 1 + 1
  BY ONLY <1>1, FS_Interval
<1> QED BY <1>2

-------------------------------------------------------------------------------
(* Adding up *)

\* A total can be counted: so many units of each member.
Units(f, T) == UNION {{i} \X (1..f[i]) : i \in T}

LEMMA UnitsOfOne ==
  ASSUME NEW f, NEW x, f[x] \in Nat
  PROVE  IsFiniteSet({x} \X (1..f[x])) /\ Cardinality({x} \X (1..f[x])) = f[x]
<1>1. IsFiniteSet({x}) /\ Cardinality({x}) = 1
  BY FS_Singleton
<1>2. IsFiniteSet(1..f[x]) /\ Cardinality(1..f[x]) = f[x]
  BY FirstNumbers
<1>3. IsFiniteSet({x} \X (1..f[x]))
      /\ Cardinality({x} \X (1..f[x])) = Cardinality({x}) * Cardinality(1..f[x])
  BY ONLY <1>1, <1>2, FS_Product
<1> QED BY <1>1, <1>2, <1>3

LEMMA UnitsFinite ==
  ASSUME NEW T, IsFiniteSet(T), NEW f, \A i \in T : f[i] \in Nat
  PROVE  IsFiniteSet(Units(f, T)) /\ Cardinality(Units(f, T)) \in Nat
<1> DEFINE P == {{i} \X (1..f[i]) : i \in T}
           g == [i \in T |-> {i} \X (1..f[i])]
<1>1. g \in Surjection(T, P)
  BY DEF Surjection
<1>2. \A U \in P : IsFiniteSet(U)
  BY UnitsOfOne
<1> HIDE DEF g
<1>3. IsFiniteSet(P)
  BY <1>1, FS_Surjection
<1> HIDE DEF P
<1>4. IsFiniteSet(UNION P)
  BY <1>2, <1>3, FS_UNION
<1> QED BY <1>4, FS_CardinalityType DEF Units, P

\* Taking out a member takes its units.
LEMMA UnitsStep ==
  ASSUME NEW T, IsFiniteSet(T), NEW f, \A i \in T : f[i] \in Nat, NEW x \in T
  PROVE  Cardinality(Units(f, T)) = f[x] + Cardinality(Units(f, T \ {x}))
<1> DEFINE A == {x} \X (1..f[x])
           B == Units(f, T \ {x})
<1>1. Units(f, T) = A \cup B /\ A \cap B = {}
  BY DEF Units
<1>2. IsFiniteSet(A) /\ Cardinality(A) = f[x]
  BY UnitsOfOne
<1>3. IsFiniteSet(T \ {x}) /\ \A i \in T \ {x} : f[i] \in Nat
  BY FS_RemoveElement
<1>4. IsFiniteSet(B) /\ Cardinality(B) \in Nat
  BY <1>3, UnitsFinite
<1> HIDE DEF A, B
<1>5. Cardinality(A \cup B) = Cardinality(A) + Cardinality(B) - Cardinality(A \cap B)
  BY <1>2, <1>4, FS_Union
<1>6. Cardinality(A \cap B) = 0
  BY <1>1, FS_EmptySet
<1> QED BY <1>1, <1>2, <1>4, <1>5, <1>6 DEF B

\* h adds up f over the sets of members of S.
AddsUp(h, f, S) ==
  h = [T \in SUBSET S |->
         IF T = {} THEN 0
         ELSE f[CHOOSE x \in T : TRUE] + h[T \ {CHOOSE x \in T : TRUE}]]

LEMMA TotalIsAddedUp ==
  ASSUME NEW S, NEW f
  PROVE  Total(f, S) = (CHOOSE h : AddsUp(h, f, S))[S]
BY DEF Total, MapThenSumSet, MapThenFoldSet, AddsUp

LEMMA UnitsAddUp ==
  ASSUME NEW S, IsFiniteSet(S), NEW f, \A i \in S : f[i] \in Nat
  PROVE  AddsUp([T \in SUBSET S |-> Cardinality(Units(f, T))], f, S)
<1> DEFINE h == [T \in SUBSET S |-> Cardinality(Units(f, T))]
<1> SUFFICES ASSUME NEW T \in SUBSET S
             PROVE  h[T] = IF T = {} THEN 0
                           ELSE f[CHOOSE x \in T : TRUE] + h[T \ {CHOOSE x \in T : TRUE}]
  BY DEF AddsUp
<1>1. IsFiniteSet(T) /\ \A i \in T : f[i] \in Nat
  BY FS_Subset
<1>2. CASE T = {}
  <2>1. Units(f, T) = {}
    BY <1>2 DEF Units
  <2> QED BY <1>2, <2>1, FS_EmptySet
<1>3. CASE T # {}
  <2> DEFINE x == CHOOSE x \in T : TRUE
  <2>1. x \in T /\ T \ {x} \in SUBSET S
    BY <1>3
  <2> HIDE DEF x
  <2>2. Cardinality(Units(f, T)) = f[x] + Cardinality(Units(f, T \ {x}))
    BY <1>1, <2>1, UnitsStep
  <2> QED BY <1>3, <2>1, <2>2 DEF x
<1> QED BY <1>2, <1>3

\* There is one way to add up.
LEMMA AddsUpOnce ==
  ASSUME NEW S, IsFiniteSet(S), NEW f, NEW g, AddsUp(g, f, S), NEW h, AddsUp(h, f, S)
  PROVE  g[S] = h[S]
<1> DEFINE Bad == {T \in SUBSET S : g[T] # h[T]}
           N == {Cardinality(T) : T \in Bad}
<1>0. \A T \in SUBSET S : IsFiniteSet(T) /\ Cardinality(T) \in Nat
  BY FS_Subset, FS_CardinalityType
<1> SUFFICES ASSUME Bad # {} PROVE FALSE
  OBVIOUS
<1>1. PICK n \in N : \A m \in N : n =< m
  <2>1. N \in SUBSET Nat /\ N # {}
    BY <1>0
  <2> HIDE DEF N
  <2> QED BY <2>1, LeastNumber
<1>2. PICK T \in Bad : Cardinality(T) = n
  BY <1>1
<1>3. /\ g[T] = IF T = {} THEN 0
                ELSE f[CHOOSE x \in T : TRUE] + g[T \ {CHOOSE x \in T : TRUE}]
      /\ h[T] = IF T = {} THEN 0
                ELSE f[CHOOSE x \in T : TRUE] + h[T \ {CHOOSE x \in T : TRUE}]
  BY DEF AddsUp
<1>4. T # {} /\ T \in SUBSET S
  BY <1>3
<1> DEFINE x == CHOOSE x \in T : TRUE
<1>5. x \in T /\ T \ {x} \in SUBSET S
  BY <1>4
<1>6. g[T \ {x}] # h[T \ {x}]
  BY <1>3, <1>4
<1> HIDE DEF x
<1>7. T \ {x} \in Bad
  BY <1>5, <1>6
<1>8. Cardinality(T \ {x}) = n - 1 /\ n \in Nat
  BY <1>0, <1>2, <1>4, <1>5, FS_RemoveElement
<1>9. n =< n - 1
  BY <1>1, <1>7, <1>8
<1> QED BY <1>8, <1>9

LEMMA TotalCounts ==
  ASSUME NEW S, IsFiniteSet(S), NEW f, \A i \in S : f[i] \in Nat
  PROVE  Total(f, S) = Cardinality(Units(f, S)) /\ Total(f, S) \in Nat
<1> DEFINE u == [T \in SUBSET S |-> Cardinality(Units(f, T))]
           h == CHOOSE h : AddsUp(h, f, S)
<1>1. AddsUp(u, f, S)
  BY UnitsAddUp
<1>2. AddsUp(h, f, S)
  BY <1>1
<1>3. u[S] = Cardinality(Units(f, S))
  OBVIOUS
<1>4. Total(f, S) = h[S]
  BY TotalIsAddedUp
<1> HIDE DEF u, h
<1> QED BY <1>1, <1>2, <1>3, <1>4, AddsUpOnce, UnitsFinite

-------------------------------------------------------------------------------
(* Finite sets in a strict order *)

\* R orders S strictly and totally.
StrictTotal(R, S) ==
  /\ \A x \in S : <<x, x>> \notin R
  /\ \A x, y, z \in S : <<x, y>> \in R /\ <<y, z>> \in R => <<x, z>> \in R
  /\ \A x, y \in S : x = y \/ <<x, y>> \in R \/ <<y, x>> \in R

Below(R, S, x) == {y \in S : <<y, x>> \in R}

\* What comes earlier has fewer elements below it.
LEMMA RankGrows ==
  ASSUME NEW S, IsFiniteSet(S), NEW R, StrictTotal(R, S), NEW x \in S, NEW y \in S
  PROVE  /\ Cardinality(Below(R, S, x)) \in Nat
         /\ Cardinality(Below(R, S, x)) < Cardinality(S)
         /\ <<x, y>> \in R => Cardinality(Below(R, S, x)) < Cardinality(Below(R, S, y))
<1> DEFINE B(z) == Below(R, S, z)
<1>1. \A T \in SUBSET S, U \in SUBSET S, z \in S :
        T \subseteq U /\ z \in U /\ z \notin T =>
          Cardinality(T) \in Nat /\ Cardinality(T) < Cardinality(U)
  <2> SUFFICES ASSUME NEW T \in SUBSET S, NEW U \in SUBSET S, NEW z \in S,
                      T \subseteq U, z \in U, z \notin T
               PROVE  Cardinality(T) \in Nat /\ Cardinality(T) < Cardinality(U)
    OBVIOUS
  <2>1. IsFiniteSet(U) /\ IsFiniteSet(T)
    BY FS_Subset
  <2>2. Cardinality(T) \in Nat /\ Cardinality(U) \in Nat
    BY <2>1, FS_CardinalityType
  <2>3. T \in SUBSET U /\ T # U
    OBVIOUS
  <2>4. Cardinality(T) =< Cardinality(U) /\ Cardinality(T) # Cardinality(U)
    BY <2>1, <2>3, FS_Subset
  <2> QED BY <2>2, <2>4
<1>2. B(x) \in SUBSET S /\ x \notin B(x) /\ B(y) \in SUBSET S
  BY DEF Below, StrictTotal
<1>3. <<x, y>> \in R => B(x) \subseteq B(y) /\ x \in B(y)
  BY DEF Below, StrictTotal
<1> QED BY <1>1, <1>2, <1>3

\* Every place below the size of a finite ordered set is taken.
LEMMA RankIsOnto ==
  ASSUME NEW S, IsFiniteSet(S), NEW R, StrictTotal(R, S),
         NEW k \in Nat, k < Cardinality(S)
  PROVE  \E x \in S : Cardinality(Below(R, S, x)) = k
<1> DEFINE n == Cardinality(S)
           f == [x \in S |-> Cardinality(Below(R, S, x)) + 1]
<1>1. n \in Nat
  BY FS_CardinalityType
<1>2. \A x \in S : f[x] \in 1..n
  <2> SUFFICES ASSUME NEW x \in S PROVE Cardinality(Below(R, S, x)) + 1 \in 1..n
    OBVIOUS
  <2>1. Cardinality(Below(R, S, x)) \in Nat /\ Cardinality(Below(R, S, x)) < n
    BY RankGrows
  <2> QED BY <1>1, <2>1
<1>3. \A x \in S, y \in S : f[x] = f[y] => x = y
  <2> SUFFICES ASSUME NEW x \in S, NEW y \in S, <<x, y>> \in R PROVE f[x] # f[y]
    BY DEF StrictTotal
  <2>1. /\ Cardinality(Below(R, S, x)) \in Nat
        /\ Cardinality(Below(R, S, y)) \in Nat
        /\ Cardinality(Below(R, S, x)) < Cardinality(Below(R, S, y))
    BY RankGrows
  <2> QED BY <2>1
<1>4. f \in Injection(S, 1..n)
  BY <1>2, <1>3 DEF Injection, IsInjective
<1>5. IsFiniteSet(1..n) /\ Cardinality(1..n) = n
  BY <1>1, FirstNumbers
<1>6. f \in Surjection(S, 1..n)
  BY <1>4, <1>5, FS_Injection
<1>7. PICK x \in S : f[x] = k + 1
  <2>1. k + 1 \in 1..n
    BY <1>1
  <2> QED BY <1>6, <2>1 DEF Surjection
<1>8. Cardinality(Below(R, S, x)) \in Nat
  BY RankGrows
<1> QED BY <1>7, <1>8

\* f goes up through S by R, in n steps.
Ascends(f, R, S, n) ==
  /\ f \in [1..n -> S]
  /\ \A a \in 1..n, b \in 1..n : a < b => <<f[a], f[b]>> \in R

\* Whoever goes up through S by as many steps as it has members visits each at
\* the place of its rank.
LEMMA RankOfPlace ==
  ASSUME NEW S, IsFiniteSet(S), NEW R, StrictTotal(R, S),
         NEW n \in Nat, n = Cardinality(S),
         NEW f, Ascends(f, R, S, n),
         NEW k \in 1..n
  PROVE  /\ Cardinality(Below(R, S, f[k])) = k - 1
         /\ \A x \in S : \E a \in 1..n : f[a] = x
<1>1. n \in Nat /\ IsFiniteSet(1..n) /\ Cardinality(1..n) = n
  BY FS_CardinalityType, FirstNumbers
<1>2. \A a \in 1..n, b \in 1..n : f[a] = f[b] => a = b
  <2> SUFFICES ASSUME NEW a \in 1..n, NEW b \in 1..n, a # b PROVE f[a] # f[b]
    OBVIOUS
  <2>1. a < b \/ b < a
    BY <1>1
  <2> QED BY <2>1 DEF StrictTotal, Ascends
<1>3. f \in Injection(1..n, S)
  BY <1>2 DEF Injection, IsInjective, Ascends
<1>4. f \in Surjection(1..n, S)
  BY <1>1, <1>3, FS_Injection
<1>5. \A x \in S : \E a \in 1..n : f[a] = x
  BY <1>4 DEF Surjection
<1> DEFINE B == Below(R, S, f[k])
           g == [a \in 1..(k - 1) |-> f[a]]
<1>6. B = {f[a] : a \in 1..(k - 1)}
  <2>1. ASSUME NEW a \in 1..(k - 1) PROVE f[a] \in B
    BY <1>1, <1>5, <2>1 DEF Below, Ascends
  <2>2. ASSUME NEW x \in B PROVE \E a \in 1..(k - 1) : x = f[a]
    <3>1. x \in S /\ <<x, f[k]>> \in R
      BY DEF Below
    <3>2. PICK a \in 1..n : f[a] = x
      BY <1>5, <3>1
    <3>3. a # k /\ ~(k < a)
      BY <3>1, <3>2 DEF StrictTotal, Ascends
    <3> QED BY <1>1, <3>2, <3>3
  <2> QED BY <2>1, <2>2
<1>7. k - 1 \in Nat /\ \A a \in 1..(k - 1) : a \in 1..n
  BY <1>1
<1> HIDE DEF B
<1>8. g \in Bijection(1..(k - 1), B)
  BY <1>2, <1>6, <1>7 DEF Ascends, Bijection, Injection, Surjection, IsInjective
<1>9. ExistsBijection(1..(k - 1), B)
  BY <1>8 DEF ExistsBijection
<1>10. IsFiniteSet(1..(k - 1)) /\ Cardinality(1..(k - 1)) = k - 1
  BY <1>7, FirstNumbers
<1>11. Cardinality(B) = k - 1
  BY <1>9, <1>10, FS_Bijection
<1> QED BY <1>5, <1>11 DEF B

\* So there is one way up.
LEMMA OneWayUp ==
  ASSUME NEW S, IsFiniteSet(S), NEW R, StrictTotal(R, S),
         NEW n \in Nat, n = Cardinality(S),
         NEW f, Ascends(f, R, S, n),
         NEW g, Ascends(g, R, S, n)
  PROVE  f = g
<1> SUFFICES ASSUME NEW k \in 1..n PROVE f[k] = g[k]
  <2>1. f = [k \in 1..n |-> f[k]] /\ g = [k \in 1..n |-> g[k]]
    BY DEF Ascends
  <2> QED BY <2>1
<1>1. Cardinality(Below(R, S, f[k])) = k - 1
  BY RankOfPlace
<1>11. Cardinality(Below(R, S, g[k])) = k - 1
  BY RankOfPlace
<1>2. /\ <<f[k], g[k]>> \in R =>
           Cardinality(Below(R, S, f[k])) < Cardinality(Below(R, S, g[k]))
      /\ <<g[k], f[k]>> \in R =>
           Cardinality(Below(R, S, g[k])) < Cardinality(Below(R, S, f[k]))
  BY RankGrows DEF Ascends
<1>3. k - 1 \in Int
  OBVIOUS
<1>4. <<f[k], g[k]>> \notin R /\ <<g[k], f[k]>> \notin R
  BY <1>1, <1>11, <1>2, <1>3
<1>5. f[k] \in S /\ g[k] \in S
  BY DEF Ascends
<1> QED BY <1>4, <1>5 DEF StrictTotal

-------------------------------------------------------------------------------
(* Sorting *)

\* R tells positions of D apart by some key.
WeakOrder(R, D) ==
  /\ \A i \in D : <<i, i>> \notin R
  /\ \A i, j, k \in D : <<i, j>> \in R /\ <<j, k>> \in R => <<i, k>> \in R
  /\ \A i, j, k \in D : <<i, j>> \notin R /\ <<j, k>> \notin R => <<i, k>> \notin R

\* p puts the positions of D in the order of a stable sort.
Sorts(p, R, D) ==
  /\ p \in [D -> D]
  /\ \A a \in D, b \in D : p[a] = p[b] => a = b
  /\ \A i \in D : \E a \in D : p[a] = i
  /\ \A a \in D, b \in D : a < b => Sooner(R, p[a], p[b])

\* The stable order is a strict one, and tells all positions apart.
LEMMA SoonerIsStrict ==
  ASSUME NEW n \in Nat, NEW R, WeakOrder(R, 1..n)
  PROVE  StrictTotal({x \in (1..n) \X (1..n) : Sooner(R, x[1], x[2])}, 1..n)
<1> DEFINE D == 1..n
           Q == {x \in D \X D : Sooner(R, x[1], x[2])}
<1>1. \A i \in D, j \in D : <<i, j>> \in Q <=> Sooner(R, i, j)
  OBVIOUS
<1>2. \A i \in D : ~Sooner(R, i, i)
  <2>1. \A i \in D : <<i, i>> \notin R
    BY DEF WeakOrder
  <2>2. \A i \in D : ~(i < i)
    OBVIOUS
  <2> QED BY <2>1, <2>2 DEF Sooner
<1>3. ASSUME NEW i \in D, NEW j \in D, NEW k \in D, Sooner(R, i, j), Sooner(R, j, k)
      PROVE  Sooner(R, i, k)
  <2>1. CASE <<i, j>> \in R \/ <<j, k>> \in R
    BY <1>3, <2>1 DEF Sooner, WeakOrder
  <2>2. CASE <<i, j>> \notin R /\ <<j, k>> \notin R
    <3>1. <<j, i>> \notin R /\ <<k, j>> \notin R /\ i < k
      BY <1>3, <2>2 DEF Sooner
    <3> QED BY <3>1 DEF Sooner, WeakOrder
  <2> QED BY <2>1, <2>2
<1>4. \A i \in D, j \in D : i = j \/ Sooner(R, i, j) \/ Sooner(R, j, i)
  BY DEF Sooner
<1> HIDE DEF D, Q
<1>5. StrictTotal(Q, D)
  BY <1>1, <1>2, <1>3, <1>4 DEF StrictTotal
<1> QED BY <1>5 DEF D, Q

\* What StablySorted returns is the list in the stable order, nothing lost.
LEMMA StablySortedSorts ==
  ASSUME NEW X, NEW s \in Seq(X), NEW R, WeakOrder(R, DOMAIN s)
  PROVE  /\ StablySorted(s, R) \in Seq(X)
         /\ Len(StablySorted(s, R)) = Len(s)
         /\ \E p : /\ Sorts(p, R, DOMAIN s)
                   /\ \A k \in DOMAIN s : StablySorted(s, R)[k] = s[p[k]]
<1> DEFINE n == Len(s)
           D == 1..n
           Q == {x \in D \X D : Sooner(R, x[1], x[2])}
           p == [k \in D |-> CHOOSE i \in D : Cardinality(Below(Q, D, i)) = k - 1]
<1>1. n \in Nat /\ DOMAIN s = D /\ \A i \in D : s[i] \in X
  OBVIOUS
<1>2. IsFiniteSet(D) /\ Cardinality(D) = n
  BY <1>1, FirstNumbers
<1>3. StrictTotal(Q, D)
  BY <1>1, SoonerIsStrict
<1>4. \A i \in D : Below(Q, D, i) = {j \in D : Sooner(R, j, i)}
  BY DEF Below
<1>5. StablySorted(s, R) =
        [k \in D |-> s[CHOOSE i \in D : Cardinality({j \in D : Sooner(R, j, i)}) = k - 1]]
  BY <1>1 DEF StablySorted
<1> HIDE DEF D, Q
<1>6. \A k \in D : p[k] \in D /\ Cardinality(Below(Q, D, p[k])) = k - 1
  <2> SUFFICES ASSUME NEW k \in D
               PROVE  \E i \in D : Cardinality(Below(Q, D, i)) = k - 1
    OBVIOUS
  <2>1. k - 1 \in Nat /\ k - 1 < Cardinality(D)
    BY <1>1, <1>2 DEF D
  <2> QED BY <1>2, <1>3, <2>1, RankIsOnto
<1>7. \A k \in D : StablySorted(s, R)[k] = s[p[k]]
  <2> SUFFICES ASSUME NEW k \in D
               PROVE  p[k] = CHOOSE i \in D : Cardinality({j \in D : Sooner(R, j, i)}) = k - 1
    BY <1>5
  <2>1. p[k] = CHOOSE i \in D : Cardinality(Below(Q, D, i)) = k - 1
    OBVIOUS
  <2> HIDE DEF p
  <2> QED BY <1>4, <2>1
<1>8. DOMAIN p = D
  OBVIOUS
<1> HIDE DEF p
<1>9. p \in [D -> D]
  <2>1. p = [k \in D |-> p[k]]
    BY DEF p
  <2> QED BY <1>6, <2>1
<1>10. \A a \in D, b \in D : p[a] = p[b] => a = b
  <2> SUFFICES ASSUME NEW a \in D, NEW b \in D, p[a] = p[b] PROVE a = b
    OBVIOUS
  <2>1. a - 1 = b - 1 /\ a \in Int /\ b \in Int
    BY <1>1, <1>6 DEF D
  <2> QED BY <2>1
<1>11. \A i \in D : \E a \in D : p[a] = i
  <2>1. p \in Injection(D, D)
    BY <1>9, <1>10 DEF Injection, IsInjective
  <2>2. p \in Surjection(D, D)
    BY <1>2, <2>1, FS_Injection
  <2> QED BY <2>2 DEF Surjection
<1>12. ASSUME NEW a \in D, NEW b \in D, a < b PROVE Sooner(R, p[a], p[b])
  <2>1. /\ p[a] \in D /\ p[b] \in D /\ a \in Int /\ b \in Int
        /\ Cardinality(Below(Q, D, p[a])) = a - 1 /\ Cardinality(Below(Q, D, p[b])) = b - 1
    BY <1>1, <1>6 DEF D
  <2>2. <<p[b], p[a]>> \in Q =>
          Cardinality(Below(Q, D, p[b])) < Cardinality(Below(Q, D, p[a]))
    BY <1>2, <1>3, <2>1, RankGrows
  <2>3. <<p[b], p[a]>> \notin Q /\ p[a] # p[b]
    BY <1>12, <2>1, <2>2
  <2>4. <<p[a], p[b]>> \in Q
    BY <1>3, <2>1, <2>3 DEF StrictTotal
  <2> QED BY <2>4 DEF Q
<1>13. Sorts(p, R, D)
  BY <1>9, <1>10, <1>11, <1>12 DEF Sorts
<1>14. StablySorted(s, R) \in [1..n -> X]
  <2> DEFINE r == StablySorted(s, R)
  <2>1. r = [k \in D |-> r[k]]
    BY <1>5
  <2> HIDE DEF r
  <2>2. \A k \in D : r[k] \in X
    BY <1>1, <1>6, <1>7 DEF r
  <2>3. r \in [D -> X]
    BY <2>1, <2>2
  <2> QED BY <2>3 DEF r, D
<1>15. StablySorted(s, R) \in Seq(X) /\ Len(StablySorted(s, R)) = n
  <2> DEFINE r == StablySorted(s, R)
  <2>1. r \in [1..n -> X]
    BY <1>14
  <2> HIDE DEF r, n
  <2>2. r \in Seq(X) /\ Len(r) = n
    BY <1>1, <2>1
  <2> QED BY <2>2 DEF r
<1> QED BY <1>1, <1>7, <1>13, <1>15

-------------------------------------------------------------------------------
(* Step by step *)

\* h goes n steps of F from a.
Goes(h, n, a, F) == h = [k \in 0..n |-> IF k = 0 THEN a ELSE F[<<k, h[k - 1]>>]]

\* Somebody does.
LEMMA GoesExists ==
  ASSUME NEW X, NEW a \in X, NEW n \in Nat, NEW F,
         \A k \in 1..n, x \in X : F[<<k, x>>] \in X
  PROVE  \E h : Goes(h, n, a, F) /\ h \in [0..n -> X]
<1> DEFINE S == {m \in Nat : m =< n => \E h : Goes(h, m, a, F) /\ h \in [0..m -> X]}
<1>1. 0 \in S
  <2> DEFINE h == [k \in 0..0 |-> a]
  <2>1. \A k \in 0..0 : k = 0
    OBVIOUS
  <2>2. Goes(h, 0, a, F) /\ h \in [0..0 -> X]
    BY <2>1 DEF Goes
  <2> QED BY <2>2
<1>2. ASSUME NEW m \in S PROVE m + 1 \in S
  <2> SUFFICES ASSUME m + 1 =< n
               PROVE  \E h : Goes(h, m + 1, a, F) /\ h \in [0..(m + 1) -> X]
    OBVIOUS
  <2>1. m =< n /\ m + 1 \in 1..n /\ m \in Nat
    OBVIOUS
  <2>2. PICK h : Goes(h, m, a, F) /\ h \in [0..m -> X]
    BY <2>1
  <2> DEFINE g == [k \in 0..(m + 1) |-> IF k = m + 1 THEN F[<<m + 1, h[m]>>] ELSE h[k]]
  <2>3. h[m] \in X /\ F[<<m + 1, h[m]>>] \in X
    BY <2>1, <2>2
  <2>4. g \in [0..(m + 1) -> X]
    BY <2>1, <2>2, <2>3
  <2>5. ASSUME NEW k \in 0..(m + 1)
        PROVE  g[k] = IF k = 0 THEN a ELSE F[<<k, g[k - 1]>>]
    <3>1. CASE k = m + 1
      <4>1. k # 0 /\ k - 1 = m /\ m \in 0..(m + 1) /\ m # m + 1
        BY <2>1, <3>1
      <4>2. g[k - 1] = h[m]
        BY <4>1
      <4> QED BY <3>1, <4>1, <4>2
    <3>2. CASE k # m + 1
      <4>1. k \in 0..m
        BY <2>1, <3>2
      <4>2. h[k] = IF k = 0 THEN a ELSE F[<<k, h[k - 1]>>]
        BY <2>2, <4>1 DEF Goes
      <4>3. k # 0 => k - 1 \in 0..(m + 1) /\ k - 1 # m + 1
        BY <2>1, <4>1
      <4> QED BY <3>2, <4>2, <4>3
    <3> QED BY <3>1, <3>2
  <2>6. Goes(g, m + 1, a, F)
    <3>1. g = [k \in 0..(m + 1) |-> g[k]]
      OBVIOUS
    <3> HIDE DEF g
    <3> QED BY <2>5, <3>1 DEF Goes
  <2> HIDE DEF g
  <2> QED BY <2>4, <2>6
<1>3. n \in S
  <2>1. S \in SUBSET Nat
    OBVIOUS
  <2> HIDE DEF S
  <2> QED BY <1>1, <1>2, <2>1, Counting
<1> QED BY <1>3

-------------------------------------------------------------------------------
(* The order of paths *)

\* p comes before q at component k: all the same until there, and then p ends or
\* has the lesser one.
DiffersAt(p, q, k) ==
  /\ k \in 1..Len(q)
  /\ \A j \in 1..(k - 1) : j =< Len(p) /\ p[j] = q[j]
  /\ k > Len(p) \/ Order[p[k]] < Order[q[k]]

\* Components compare by their order, which tells them apart.
LEMMA Components ==
  ASSUME NEW p \in Seq(Names)
  PROVE  /\ Len(p) \in Nat /\ DOMAIN p = 1..Len(p)
         /\ \A k \in 1..Len(p) : p[k] \in Names /\ Order[p[k]] \in Nat
<1>1. Len(p) \in Nat /\ DOMAIN p = 1..Len(p) /\ \A k \in 1..Len(p) : p[k] \in Names
  OBVIOUS
<1> QED BY <1>1, ComponentsAssumption

\* Two paths start alike if their components do.
LEMMA StartAlike ==
  ASSUME NEW p \in Seq(Names), NEW q \in Seq(Names),
         NEW m \in Nat, m =< Len(p), m =< Len(q)
  PROVE  SubSeq(p, 1, m) = SubSeq(q, 1, m) <=> \A j \in 1..m : p[j] = q[j]
<1>1. /\ SubSeq(p, 1, m) = [j \in 1..m |-> p[j]]
      /\ SubSeq(q, 1, m) = [j \in 1..m |-> q[j]]
  BY Components
<1>2. ASSUME SubSeq(p, 1, m) = SubSeq(q, 1, m), NEW j \in 1..m PROVE p[j] = q[j]
  BY <1>1, <1>2
<1>3. ASSUME \A j \in 1..m : p[j] = q[j]
      PROVE  [j \in 1..m |-> p[j]] = [j \in 1..m |-> q[j]]
  BY <1>3
<1> QED BY <1>1, <1>2, <1>3

\* Before, component by component.
LEMMA BeforeDiffers ==
  ASSUME NEW p \in Seq(Names), NEW q \in Seq(Names)
  PROVE  Before(p, q) <=> \E k \in Nat : DiffersAt(p, q, k)
<1>0. /\ Len(p) \in Nat /\ DOMAIN p = 1..Len(p)
      /\ Len(q) \in Nat /\ DOMAIN q = 1..Len(q)
  BY Components
<1>4. Len(p) \in Nat /\ Len(q) \in Nat
  BY <1>0
<1>1. ASSUME IsStrictPrefix(p, q) PROVE \E k \in Nat : DiffersAt(p, q, k)
  <2>1. Len(p) =< Len(q) /\ SubSeq(p, 1, Len(p)) = SubSeq(q, 1, Len(p)) /\ p # q
    BY <1>1 DEF IsStrictPrefix, IsPrefix
  <2>2. \A j \in 1..Len(p) : p[j] = q[j]
    BY <1>0, <2>1, StartAlike
  <2>3. Len(p) # Len(q)
    <3>1. p = SubSeq(p, 1, Len(p)) /\ q = SubSeq(q, 1, Len(q))
      OBVIOUS
    <3> QED BY <2>1, <3>1
  <2>4. DiffersAt(p, q, Len(p) + 1)
    <3>0. Len(p) =< Len(q)
      BY <2>1
    <3>1. Len(p) + 1 \in 1..Len(q) /\ Len(p) + 1 > Len(p) /\ (Len(p) + 1) - 1 = Len(p)
      BY <1>4, <2>3, <3>0
    <3>2. \A j \in 1..((Len(p) + 1) - 1) : j =< Len(p) /\ p[j] = q[j]
      BY <1>0, <2>2, <3>1
    <3> QED BY <3>1, <3>2 DEF DiffersAt
  <2> QED BY <1>0, <2>4
<1>2. ASSUME NEW k \in DOMAIN p \cap DOMAIN q,
             SubSeq(p, 1, k - 1) = SubSeq(q, 1, k - 1), Order[p[k]] < Order[q[k]]
      PROVE  \E j \in Nat : DiffersAt(p, q, j)
  <2>1. k - 1 \in Nat /\ k - 1 =< Len(p) /\ k - 1 =< Len(q) /\ k \in Nat
    BY <1>0
  <2>2. \A j \in 1..(k - 1) : p[j] = q[j]
    BY <1>2, <2>1, StartAlike
  <2>3. DiffersAt(p, q, k)
    BY <1>0, <1>2, <2>1, <2>2 DEF DiffersAt
  <2> QED BY <2>1, <2>3
<1>3. ASSUME NEW k \in Nat, DiffersAt(p, q, k) PROVE Before(p, q)
  <2>1. /\ k \in 1..Len(q)
        /\ \A j \in 1..(k - 1) : j =< Len(p) /\ p[j] = q[j]
        /\ k > Len(p) \/ Order[p[k]] < Order[q[k]]
    BY <1>3 DEF DiffersAt
  <2>2. k - 1 =< Len(p)
    <3>1. CASE k = 1
      BY <1>0, <3>1
    <3>2. CASE k > 1
      BY <2>1, <3>2
    <3> QED BY <2>1, <3>1, <3>2
  <2>3. CASE k > Len(p)
    <3>0. k \in 1..Len(q)
      BY <2>1
    <3>1. Len(p) = k - 1 /\ Len(p) =< Len(q) /\ Len(p) # Len(q)
      <4>1. Len(p) =< k - 1 /\ k - 1 =< Len(p)
        BY <1>4, <2>2, <2>3
      <4>2. k =< Len(q)
        BY <1>4, <3>0
      <4> QED BY <1>4, <4>1, <4>2
    <3>2. SubSeq(p, 1, Len(p)) = SubSeq(q, 1, Len(p))
      BY <1>0, <2>1, <3>1, StartAlike
    <3>3. p = SubSeq(p, 1, Len(p))
      OBVIOUS
    <3> QED BY <3>1, <3>2, <3>3 DEF Before, IsStrictPrefix, IsPrefix
  <2>4. CASE k =< Len(p)
    <3>1. k - 1 \in Nat /\ k - 1 =< Len(q) /\ k \in DOMAIN p \cap DOMAIN q
      BY <1>0, <2>1, <2>4
    <3>2. SubSeq(p, 1, k - 1) = SubSeq(q, 1, k - 1)
      BY <2>1, <2>2, <3>1, StartAlike
    <3>3. Order[p[k]] < Order[q[k]]
      <4>1. ~(k > Len(p))
        BY <1>0, <2>4
      <4> QED BY <2>1, <4>1
    <3> QED BY <3>1, <3>2, <3>3 DEF Before
  <2> QED BY <1>0, <2>3, <2>4
<1> QED BY <1>1, <1>2, <1>3 DEF Before

LEMMA BeforeIrreflexive ==
  ASSUME NEW p \in Seq(Names)
  PROVE  ~Before(p, p)
<1> SUFFICES ASSUME NEW k \in Nat, DiffersAt(p, p, k) PROVE FALSE
  BY BeforeDiffers
<1>1. Len(p) \in Nat /\ \A j \in 1..Len(p) : Order[p[j]] \in Nat
  BY Components
<1>2. k \in 1..Len(p) /\ (k > Len(p) \/ Order[p[k]] < Order[p[k]])
  BY DEF DiffersAt
<1>3. Order[p[k]] \in Nat /\ ~(k > Len(p))
  BY <1>1, <1>2
<1> QED BY <1>2, <1>3

\* The shorter of two common beginnings decides.
LEMMA BeforeTransitive ==
  ASSUME NEW a \in Seq(Names), NEW b \in Seq(Names), NEW c \in Seq(Names),
         Before(a, b), Before(b, c)
  PROVE  Before(a, c)
<1>1. PICK k \in Nat : DiffersAt(a, b, k)
  BY BeforeDiffers
<1>2. PICK m \in Nat : DiffersAt(b, c, m)
  BY BeforeDiffers
<1>3. /\ Len(a) \in Nat /\ Len(b) \in Nat /\ Len(c) \in Nat
      /\ \A j \in 1..Len(a) : Order[a[j]] \in Nat
      /\ \A j \in 1..Len(b) : Order[b[j]] \in Nat
      /\ \A j \in 1..Len(c) : Order[c[j]] \in Nat
  BY Components
<1>4. /\ k \in 1..Len(b)
      /\ \A j \in 1..(k - 1) : j =< Len(a) /\ a[j] = b[j]
      /\ k > Len(a) \/ Order[a[k]] < Order[b[k]]
  BY <1>1 DEF DiffersAt
<1>5. /\ m \in 1..Len(c)
      /\ \A j \in 1..(m - 1) : j =< Len(b) /\ b[j] = c[j]
      /\ m > Len(b) \/ Order[b[m]] < Order[c[m]]
  BY <1>2 DEF DiffersAt
<1>6. CASE k < m
  <2>1. k \in 1..Len(c) /\ b[k] = c[k]
    BY <1>3, <1>4, <1>5, <1>6
  <2>2. \A j \in 1..(k - 1) : j =< Len(a) /\ a[j] = c[j]
    BY <1>3, <1>4, <1>5, <1>6
  <2>3. DiffersAt(a, c, k)
    BY <1>4, <2>1, <2>2 DEF DiffersAt
  <2> QED BY <2>3, BeforeDiffers
<1>7. CASE m < k
  <2>1. m =< Len(a) /\ a[m] = b[m] /\ m =< Len(b)
    BY <1>3, <1>4, <1>5, <1>7
  <2>2. \A j \in 1..(m - 1) : j =< Len(a) /\ a[j] = c[j]
    BY <1>3, <1>4, <1>5, <1>7
  <2>3. Order[a[m]] < Order[c[m]]
    BY <1>3, <1>5, <2>1
  <2>4. DiffersAt(a, c, m)
    BY <1>5, <2>2, <2>3 DEF DiffersAt
  <2> QED BY <2>4, BeforeDiffers
<1>8. CASE m = k
  <2>1. \A j \in 1..(m - 1) : j =< Len(a) /\ a[j] = c[j]
    BY <1>3, <1>4, <1>5, <1>8
  <2>2. Order[b[m]] < Order[c[m]] /\ m \in 1..Len(b)
    BY <1>3, <1>4, <1>5, <1>8
  <2>3. m > Len(a) \/ Order[a[m]] < Order[c[m]]
    <3>1. CASE k > Len(a)
      BY <1>8, <3>1
    <3>2. CASE k =< Len(a) /\ Order[a[k]] < Order[b[k]]
      <4>1. /\ Order[a[m]] \in Nat /\ Order[b[m]] \in Nat /\ Order[c[m]] \in Nat
            /\ Order[a[m]] < Order[b[m]]
        BY <1>3, <1>4, <1>5, <1>8, <2>2, <3>2
      <4> QED BY <2>2, <4>1
    <3> QED BY <1>3, <1>4, <3>1, <3>2
  <2>4. DiffersAt(a, c, m)
    BY <1>5, <2>1, <2>3 DEF DiffersAt
  <2> QED BY <2>4, BeforeDiffers
<1> QED BY <1>3, <1>4, <1>5, <1>6, <1>7, <1>8

\* Two paths differ at some first place, and that decides.
LEMMA BeforeTotal ==
  ASSUME NEW a \in Seq(Names), NEW b \in Seq(Names), a # b
  PROVE  Before(a, b) \/ Before(b, a)
<1>1. /\ Len(a) \in Nat /\ DOMAIN a = 1..Len(a)
      /\ Len(b) \in Nat /\ DOMAIN b = 1..Len(b)
      /\ \A j \in 1..Len(a) : a[j] \in Names /\ Order[a[j]] \in Nat
      /\ \A j \in 1..Len(b) : b[j] \in Names /\ Order[b[j]] \in Nat
  BY Components
<1> DEFINE D == {k \in Nat : k > 0 /\ (k > Len(a) \/ k > Len(b) \/ a[k] # b[k])}
<1>2. PICK k \in D : \A m \in D : k =< m
  <2>1. Len(a) + 1 \in D
    BY <1>1
  <2>2. D \in SUBSET Nat /\ D # {}
    BY <2>1
  <2> HIDE DEF D
  <2> QED BY <2>2, LeastNumber
<1>3. k \in Nat /\ k > 0 /\ (k > Len(a) \/ k > Len(b) \/ a[k] # b[k])
  OBVIOUS
<1>4. \A j \in 1..(k - 1) : j =< Len(a) /\ j =< Len(b) /\ a[j] = b[j]
  <2> SUFFICES ASSUME NEW j \in 1..(k - 1) PROVE j \notin D
    BY <1>1, <1>3
  <2>1. j < k
    BY <1>3
  <2> HIDE DEF D
  <2> QED BY <1>2, <1>3, <2>1
<1> HIDE DEF D
<1>5. k - 1 =< Len(a) /\ k - 1 =< Len(b)
  <2>1. CASE k = 1
    BY <1>1, <2>1
  <2>2. CASE k > 1
    BY <1>3, <1>4, <2>2
  <2> QED BY <1>3, <2>1, <2>2
<1>6. CASE k > Len(a) /\ k > Len(b)
  <2>1. Len(a) = k - 1 /\ Len(b) = k - 1
    BY <1>1, <1>3, <1>5, <1>6
  <2>2. a = b
    BY <1>1, <1>4, <2>1
  <2> QED BY <2>2
<1>7. CASE k > Len(a) /\ k =< Len(b)
  <2>1. DiffersAt(a, b, k)
    BY <1>1, <1>3, <1>4, <1>7 DEF DiffersAt
  <2> QED BY <1>3, <2>1, BeforeDiffers
<1>8. CASE k =< Len(a) /\ k > Len(b)
  <2>1. DiffersAt(b, a, k)
    BY <1>1, <1>3, <1>4, <1>8 DEF DiffersAt
  <2> QED BY <1>3, <2>1, BeforeDiffers
<1>9. CASE k =< Len(a) /\ k =< Len(b)
  <2>1. k \in 1..Len(a) /\ k \in 1..Len(b) /\ a[k] # b[k]
    BY <1>1, <1>3, <1>9
  <2>2. Order[a[k]] # Order[b[k]] /\ Order[a[k]] \in Nat /\ Order[b[k]] \in Nat
    BY <1>1, <2>1, ComponentsAssumption
  <2>3. CASE Order[a[k]] < Order[b[k]]
    <3>1. DiffersAt(a, b, k)
      BY <1>4, <2>1, <2>3 DEF DiffersAt
    <3> QED BY <1>3, <3>1, BeforeDiffers
  <2>4. CASE Order[b[k]] < Order[a[k]]
    <3>1. DiffersAt(b, a, k)
      BY <1>4, <2>1, <2>4 DEF DiffersAt
    <3> QED BY <1>3, <3>1, BeforeDiffers
  <2> QED BY <2>2, <2>3, <2>4
<1> QED BY <1>1, <1>3, <1>6, <1>7, <1>8, <1>9

\* What comes first does so below any directory.
LEMMA BeforeBelow ==
  ASSUME NEW a \in Seq(Names), NEW x \in Seq(Names), NEW y \in Seq(Names)
  PROVE  Before(a \o x, a \o y) <=> Before(x, y)
<1>0. /\ a \o x \in Seq(Names) /\ a \o y \in Seq(Names)
      /\ Len(a) \in Nat /\ Len(x) \in Nat /\ Len(y) \in Nat
      /\ Len(a \o x) = Len(a) + Len(x) /\ Len(a \o y) = Len(a) + Len(y)
  OBVIOUS
<1>1. \A u \in Seq(Names) :
        /\ \A j \in 1..Len(a) : (a \o u)[j] = a[j]
        /\ \A j \in 1..Len(u) : (a \o u)[Len(a) + j] = u[j]
  OBVIOUS
<1>2. ASSUME NEW u \in Seq(Names), NEW v \in Seq(Names), Before(u, v)
      PROVE  Before(a \o u, a \o v)
  <2>1. PICK k \in Nat : DiffersAt(u, v, k)
    BY <1>2, BeforeDiffers
  <2>2. /\ k \in 1..Len(v)
        /\ \A j \in 1..(k - 1) : j =< Len(u) /\ u[j] = v[j]
        /\ k > Len(u) \/ Order[u[k]] < Order[v[k]]
    BY <2>1 DEF DiffersAt
  <2>3. /\ Len(u) \in Nat /\ Len(v) \in Nat
        /\ Len(a \o u) = Len(a) + Len(u) /\ Len(a \o v) = Len(a) + Len(v)
        /\ a \o u \in Seq(Names) /\ a \o v \in Seq(Names)
    OBVIOUS
  <2> DEFINE m == Len(a) + k
  <2>4. m \in Nat /\ m \in 1..Len(a \o v)
    BY <1>0, <2>2, <2>3
  <2>5. ASSUME NEW j \in 1..(m - 1)
        PROVE  j =< Len(a \o u) /\ (a \o u)[j] = (a \o v)[j]
    <3>1. CASE j =< Len(a)
      <4>1. j \in 1..Len(a)
        BY <1>0, <3>1
      <4>2. (a \o u)[j] = a[j] /\ (a \o v)[j] = a[j]
        BY <1>1, <4>1
      <4> QED BY <1>0, <2>3, <4>1, <4>2
    <3>2. CASE j > Len(a)
      <4> DEFINE i == j - Len(a)
      <4>1. i \in 1..(k - 1) /\ j = Len(a) + i /\ i \in 1..Len(v)
        BY <1>0, <2>2, <2>3, <3>2
      <4> HIDE DEF i
      <4>2. i =< Len(u) /\ u[i] = v[i] /\ i \in 1..Len(u)
        BY <2>2, <2>3, <4>1
      <4>3. (a \o u)[Len(a) + i] = u[i] /\ (a \o v)[Len(a) + i] = v[i]
        BY <1>1, <4>1, <4>2
      <4> QED BY <1>0, <2>3, <4>1, <4>2, <4>3
    <3>3. j =< Len(a) \/ j > Len(a)
      BY <1>0
    <3> QED BY <3>1, <3>2, <3>3
  <2>6. m > Len(a \o u) \/ Order[(a \o u)[m]] < Order[(a \o v)[m]]
    <3>1. CASE k > Len(u)
      BY <1>0, <2>3, <3>1
    <3>2. CASE k =< Len(u)
      <4>1. k \in 1..Len(u) /\ ~(k > Len(u))
        BY <2>2, <2>3, <3>2
      <4>2. (a \o u)[m] = u[k] /\ (a \o v)[m] = v[k]
        BY <1>1, <2>2, <4>1
      <4> QED BY <2>2, <4>1, <4>2
    <3>3. k > Len(u) \/ k =< Len(u)
      BY <2>3
    <3> QED BY <3>1, <3>2, <3>3
  <2> HIDE DEF m
  <2>7. DiffersAt(a \o u, a \o v, m)
    BY <2>4, <2>5, <2>6 DEF DiffersAt
  <2> QED BY <2>3, <2>4, <2>7, BeforeDiffers
<1>3. ASSUME Before(a \o x, a \o y) PROVE Before(x, y)
  <2>1. x # y
    BY <1>0, <1>3, BeforeIrreflexive
  <2>2. ASSUME Before(y, x) PROVE FALSE
    <3>1. Before(a \o y, a \o x)
      BY <1>2, <2>2
    <3>2. Before(a \o x, a \o x)
      BY <1>0, <1>3, <3>1, BeforeTransitive
    <3> QED BY <1>0, <3>2, BeforeIrreflexive
  <2> QED BY <2>1, <2>2, BeforeTotal
<1> QED BY <1>2, <1>3

\* The inputs are possible ones, and the project is a place.
Placed == disk \in Disks /\ call \in Calls /\ project \in Location

LEMMA FrontIsAPlace ==
  ASSUME NEW l \in Location
  PROVE  Front(l) \in Location
<1>1. CASE l = <<>>
  <2>1. SubSeq(<<>>, 1, Len(<<>>) - 1) = <<>>
    OBVIOUS
  <2> QED BY <1>1, <2>1 DEF Front
<1>2. CASE l # <<>>
  <2>1. l \in Seq(Names \ {Dot}) /\ Len(l) - 1 \in 0..Len(l)
    BY <1>2 DEF Location
  <2> QED BY <2>1 DEF Front, Location
<1> QED BY <1>1, <1>2

LEMMA PlacedInit == Init => Placed
<1> SUFFICES ASSUME Init PROVE Placed
  OBVIOUS
<1>1. disk \in Disks /\ call \in Calls
  BY DEF Init
<1> DEFINE place == Locate(call.cwd, call.path)
<1>2. place \in DOMAIN disk.node
  BY DEF Init, Exists
<1> HIDE DEF place
<1>3. place \in Location
  BY <1>1, <1>2, DisksAssumption DEF IsDisk
<1>4. project = place \/ project = Front(place)
  BY DEF Init, place
<1> QED BY <1>1, <1>3, <1>4, FrontIsAPlace DEF Placed

-------------------------------------------------------------------------------
(* The file system *)

\* No link lies on the way to l.
NoLinks(l) ==
  {k \in DOMAIN l : /\ SubSeq(l, 1, k) \in DOMAIN disk.node
                    /\ disk.node[SubSeq(l, 1, k)].kind = "link"} = {}

\* Putting paths together.
LEMMA Joined ==
  ASSUME NEW N, NEW p \in Seq(N), NEW x \in Seq(N)
  PROVE  /\ p \o x \in Seq(N) /\ Len(p \o x) = Len(p) + Len(x)
         /\ Len(p) \in Nat /\ Len(x) \in Nat
         /\ SubSeq(p \o x, 1, Len(p)) = p
         /\ SubSeq(p \o x, Len(p) + 1, Len(p \o x)) = x
         /\ \A j \in 1..Len(p) : (p \o x)[j] = p[j]
         /\ \A j \in 1..Len(x) : (p \o x)[Len(p) + j] = x[j]
OBVIOUS

\* And taking them apart.
LEMMA Parted ==
  ASSUME NEW N, NEW p \in Seq(N), NEW m \in 0..Len(p)
  PROVE  /\ SubSeq(p, 1, m) \in Seq(N) /\ Len(SubSeq(p, 1, m)) = m
         /\ SubSeq(p, m + 1, Len(p)) \in Seq(N)
         /\ p = SubSeq(p, 1, m) \o SubSeq(p, m + 1, Len(p))
<1>1. SubSeq(p, 1, m) \in Seq(N) /\ Len(SubSeq(p, 1, m)) = m
  OBVIOUS
<1>2. SubSeq(p, m + 1, Len(p)) \in Seq(N)
  <2>1. m + 1 \in Int /\ Len(p) \in Int /\ \A i \in m + 1..Len(p) : p[i] \in N
    OBVIOUS
  <2> QED BY <2>1, SubSeqProperties
<1>3. Len(p) \in Nat /\ 1 \in 1..Len(p) + 1 /\ m \in 1 - 1..Len(p) /\ Len(p) \in m..Len(p)
  OBVIOUS
<1>4. SubSeq(p, 1, m) \o SubSeq(p, m + 1, Len(p)) = SubSeq(p, 1, Len(p))
  BY <1>3, ConcatAdjacentSubSeq
<1>5. SubSeq(p, 1, Len(p)) = p
  BY SubSeqFull
<1> QED BY <1>1, <1>2, <1>4, <1>5

\* The beginning of what has been put together.
LEMMA BeginningOfJoined ==
  ASSUME NEW N, NEW p \in Seq(N), NEW x \in Seq(N), NEW k \in 1..Len(p)
  PROVE  /\ SubSeq(p \o x, 1, k) = SubSeq(p, 1, k)
         /\ SubSeq(p \o x, k + 1, Len(p \o x)) = SubSeq(p, k + 1, Len(p)) \o x
<1> DEFINE a == SubSeq(p, 1, k)
           b == SubSeq(p, k + 1, Len(p))
<1>1. 1 \in 1..Len(p) /\ k \in 0..Len(p)
  OBVIOUS
<1>2. SubSeq(p \o x, 1, k) = a
  BY <1>1, SubSeqOfConcat1
<1>3. a \in Seq(N) /\ Len(a) = k /\ b \in Seq(N) /\ p = a \o b
  BY <1>1, Parted
<1> HIDE DEF a, b
<1>4. b \o x \in Seq(N) /\ p \o x = a \o (b \o x)
  BY <1>3, ConcatAssociative, ConcatProperties
<1>5. \A y \in Seq(N) : SubSeq(a \o y, Len(a) + 1, Len(a \o y)) = y
  BY <1>3, Joined
<1> QED BY <1>2, <1>3, <1>4, <1>5 DEF a, b

\* The least is the minimum.
LEMMA LeastIsMin ==
  ASSUME NEW S \in SUBSET Nat, NEW n \in S, \A m \in S : n =< m
  PROVE  Min(S) = n
<1>1. \A x \in S : (\A y \in S : x =< y) => x = n
  <2> SUFFICES ASSUME NEW x \in S, \A y \in S : x =< y PROVE x = n
    OBVIOUS
  <2>1. x =< n /\ n =< x /\ x \in Nat /\ n \in Nat
    OBVIOUS
  <2> QED BY <2>1
<1> QED BY <1>1 DEF Min

LEMMA NodeTypes ==
  ASSUME Placed, NEW l \in DOMAIN disk.node
  PROVE  /\ l \in Location /\ disk.node[l] \in Node
         /\ \A k \in 0..Len(l) - 1 : /\ SubSeq(l, 1, k) \in DOMAIN disk.node
                                    /\ disk.node[SubSeq(l, 1, k)].kind = "dir"
BY DisksAssumption DEF Placed, IsDisk

LEMMA LocationsArePaths == Location \subseteq Seq(Names)
<1> SUFFICES ASSUME NEW l \in Seq(Names \ {Dot}) PROVE l \in Seq(Names)
  BY DEF Location
<1>1. \A k \in 1..Len(l) : l[k] \in Names
  OBVIOUS
<1> QED BY <1>1

\* One link further it is still a path.
LEMMA FollowFirstTyped ==
  ASSUME Placed, NEW l \in Seq(Names)
  PROVE  FollowFirst(l) \in Seq(Names)
<1> DEFINE links == {k \in DOMAIN l : /\ SubSeq(l, 1, k) \in DOMAIN disk.node
                                      /\ disk.node[SubSeq(l, 1, k)].kind = "link"}
<1>1. CASE links = {}
  BY <1>1 DEF FollowFirst
<1>2. CASE links # {}
  <2>1. links \in SUBSET Nat
    OBVIOUS
  <2> HIDE DEF links
  <2>2. Min(links) \in links
    <3>1. \E n \in links : \A m \in links : n =< m
      BY <1>2, <2>1, LeastNumber
    <3> QED BY <3>1 DEF Min
  <2> DEFINE k == Min(links)
  <2>3. /\ k \in 1..Len(l) /\ SubSeq(l, 1, k) \in DOMAIN disk.node
        /\ disk.node[SubSeq(l, 1, k)].kind = "link"
    BY <2>2 DEF links
  <2>4. FollowFirst(l) = disk.node[SubSeq(l, 1, k)].to \o SubSeq(l, k + 1, Len(l))
    BY <1>2 DEF FollowFirst, links
  <2> HIDE DEF k
  <2>5. disk.node[SubSeq(l, 1, k)].to \in Location
    BY <2>3, NodeTypes DEF Node
  <2>6. SubSeq(l, k + 1, Len(l)) \in Seq(Names)
    BY <2>3, Parted
  <2> QED BY <2>4, <2>5, <2>6, LocationsArePaths
<1> QED BY <1>1, <1>2

\* What comes after the first link is of no matter to it.
LEMMA FollowFirstBelow ==
  ASSUME Placed, NEW q \in Seq(Names), NEW x \in Seq(Names)
  PROVE  /\ NoLinks(q) => FollowFirst(q) = q
         /\ ~NoLinks(q) => FollowFirst(q \o x) = FollowFirst(q) \o x
<1> DEFINE Link(l, k) == /\ SubSeq(l, 1, k) \in DOMAIN disk.node
                         /\ disk.node[SubSeq(l, 1, k)].kind = "link"
           A == {k \in DOMAIN q : Link(q, k)}
           B == {k \in DOMAIN (q \o x) : Link(q \o x, k)}
<1>1. NoLinks(q) => FollowFirst(q) = q
  BY DEF FollowFirst, NoLinks
<1>2. ASSUME A # {} PROVE FollowFirst(q \o x) = FollowFirst(q) \o x
  <2>1. A \in SUBSET Nat /\ B \in SUBSET Nat
    OBVIOUS
  <2>2. \A k \in 1..Len(q) : k \in A <=> k \in B
    <3> SUFFICES ASSUME NEW k \in 1..Len(q) PROVE k \in A <=> k \in B
      OBVIOUS
    <3>1. SubSeq(q \o x, 1, k) = SubSeq(q, 1, k) /\ k \in DOMAIN q /\ k \in DOMAIN (q \o x)
      BY BeginningOfJoined
    <3> QED BY <3>1
  <2>3. A \subseteq 1..Len(q) /\ Len(q) \in Nat
    OBVIOUS
  <2>4. FollowFirst(q) = disk.node[SubSeq(q, 1, Min(A))].to \o SubSeq(q, Min(A) + 1, Len(q))
    BY <1>2 DEF FollowFirst
  <2>5. B # {} => FollowFirst(q \o x) = disk.node[SubSeq(q \o x, 1, Min(B))].to
                                      \o SubSeq(q \o x, Min(B) + 1, Len(q \o x))
    BY DEF FollowFirst
  <2>10. \A k \in A : disk.node[SubSeq(q, 1, k)].kind = "link" /\ SubSeq(q, 1, k) \in DOMAIN disk.node
    OBVIOUS
  <2> HIDE DEF A, B
  <2>6. PICK n \in A : \A m \in A : n =< m
    BY <1>2, <2>1, LeastNumber
  <2>7. Min(A) = n
    BY <2>1, <2>6, LeastIsMin
  <2>8. n \in B /\ \A m \in B : n =< m
    <3> SUFFICES ASSUME NEW m \in B PROVE n =< m
      BY <2>2, <2>3, <2>6
    <3>1. CASE m =< Len(q)
      <4>1. m \in Nat
        BY <2>1
      <4>2. m = 0 \/ m \in 1..Len(q)
        BY <2>3, <3>1, <4>1
      <4>3. m # 0
        BY DEF B
      <4> QED BY <2>2, <2>6, <4>2, <4>3
    <3>2. CASE ~(m =< Len(q))
      <4>1. m \in Nat /\ n \in 1..Len(q)
        BY <2>1, <2>3
      <4> QED BY <2>3, <3>2, <4>1
    <3> QED BY <3>1, <3>2
  <2>9. Min(B) = n
    BY <2>1, <2>8, LeastIsMin
  <2>11. n \in 1..Len(q) /\ B # {}
    BY <2>3, <2>8
  <2>12. /\ SubSeq(q \o x, 1, n) = SubSeq(q, 1, n)
         /\ SubSeq(q \o x, n + 1, Len(q \o x)) = SubSeq(q, n + 1, Len(q)) \o x
    BY <2>11, BeginningOfJoined
  <2> DEFINE to == disk.node[SubSeq(q, 1, n)].to
  <2>13. FollowFirst(q) = to \o SubSeq(q, n + 1, Len(q))
    BY <2>4, <2>7
  <2>14. FollowFirst(q \o x) = to \o (SubSeq(q, n + 1, Len(q)) \o x)
    BY <2>5, <2>9, <2>11, <2>12
  <2>15. to \in Seq(Names)
    <3>1. SubSeq(q, 1, n) \in DOMAIN disk.node /\ disk.node[SubSeq(q, 1, n)].kind = "link"
      BY <2>6, <2>10
    <3>2. to \in Location
      BY <3>1, NodeTypes DEF Node
    <3> QED BY <3>2, LocationsArePaths
  <2>16. SubSeq(q, n + 1, Len(q)) \in Seq(Names)
    <3>1. n \in 0..Len(q)
      BY <2>3, <2>11
    <3> QED BY <3>1, Parted
  <2> DEFINE rest == SubSeq(q, n + 1, Len(q))
  <2> HIDE DEF to, rest
  <2>17. (to \o rest) \o x = to \o (rest \o x)
    <3>1. rest \in Seq(Names)
      BY <2>16 DEF rest
    <3> QED BY <2>15, <3>1, ConcatAssociative
  <2> QED BY <2>13, <2>14, <2>17 DEF rest
<1> QED BY <1>1, <1>2 DEF NoLinks

\* h goes from l along the links.
Following(h, l) ==
  h = [n \in 0..MaxLinks |-> IF n = 0 THEN l ELSE FollowFirst(h[n - 1])]

LEMMA FollowIsFollowing ==
  ASSUME Placed, NEW l \in Seq(Names)
  PROVE  \E h : /\ Following(h, l)
                /\ h \in [0..MaxLinks -> Seq(Names)]
                /\ Follow(l) = h[MaxLinks]
<1> DEFINE F == [z \in (1..MaxLinks) \X Seq(Names) |-> FollowFirst(z[2])]
           c == CHOOSE h : Following(h, l)
<1>0. MaxLinks \in Nat
  BY ComponentsAssumption
<1>1. \A k \in 1..MaxLinks, x \in Seq(Names) : F[<<k, x>>] = FollowFirst(x)
  OBVIOUS
<1>2. \A k \in 1..MaxLinks, x \in Seq(Names) : F[<<k, x>>] \in Seq(Names)
  BY <1>1, FollowFirstTyped
<1> HIDE DEF F
<1>3. PICK h : Goes(h, MaxLinks, l, F) /\ h \in [0..MaxLinks -> Seq(Names)]
  BY <1>0, <1>2, GoesExists
<1>4. Following(h, l)
  <2>1. h = [k \in 0..MaxLinks |-> IF k = 0 THEN l ELSE F[<<k, h[k - 1]>>]]
    BY <1>3 DEF Goes
  <2>2. \A k \in 0..MaxLinks : k # 0 => k \in 1..MaxLinks /\ h[k - 1] \in Seq(Names)
    BY <1>0, <1>3
  <2>3. \A k \in 0..MaxLinks : k # 0 => F[<<k, h[k - 1]>>] = FollowFirst(h[k - 1])
    BY <1>1, <2>2
  <2> QED BY <2>1, <2>3 DEF Following
<1>5. Following(c, l)
  BY <1>4
<1>6. Follow(l) = c[MaxLinks]
  BY DEF Follow, Following
<1> HIDE DEF c
<1>7. c \in [0..MaxLinks -> Seq(Names)]
  <2> DEFINE S == {k \in Nat : k =< MaxLinks => c[k] \in Seq(Names)}
  <2>1. 0 \in S
    BY <1>0, <1>5 DEF Following
  <2>2. ASSUME NEW k \in S PROVE k + 1 \in S
    <3> SUFFICES ASSUME k + 1 =< MaxLinks PROVE c[k + 1] \in Seq(Names)
      OBVIOUS
    <3>1. k + 1 \in 0..MaxLinks /\ k + 1 # 0 /\ (k + 1) - 1 = k /\ k =< MaxLinks
      BY <1>0
    <3>2. c[k + 1] = FollowFirst(c[k])
      BY <1>5, <3>1 DEF Following
    <3> QED BY <3>1, <3>2, FollowFirstTyped
  <2>3. S \in SUBSET Nat
    OBVIOUS
  <2> HIDE DEF S
  <2>4. Nat \subseteq S
    BY <2>1, <2>2, <2>3, Counting
  <2> USE DEF S
  <2>5. \A k \in 0..MaxLinks : c[k] \in Seq(Names)
    BY <1>0, <2>4
  <2>6. c = [k \in 0..MaxLinks |-> c[k]]
    BY <1>5 DEF Following
  <2> QED BY <2>5, <2>6
<1> QED BY <1>5, <1>6, <1>7

\* Links are followed to what lies below as they are to the directory.
LEMMA FollowBelow ==
  ASSUME Placed, NEW q \in Seq(Names), NEW x \in Seq(Names),
         NoLinks(Follow(q) \o x)
  PROVE  Follow(q \o x) = Follow(q) \o x
<1>0. MaxLinks \in Nat /\ q \o x \in Seq(Names)
  BY ComponentsAssumption
<1>1. PICK h : /\ Following(h, q) /\ h \in [0..MaxLinks -> Seq(Names)]
               /\ Follow(q) = h[MaxLinks]
  BY FollowIsFollowing
<1>2. PICK g : /\ Following(g, q \o x) /\ g \in [0..MaxLinks -> Seq(Names)]
               /\ Follow(q \o x) = g[MaxLinks]
  BY <1>0, FollowIsFollowing
<1>3. \A k \in 0..MaxLinks : k # 0 => h[k] = FollowFirst(h[k - 1])
                                      /\ g[k] = FollowFirst(g[k - 1])
  BY <1>1, <1>2 DEF Following
<1>4. h[0] = q /\ g[0] = q \o x
  BY <1>0, <1>1, <1>2 DEF Following
\* Once there is no link left, nothing changes.
<1>5. ASSUME NEW n \in 0..MaxLinks, NoLinks(h[n]) PROVE Follow(q) = h[n]
  <2> DEFINE S == {k \in Nat : n + k =< MaxLinks => h[n + k] = h[n]}
  <2>1. 0 \in S
    OBVIOUS
  <2>2. ASSUME NEW k \in S PROVE k + 1 \in S
    <3> SUFFICES ASSUME n + (k + 1) =< MaxLinks PROVE h[n + (k + 1)] = h[n]
      OBVIOUS
    <3>1. /\ n + (k + 1) \in 0..MaxLinks /\ n + (k + 1) # 0 /\ (n + (k + 1)) - 1 = n + k
          /\ n + k =< MaxLinks
      BY <1>0
    <3>2. h[n + k] = h[n]
      BY <3>1
    <3>3. h[n + (k + 1)] = FollowFirst(h[n])
      BY <1>3, <3>1, <3>2
    <3>4. h[n] \in Seq(Names)
      BY <1>1
    <3> QED BY <1>5, <3>3, <3>4, FollowFirstBelow
  <2>3. S \in SUBSET Nat
    OBVIOUS
  <2> HIDE DEF S
  <2>4. Nat \subseteq S
    BY <2>1, <2>2, <2>3, Counting
  <2>5. MaxLinks - n \in Nat /\ n + (MaxLinks - n) = MaxLinks
    BY <1>0
  <2>6. MaxLinks - n \in S
    BY <2>4, <2>5
  <2>7. h[n + (MaxLinks - n)] = h[n]
    <3>1. n + (MaxLinks - n) =< MaxLinks
      BY <1>0, <2>5
    <3> QED BY <2>6, <3>1 DEF S
  <2> QED BY <1>1, <2>5, <2>7
<1> DEFINE S == {k \in Nat : k =< MaxLinks => g[k] = h[k] \o x}
<1>6. 0 \in S
  BY <1>4
<1>7. ASSUME NEW k \in S PROVE k + 1 \in S
  <2> SUFFICES ASSUME k + 1 =< MaxLinks PROVE g[k + 1] = h[k + 1] \o x
    OBVIOUS
  <2>1. k + 1 \in 0..MaxLinks /\ k + 1 # 0 /\ (k + 1) - 1 = k /\ k \in 0..MaxLinks
    BY <1>0
  <2>2. g[k] = h[k] \o x
    BY <2>1
  <2>3. h[k + 1] = FollowFirst(h[k]) /\ g[k + 1] = FollowFirst(h[k] \o x)
    BY <1>3, <2>1, <2>2
  <2>4. h[k] \in Seq(Names)
    BY <1>1, <2>1
  <2>5. CASE ~NoLinks(h[k])
    BY <2>3, <2>4, <2>5, FollowFirstBelow
  <2>6. CASE NoLinks(h[k])
    <3>1. Follow(q) = h[k]
      BY <1>5, <2>1, <2>6
    <3>2. FollowFirst(h[k] \o x) = h[k] \o x
      BY <3>1 DEF FollowFirst, NoLinks
    <3>3. FollowFirst(h[k]) = h[k]
      BY <2>6 DEF FollowFirst, NoLinks
    <3> QED BY <2>3, <3>2, <3>3
  <2> QED BY <2>5, <2>6
<1>8. S \in SUBSET Nat
  OBVIOUS
<1> HIDE DEF S
<1>9. MaxLinks \in S
  BY <1>0, <1>6, <1>7, <1>8, Counting
<1> QED BY <1>0, <1>1, <1>2, <1>9 DEF S

\* h takes the steps of p one by one.
Stepping(h, p) ==
  h = [k \in 0..Len(p) |->
         IF k = 0 THEN <<>>
         ELSE IF p[k] = Dot THEN h[k - 1] ELSE Append(h[k - 1], p[k])]

LEMMA StepsAreStepping ==
  ASSUME NEW p \in Seq(Names)
  PROVE  \E h : /\ Stepping(h, p)
                /\ h \in [0..Len(p) -> Seq(Names)]
                /\ Steps(p) = h[Len(p)]
<1> DEFINE X == Seq(Names)
           n == Len(p)
           F == [z \in (1..n) \X X |-> IF p[z[1]] = Dot THEN z[2] ELSE Append(z[2], p[z[1]])]
           c == CHOOSE h : Stepping(h, p)
<1>0. n \in Nat /\ \A k \in 1..n : p[k] \in Names
  OBVIOUS
<1>1. \A k \in 1..n, x \in X : F[<<k, x>>] = IF p[k] = Dot THEN x ELSE Append(x, p[k])
  OBVIOUS
<1>2. \A k \in 1..n, x \in X : (IF p[k] = Dot THEN x ELSE Append(x, p[k])) \in X
  BY <1>0, AppendProperties
<1>21. <<>> \in X
  OBVIOUS
<1> HIDE DEF F, X, n
<1>3. PICK h : Goes(h, n, <<>>, F) /\ h \in [0..n -> X]
  <2>1. \A k \in 1..n, x \in X : F[<<k, x>>] \in X
    BY <1>1, <1>2
  <2> QED BY <1>0, <1>21, <2>1, GoesExists
<1>4. Stepping(h, p)
  <2>1. h = [k \in 0..n |-> IF k = 0 THEN <<>> ELSE F[<<k, h[k - 1]>>]]
    BY <1>3 DEF Goes
  <2>2. \A k \in 0..n : k # 0 => k \in 1..n /\ h[k - 1] \in X
    BY <1>0, <1>3
  <2>3. \A k \in 0..n : k # 0 =>
          F[<<k, h[k - 1]>>] = IF p[k] = Dot THEN h[k - 1] ELSE Append(h[k - 1], p[k])
    BY <1>1, <2>2
  <2> QED BY <2>1, <2>3 DEF Stepping, n
<1>5. Stepping(c, p)
  BY <1>4
<1>6. Steps(p) = c[n]
  BY DEF Steps, Stepping, n
<1> HIDE DEF c
<1>8. c = [k \in 0..n |-> IF k = 0 THEN <<>>
                          ELSE IF p[k] = Dot THEN c[k - 1] ELSE Append(c[k - 1], p[k])]
  BY <1>5 DEF Stepping, n
<1>7. c \in [0..n -> X]
  <2> DEFINE S == {k \in Nat : k =< n => c[k] \in X}
  <2>1. 0 \in S
    BY <1>0, <1>21, <1>8
  <2>2. ASSUME NEW k \in S PROVE k + 1 \in S
    <3> SUFFICES ASSUME k + 1 =< n PROVE c[k + 1] \in X
      OBVIOUS
    <3>1. k + 1 \in 0..n /\ k + 1 \in 1..n /\ k + 1 # 0 /\ (k + 1) - 1 = k /\ k =< n
      BY <1>0
    <3>2. c[k + 1] = IF p[k + 1] = Dot THEN c[k] ELSE Append(c[k], p[k + 1])
      BY <1>8, <3>1
    <3>3. c[k] \in X
      BY <3>1
    <3> QED BY <1>2, <3>1, <3>2, <3>3
  <2>3. S \in SUBSET Nat
    OBVIOUS
  <2> HIDE DEF S
  <2>4. Nat \subseteq S
    BY <2>1, <2>2, <2>3, Counting
  <2>5. \A k \in 0..n : c[k] \in X
    BY <1>0, <2>4 DEF S
  <2>6. c = [k \in 0..n |-> c[k]]
    BY <1>8
  <2> QED BY <2>5, <2>6
<1> QED BY <1>5, <1>6, <1>7 DEF X, n

\* What has no `.` is gone through as it is.
LEMMA StepsBelow ==
  ASSUME NEW p \in Seq(Names), NEW x \in Seq(Names \ {Dot})
  PROVE  Steps(p \o x) = Steps(p) \o x /\ Steps(p) \in Seq(Names)
<1> DEFINE q == p \o x
           n == Len(p)
<1>0. /\ x \in Seq(Names) /\ q \in Seq(Names) /\ Len(q) = n + Len(x)
      /\ n \in Nat /\ Len(x) \in Nat
      /\ \A k \in 1..n : q[k] = p[k]
      /\ \A k \in 1..Len(x) : q[n + k] = x[k] /\ x[k] # Dot /\ x[k] \in Names
  <2>1. x \in Seq(Names)
    BY LocationsArePaths DEF Location
  <2>2. \A k \in 1..Len(x) : x[k] # Dot /\ x[k] \in Names
    OBVIOUS
  <2> QED BY <2>1, <2>2, Joined
<1> HIDE DEF q
<1>1. PICK h : Stepping(h, p) /\ h \in [0..n -> Seq(Names)] /\ Steps(p) = h[n]
  BY StepsAreStepping
<1>2. PICK g : Stepping(g, q) /\ g \in [0..Len(q) -> Seq(Names)] /\ Steps(q) = g[Len(q)]
  BY <1>0, StepsAreStepping
<1>3. \A k \in 0..n : h[k] = IF k = 0 THEN <<>>
                             ELSE IF p[k] = Dot THEN h[k - 1] ELSE Append(h[k - 1], p[k])
  BY <1>1 DEF Stepping
<1>4. \A k \in 0..Len(q) : g[k] = IF k = 0 THEN <<>>
                                  ELSE IF q[k] = Dot THEN g[k - 1] ELSE Append(g[k - 1], q[k])
  BY <1>2 DEF Stepping
<1> HIDE DEF n
<1> DEFINE S == {k \in Nat : k =< n => g[k] = h[k]}
<1>5. 0 \in S
  BY <1>0, <1>3, <1>4
<1>6. ASSUME NEW k \in S PROVE k + 1 \in S
  <2> SUFFICES ASSUME k + 1 =< n PROVE g[k + 1] = h[k + 1]
    OBVIOUS
  <2>1. /\ k + 1 \in 0..n /\ k + 1 \in 1..n /\ k + 1 \in 0..Len(q)
        /\ k + 1 # 0 /\ (k + 1) - 1 = k /\ k =< n
    BY <1>0
  <2>2. g[k] = h[k] /\ q[k + 1] = p[k + 1]
    BY <1>0, <2>1
  <2> QED BY <1>3, <1>4, <2>1, <2>2
<1>7. g[n] = h[n]
  <2>1. S \in SUBSET Nat
    OBVIOUS
  <2> HIDE DEF S
  <2>2. n \in S
    BY <1>0, <1>5, <1>6, <2>1, Counting
  <2> QED BY <1>0, <2>2 DEF S
<1> DEFINE T == {k \in Nat : k =< Len(x) => g[n + k] = h[n] \o SubSeq(x, 1, k)}
<1>8. h[n] \in Seq(Names)
  BY <1>0, <1>1
<1>9. 0 \in T
  <2>1. SubSeq(x, 1, 0) = <<>> /\ n + 0 = n /\ h[n] \o <<>> = h[n]
    BY <1>0, <1>8
  <2> QED BY <1>7, <2>1
<1>10. ASSUME NEW k \in T PROVE k + 1 \in T
  <2>0. k \in Nat /\ k + 1 \in Nat
    OBVIOUS
  <2> SUFFICES ASSUME k + 1 =< Len(x)
               PROVE  g[n + (k + 1)] = h[n] \o SubSeq(x, 1, k + 1)
    BY <2>0
  <2>1. /\ n + (k + 1) \in 0..Len(q) /\ k + 1 \in 1..Len(x)
        /\ n + (k + 1) # 0 /\ (n + (k + 1)) - 1 = n + k /\ k =< Len(x) /\ k \in 0..Len(x)
    BY <1>0
  <2>2. q[n + (k + 1)] = x[k + 1] /\ x[k + 1] # Dot /\ x[k + 1] \in Names
    BY <1>0, <2>1
  <2>3. g[n + k] = h[n] \o SubSeq(x, 1, k)
    BY <2>1
  <2>4. g[n + (k + 1)] = Append(h[n] \o SubSeq(x, 1, k), x[k + 1])
    BY <1>4, <2>1, <2>2, <2>3
  <2> DEFINE a == h[n]
             b == SubSeq(x, 1, k)
             e == x[k + 1]
  <2>5. b \in Seq(Names) /\ e \in Names
    BY <1>0, <2>1, <2>2, Parted
  <2>6. SubSeq(x, 1, k + 1) = b \o <<e>>
    <3>1. 1 \in 1..Len(x) /\ k + 1 \in 1..Len(x) /\ (k + 1) - 1 = k
      BY <2>1
    <3> QED BY <1>0, <3>1, SubSeqRecursiveSecond
  <2>7. a \in Seq(Names)
    BY <1>8
  <2> HIDE DEF a, b, e
  <2>8. Append(a \o b, e) = (a \o b) \o <<e>> /\ <<e>> \in Seq(Names)
    BY <2>5, <2>7, AppendIsConcat, ConcatProperties
  <2>9. (a \o b) \o <<e>> = a \o (b \o <<e>>)
    BY <2>5, <2>7, <2>8, ConcatAssociative
  <2> QED BY <2>4, <2>6, <2>8, <2>9 DEF a, b, e
<1>11. T \in SUBSET Nat
  OBVIOUS
<1> HIDE DEF T
<1>12. Len(x) \in T
  BY <1>0, <1>9, <1>10, <1>11, Counting
<1>13. SubSeq(x, 1, Len(x)) = x
  BY SubSeqFull
<1> QED BY <1>0, <1>1, <1>2, <1>8, <1>12, <1>13 DEF T, q

-------------------------------------------------------------------------------
(* What the walk comes by *)

\* A test file that the walk lists.
TestAt(l) ==
  /\ l \in Listed(Walked)
  /\ disk.node[l].kind = "file"
  /\ is_test_file(Last(l))

\* Its way below the directory walked, and the name the walk gives it.
Inside(l) == SubSeq(l, Len(Walked) + 1, Len(l))
Named(l) == [tests_dir EXCEPT !.parts = @ \o Inside(l)]

\* A path goes on.
LEMMA PathGoesOn ==
  ASSUME NEW t \in Path, NEW z
  PROVE  [t EXCEPT !.parts = @ \o z] = [abs |-> t.abs, parts |-> t.parts \o z]
<1>1. t \in [abs : BOOLEAN, parts : Seq(Names)]
  BY DEF Path
<1>2. \A w : [t EXCEPT !.parts = w] = [abs |-> t.abs, parts |-> w]
  BY <1>1
<1> QED BY <1>2

LEMMA CallTypes ==
  ASSUME Placed
  PROVE  /\ call.cwd \in Location /\ call.path \in Path /\ call.root \in Location
         /\ call.tests_dir # NoPath => call.tests_dir \in Path
         /\ call.unit \in {"file", "project", "member"}
         /\ call.unit # "project" => call.tests_dir = NoPath
BY CallsAssumption DEF Placed, Call

LEMMA TestsDirIsAPath ==
  ASSUME Placed
  PROVE  tests_dir \in Path /\ tests_dir.parts \in Seq(Names)
<1>1. CASE call.tests_dir # NoPath
  BY <1>1, CallTypes DEF tests_dir, Path
<1>2. CASE call.tests_dir = NoPath
  <2>1. project \in Seq(Names) /\ Tests \in Names
    BY LocationsArePaths, ComponentsAssumption DEF Placed
  <2>2. Append(project, Tests) \in Seq(Names)
    BY <2>1, AppendProperties
  <2> QED BY <1>2, <2>2 DEF tests_dir, Absolute, Path
<1> QED BY <1>1, <1>2

\* Every path leads to some place, if only one that is not there.
LEMMA LocateTyped ==
  ASSUME Placed, NEW cwd \in Location, NEW p \in Path
  PROVE  Locate(cwd, p) \in Seq(Names)
<1>1. cwd \in Seq(Names) /\ p.parts \in Seq(Names)
  BY LocationsArePaths DEF Path
<1>2. Steps(p.parts) \in Seq(Names)
  <2>1. <<>> \in Seq(Names \ {Dot})
    OBVIOUS
  <2> QED BY <1>1, <2>1, StepsBelow
<1>3. \A q \in Seq(Names) : Follow(q) \in Seq(Names)
  <2> SUFFICES ASSUME NEW q \in Seq(Names) PROVE Follow(q) \in Seq(Names)
    OBVIOUS
  <2>1. PICK h : h \in [0..MaxLinks -> Seq(Names)] /\ Follow(q) = h[MaxLinks]
    BY FollowIsFollowing
  <2>2. MaxLinks \in 0..MaxLinks
    BY ComponentsAssumption
  <2> QED BY <2>1, <2>2
<1>4. cwd \o Steps(p.parts) \in Seq(Names)
  BY <1>1, <1>2, ConcatProperties
<1> QED BY <1>1, <1>3, <1>4 DEF Locate

LEMMA WalkedTyped ==
  ASSUME Placed
  PROVE  Walked \in Seq(Names)
BY CallTypes, TestsDirIsAPath, LocateTyped DEF Walked

\* What is listed lies in the directory walked, on a way without links.
LEMMA ListedLiesInside ==
  ASSUME Placed, NEW l \in Listed(Walked)
  PROVE  /\ IsDir(Walked) /\ l \in DOMAIN disk.node /\ l \in Location /\ l # <<>>
         /\ Walked \in Location
         /\ Inside(l) \in Seq(Names \ {Dot})
         /\ l = Walked \o Inside(l)
         /\ disk.node[l].kind # "link" => NoLinks(l)
<1>1. l \in DOMAIN disk.node /\ IsPrefix(Walked, l) /\ Walked # l
  BY DEF Listed, IsStrictPrefix
<1>2. Walked \in Seq(Names)
  BY WalkedTyped
<1>3. /\ l \in Location /\ l \in Seq(Names \ {Dot})
      /\ \A k \in 0..Len(l) - 1 : /\ SubSeq(l, 1, k) \in DOMAIN disk.node
                                 /\ disk.node[SubSeq(l, 1, k)].kind = "dir"
  BY <1>1, NodeTypes DEF Location
<1>4. Len(Walked) =< Len(l) /\ SubSeq(Walked, 1, Len(Walked)) = SubSeq(l, 1, Len(Walked))
  BY <1>1 DEF IsPrefix
<1>5. SubSeq(Walked, 1, Len(Walked)) = Walked /\ SubSeq(l, 1, Len(l)) = l
  BY <1>2, <1>3, SubSeqFull
<1>6. Len(Walked) \in Nat /\ Len(l) \in Nat
  BY <1>2, <1>3
<1>7. Len(Walked) # Len(l)
  BY <1>1, <1>4, <1>5
<1>8. Len(Walked) \in 0..Len(l) - 1 /\ Len(Walked) \in 0..Len(l) /\ Len(l) # 0
  BY <1>4, <1>6, <1>7
<1>9. IsDir(Walked) /\ Walked \in Location
  <2>1. Walked \in DOMAIN disk.node /\ disk.node[Walked].kind = "dir"
    BY <1>3, <1>4, <1>5, <1>8
  <2> QED BY <2>1, NodeTypes DEF IsDir
<1>10. Inside(l) \in Seq(Names \ {Dot}) /\ l = Walked \o Inside(l)
  BY <1>3, <1>4, <1>5, <1>8, Parted DEF Inside
<1>11. ASSUME disk.node[l].kind # "link" PROVE NoLinks(l)
  <2> SUFFICES ASSUME NEW k \in DOMAIN l,
                      SubSeq(l, 1, k) \in DOMAIN disk.node,
                      disk.node[SubSeq(l, 1, k)].kind = "link"
               PROVE  FALSE
    BY DEF NoLinks
  <2>1. k \in 1..Len(l)
    BY <1>3
  <2>2. k = Len(l) \/ k \in 0..Len(l) - 1
    BY <1>6, <2>1
  <2> QED BY <1>3, <1>5, <1>11, <2>2
<1>12. l # <<>>
  <2>1. Len(<<>>) = 0
    OBVIOUS
  <2> QED BY <1>8, <2>1
<1> QED BY <1>1, <1>3, <1>9, <1>10, <1>11, <1>12

\* The name of a test file leads to it from where the scan runs.
LEMMA NamesLeadThere ==
  ASSUME Placed, NEW l, TestAt(l)
  PROVE  /\ Locate(call.cwd, Named(l)) = l
         /\ Named(l) \in Path
         /\ Named(l).parts = tests_dir.parts \o Inside(l)
<1> DEFINE x == Inside(l)
           p == tests_dir.parts
<1>1. /\ x \in Seq(Names \ {Dot}) /\ l = Walked \o x /\ NoLinks(l)
  <2>1. l \in Listed(Walked) /\ disk.node[l].kind = "file"
    BY DEF TestAt
  <2>2. disk.node[l].kind # "link"
    BY <2>1
  <2> QED BY <2>1, <2>2, ListedLiesInside
<1>2. x \in Seq(Names)
  BY <1>1, LocationsArePaths DEF Location
<1>3. p \in Seq(Names) /\ tests_dir \in Path
  BY TestsDirIsAPath
<1>4. p \o x \in Seq(Names)
  BY <1>2, <1>3, ConcatProperties
<1>5. Named(l) = [abs |-> tests_dir.abs, parts |-> p \o x]
  BY <1>3, PathGoesOn DEF Named
<1> HIDE DEF x, p
<1>6. Named(l) \in Path
  BY <1>3, <1>4, <1>5 DEF Path
<1>7. ASSUME tests_dir.abs PROVE Locate(call.cwd, Named(l)) = l
  <2>1. Walked = Follow(p) /\ Locate(call.cwd, Named(l)) = Follow(p \o x)
    BY <1>5, <1>7 DEF Walked, Locate, p
  <2>2. NoLinks(Follow(p) \o x)
    BY <1>1, <2>1
  <2>3. Follow(p \o x) = Follow(p) \o x
    BY <1>2, <1>3, <2>2, FollowBelow
  <2> QED BY <1>1, <2>1, <2>3
<1>8. ASSUME ~tests_dir.abs PROVE Locate(call.cwd, Named(l)) = l
  <2> DEFINE c == call.cwd
             q == c \o Steps(p)
  <2>1. Steps(p \o x) = Steps(p) \o x /\ Steps(p) \in Seq(Names)
    BY <1>1, <1>3, StepsBelow
  <2>2. c \in Seq(Names)
    BY CallTypes, LocationsArePaths
  <2>3. q \in Seq(Names)
    BY <2>1, <2>2, ConcatProperties
  <2>7. q \o x = c \o (Steps(p) \o x)
    <3> DEFINE t == Steps(p)
    <3>1. t \in Seq(Names)
      BY <2>1
    <3> HIDE DEF t, c
    <3>2. (c \o t) \o x = c \o (t \o x)
      BY <1>2, <2>2, <3>1, ConcatAssociative
    <3> QED BY <3>2 DEF t
  <2>4. Walked = Follow(q)
    BY <1>8 DEF Walked, Locate, p
  <2>5. Locate(call.cwd, Named(l)) = Follow(c \o Steps(p \o x))
    BY <1>5, <1>8 DEF Locate
  <2> HIDE DEF q, c
  <2>6. Locate(call.cwd, Named(l)) = Follow(q \o x)
    BY <2>1, <2>5, <2>7
  <2>8. NoLinks(Follow(q) \o x)
    BY <1>1, <2>4
  <2>9. Follow(q \o x) = Follow(q) \o x
    BY <1>2, <2>3, <2>8, FollowBelow
  <2> QED BY <1>1, <2>4, <2>6, <2>9
<1> QED BY <1>5, <1>6, <1>7, <1>8 DEF x, p

\* Names are as different and stand in the same order as what they name.
LEMMA NamesCompareAlike ==
  ASSUME Placed, NEW a, TestAt(a), NEW b, TestAt(b)
  PROVE  /\ Named(a) = Named(b) => a = b
         /\ Before(Named(a).parts, Named(b).parts) <=> Before(a, b)
<1>1. a = b \/ Named(a) # Named(b)
  BY NamesLeadThere
<1> DEFINE x == Inside(a)
           y == Inside(b)
           p == tests_dir.parts
           w == Walked
<1>2. /\ x \in Seq(Names) /\ y \in Seq(Names) /\ p \in Seq(Names) /\ w \in Seq(Names)
      /\ a = w \o x /\ b = w \o y
  <2>1. a \in Listed(Walked) /\ b \in Listed(Walked)
    BY DEF TestAt
  <2>2. /\ Inside(a) \in Seq(Names \ {Dot}) /\ a = Walked \o Inside(a)
        /\ Inside(b) \in Seq(Names \ {Dot}) /\ b = Walked \o Inside(b)
    BY <2>1, ListedLiesInside
  <2>3. x \in Seq(Names) /\ y \in Seq(Names)
    BY <2>2, LocationsArePaths DEF Location
  <2> QED BY <2>2, <2>3, TestsDirIsAPath, WalkedTyped
<1>3. Named(a).parts = p \o x /\ Named(b).parts = p \o y
  BY NamesLeadThere
<1> HIDE DEF x, y, p, w
<1>4. Before(p \o x, p \o y) <=> Before(x, y)
  BY <1>2, BeforeBelow
<1>5. Before(w \o x, w \o y) <=> Before(x, y)
  BY <1>2, BeforeBelow
<1> QED BY <1>1, <1>2, <1>3, <1>4, <1>5

-------------------------------------------------------------------------------
(* The names of the inventory *)

LEMMA RelativeTyped ==
  ASSUME NEW p \in Path, NEW base \in Location
  PROVE  relativize(p, base) \in Path
<1>1. p.parts \in Seq(Names) /\ Len(base) + 1 \in Int /\ Len(p.parts) \in Int
  BY DEF Path, Location
<1>2. Len(base) + 1 > 0
  BY DEF Location
<1>3. \A i \in Len(base) + 1..Len(p.parts) : p.parts[i] \in Names
  BY <1>1, <1>2
<1>4. SubSeq(p.parts, Len(base) + 1, Len(p.parts)) \in Seq(Names)
  BY <1>1, <1>3, SubSeqProperties
<1> QED BY <1>4 DEF relativize, Path

\* The default directory is one place, and a file in it is named below the project.
LEMMA DefaultNames ==
  ASSUME Placed, call.tests_dir = NoPath, NEW l, TestAt(l)
  PROVE  /\ relativize(Named(l), project) = InventoryName(l)
         /\ InventoryName(l) = [abs |-> FALSE, parts |-> <<Tests>> \o Inside(l)]
         /\ Inside(l) \in Seq(Names) /\ l = Walked \o Inside(l)
<1> DEFINE x == Inside(l)
           rest == <<Tests>> \o x
<1>1. TestsRoot = Walked
  BY DEF TestsRoot, Walked, tests_dir, Locate, Absolute
<1>2. x \in Seq(Names) /\ l = Walked \o x
  <2>1. x \in Seq(Names \ {Dot}) /\ l = Walked \o x
    BY ListedLiesInside DEF TestAt
  <2> QED BY <2>1, LocationsArePaths DEF Location
<1>3. project \in Seq(Names) /\ Tests \in Names
  BY LocationsArePaths, ComponentsAssumption DEF Placed
<1>4. tests_dir = [abs |-> TRUE, parts |-> Append(project, Tests)]
  BY DEF tests_dir, Absolute
<1>5. Named(l).parts = Append(project, Tests) \o x /\ Named(l).abs
  <2>1. Named(l).parts = Append(project, Tests) \o x
    BY <1>4, NamesLeadThere
  <2>2. Named(l) = [abs |-> tests_dir.abs, parts |-> tests_dir.parts \o x]
    BY TestsDirIsAPath, PathGoesOn DEF Named
  <2> QED BY <1>4, <2>1, <2>2
<1>6. InventoryName(l) = [abs |-> FALSE, parts |-> rest]
  BY <1>1 DEF InventoryName, Inside
<1> HIDE DEF x
<1>7. rest \in Seq(Names) /\ <<Tests>> \in Seq(Names)
  BY <1>2, <1>3, ConcatProperties
<1>8. Append(project, Tests) \o x = project \o rest
  <2> DEFINE t == <<Tests>>
  <2>1. Append(project, Tests) = project \o t /\ t \in Seq(Names)
    BY <1>3, <1>7, AppendIsConcat
  <2> HIDE DEF t
  <2>2. (project \o t) \o x = project \o (t \o x)
    BY <1>2, <1>3, <2>1, ConcatAssociative
  <2> QED BY <2>1, <2>2 DEF t
<1> HIDE DEF rest
<1>9. /\ SubSeq(project \o rest, 1, Len(project)) = project
      /\ SubSeq(project \o rest, Len(project) + 1, Len(project \o rest)) = rest
      /\ Len(project) =< Len(project \o rest)
      /\ SubSeq(project, 1, Len(project)) = project
  <2>1. Len(project \o rest) = Len(project) + Len(rest) /\ Len(project) \in Nat
        /\ Len(rest) \in Nat
    BY <1>3, <1>7, Joined
  <2>2. Len(project) =< Len(project \o rest)
    BY <2>1
  <2> QED BY <1>3, <1>7, <2>2, Joined, SubSeqFull
<1>10. IsPrefix(project, Named(l).parts)
  BY <1>5, <1>8, <1>9 DEF IsPrefix
<1>11. relativize(Named(l), project) = [abs |-> FALSE, parts |-> rest]
  BY <1>5, <1>8, <1>9, <1>10 DEF relativize
<1> QED BY <1>2, <1>6, <1>11 DEF x, rest

\* Two files never share a name.
LEMMA InventoryNamesDiffer ==
  ASSUME Placed, call.tests_dir = NoPath, NEW a, TestAt(a), NEW b, TestAt(b),
         InventoryName(a) = InventoryName(b)
  PROVE  a = b
<1> DEFINE x == Inside(a)
           y == Inside(b)
           t == <<Tests>>
<1>1. /\ x \in Seq(Names) /\ y \in Seq(Names)
      /\ a = Walked \o x /\ b = Walked \o y /\ t \o x = t \o y
  <2>1. x \in Seq(Names) /\ a = Walked \o x /\ InventoryName(a).parts = t \o x
    BY DefaultNames
  <2>2. y \in Seq(Names) /\ b = Walked \o y /\ InventoryName(b).parts = t \o y
    BY DefaultNames
  <2> QED BY <2>1, <2>2
<1>2. t \in Seq(Names)
  BY ComponentsAssumption
<1> HIDE DEF x, y, t
<1>3. SubSeq(t \o x, Len(t) + 1, Len(t \o x)) = x
  BY <1>1, <1>2, Joined
<1>4. SubSeq(t \o y, Len(t) + 1, Len(t \o y)) = y
  BY <1>1, <1>2, Joined
<1> QED BY <1>1, <1>3, <1>4

-------------------------------------------------------------------------------
(* The records of a file *)

OneTest == [line : Nat, assertion_count : Nat, only_asserts_on_mock : BOOLEAN]

FileRecords ==
  [path : Path, test_function_count : Nat, assertion_count : Nat, mocks : Nat,
   smell_hits : SUBSET SmellCategories]

AllTestRecords ==
  [file : Path, line : Nat, assertion_count : Nat, only_asserts_on_mock : BOOLEAN]

\* The tests of a file by line are its tests.
LEMMA ByLineKeepsAll ==
  ASSUME NEW ts \in Seq(OneTest)
  PROVE  /\ ByLine(ts) \in Seq(OneTest) /\ Len(ByLine(ts)) = Len(ts)
         /\ ToSet(ByLine(ts)) = ToSet(ts)
<1> DEFINE D == DOMAIN ts
           R == {p \in D \X D : ts[p[1]].line < ts[p[2]].line}
<1>1. \A i \in D : ts[i] \in OneTest /\ ts[i].line \in Nat
  <2>1. \A i \in D : ts[i] \in OneTest
    OBVIOUS
  <2>2. \A t \in OneTest : t.line \in Nat
    BY DEF OneTest
  <2> QED BY <2>1, <2>2
<1>2. \A i \in D, j \in D : <<i, j>> \in R <=> ts[i].line < ts[j].line
  OBVIOUS
<1>21. ByLine(ts) = StablySorted(ts, R)
  BY DEF ByLine
<1> HIDE DEF R
<1>3. WeakOrder(R, D)
  <2> DEFINE at_(i) == ts[i].line
  <2>1. \A i \in D : at_(i) \in Nat
    BY <1>1
  <2>2. \A i \in D, j \in D : <<i, j>> \in R <=> at_(i) < at_(j)
    BY <1>2
  <2> HIDE DEF at_
  <2>3. \A i \in D : <<i, i>> \notin R
    BY <2>1, <2>2
  <2>4. \A i, j, k \in D : <<i, j>> \in R /\ <<j, k>> \in R => <<i, k>> \in R
    BY <2>1, <2>2
  <2>5. \A i, j, k \in D : <<i, j>> \notin R /\ <<j, k>> \notin R => <<i, k>> \notin R
    BY <2>1, <2>2
  <2> QED BY <2>3, <2>4, <2>5 DEF WeakOrder
<1>4. /\ StablySorted(ts, R) \in Seq(OneTest)
      /\ Len(StablySorted(ts, R)) = Len(ts)
      /\ \E p : /\ Sorts(p, R, D)
                /\ \A k \in D : StablySorted(ts, R)[k] = ts[p[k]]
  BY <1>3, StablySortedSorts
<1> DEFINE r == StablySorted(ts, R)
<1>5. PICK p : Sorts(p, R, D) /\ \A k \in D : r[k] = ts[p[k]]
  BY <1>4
<1>6. DOMAIN r = D
  BY <1>4
<1> HIDE DEF r, D
<1>7. \A e : (\E k \in D : r[k] = e) <=> (\E k \in D : ts[k] = e)
  BY <1>5 DEF Sorts
<1>8. ToSet(r) = ToSet(ts)
  BY <1>6, <1>7 DEF ToSet, D
<1> QED BY <1>4, <1>8, <1>21 DEF r

LEMMA FileNodeTypes ==
  ASSUME Placed, NEW l \in DOMAIN disk.node, disk.node[l].kind = "file"
  PROVE  /\ disk.node[l].tests \in Seq(OneTest)
         /\ disk.node[l].mocks \in Nat /\ disk.node[l].readable \in BOOLEAN
<1>1. disk.node[l] \in Node
  BY NodeTypes
<1> QED BY <1>1 DEF Node, OneTest

LEMMA FileRecordTyped ==
  ASSUME Placed, NEW l \in DOMAIN disk.node, disk.node[l].kind = "file", NEW p \in Path
  PROVE  FileRecord(p, disk.node[l]) \in FileRecords
<1> DEFINE n == disk.node[l]
           f == [i \in DOMAIN n.tests |-> n.tests[i].assertion_count]
<1>1. n.tests \in Seq(OneTest) /\ n.mocks \in Nat
  BY FileNodeTypes
<1> HIDE DEF n
<1>2. DOMAIN n.tests = 1..Len(n.tests) /\ Len(n.tests) \in Nat
  BY <1>1
<1>3. IsFiniteSet(DOMAIN n.tests)
  BY <1>2, FirstNumbers
<1>4. \A i \in DOMAIN n.tests : f[i] \in Nat
  <2>1. \A i \in DOMAIN n.tests : n.tests[i] \in OneTest
    BY <1>1
  <2>2. \A t \in OneTest : t.assertion_count \in Nat
    BY DEF OneTest
  <2> QED BY <2>1, <2>2
<1> HIDE DEF f
<1>5. Total(f, DOMAIN n.tests) \in Nat
  BY <1>3, <1>4, TotalCounts
<1>6. FileRecord(p, n) = [path |-> p, test_function_count |-> Len(n.tests),
                          assertion_count |-> Total(f, DOMAIN n.tests),
                          mocks |-> n.mocks, smell_hits |-> {}]
  BY DEF FileRecord, f
<1> QED BY <1>1, <1>2, <1>5, <1>6 DEF FileRecords, n

\* The records of the tests of a file, and what the smells of the file look at.
LEMMA TestRecordsTyped ==
  ASSUME Placed, NEW l \in DOMAIN disk.node, disk.node[l].kind = "file", NEW p \in Path
  PROVE  LET b == TestRecords(p, disk.node[l])
             ts == disk.node[l].tests
         IN  /\ b \in Seq(AllTestRecords) /\ Len(b) = Len(ts)
             /\ \A k \in DOMAIN b : b[k].file = p
             /\ \A k \in DOMAIN b : \E t \in ToSet(ts) :
                  /\ t.assertion_count = b[k].assertion_count
                  /\ t.only_asserts_on_mock = b[k].only_asserts_on_mock
             /\ \A t \in ToSet(ts) : \E k \in DOMAIN b :
                  /\ t.assertion_count = b[k].assertion_count
                  /\ t.only_asserts_on_mock = b[k].only_asserts_on_mock
<1> DEFINE ts == disk.node[l].tests
           o == ByLine(ts)
           b == [i \in DOMAIN o |->
                   [file |-> p, line |-> o[i].line,
                    assertion_count |-> o[i].assertion_count,
                    only_asserts_on_mock |-> o[i].only_asserts_on_mock]]
<1>1. TestRecords(p, disk.node[l]) = b
  BY DEF TestRecords
<1>2. ts \in Seq(OneTest)
  BY FileNodeTypes
<1>3. o \in Seq(OneTest) /\ Len(o) = Len(ts) /\ ToSet(o) = ToSet(ts)
  BY <1>2, ByLineKeepsAll
<1> HIDE DEF o, ts
<1>4. \A k \in DOMAIN o : o[k] \in OneTest
  BY <1>3
<1>5. \A k \in DOMAIN o : b[k] \in AllTestRecords
  BY <1>4 DEF OneTest, AllTestRecords
<1>6. DOMAIN o = 1..Len(o) /\ Len(o) \in Nat
  BY <1>3
<1>7. b \in [1..Len(o) -> AllTestRecords]
  BY <1>5, <1>6
<1>8. \A k \in DOMAIN o : /\ b[k].file = p
                          /\ b[k].assertion_count = o[k].assertion_count
                          /\ b[k].only_asserts_on_mock = o[k].only_asserts_on_mock
  OBVIOUS
<1>9. DOMAIN b = DOMAIN o
  OBVIOUS
<1> HIDE DEF b
<1>10. b \in Seq(AllTestRecords) /\ Len(b) = Len(ts)
  BY <1>3, <1>6, <1>7
<1>11. \A k \in DOMAIN o : o[k] \in ToSet(ts)
  BY <1>3 DEF ToSet
<1>12. \A t \in ToSet(ts) : \E k \in DOMAIN o : o[k] = t
  BY <1>3 DEF ToSet
<1> QED BY <1>1, <1>8, <1>9, <1>10, <1>11, <1>12 DEF ts

\* Smells look at the assertions of the tests and at nothing else.
LEMMA SmellsLookAtAssertions ==
  ASSUME NEW S, NEW T,
         \A s \in S : \E t \in T : /\ t.assertion_count = s.assertion_count
                                   /\ t.only_asserts_on_mock = s.only_asserts_on_mock,
         \A t \in T : \E s \in S : /\ t.assertion_count = s.assertion_count
                                   /\ t.only_asserts_on_mock = s.only_asserts_on_mock,
         NEW m, NEW a
  PROVE  /\ derive_file_smells(m, a, S) = derive_file_smells(m, a, T)
         /\ derive_file_smells(m, a, S) \in SUBSET SmellCategories
<1> DEFINE A == {s \in S : s.assertion_count > 0}
           B == {t \in T : t.assertion_count > 0}
           Some(U) == U # {} /\ \A t \in U : t.only_asserts_on_mock
           Over == mock_overuse_fires(m, a)
<1>1. Some(A) <=> Some(B)
  <2>1. A # {} <=> B # {}
    OBVIOUS
  <2>2. (\A t \in A : t.only_asserts_on_mock) <=> (\A t \in B : t.only_asserts_on_mock)
    OBVIOUS
  <2> QED BY <2>1, <2>2
<1>2. derive_file_smells(m, a, S)
        = {c \in SmellCategories :
             (c = "mock_only_assertions" /\ Some(A)) \/ (c = "mock_overuse" /\ Over)}
  BY DEF derive_file_smells
<1>3. derive_file_smells(m, a, T)
        = {c \in SmellCategories :
             (c = "mock_only_assertions" /\ Some(B)) \/ (c = "mock_overuse" /\ Over)}
  BY DEF derive_file_smells
<1> HIDE DEF A, B, Some, Over
<1> QED BY <1>1, <1>2, <1>3

-------------------------------------------------------------------------------
(* While neither the disk nor the call changes *)

LEMMA SameWay ==
  ASSUME UNCHANGED <<disk, call, project>>
  PROVE  \A l : Follow(l)' = Follow(l)
<1>1. \A l : FollowFirst(l)' = FollowFirst(l)
  BY DEF FollowFirst
<1> QED BY <1>1 DEF Follow

LEMMA SamePlaces ==
  ASSUME UNCHANGED <<disk, call, project>>
  PROVE  /\ tests_dir' = tests_dir /\ Walked' = Walked /\ TestsRoot' = TestsRoot
         /\ \A p : Locate(call.cwd, p)' = Locate(call.cwd, p)
         /\ Listed(Walked)' = Listed(Walked)
         /\ \A l : TestAt(l)' = TestAt(l)
         /\ \A l : Named(l)' = Named(l)
         /\ \A l : InventoryName(l)' = InventoryName(l)
         /\ \A l : IsDir(l)' = IsDir(l)
<1>1. tests_dir' = tests_dir
  BY DEF tests_dir
<1>2. \A c, p : Locate(c, p)' = Locate(c, p)
  BY SameWay DEF Locate
<1>3. Walked' = Walked /\ TestsRoot' = TestsRoot
  BY <1>1, <1>2, SameWay DEF Walked, TestsRoot, Locate
<1>4. Listed(Walked)' = Listed(Walked)
  BY <1>3 DEF Listed
<1>5. \A l : TestAt(l)' = TestAt(l)
  BY <1>4 DEF TestAt
<1>6. \A l : Named(l)' = Named(l)
  BY <1>1, <1>3 DEF Named, Inside
<1>7. \A l : InventoryName(l)' = InventoryName(l)
  BY <1>3 DEF InventoryName
<1>8. \A p : Locate(call.cwd, p)' = Locate(call.cwd, p)
  BY SameWay DEF Locate
<1> QED BY <1>1, <1>3, <1>4, <1>5, <1>6, <1>7, <1>8 DEF IsDir

-------------------------------------------------------------------------------
(* What is known at every step *)

Typed ==
  /\ Placed
  /\ pc \in {"single", "discover", "walk", "parse", "smells", "static_done",
             "detect", "done", "failed"}
  /\ pending \subseteq DOMAIN disk.node
  /\ found \in Seq(Path)
  /\ at \in 1..Len(found) + 1
  /\ files \in Seq(FileRecords)
  /\ tests \in Seq(AllTestRecords)
  /\ dir \in Location
  /\ child # NoChild => child.cwd \in Location /\ child.tests_dir \in Path

\* Every test file the walk has passed is found, once, under its name.
FoundIsSeen ==
  /\ pending \subseteq Listed(Walked)
  /\ \A i \in DOMAIN found : \E l : TestAt(l) /\ l \notin pending /\ found[i] = Named(l)
  /\ \A l : TestAt(l) /\ l \notin pending => \E i \in DOMAIN found : found[i] = Named(l)
  /\ \A i, j \in DOMAIN found : found[i] = found[j] => i = j

FoundAscends ==
  \A i, j \in DOMAIN found : i < j => Before(found[i].parts, found[j].parts)

Walking ==
  /\ pc = "single" => /\ call.unit = "file"
                      /\ Exists(Locate(call.cwd, call.path))
                      /\ ~IsDir(Locate(call.cwd, call.path))
  /\ pc \in {"discover", "walk", "parse"} => call.unit # "file"
  /\ pc \in {"discover", "walk"} => at = 1 /\ files = <<>> /\ tests = <<>>
  /\ pc = "discover" => found = <<>>
  /\ pc \in {"walk", "parse"} => FoundIsSeen
  /\ pc = "parse" => pending = {} /\ FoundAscends

LEMMA TypedInit == Init => Typed /\ Walking
<1> SUFFICES ASSUME Init PROVE Typed /\ Walking
  OBVIOUS
<1>1. Placed
  BY PlacedInit
<1>2. /\ pc \in {"single", "discover"} /\ pending = {} /\ found = <<>> /\ at = 1
      /\ files = <<>> /\ tests = <<>> /\ dir = <<>> /\ child = NoChild
  BY DEF Init
<1>3. /\ pc = "single" <=> call.unit = "file"
      /\ Exists(Locate(call.cwd, call.path))
      /\ IsDir(Locate(call.cwd, call.path)) <=> call.unit # "file"
  BY DEF Init
<1>4. <<>> \in Location /\ 1 \in 1..Len(<<>>) + 1
  BY DEF Location
<1>5. Typed
  BY <1>1, <1>2, <1>4 DEF Typed
<1>6. Walking
  BY <1>2, <1>3 DEF Walking
<1> QED BY <1>5, <1>6

-------------------------------------------------------------------------------
(* Sorting what was found *)

LEMMA PathsAreOrdered ==
  ASSUME found \in Seq(Path)
  PROVE  WeakOrder({p \in (DOMAIN found) \X (DOMAIN found) :
                      Before(found[p[1]].parts, found[p[2]].parts)}, DOMAIN found)
<1> DEFINE D == DOMAIN found
           R == {p \in D \X D : Before(found[p[1]].parts, found[p[2]].parts)}
           w == [i \in D |-> found[i].parts]
<1>1. \A i \in D : w[i] \in Seq(Names)
  <2>1. \A i \in D : found[i] \in Path
    OBVIOUS
  <2> QED BY <2>1 DEF Path
<1>2. \A i \in D, j \in D : <<i, j>> \in R <=> Before(w[i], w[j])
  OBVIOUS
<1> HIDE DEF D, R, w
<1>3. \A i \in D : <<i, i>> \notin R
  BY <1>1, <1>2, BeforeIrreflexive
<1>4. ASSUME NEW i \in D, NEW j \in D, NEW k \in D, <<i, j>> \in R, <<j, k>> \in R
      PROVE  <<i, k>> \in R
  <2>1. Before(w[i], w[j]) /\ Before(w[j], w[k])
    BY <1>2, <1>4
  <2>2. Before(w[i], w[k])
    BY <1>1, <2>1, BeforeTransitive
  <2> QED BY <1>2, <2>2
<1>5. ASSUME NEW i \in D, NEW j \in D, NEW k \in D,
             <<i, j>> \notin R, <<j, k>> \notin R, <<i, k>> \in R
      PROVE  FALSE
  <2>1. ~Before(w[i], w[j]) /\ ~Before(w[j], w[k]) /\ Before(w[i], w[k])
    BY <1>2, <1>5
  <2>2. w[i] # w[j]
    BY <2>1
  <2>3. Before(w[j], w[i])
    BY <1>1, <2>1, <2>2, BeforeTotal
  <2>4. Before(w[j], w[k])
    BY <1>1, <2>1, <2>3, BeforeTransitive
  <2> QED BY <2>1, <2>4
<1>6. WeakOrder(R, D)
  BY <1>3, <1>4, <1>5 DEF WeakOrder
<1> QED BY <1>6 DEF R, D

\* EndWalk loses nothing and puts what was found in the order of its paths.
LEMMA SortedAscends ==
  ASSUME Placed, found \in Seq(Path), FoundIsSeen, pending = {}, EndWalk
  PROVE  found' \in Seq(Path) /\ Len(found') = Len(found) /\ FoundIsSeen' /\ FoundAscends'
<1> DEFINE D == DOMAIN found
           R == {p \in D \X D : Before(found[p[1]].parts, found[p[2]].parts)}
<1>0. UNCHANGED <<disk, call, project, pending>>
  BY DEF EndWalk, inputs
<1>1. found' = StablySorted(found, R)
  BY DEF EndWalk
<1>2. WeakOrder(R, D)
  BY PathsAreOrdered
<1>3. \A i \in D, j \in D : <<i, j>> \in R <=> Before(found[i].parts, found[j].parts)
  OBVIOUS
<1> HIDE DEF R
<1>4. /\ found' \in Seq(Path) /\ Len(found') = Len(found)
      /\ \E p : Sorts(p, R, D) /\ \A k \in D : found'[k] = found[p[k]]
  BY <1>1, <1>2, StablySortedSorts
<1>5. PICK p : Sorts(p, R, D) /\ \A k \in D : found'[k] = found[p[k]]
  BY <1>4
<1>6. DOMAIN found' = D
  BY <1>4
<1>7. \A i \in D : found[i] \in Path
  OBVIOUS
<1> HIDE DEF D
<1>8. /\ \A a \in D : p[a] \in D
      /\ \A a \in D, b \in D : p[a] = p[b] => a = b
      /\ \A i \in D : \E a \in D : p[a] = i
      /\ \A a \in D, b \in D : a < b => Sooner(R, p[a], p[b])
  BY <1>5 DEF Sorts
<1>9. /\ \A i \in D : \E l : TestAt(l) /\ l \notin pending /\ found[i] = Named(l)
      /\ \A l : TestAt(l) /\ l \notin pending => \E i \in D : found[i] = Named(l)
      /\ \A i, j \in D : found[i] = found[j] => i = j
  BY DEF FoundIsSeen, D
<1>12. \A k \in D : found'[k] = found[p[k]]
  BY <1>5
<1>10. FoundIsSeen'
  <2>1. ASSUME NEW i \in D
        PROVE  \E l : TestAt(l) /\ l \notin pending /\ found'[i] = Named(l)
    <3>1. p[i] \in D /\ found'[i] = found[p[i]]
      BY <1>8, <1>12
    <3>2. PICK l : TestAt(l) /\ l \notin pending /\ found[p[i]] = Named(l)
      BY <1>9, <3>1
    <3> QED BY <3>1, <3>2
  <2>2. ASSUME NEW l, TestAt(l), l \notin pending PROVE \E i \in D : found'[i] = Named(l)
    <3>1. PICK i \in D : found[i] = Named(l)
      BY <1>9, <2>2
    <3>2. PICK k \in D : p[k] = i
      BY <1>8
    <3> QED BY <1>12, <3>1, <3>2
  <2>3. ASSUME NEW i \in D, NEW j \in D, found'[i] = found'[j] PROVE i = j
    <3>1. found[p[i]] = found[p[j]] /\ p[i] \in D /\ p[j] \in D
      BY <1>8, <1>12, <2>3
    <3>2. p[i] = p[j]
      BY <1>9, <3>1
    <3> QED BY <1>8, <3>2
  <2>4. /\ \A l : TestAt(l)' = TestAt(l) /\ Named(l)' = Named(l)
        /\ Listed(Walked)' = Listed(Walked)
    BY <1>0, SamePlaces
  <2>5. pending \subseteq Listed(Walked)
    BY DEF FoundIsSeen
  <2> QED BY <1>0, <1>6, <2>1, <2>2, <2>3, <2>4, <2>5 DEF FoundIsSeen
<1>11. FoundAscends'
  <2> SUFFICES ASSUME NEW i \in D, NEW j \in D, i < j
               PROVE  Before(found'[i].parts, found'[j].parts)
    BY <1>6 DEF FoundAscends
  <2>1. Sooner(R, p[i], p[j]) /\ p[i] \in D /\ p[j] \in D /\ p[i] # p[j]
    <3>1. i # j
      BY DEF D
    <3> QED BY <1>8, <3>1
  <2>2. CASE <<p[i], p[j]>> \in R
    BY <1>3, <1>5, <2>1, <2>2
  <2>3. CASE <<p[i], p[j]>> \notin R
    <3>1. <<p[j], p[i]>> \notin R
      BY <2>1, <2>3 DEF Sooner
    <3> DEFINE v == found[p[i]].parts
               w == found[p[j]].parts
    <3>2. ~Before(v, w) /\ ~Before(w, v)
      BY <1>3, <2>1, <2>3, <3>1
    <3>3. v \in Seq(Names) /\ w \in Seq(Names)
      BY <1>7, <2>1 DEF Path
    <3>4. v = w
      BY <3>2, <3>3, BeforeTotal
    <3>5. PICK a : TestAt(a) /\ found[p[i]] = Named(a)
      BY <1>9, <2>1
    <3>6. PICK b : TestAt(b) /\ found[p[j]] = Named(b)
      BY <1>9, <2>1
    <3>7. Named(a) = Named(b)
      <4> DEFINE t == tests_dir
      <4>1. /\ Named(a) = [abs |-> t.abs, parts |-> t.parts \o Inside(a)]
            /\ Named(b) = [abs |-> t.abs, parts |-> t.parts \o Inside(b)]
        BY TestsDirIsAPath, PathGoesOn DEF Named
      <4>2. Named(a).parts = Named(b).parts
        BY <3>4, <3>5, <3>6
      <4> DEFINE x == t.parts \o Inside(a)
                 y == t.parts \o Inside(b)
                 z == t.abs
      <4> HIDE DEF t, x, y, z
      <4>3. Named(a) = [abs |-> z, parts |-> x] /\ Named(b) = [abs |-> z, parts |-> y]
        BY <4>1 DEF x, y, z
      <4> QED BY <4>2, <4>3
    <3> QED BY <1>9, <2>1, <3>5, <3>6, <3>7
  <2> QED BY <2>2, <2>3
<1> QED BY <1>4, <1>10, <1>11

-------------------------------------------------------------------------------
(* One step *)

LEMMA InputsStay ==
  ASSUME [Next]_vars
  PROVE  UNCHANGED <<disk, call, project>>
<1> USE DEF inputs, Goto
<1>1. CASE ReadSingle \/ SingleUnreadable \/ NoTestsDir \/ NotADirectory \/ StartWalk
           \/ WalkFails \/ WalkEntry \/ EndWalk
  BY <1>1 DEF ReadSingle, SingleUnreadable, NoTestsDir, NotADirectory, StartWalk,
              WalkFails, WalkEntry, EndWalk
<1>2. CASE Parse \/ SkipFile \/ AllParsed \/ DeriveSmells \/ WithoutPytest
           \/ StartDetection \/ VenvHere \/ LookAbove \/ NoVenv \/ Exit \/ UNCHANGED vars
  BY <1>2 DEF Parse, SkipFile, AllParsed, DeriveSmells, WithoutPytest, StartDetection,
              VenvHere, LookAbove, NoVenv, Exit, Start, vars
<1> QED BY <1>1, <1>2 DEF Next

LEMMA PlacedStep == Placed /\ [Next]_vars => Placed'
BY InputsStay DEF Placed

\* The file at hand is a test file of the disk.
LEMMA AtHand ==
  ASSUME Typed, Walking, pc = "parse", at =< Len(found)
  PROVE  /\ at \in DOMAIN found /\ at \in Nat /\ at + 1 \in 1..Len(found) + 1
         /\ \E l : /\ TestAt(l) /\ found[at] = Named(l)
                   /\ Locate(call.cwd, found[at]) = l
                   /\ l \in DOMAIN disk.node /\ disk.node[l].kind = "file"
<1>1. at \in DOMAIN found /\ at \in Nat /\ at + 1 \in 1..Len(found) + 1
  BY DEF Typed
<1>2. PICK l : TestAt(l) /\ found[at] = Named(l)
  BY <1>1 DEF Walking, FoundIsSeen
<1>3. Locate(call.cwd, Named(l)) = l
  BY <1>2, NamesLeadThere DEF Typed
<1>4. l \in DOMAIN disk.node /\ disk.node[l].kind = "file"
  BY <1>2 DEF TestAt, Listed
<1> QED BY <1>1, <1>2, <1>3, <1>4

\* The one that is typed on the command line is a file.
LEMMA SingleIsAFile ==
  ASSUME Typed, Walking, pc = "single"
  PROVE  /\ Locate(call.cwd, call.path) \in DOMAIN disk.node
         /\ disk.node[Locate(call.cwd, call.path)].kind = "file"
         /\ call.path \in Path
<1> DEFINE l == Locate(call.cwd, call.path)
<1>1. l \in DOMAIN disk.node /\ disk.node[l].kind # "link" /\ disk.node[l].kind # "dir"
  BY DEF Walking, Exists, IsDir
<1> HIDE DEF l
<1>2. disk.node[l] \in Node
  BY <1>1, NodeTypes DEF Typed
<1>3. disk.node[l].kind \in {"dir", "link", "file"}
  BY <1>2 DEF Node
<1> QED BY <1>1, <1>3, CallTypes DEF Typed, l

LEMMA SteppedTypes ==
  ASSUME Typed, Walking, [Next]_vars
  PROVE  Typed'
<1>0. Placed' /\ UNCHANGED <<disk, call, project>>
  BY InputsStay, PlacedStep DEF Typed
<1> USE DEF Typed, inputs
<1>1. CASE ReadSingle
  <2> DEFINE l == Locate(call.cwd, call.path)
  <2>1. l \in DOMAIN disk.node /\ disk.node[l].kind = "file" /\ call.path \in Path
    BY <1>1, SingleIsAFile DEF ReadSingle
  <2>2. /\ files' = <<>> \/ files' = <<FileRecord(call.path, disk.node[l])>>
        /\ tests' = TestRecords(call.path, disk.node[l]) /\ pc' = "smells"
        /\ UNCHANGED <<pending, found, at, dir, child>>
    BY <1>1 DEF ReadSingle
  <2> HIDE DEF l
  <2>3. FileRecord(call.path, disk.node[l]) \in FileRecords
    BY <2>1, FileRecordTyped
  <2>4. files' \in Seq(FileRecords)
    <3> DEFINE r == FileRecord(call.path, disk.node[l])
    <3>1. r \in FileRecords /\ (files' = <<>> \/ files' = <<r>>)
      BY <2>2, <2>3
    <3> HIDE DEF r
    <3>2. <<>> \in Seq(FileRecords)
      OBVIOUS
    <3>3. <<r>> \in Seq(FileRecords)
      BY <3>1
    <3> QED BY <3>1, <3>2, <3>3
  <2>5. tests' \in Seq(AllTestRecords)
    BY <2>1, <2>2, TestRecordsTyped
  <2> QED BY <1>0, <2>2, <2>4, <2>5
<1>2. CASE /\ pc' \in {"walk", "smells", "static_done", "done", "failed"}
           /\ pending' \subseteq DOMAIN disk.node
           /\ UNCHANGED <<found, at, files, tests, dir, child>>
  BY <1>0, <1>2
<1>3. CASE SingleUnreadable \/ NotADirectory \/ WalkFails \/ AllParsed \/ WithoutPytest
  <2>1. /\ pc' \in {"smells", "done", "failed"}
        /\ UNCHANGED <<pending, found, at, files, tests, dir, child>>
    BY <1>3 DEF SingleUnreadable, NotADirectory, WalkFails, AllParsed,
                WithoutPytest, Goto
  <2> QED BY <1>2, <2>1
<1>4. CASE NoTestsDir
  <2>1. /\ pc' \in {"static_done", "failed"}
        /\ UNCHANGED <<pending, found, at, files, tests, dir, child>>
    BY <1>4 DEF NoTestsDir, Goto
  <2> QED BY <1>2, <2>1
<1>5. CASE StartWalk
  <2>1. Listed(Walked) \subseteq DOMAIN disk.node
    BY DEF Listed
  <2>2. /\ pc' = "walk" /\ pending' = Listed(Walked)
        /\ UNCHANGED <<found, at, files, tests, dir, child>>
    BY <1>5 DEF StartWalk
  <2> QED BY <1>2, <2>1, <2>2
<1>6. CASE WalkEntry
  <2>1. PICK l \in pending :
          /\ pending' = pending \ {l}
          /\ \/ found' = found
             \/ /\ disk.node[l].kind = "file" /\ is_test_file(Last(l))
                /\ found' = Append(found, Named(l))
    BY <1>6 DEF WalkEntry, Named, Inside
  <2>2. pc = "walk" /\ UNCHANGED <<pc, at, files, tests, dir, child>>
    BY <1>6 DEF WalkEntry
  <2>3. at = 1 /\ l \in Listed(Walked)
    BY <2>2 DEF Walking, FoundIsSeen
  <2>4. found' \in Seq(Path)
    <3>1. CASE found' = found
      BY <3>1
    <3>2. CASE found' = Append(found, Named(l)) /\ disk.node[l].kind = "file"
               /\ is_test_file(Last(l))
      <4>1. TestAt(l)
        BY <2>3, <3>2 DEF TestAt
      <4>2. Named(l) \in Path
        BY <4>1, NamesLeadThere
      <4> QED BY <3>2, <4>2, AppendProperties
    <3> QED BY <2>1, <3>1, <3>2
  <2>5. at' \in 1..Len(found') + 1
    BY <2>2, <2>3, <2>4
  <2> QED BY <1>0, <2>1, <2>2, <2>4, <2>5
<1>7. CASE EndWalk
  <2>1. pc = "walk" /\ pending = {} /\ pc' = "parse"
        /\ UNCHANGED <<pending, at, files, tests, dir, child>>
    BY <1>7 DEF EndWalk
  <2>2. found' \in Seq(Path) /\ Len(found') = Len(found)
    BY <1>7, <2>1, SortedAscends DEF Walking
  <2> QED BY <1>0, <2>1, <2>2
<1>8. CASE Parse
  <2> DEFINE l == Locate(call.cwd, found[at])
             p == relativize(found[at], project)
  <2>1. /\ pc = "parse" /\ at =< Len(found) /\ at' = at + 1
        /\ files' = Append(files, FileRecord(p, disk.node[l]))
        /\ tests' = tests \o TestRecords(p, disk.node[l])
        /\ UNCHANGED <<pc, pending, found, dir, child>>
    BY <1>8 DEF Parse
  <2>2. at \in DOMAIN found /\ at + 1 \in 1..Len(found) + 1
        /\ l \in DOMAIN disk.node /\ disk.node[l].kind = "file"
    BY <2>1, AtHand
  <2>3. p \in Path
    <3>1. found[at] \in Path
      BY <2>2
    <3> QED BY <3>1, RelativeTyped DEF Placed
  <2> HIDE DEF l, p
  <2>4. FileRecord(p, disk.node[l]) \in FileRecords
    BY <2>2, <2>3, FileRecordTyped
  <2>5. TestRecords(p, disk.node[l]) \in Seq(AllTestRecords)
    BY <2>2, <2>3, TestRecordsTyped
  <2>6. files' \in Seq(FileRecords)
    BY <2>1, <2>4, AppendProperties
  <2>7. tests' \in Seq(AllTestRecords)
    BY <2>1, <2>5, ConcatProperties
  <2> QED BY <1>0, <2>1, <2>2, <2>6, <2>7
<1>9. CASE SkipFile
  <2>1. /\ pc = "parse" /\ at =< Len(found) /\ at' = at + 1
        /\ UNCHANGED <<pc, pending, found, files, tests, dir, child>>
    BY <1>9 DEF SkipFile
  <2>2. at + 1 \in 1..Len(found) + 1
    BY <2>1, AtHand
  <2> QED BY <1>0, <2>1, <2>2
<1>10. CASE DeriveSmells
  <2> DEFINE own(f) == {tests[t] : t \in {i \in DOMAIN tests : tests[i].file = files[f].path}}
             hits(f) == derive_file_smells(files[f].mocks, files[f].assertion_count, own(f))
  <2>1. /\ files' = [f \in DOMAIN files |-> [files[f] EXCEPT !.smell_hits = hits(f)]]
        /\ pc' = "static_done"
        /\ UNCHANGED <<pending, found, at, tests, dir, child>>
    BY <1>10 DEF DeriveSmells
  <2>2. \A f \in DOMAIN files : hits(f) \in SUBSET SmellCategories
    BY DEF derive_file_smells
  <2> HIDE DEF hits
  <2>3. \A r \in FileRecords, s \in SUBSET SmellCategories :
          [r EXCEPT !.smell_hits = s] \in FileRecords
    BY DEF FileRecords
  <2>4. DOMAIN files = 1..Len(files) /\ Len(files) \in Nat
        /\ \A f \in DOMAIN files : files[f] \in FileRecords
    OBVIOUS
  <2>5. files' \in [1..Len(files) -> FileRecords]
    BY <2>1, <2>2, <2>3, <2>4
  <2>6. files' \in Seq(FileRecords)
    BY <2>4, <2>5
  <2> QED BY <1>0, <2>1, <2>6
<1>11. CASE StartDetection
  <2>1. /\ dir' = call.root \/ dir' = project
        /\ pc' = "detect" /\ UNCHANGED <<pending, found, at, files, tests, child>>
    BY <1>11 DEF StartDetection
  <2>2. dir' \in Location
    BY <2>1, CallTypes DEF Placed
  <2> QED BY <1>0, <2>1, <2>2
<1>12. CASE LookAbove
  <2>1. /\ dir' = Front(dir) /\ UNCHANGED <<pc, pending, found, at, files, tests, child>>
    BY <1>12 DEF LookAbove
  <2>2. dir' \in Location
    BY <2>1, FrontIsAPlace
  <2> QED BY <1>0, <2>1, <2>2
<1>13. CASE VenvHere \/ NoVenv
  <2>1. PICK program : child' = Argument(program)
    BY <1>13 DEF VenvHere, NoVenv, Start
  <2>2. pc' = "done" /\ UNCHANGED <<pending, found, at, files, tests, dir>>
    BY <1>13 DEF VenvHere, NoVenv, Start
  <2>3. /\ child'.cwd = call.root \/ child'.cwd = project
        /\ child'.tests_dir = [abs |-> FALSE, parts |-> <<Tests>>]
           \/ child'.tests_dir = tests_dir
    BY <2>1 DEF Argument
  <2>4. child'.cwd \in Location
    BY <2>3, CallTypes DEF Placed
  <2>5. child'.tests_dir \in Path
    <3>1. [abs |-> FALSE, parts |-> <<Tests>>] \in Path
      BY ComponentsAssumption DEF Path
    <3> QED BY <2>3, <3>1, TestsDirIsAPath
  <2> QED BY <1>0, <2>2, <2>4, <2>5
<1>14. CASE Exit \/ UNCHANGED vars
  BY <1>0, <1>14 DEF Exit, vars
<1> QED
  BY <1>1, <1>3, <1>4, <1>5, <1>6, <1>7, <1>8, <1>9, <1>10, <1>11, <1>12, <1>13, <1>14
  DEF Next

LEMMA WalkingStep ==
  ASSUME Typed, Walking, [Next]_vars
  PROVE  Walking'
<1>0. UNCHANGED <<disk, call, project>> /\ Placed
  BY InputsStay DEF Typed
<1>00. /\ \A l : TestAt(l)' = TestAt(l) /\ Named(l)' = Named(l)
       /\ Listed(Walked)' = Listed(Walked)
  BY <1>0, SamePlaces
<1> USE DEF inputs, Goto
<1>1. CASE pc' \notin {"single", "discover", "walk", "parse"}
  BY <1>1 DEF Walking
<1>2. CASE ReadSingle \/ SingleUnreadable \/ NoTestsDir \/ NotADirectory \/ WalkFails
           \/ AllParsed \/ DeriveSmells
  BY <1>1, <1>2 DEF ReadSingle, SingleUnreadable, NoTestsDir, NotADirectory, WalkFails,
                    AllParsed, DeriveSmells
<1>3. CASE WithoutPytest \/ StartDetection \/ VenvHere \/ LookAbove \/ NoVenv
  BY <1>1, <1>3 DEF WithoutPytest, StartDetection, VenvHere, LookAbove, NoVenv, Start
<1>4. CASE Exit
  BY <1>1, <1>4 DEF Exit, Ended, vars
<1>5. CASE StartWalk
  <2>1. /\ pc = "discover" /\ pc' = "walk" /\ pending' = Listed(Walked)
        /\ UNCHANGED <<found, at, files, tests>>
    BY <1>5 DEF StartWalk
  <2>2. found = <<>> /\ at = 1 /\ files = <<>> /\ tests = <<>> /\ call.unit # "file"
    BY <2>1 DEF Walking
  <2>3. FoundIsSeen'
    <3>1. \A l : TestAt(l) => l \in pending'
      BY <2>1 DEF TestAt
    <3> QED BY <1>00, <2>1, <2>2, <3>1 DEF FoundIsSeen
  <2> QED BY <1>0, <2>1, <2>2, <2>3 DEF Walking
<1>6. CASE WalkEntry
  <2>1. PICK l \in pending :
          /\ pending' = pending \ {l}
          /\ found' = IF disk.node[l].kind = "file" /\ is_test_file(Last(l))
                      THEN Append(found, Named(l)) ELSE found
    BY <1>6 DEF WalkEntry, Named, Inside
  <2>2. pc = "walk" /\ UNCHANGED <<pc, at, files, tests>>
    BY <1>6 DEF WalkEntry
  <2>3. FoundIsSeen /\ found \in Seq(Path)
    BY <2>2 DEF Walking, Typed
  <2>4. l \in Listed(Walked)
    BY <2>3 DEF FoundIsSeen
  <2> DEFINE D == DOMAIN found
  <2>6. /\ \A i \in D : \E m : TestAt(m) /\ m \notin pending /\ found[i] = Named(m)
        /\ \A m : TestAt(m) /\ m \notin pending => \E i \in D : found[i] = Named(m)
        /\ \A i, j \in D : found[i] = found[j] => i = j
        /\ pending \subseteq Listed(Walked)
    BY <2>3 DEF FoundIsSeen
  <2>5. FoundIsSeen'
    <3>1. CASE ~TestAt(l)
      <4>1. found' = found
        BY <2>1, <2>4, <3>1 DEF TestAt
      <4>2. \A m : TestAt(m) => (m \notin pending' <=> m \notin pending)
        BY <2>1, <3>1
      <4> QED BY <1>00, <2>1, <2>6, <4>1, <4>2 DEF FoundIsSeen
    <3>2. CASE TestAt(l)
      <4>1. found' = Append(found, Named(l)) /\ Named(l) \in Path
        BY <1>0, <2>1, <3>2, NamesLeadThere DEF TestAt
      <4> DEFINE n == Len(found)
      <4>2. /\ n \in Nat /\ D = 1..n /\ DOMAIN found' = 1..n + 1
            /\ \A i \in D : found'[i] = found[i]
            /\ found'[n + 1] = Named(l)
        BY <2>3, <4>1, AppendProperties
      <4> HIDE DEF n, D
      <4>3. \A i \in 1..n + 1 : i = n + 1 \/ i \in D
        BY <4>2
      <4>9. n + 1 \in 1..n + 1 /\ n + 1 \notin D /\ \A i \in D : i \in 1..n + 1
        BY <4>2
      <4>4. ASSUME NEW i \in 1..n + 1
            PROVE  \E m : TestAt(m) /\ m \notin pending' /\ found'[i] = Named(m)
        <5>1. CASE i = n + 1
          BY <2>1, <3>2, <4>2, <5>1
        <5>2. CASE i \in D
          BY <2>1, <2>6, <4>2, <5>2
        <5> QED BY <4>3, <5>1, <5>2
      <4>5. ASSUME NEW m, TestAt(m), m \notin pending'
            PROVE  \E i \in 1..n + 1 : found'[i] = Named(m)
        <5>1. CASE m = l
          BY <4>2, <4>9, <5>1
        <5>2. CASE m # l
          <6>1. PICK i \in D : found[i] = Named(m)
            BY <2>1, <2>6, <4>5, <5>2
          <6> QED BY <4>2, <4>9, <6>1
        <5> QED BY <5>1, <5>2
      <4>6. ASSUME NEW i \in D PROVE found'[i] # Named(l)
        <5>1. PICK m : TestAt(m) /\ m \notin pending /\ found[i] = Named(m)
          BY <2>6
        <5>2. m # l
          BY <5>1
        <5>3. Named(m) # Named(l)
          BY <1>0, <3>2, <5>1, <5>2, NamesCompareAlike
        <5> QED BY <4>2, <5>1, <5>3
      <4>7. ASSUME NEW i \in 1..n + 1, NEW j \in 1..n + 1, found'[i] = found'[j]
            PROVE  i = j
        <5>1. CASE i \in D /\ j \in D
          BY <2>6, <4>2, <4>7, <5>1
        <5>2. CASE i = n + 1 /\ j \in D
          BY <4>2, <4>6, <4>7, <5>2
        <5>3. CASE i \in D /\ j = n + 1
          BY <4>2, <4>6, <4>7, <5>3
        <5> QED BY <4>3, <5>1, <5>2, <5>3
      <4>8. pending' \subseteq Listed(Walked)
        BY <2>1, <2>6
      <4> QED BY <1>00, <4>2, <4>4, <4>5, <4>7, <4>8 DEF FoundIsSeen
    <3> QED BY <3>1, <3>2
  <2> QED BY <1>0, <2>2, <2>5 DEF Walking
<1>7. CASE EndWalk
  <2>1. pc = "walk" /\ pending = {} /\ pc' = "parse" /\ UNCHANGED pending
    BY <1>7 DEF EndWalk
  <2>2. FoundIsSeen' /\ FoundAscends'
    BY <1>0, <1>7, <2>1, SortedAscends DEF Walking, Typed
  <2> QED BY <1>0, <2>1, <2>2 DEF Walking
<1>8. CASE UNCHANGED <<pc, pending, found>> /\ (UNCHANGED <<at, files, tests>> \/ pc = "parse")
  <2>1. FoundIsSeen => FoundIsSeen'
    BY <1>00, <1>8 DEF FoundIsSeen
  <2>2. FoundAscends => FoundAscends'
    BY <1>8 DEF FoundAscends
  <2>3. /\ Exists(Locate(call.cwd, call.path))' = Exists(Locate(call.cwd, call.path))
        /\ IsDir(Locate(call.cwd, call.path))' = IsDir(Locate(call.cwd, call.path))
    <3>1. Locate(call.cwd, call.path)' = Locate(call.cwd, call.path)
      BY <1>0, SameWay DEF Locate
    <3> QED BY <1>0, <3>1 DEF Exists, IsDir
  <2> QED BY <1>0, <1>8, <2>1, <2>2, <2>3 DEF Walking
<1>9. CASE Parse \/ SkipFile \/ UNCHANGED vars
  BY <1>8, <1>9 DEF Parse, SkipFile, vars
<1> QED BY <1>2, <1>3, <1>4, <1>5, <1>6, <1>7, <1>9 DEF Next

-------------------------------------------------------------------------------
(* What a scan of the default directory enters *)

\* The test files that can be read.
There ==
  {l \in Listed(Walked) : /\ disk.node[l].kind = "file" /\ disk.node[l].readable
                          /\ is_test_file(Last(l))}

\* The records of l's tests, and those of name in ts are those of block, together.
Block(l) == TestRecords(InventoryName(l), disk.node[l])

Together(ts, name, block) ==
  \E before \in 0..Len(ts) :
    /\ {t \in DOMAIN ts : ts[t].file = name} = before + 1..before + Len(block)
    /\ \A k \in DOMAIN block : ts[before + k] = block[k]

\* The files are those at ps, in the order of their paths, each with its tests.
Entered(ps) ==
  /\ ps \in [1..Len(files) -> There]
  /\ \A a, b \in 1..Len(files) : a < b => Before(ps[a], ps[b])
  /\ \A f \in 1..Len(files) : Together(tests, InventoryName(ps[f]), Block(ps[f]))
  /\ \A t \in DOMAIN tests :
       \E f \in 1..Len(files) : tests[t].file = InventoryName(ps[f])

Complete(ps) == \A l \in There : \E f \in 1..Len(files) : ps[f] = l

Plain(ps) ==
  \A f \in 1..Len(files) :
    files[f] = FileRecord(InventoryName(ps[f]), disk.node[ps[f]])

Judged(ps) ==
  \A f \in 1..Len(files) :
    LET record == FileRecord(InventoryName(ps[f]), disk.node[ps[f]])
    IN  files[f] = [record EXCEPT !.smell_hits =
          derive_file_smells(disk.node[ps[f]].mocks, record.assertion_count,
                             ToSet(disk.node[ps[f]].tests))]

\* So far: what comes before the file at hand.
SoFar(ps) ==
  /\ \A f \in 1..Len(files) : \E i \in 1..at - 1 : found[i] = Named(ps[f])
  /\ \A l \in There, i \in 1..at - 1 :
       found[i] = Named(l) => \E f \in 1..Len(files) : ps[f] = l

Default == call.unit # "file" /\ call.tests_dir = NoPath

Recorded ==
  Default =>
    /\ pc = "parse" => \E ps : Entered(ps) /\ Plain(ps) /\ SoFar(ps)
    /\ pc = "smells" => \E ps : Entered(ps) /\ Plain(ps) /\ Complete(ps)
    /\ Finished => \E ps : Entered(ps) /\ Judged(ps) /\ Complete(ps)

LEMMA ThereIsATest ==
  ASSUME NEW l
  PROVE  l \in There <=> TestAt(l) /\ disk.node[l].readable
BY DEF There, TestAt

LEMMA SameThere ==
  ASSUME UNCHANGED <<disk, call, project>>
  PROVE  /\ There' = There /\ Default' = Default
         /\ \A l : Block(l)' = Block(l) /\ InventoryName(l)' = InventoryName(l)
         /\ \A l : Named(l)' = Named(l)
<1>1. /\ Listed(Walked)' = Listed(Walked)
      /\ \A l : InventoryName(l)' = InventoryName(l) /\ Named(l)' = Named(l)
  BY SamePlaces
<1>2. There' = There
  BY <1>1 DEF There
<1>3. \A l : Block(l)' = Block(l)
  BY <1>1 DEF Block
<1> QED BY <1>1, <1>2, <1>3 DEF Default

\* New records at the end leave the others where they are.
LEMMA BlocksJoin ==
  ASSUME NEW ts \in Seq(AllTestRecords), NEW b \in Seq(AllTestRecords), NEW name,
         \A k \in DOMAIN b : b[k].file = name,
         \A t \in DOMAIN ts : ts[t].file # name
  PROVE  /\ Together(ts \o b, name, b)
         /\ \A other : \A block \in Seq(AllTestRecords) :
              other # name /\ Together(ts, other, block)
                => Together(ts \o b, other, block)
         /\ \A t \in DOMAIN (ts \o b) : \/ t \in DOMAIN ts /\ (ts \o b)[t] = ts[t]
                                        \/ (ts \o b)[t].file = name
<1> DEFINE r == ts \o b
           n == Len(ts)
           m == Len(b)
<1>1. /\ n \in Nat /\ m \in Nat /\ Len(r) = n + m
      /\ DOMAIN ts = 1..n /\ DOMAIN b = 1..m /\ DOMAIN r = 1..n + m
      /\ \A j \in 1..n : r[j] = ts[j]
      /\ \A j \in 1..m : r[n + j] = b[j]
  <2>1. r \in Seq(AllTestRecords) /\ Len(r) = n + m
    BY Joined
  <2>2. /\ n \in Nat /\ m \in Nat /\ DOMAIN ts = 1..n /\ DOMAIN b = 1..m
        /\ \A j \in 1..n : r[j] = ts[j]
        /\ \A j \in 1..m : r[n + j] = b[j]
    BY Joined
  <2>3. DOMAIN r = 1..n + m
    BY <2>1
  <2> QED BY <2>1, <2>2, <2>3
<1> HIDE DEF r, n, m
<1>2. ASSUME NEW t \in 1..n + m
      PROVE  \/ t \in 1..n /\ r[t] = ts[t]
             \/ t \in n + 1..n + m /\ t \notin 1..n /\ r[t].file = name
  <2>1. CASE t =< n
    <3>1. t \in 1..n
      BY <1>1, <2>1
    <3> QED BY <1>1, <3>1
  <2>2. CASE t > n
    <3> DEFINE j == t - n
    <3>1. j \in 1..m /\ t = n + j /\ t \in n + 1..n + m /\ t \notin 1..n
      BY <1>1, <2>2
    <3> HIDE DEF j
    <3>2. r[t] = b[j] /\ b[j].file = name
      BY <1>1, <3>1
    <3> QED BY <3>1, <3>2
  <2>3. t =< n \/ t > n
    BY <1>1
  <2> QED BY <2>1, <2>2, <2>3
<1>3. \A t \in 1..n : t \in 1..n + m
  BY <1>1
<1>4. \A t \in n + 1..n + m : t \in 1..n + m /\ t \notin 1..n
  BY <1>1
<1>5. {t \in DOMAIN r : r[t].file = name} = n + 1..n + m
  BY <1>1, <1>2, <1>4
<1>6. Together(r, name, b)
  <2>1. n \in 0..Len(r)
    BY <1>1
  <2> QED BY <1>1, <1>5, <2>1 DEF Together, m
<1>7. ASSUME NEW other, NEW block \in Seq(AllTestRecords), other # name,
             Together(ts, other, block)
      PROVE  Together(r, other, block)
  <2>1. PICK before \in 0..n :
          /\ {t \in DOMAIN ts : ts[t].file = other} = before + 1..before + Len(block)
          /\ \A k \in DOMAIN block : ts[before + k] = block[k]
    BY <1>7 DEF Together, n
  <2>2. {t \in DOMAIN r : r[t].file = other} = {t \in DOMAIN ts : ts[t].file = other}
    <3>1. \A t \in 1..n + m : r[t].file = other => t \in 1..n /\ ts[t].file = other
      BY <1>2, <1>7
    <3>2. \A t \in 1..n : r[t] = ts[t]
      BY <1>1
    <3> QED BY <1>1, <1>3, <3>1, <3>2
  <2>3. before \in 0..Len(r) /\ before \in Nat
    BY <1>1, <2>1
  <2>4. ASSUME NEW k \in DOMAIN block PROVE r[before + k] = block[k]
    <3>1. before + k \in before + 1..before + Len(block)
      BY <2>3
    <3>2. before + k \in 1..n
      BY <1>1, <2>1, <3>1
    <3> QED BY <1>1, <2>1, <3>2
  <2> QED BY <2>1, <2>2, <2>3, <2>4 DEF Together
<1>8. \A t \in DOMAIN r : (t \in DOMAIN ts /\ r[t] = ts[t]) \/ r[t].file = name
  BY <1>1, <1>2
<1> QED BY <1>6, <1>7, <1>8 DEF r

\* A file that can be read is entered, after all that come before it.
LEMMA ParseEnters ==
  ASSUME Typed, Walking, Default, Parse,
         NEW ps, Entered(ps), Plain(ps), SoFar(ps)
  PROVE  \E qs : Entered(qs)' /\ Plain(qs)' /\ SoFar(qs)'
<1>0. /\ UNCHANGED <<disk, call, project>> /\ Placed /\ call.tests_dir = NoPath
      /\ files \in Seq(FileRecords) /\ tests \in Seq(AllTestRecords)
  BY DEF Parse, inputs, Typed, Default
<1>1. pc = "parse" /\ at =< Len(found) /\ at' = at + 1 /\ UNCHANGED found
  BY DEF Parse
<1>2. at \in DOMAIN found /\ at \in Nat
  BY <1>1, AtHand
<1>3. PICK l : /\ TestAt(l) /\ found[at] = Named(l) /\ Locate(call.cwd, found[at]) = l
               /\ l \in DOMAIN disk.node /\ disk.node[l].kind = "file"
  BY <1>1, AtHand
<1> DEFINE name == InventoryName(l)
           block == Block(l)
           n == Len(files)
<1>4. /\ disk.node[l].readable
      /\ files' = Append(files, FileRecord(name, disk.node[l]))
      /\ tests' = tests \o block
  <2>1. relativize(found[at], project) = name
    BY <1>0, <1>3, DefaultNames
  <2> QED BY <1>3, <2>1 DEF Parse, Block
<1>5. l \in There
  BY <1>3, <1>4, ThereIsATest
<1>6. name \in Path
  <2>1. found[at] \in Path
    BY <1>2 DEF Typed
  <2> QED BY <1>0, <1>3, <2>1, DefaultNames, RelativeTyped DEF Placed
<1>7. /\ block \in Seq(AllTestRecords)
      /\ \A k \in DOMAIN block : block[k].file = name
  BY <1>0, <1>3, <1>6, TestRecordsTyped DEF Block
<1>8. n \in Nat /\ Len(files') = n + 1 /\ files'[n + 1] = FileRecord(name, disk.node[l])
      /\ \A f \in 1..n : files'[f] = files[f]
  <2> DEFINE r == FileRecord(name, disk.node[l])
  <2>1. r \in FileRecords
    BY <1>0, <1>3, <1>6, FileRecordTyped
  <2> HIDE DEF r
  <2>2. files' = Append(files, r)
    BY <1>4 DEF r
  <2>3. /\ Len(Append(files, r)) = n + 1 /\ Append(files, r)[n + 1] = r /\ n \in Nat
        /\ \A f \in 1..n : Append(files, r)[f] = files[f]
    BY <1>0, <2>1, AppendProperties
  <2> QED BY <2>2, <2>3 DEF r
<1>9. \A f \in 1..n + 1 : f = n + 1 \/ (f \in 1..n /\ f # n + 1 /\ f < n + 1)
  BY <1>8
<1>10. n + 1 \in 1..n + 1 /\ \A f \in 1..n : f \in 1..n + 1 /\ f # n + 1
  BY <1>8
<1>11. ps \in [1..n -> There]
  BY DEF Entered
<1>12. PICK qs : /\ qs \in [1..n + 1 -> There] /\ qs[n + 1] = l
                 /\ \A f \in 1..n : qs[f] = ps[f]
  <2> DEFINE rs == [f \in 1..n + 1 |-> IF f = n + 1 THEN l ELSE ps[f]]
  <2>1. /\ rs \in [1..n + 1 -> There] /\ rs[n + 1] = l
        /\ \A f \in 1..n : rs[f] = ps[f]
    BY <1>5, <1>9, <1>10, <1>11
  <2> HIDE DEF rs
  <2> QED BY <2>1
\* Those entered so far are others, and come before.
<1>13. ASSUME NEW f \in 1..n PROVE /\ TestAt(ps[f]) /\ ps[f] # l /\ Before(ps[f], l)
                                   /\ InventoryName(ps[f]) # name
  <2>1. PICK i \in 1..at - 1 : found[i] = Named(ps[f])
    BY DEF SoFar
  <2>2. TestAt(ps[f])
    BY <1>11, ThereIsATest
  <2>3. i \in DOMAIN found /\ i < at
    BY <1>2
  <2>4. Before(found[i].parts, found[at].parts)
    BY <1>1, <1>2, <2>3 DEF Walking, FoundAscends
  <2>5. Before(ps[f], l)
    BY <1>0, <1>3, <2>1, <2>2, <2>4, NamesCompareAlike
  <2>6. found[i] # found[at]
    <3>1. i # at
      BY <1>2, <2>3
    <3> QED BY <1>1, <1>2, <2>3, <3>1 DEF Walking, FoundIsSeen
  <2>7. ps[f] # l
    BY <1>3, <2>1, <2>6
  <2> QED BY <1>0, <1>3, <2>2, <2>5, <2>7, InventoryNamesDiffer
<1>14. \A t \in DOMAIN tests : tests[t].file # name
  BY <1>13 DEF Entered
<1>15. /\ Together(tests', name, block)
       /\ \A f \in 1..n : Together(tests', InventoryName(ps[f]), Block(ps[f]))
       /\ \A t \in DOMAIN tests' : \/ t \in DOMAIN tests /\ tests'[t] = tests[t]
                                   \/ tests'[t].file = name
  <2>1. ASSUME NEW f \in 1..n PROVE Block(ps[f]) \in Seq(AllTestRecords)
    <3>1. TestAt(ps[f])
      BY <1>13
    <3>2. ps[f] \in DOMAIN disk.node /\ disk.node[ps[f]].kind = "file"
      BY <3>1 DEF TestAt, Listed
    <3>3. InventoryName(ps[f]) \in Path
      BY <1>0, <3>1, NamesLeadThere, DefaultNames, RelativeTyped DEF Placed
    <3> QED BY <1>0, <3>2, <3>3, TestRecordsTyped DEF Block
  <2>2. \A f \in 1..n : Together(tests, InventoryName(ps[f]), Block(ps[f]))
    BY DEF Entered
  <2> HIDE DEF name, block
  <2>3. /\ Together(tests \o block, name, block)
        /\ \A other : \A b \in Seq(AllTestRecords) :
             other # name /\ Together(tests, other, b) => Together(tests \o block, other, b)
        /\ \A t \in DOMAIN (tests \o block) :
             \/ t \in DOMAIN tests /\ (tests \o block)[t] = tests[t]
             \/ (tests \o block)[t].file = name
    BY <1>0, <1>7, <1>14, BlocksJoin
  <2>4. \A f \in 1..n : Together(tests \o block, InventoryName(ps[f]), Block(ps[f]))
    BY <1>13, <2>1, <2>2, <2>3 DEF name
  <2> QED BY <1>4, <2>3, <2>4 DEF name, block
<1>16. /\ There' = There
       /\ \A m : Block(m)' = Block(m) /\ InventoryName(m)' = InventoryName(m)
       /\ \A m : Named(m)' = Named(m)
  BY <1>0, SameThere
<1>17. Entered(qs)'
  <2>1. \A a, b \in 1..n + 1 : a < b => Before(qs[a], qs[b])
    <3> SUFFICES ASSUME NEW a \in 1..n + 1, NEW b \in 1..n + 1, a < b
                 PROVE  Before(qs[a], qs[b])
      OBVIOUS
    <3>1. a \in 1..n
      BY <1>8
    <3>2. CASE b = n + 1
      BY <1>12, <1>13, <3>1, <3>2
    <3>3. CASE b \in 1..n
      <4>1. Before(ps[a], ps[b])
        BY <3>1, <3>3 DEF Entered
      <4> QED BY <1>12, <3>1, <3>3, <4>1
    <3> QED BY <1>9, <3>2, <3>3
  <2>2. \A f \in 1..n + 1 : Together(tests', InventoryName(qs[f]), Block(qs[f]))
    BY <1>9, <1>12, <1>15
  <2>3. ASSUME NEW t \in DOMAIN tests'
        PROVE  \E f \in 1..n + 1 : tests'[t].file = InventoryName(qs[f])
    <3>1. CASE t \in DOMAIN tests /\ tests'[t] = tests[t]
      <4>1. PICK f \in 1..n : tests[t].file = InventoryName(ps[f])
        BY <3>1 DEF Entered
      <4> QED BY <1>10, <1>12, <3>1, <4>1
    <3>2. CASE tests'[t].file = name
      BY <1>10, <1>12, <3>2
    <3> QED BY <1>15, <3>1, <3>2
  <2> QED BY <1>8, <1>12, <1>16, <2>1, <2>2, <2>3 DEF Entered
<1>18. Plain(qs)'
  <2> SUFFICES ASSUME NEW f \in 1..n + 1
               PROVE  files'[f] = FileRecord(InventoryName(qs[f]), disk.node[qs[f]])
    BY <1>0, <1>8, <1>16 DEF Plain
  <2>1. CASE f = n + 1
    BY <1>8, <1>12, <2>1
  <2>2. CASE f \in 1..n
    BY <1>8, <1>12, <2>2 DEF Plain
  <2> QED BY <1>9, <2>1, <2>2
<1>19. SoFar(qs)'
  <2>0. /\ at' - 1 = at /\ at \in 1..at
        /\ \A i \in 1..at : i = at \/ i \in 1..at - 1
        /\ \A i \in 1..at - 1 : i \in 1..at
    BY <1>1, <1>2
  <2>1. ASSUME NEW f \in 1..n + 1 PROVE \E i \in 1..at : found[i] = Named(qs[f])
    <3>1. CASE f = n + 1
      BY <1>3, <1>12, <2>0, <3>1
    <3>2. CASE f \in 1..n
      <4>1. PICK i \in 1..at - 1 : found[i] = Named(ps[f])
        BY <3>2 DEF SoFar
      <4> QED BY <1>12, <2>0, <3>2, <4>1
    <3> QED BY <1>9, <3>1, <3>2
  <2>2. ASSUME NEW m \in There, NEW i \in 1..at, found[i] = Named(m)
        PROVE  \E f \in 1..n + 1 : qs[f] = m
    <3>1. CASE i = at
      <4>1. TestAt(m)
        BY ThereIsATest
      <4>2. m = l
        BY <1>0, <1>3, <2>2, <3>1, <4>1, NamesCompareAlike
      <4> QED BY <1>10, <1>12, <4>2
    <3>2. CASE i \in 1..at - 1
      <4>1. PICK f \in 1..n : ps[f] = m
        BY <2>2, <3>2 DEF SoFar
      <4> QED BY <1>10, <1>12, <4>1
    <3> QED BY <2>0, <3>1, <3>2
  <2> QED BY <1>1, <1>8, <1>16, <2>0, <2>1, <2>2 DEF SoFar
<1> QED BY <1>17, <1>18, <1>19

\* Once all is read, every test file that can be read is entered.
LEMMA AllIsEntered ==
  ASSUME Typed, Walking, Default, AllParsed, NEW ps, Entered(ps), SoFar(ps)
  PROVE  Complete(ps)
<1> SUFFICES ASSUME NEW l \in There PROVE \E f \in 1..Len(files) : ps[f] = l
  BY DEF Complete
<1>1. pc = "parse" /\ at > Len(found) /\ pending = {} /\ FoundIsSeen
  BY DEF AllParsed, Walking
<1>2. PICK i \in DOMAIN found : found[i] = Named(l)
  BY <1>1, ThereIsATest DEF FoundIsSeen
<1>3. i \in 1..at - 1
  BY <1>1, <1>2 DEF Typed
<1> QED BY <1>2, <1>3 DEF SoFar

\* A file has the smells of its own tests.
LEMMA SmellsAreItsOwn ==
  ASSUME Typed, Default, DeriveSmells, NEW ps, Entered(ps), Plain(ps)
  PROVE  Judged(ps)' /\ Len(files') = Len(files)
<1>0. UNCHANGED <<disk, call, project, tests>> /\ Placed
  BY DEF DeriveSmells, inputs, Typed
<1>01. call.tests_dir = NoPath /\ files \in Seq(FileRecords) /\ tests \in Seq(AllTestRecords)
  BY DEF Default, Typed
<1>1. DOMAIN files = 1..Len(files) /\ Len(files) \in Nat
  BY <1>01
<1> DEFINE own(f) == {tests[t] : t \in {i \in DOMAIN tests : tests[i].file = files[f].path}}
           hits(f) == derive_file_smells(files[f].mocks, files[f].assertion_count, own(f))
<1>2. files' = [f \in 1..Len(files) |-> [files[f] EXCEPT !.smell_hits = hits(f)]]
  BY <1>1 DEF DeriveSmells
<1>3. Len(files') = Len(files)
  BY <1>1, <1>2
<1>4. ASSUME NEW f \in 1..Len(files)
      PROVE  hits(f) = derive_file_smells(disk.node[ps[f]].mocks,
                          FileRecord(InventoryName(ps[f]), disk.node[ps[f]]).assertion_count,
                          ToSet(disk.node[ps[f]].tests))
  <2> DEFINE l == ps[f]
             node == disk.node[l]
             name == InventoryName(l)
             block == TestRecords(name, node)
  <2>1. l \in There
    BY DEF Entered
  <2>2. TestAt(l) /\ l \in DOMAIN disk.node /\ disk.node[l].kind = "file"
    BY <2>1, ThereIsATest DEF TestAt, Listed
  <2>3. files[f] = FileRecord(name, node)
    BY DEF Plain
  <2>4. /\ files[f].path = name /\ files[f].mocks = node.mocks
        /\ files[f].assertion_count = FileRecord(name, node).assertion_count
    BY <2>3 DEF FileRecord
  <2>5. name \in Path
    BY <1>0, <1>01, <2>2, NamesLeadThere, DefaultNames, RelativeTyped DEF Placed
  <2>6. /\ block \in Seq(AllTestRecords)
        /\ \A k \in DOMAIN block : \E t \in ToSet(node.tests) :
             /\ t.assertion_count = block[k].assertion_count
             /\ t.only_asserts_on_mock = block[k].only_asserts_on_mock
        /\ \A t \in ToSet(node.tests) : \E k \in DOMAIN block :
             /\ t.assertion_count = block[k].assertion_count
             /\ t.only_asserts_on_mock = block[k].only_asserts_on_mock
    BY <1>0, <2>2, <2>5, TestRecordsTyped
  <2>7. Together(tests, name, block)
    BY DEF Entered, Block
  <2>8. own(f) = {tests[t] : t \in {i \in DOMAIN tests : tests[i].file = name}}
    BY <2>4
  <2> HIDE DEF own, node, name, block, l
  <2>9. PICK before \in 0..Len(tests) :
          /\ {t \in DOMAIN tests : tests[t].file = name} = before + 1..before + Len(block)
          /\ \A k \in DOMAIN block : tests[before + k] = block[k]
    BY <2>7 DEF Together
  <2>10. own(f) = {block[k] : k \in DOMAIN block}
    <3>1. DOMAIN block = 1..Len(block) /\ Len(block) \in Nat /\ before \in Nat
      BY <1>01, <2>6
    <3> DEFINE U == before + 1..before + Len(block)
    <3>2. own(f) = {tests[t] : t \in U}
      BY <2>8, <2>9
    <3>3. ASSUME NEW t \in U
          PROVE  \E k \in DOMAIN block : tests[t] = block[k]
      <4>1. t - before \in DOMAIN block /\ before + (t - before) = t
        BY <3>1
      <4> QED BY <2>9, <4>1
    <3>4. ASSUME NEW k \in DOMAIN block
          PROVE  \E t \in U : tests[t] = block[k]
      <4>1. before + k \in before + 1..before + Len(block)
        BY <3>1
      <4> QED BY <2>9, <4>1
    <3> HIDE DEF U
    <3>5. {tests[t] : t \in U} = {block[k] : k \in DOMAIN block}
      BY <3>3, <3>4
    <3> QED BY <3>2, <3>5
  <2> DEFINE S == own(f)
             T == ToSet(node.tests)
  <2>11. /\ \A s \in S : \E t \in T : /\ t.assertion_count = s.assertion_count
                                     /\ t.only_asserts_on_mock = s.only_asserts_on_mock
         /\ \A t \in T : \E s \in S : /\ t.assertion_count = s.assertion_count
                                     /\ t.only_asserts_on_mock = s.only_asserts_on_mock
    BY <2>6, <2>10
  <2> HIDE DEF S, T
  <2>12. \A m, a : derive_file_smells(m, a, S) = derive_file_smells(m, a, T)
    BY <2>11, SmellsLookAtAssertions
  <2> QED BY <2>4, <2>12 DEF S, T, node, name, l
<1>5. \A m : InventoryName(m)' = InventoryName(m)
  BY <1>0, SameThere
<1> HIDE DEF hits
<1>6. ASSUME NEW f \in 1..Len(files)
      PROVE  LET record == FileRecord(InventoryName(ps[f]), disk.node[ps[f]])
             IN  files'[f] = [record EXCEPT !.smell_hits =
                   derive_file_smells(disk.node[ps[f]].mocks, record.assertion_count,
                                      ToSet(disk.node[ps[f]].tests))]
  <2>1. files'[f] = [files[f] EXCEPT !.smell_hits = hits(f)]
    BY <1>2
  <2>2. files[f] = FileRecord(InventoryName(ps[f]), disk.node[ps[f]])
    BY DEF Plain
  <2> QED BY <1>4, <2>1, <2>2
<1> QED BY <1>0, <1>3, <1>5, <1>6 DEF Judged

\* What is entered stays so while nothing is read.
LEMMA EnteredStays ==
  ASSUME UNCHANGED <<disk, call, project, files, tests>>, NEW ps
  PROVE  /\ Entered(ps) => Entered(ps)'
         /\ Plain(ps) => Plain(ps)'
         /\ Judged(ps) => Judged(ps)'
         /\ Complete(ps) => Complete(ps)'
<1>1. /\ There' = There
      /\ \A l : Block(l)' = Block(l) /\ InventoryName(l)' = InventoryName(l)
  BY SameThere
<1>2. Entered(ps) => Entered(ps)'
  BY <1>1 DEF Entered
<1>3. Plain(ps) => Plain(ps)'
  BY <1>1 DEF Plain
<1>4. Judged(ps) => Judged(ps)'
  BY <1>1 DEF Judged
<1>5. Complete(ps) => Complete(ps)'
  BY <1>1 DEF Complete
<1> QED BY <1>2, <1>3, <1>4, <1>5

\* With no file there is nothing to enter.
LEMMA NothingEntered ==
  ASSUME files = <<>>, tests = <<>>
  PROVE  \E ps : /\ Entered(ps) /\ Plain(ps) /\ Judged(ps)
                 /\ There = {} => Complete(ps)
                 /\ at = 1 => SoFar(ps)
<1> DEFINE ps == [f \in 1..0 |-> <<>>]
<1>1. 1..Len(files) = {} /\ DOMAIN tests = {} /\ 1..0 = {} /\ ps \in [1..Len(files) -> There]
  OBVIOUS
<1> HIDE DEF ps
<1>2. Entered(ps)
  BY <1>1 DEF Entered
<1>3. Plain(ps) /\ Judged(ps) /\ (There = {} => Complete(ps))
  BY <1>1 DEF Plain, Judged, Complete
<1>4. at = 1 => SoFar(ps)
  <2>1. 1..1 - 1 = {}
    OBVIOUS
  <2> QED BY <1>1, <2>1 DEF SoFar
<1> QED BY <1>2, <1>3, <1>4

LEMMA RecordedInit == Init => Recorded
BY DEF Init, Recorded, Finished

LEMMA RecordedStep ==
  ASSUME Typed, Walking, Recorded, [Next]_vars
  PROVE  Recorded'
<1>0. UNCHANGED <<disk, call, project>> /\ Placed
  BY InputsStay DEF Typed
<1>1. Default' = Default
  BY <1>0 DEF Default
<1> SUFFICES ASSUME Default
             PROVE  /\ pc' = "parse" =>
                         \E ps : Entered(ps)' /\ Plain(ps)' /\ SoFar(ps)'
                    /\ pc' = "smells" =>
                         \E ps : Entered(ps)' /\ Plain(ps)' /\ Complete(ps)'
                    /\ Finished' =>
                         \E ps : Entered(ps)' /\ Judged(ps)' /\ Complete(ps)'
  BY <1>1 DEF Recorded
<1>2. /\ pc = "parse" => \E ps : Entered(ps) /\ Plain(ps) /\ SoFar(ps)
      /\ pc = "smells" => \E ps : Entered(ps) /\ Plain(ps) /\ Complete(ps)
      /\ Finished => \E ps : Entered(ps) /\ Judged(ps) /\ Complete(ps)
  BY DEF Recorded
<1> USE DEF inputs, Goto
<1>3. CASE pc' \in {"single", "discover", "walk", "failed"}
  BY <1>3 DEF Finished
<1>4. CASE ReadSingle
  BY <1>4 DEF ReadSingle, Walking, Default
<1>5. CASE SingleUnreadable \/ NotADirectory \/ StartWalk \/ WalkFails
  BY <1>3, <1>5 DEF SingleUnreadable, NotADirectory, StartWalk, WalkFails
<1>6. CASE WalkEntry
  BY <1>3, <1>6 DEF WalkEntry
<1>7. CASE NoTestsDir
  <2>1. /\ pc = "discover" /\ ~Exists(Walked) /\ UNCHANGED <<files, tests>>
        /\ pc' \in {"static_done", "failed"}
    BY <1>7 DEF NoTestsDir
  <2>2. files = <<>> /\ tests = <<>>
    BY <2>1 DEF Walking
  <2>3. There = {}
    <3> SUFFICES ASSUME NEW l \in Listed(Walked) PROVE FALSE
      BY DEF There
    <3>1. IsDir(Walked)
      BY <1>0, ListedLiesInside
    <3> QED BY <2>1, <3>1 DEF Exists, IsDir
  <2>4. PICK ps : Entered(ps) /\ Judged(ps) /\ Complete(ps)
    BY <2>2, <2>3, NothingEntered
  <2>5. Entered(ps)' /\ Judged(ps)' /\ Complete(ps)'
    BY <1>0, <2>1, <2>4, EnteredStays
  <2> QED BY <2>1, <2>5 DEF Finished
<1>8. CASE EndWalk
  <2>1. pc = "walk" /\ pc' = "parse" /\ UNCHANGED <<files, tests, at>>
    BY <1>8 DEF EndWalk
  <2>2. files' = <<>> /\ tests' = <<>> /\ at' = 1
    BY <2>1 DEF Walking
  <2>3. files = <<>> /\ tests = <<>>
    BY <2>1, <2>2
  <2>4. PICK ps : Entered(ps) /\ Plain(ps)
    BY <2>3, NothingEntered
  <2>5. Entered(ps)' /\ Plain(ps)'
    BY <1>0, <2>1, <2>4, EnteredStays
  <2>6. SoFar(ps)'
    <3>1. 1..Len(files') = {} /\ 1..at' - 1 = {}
      BY <2>2
    <3> QED BY <3>1 DEF SoFar
  <2> QED BY <2>1, <2>5, <2>6 DEF Finished
<1>9. CASE Parse
  <2>1. pc = "parse" /\ pc' = "parse"
    BY <1>9 DEF Parse
  <2>2. PICK ps : Entered(ps) /\ Plain(ps) /\ SoFar(ps)
    BY <1>2, <2>1
  <2>3. \E qs : Entered(qs)' /\ Plain(qs)' /\ SoFar(qs)'
    BY <1>9, <2>2, ParseEnters
  <2> QED BY <2>1, <2>3 DEF Finished
<1>10. CASE SkipFile
  <2>1. /\ pc = "parse" /\ pc' = "parse" /\ at =< Len(found) /\ at' = at + 1
        /\ ~disk.node[Locate(call.cwd, found[at])].readable
        /\ UNCHANGED <<found, files, tests>>
    BY <1>10 DEF SkipFile
  <2>2. PICK ps : Entered(ps) /\ Plain(ps) /\ SoFar(ps)
    BY <1>2, <2>1
  <2>3. Entered(ps)' /\ Plain(ps)'
    BY <1>0, <2>1, <2>2, EnteredStays
  <2>4. PICK l : TestAt(l) /\ found[at] = Named(l) /\ Locate(call.cwd, found[at]) = l
    BY <2>1, AtHand
  <2>5. at \in Nat /\ at' - 1 = at /\ (\A i \in 1..at : i = at \/ i \in 1..at - 1)
        /\ \A i \in 1..at - 1 : i \in 1..at
    <3>1. at \in Nat
      BY <2>1, AtHand
    <3> QED BY <2>1, <3>1
  <2>6. There' = There /\ \A m : Named(m)' = Named(m)
    BY <1>0, SameThere
  <2>7. ASSUME NEW m \in There, NEW i \in 1..at, found[i] = Named(m)
        PROVE  \E f \in 1..Len(files) : ps[f] = m
    <3>1. TestAt(m) /\ disk.node[m].readable
      BY ThereIsATest
    <3>2. m # l
      BY <2>1, <2>4, <3>1
    <3>3. i # at
      BY <1>0, <2>4, <2>7, <3>1, <3>2, NamesCompareAlike
    <3> QED BY <2>2, <2>5, <2>7, <3>3 DEF SoFar
  <2>8. \A f \in 1..Len(files) : \E i \in 1..at : found[i] = Named(ps[f])
    BY <2>2, <2>5 DEF SoFar
  <2>9. SoFar(ps)'
    BY <2>1, <2>5, <2>6, <2>7, <2>8 DEF SoFar
  <2> QED BY <2>1, <2>3, <2>9 DEF Finished
<1>11. CASE AllParsed
  <2>1. pc = "parse" /\ pc' = "smells" /\ UNCHANGED <<files, tests>>
    BY <1>11 DEF AllParsed
  <2>2. PICK ps : Entered(ps) /\ Plain(ps) /\ SoFar(ps)
    BY <1>2, <2>1
  <2>3. Complete(ps)
    BY <1>11, <2>2, AllIsEntered
  <2>4. Entered(ps)' /\ Plain(ps)' /\ Complete(ps)'
    BY <1>0, <2>1, <2>2, <2>3, EnteredStays
  <2> QED BY <2>1, <2>4 DEF Finished
<1>12. CASE DeriveSmells
  <2>1. pc = "smells" /\ pc' = "static_done" /\ UNCHANGED tests
    BY <1>12 DEF DeriveSmells
  <2>2. PICK ps : Entered(ps) /\ Plain(ps) /\ Complete(ps)
    BY <1>2, <2>1
  <2>3. Judged(ps)' /\ Len(files') = Len(files)
    BY <1>12, <2>2, SmellsAreItsOwn
  <2>4. /\ There' = There
        /\ \A l : Block(l)' = Block(l) /\ InventoryName(l)' = InventoryName(l)
    BY <1>0, SameThere
  <2>5. Entered(ps)'
    BY <2>1, <2>2, <2>3, <2>4 DEF Entered
  <2>6. Complete(ps)'
    BY <2>2, <2>3, <2>4 DEF Complete
  <2> QED BY <2>1, <2>3, <2>5, <2>6 DEF Finished
<1>13. CASE Finished /\ pc' \in {"detect", "done"} /\ UNCHANGED <<files, tests>>
  <2>1. PICK ps : Entered(ps) /\ Judged(ps) /\ Complete(ps)
    BY <1>2, <1>13
  <2>2. Entered(ps)' /\ Judged(ps)' /\ Complete(ps)'
    BY <1>0, <1>13, <2>1, EnteredStays
  <2> QED BY <1>13, <2>2
<1>14. CASE WithoutPytest \/ StartDetection \/ VenvHere \/ LookAbove \/ NoVenv
  BY <1>13, <1>14
     DEF WithoutPytest, StartDetection, VenvHere, LookAbove, NoVenv, Start, Finished
<1>15. CASE UNCHANGED vars
  <2>1. UNCHANGED <<pc, files, tests, found, at>> /\ Finished' = Finished
    BY <1>15 DEF vars, Finished
  <2>2. CASE pc = "parse"
    <3>1. PICK ps : Entered(ps) /\ Plain(ps) /\ SoFar(ps)
      BY <1>2, <2>2
    <3>2. There' = There /\ \A m : Named(m)' = Named(m)
      BY <1>0, SameThere
    <3>3. SoFar(ps)'
      BY <2>1, <3>1, <3>2 DEF SoFar
    <3>4. Entered(ps)' /\ Plain(ps)'
      BY <1>0, <2>1, <3>1, EnteredStays
    <3> QED BY <2>1, <2>2, <3>3, <3>4 DEF Finished
  <2>3. CASE pc = "smells"
    <3>1. PICK ps : Entered(ps) /\ Plain(ps) /\ Complete(ps)
      BY <1>2, <2>3
    <3>2. Entered(ps)' /\ Plain(ps)' /\ Complete(ps)'
      BY <1>0, <2>1, <3>1, EnteredStays
    <3> QED BY <2>1, <2>3, <3>2 DEF Finished
  <2>4. CASE Finished
    <3>1. PICK ps : Entered(ps) /\ Judged(ps) /\ Complete(ps)
      BY <1>2, <2>4
    <3>2. Entered(ps)' /\ Judged(ps)' /\ Complete(ps)'
      BY <1>0, <2>1, <3>1, EnteredStays
    <3> QED BY <2>1, <2>4, <3>2 DEF Finished
  <2> QED BY <2>1, <2>2, <2>3, <2>4
<1>16. CASE Exit
  BY <1>15, <1>16 DEF Exit
<1> QED
  BY <1>4, <1>5, <1>6, <1>7, <1>8, <1>9, <1>10, <1>11, <1>12, <1>14, <1>15, <1>16
  DEF Next

-------------------------------------------------------------------------------
(* The inventory is that of the disk *)

\* Paths have one order.
LEMMA BeforeIsStrict ==
  ASSUME NEW S \in SUBSET Seq(Names)
  PROVE  StrictTotal({x \in S \X S : Before(x[1], x[2])}, S)
<1> DEFINE R == {x \in S \X S : Before(x[1], x[2])}
<1>1. \A x \in S, y \in S : <<x, y>> \in R <=> Before(x, y)
  OBVIOUS
<1> HIDE DEF R
<1>2. \A x \in S : <<x, x>> \notin R
  BY <1>1, BeforeIrreflexive
<1>3. \A x, y, z \in S : <<x, y>> \in R /\ <<y, z>> \in R => <<x, z>> \in R
  BY <1>1, BeforeTransitive
<1>4. \A x, y \in S : x = y \/ <<x, y>> \in R \/ <<y, x>> \in R
  BY <1>1, BeforeTotal
<1>5. StrictTotal(R, S)
  BY <1>2, <1>3, <1>4 DEF StrictTotal
<1> QED BY <1>5 DEF R

\* s goes up for n steps.
GoesUp(s, n) == \A i, j \in 1..n : i < j => Before(s[i], s[j])

\* Who goes up through all of S has counted it, and there is no other way up.
LEMMA TheOnlyWayUp ==
  ASSUME NEW S \in SUBSET Seq(Names), NEW n \in Nat, NEW ps \in [1..n -> S],
         GoesUp(ps, n),
         \A l \in S : \E f \in 1..n : ps[f] = l
  PROVE  /\ n = Cardinality(S)
         /\ ps = CHOOSE s \in [1..Cardinality(S) -> S] : GoesUp(s, Cardinality(S))
<1> DEFINE R == {x \in S \X S : Before(x[1], x[2])}
           t == CHOOSE s \in [1..n -> S] : GoesUp(s, n)
<1>1. \A a \in 1..n : ps[a] \in S /\ ps[a] \in Seq(Names)
  OBVIOUS
<1>2. \A a \in 1..n, b \in 1..n : ps[a] = ps[b] => a = b
  <2> SUFFICES ASSUME NEW a \in 1..n, NEW b \in 1..n, a < b PROVE ps[a] # ps[b]
    OBVIOUS
  <2>1. Before(ps[a], ps[b])
    BY DEF GoesUp
  <2> QED BY <1>1, <2>1, BeforeIrreflexive
<1>3. ps \in Bijection(1..n, S)
  BY <1>2 DEF Bijection, Injection, Surjection, IsInjective
<1>4. IsFiniteSet(1..n) /\ Cardinality(1..n) = n
  BY FirstNumbers
<1>5. IsFiniteSet(S) /\ Cardinality(S) = n
  BY <1>3, <1>4, FS_Bijection DEF ExistsBijection
<1>7. t \in [1..n -> S] /\ GoesUp(t, n)
  OBVIOUS
<1> HIDE DEF t
<1>8. StrictTotal(R, S)
  BY BeforeIsStrict
<1>9. \A s \in [1..n -> S] : GoesUp(s, n) => Ascends(s, R, S, n)
  <2> SUFFICES ASSUME NEW s \in [1..n -> S], GoesUp(s, n) PROVE Ascends(s, R, S, n)
    OBVIOUS
  <2>1. \A a \in 1..n, b \in 1..n : a < b => <<s[a], s[b]>> \in R
    BY DEF GoesUp
  <2> HIDE DEF R
  <2> QED BY <2>1 DEF Ascends
<1> HIDE DEF R
<1>10. Ascends(ps, R, S, n) /\ Ascends(t, R, S, n)
  BY <1>7, <1>9
<1>11. ps = t
  BY <1>5, <1>8, <1>10, OneWayUp
<1> QED BY <1>5, <1>11 DEF t

LEMMA RecordsAreTheDisks ==
  ASSUME Typed, Recorded
  PROVE  ProjectRecordsAreTheDisks
<1> SUFFICES ASSUME Finished, Default PROVE ProjectRecordsAreTheDisks
  BY DEF ProjectRecordsAreTheDisks, Default
<1>1. PICK ps : Entered(ps) /\ Judged(ps) /\ Complete(ps)
  BY DEF Recorded
<1> DEFINE n == Len(files)
<1>2. n \in Nat /\ DOMAIN files = 1..n
  BY DEF Typed
<1>3. There \in SUBSET Seq(Names)
  <2> SUFFICES ASSUME NEW l \in There PROVE l \in Seq(Names)
    OBVIOUS
  <2>1. l \in Location
    BY ListedLiesInside DEF There, Typed
  <2> QED BY <2>1, LocationsArePaths
<1> HIDE DEF n
<1>4. /\ ps \in [1..n -> There]
      /\ GoesUp(ps, n)
      /\ \A f \in 1..n : Together(tests, InventoryName(ps[f]), Block(ps[f]))
      /\ \A l \in There : \E f \in 1..n : ps[f] = l
  BY <1>1 DEF Entered, Complete, GoesUp, n
<1>5. ps = CHOOSE s \in [1..Cardinality(There) -> There] : GoesUp(s, Cardinality(There))
  BY <1>2, <1>3, <1>4, TheOnlyWayUp
<1>6. TestsRoot = Walked
  BY DEF TestsRoot, Walked, tests_dir, Locate, Absolute, Default
<1>7. TestFiles = ps
  BY <1>5, <1>6 DEF TestFiles, There, GoesUp
<1>8. DOMAIN ps = DOMAIN files
  BY <1>2, <1>4
<1>9. ASSUME NEW i \in DOMAIN files
      PROVE  LET node == disk.node[ps[i]]
                 name == InventoryName(ps[i])
                 block == TestRecords(name, node)
                 record == FileRecord(name, node)
             IN  /\ files[i] = [record EXCEPT !.smell_hits =
                      derive_file_smells(node.mocks, record.assertion_count,
                                         ToSet(node.tests))]
                 /\ \E before \in 0..Len(tests) :
                      /\ {t \in DOMAIN tests : tests[t].file = name}
                           = before + 1..before + Len(block)
                      /\ \A k \in DOMAIN block : tests[before + k] = block[k]
  <2>1. Together(tests, InventoryName(ps[i]), Block(ps[i]))
    BY <1>2, <1>4
  <2>2. i \in 1..Len(files)
    BY <1>2 DEF n
  <2> QED BY <1>1, <2>1, <2>2 DEF Together, Block, Judged
<1> QED BY <1>7, <1>8, <1>9 DEF ProjectRecordsAreTheDisks

\* What is typed is typed.
LEMMA TypedIsTypeOK == Typed => TypeOK
<1> SUFFICES ASSUME Typed PROVE TypeOK
  OBVIOUS
<1>1. \A i \in DOMAIN found : found[i] \in Path
  BY DEF Typed
<1>2. \A f \in DOMAIN files : files[f] \in FileRecords
  BY DEF Typed
<1>3. \A t \in DOMAIN tests : tests[t] \in AllTestRecords
  BY DEF Typed
<1> QED BY <1>1, <1>2, <1>3
        DEF Typed, Placed, TypeOK, Ended, FileRecords, AllTestRecords

-------------------------------------------------------------------------------
(* The interpreter *)

\* Where an interpreter is looked for first.
Origin == IF call.unit = "member" THEN call.root ELSE project

\* The nearest directory that is still to be looked at, and those behind.
Looking(start, k) ==
  /\ k \in 0..Len(start)
  /\ dir = SubSeq(start, 1, k)
  /\ \A j \in k + 1..Len(start) : SubSeq(start, 1, j) \notin disk.venvs

\* What is started is what there was to start.
Sent ==
  /\ pc = "detect" => /\ call.unit # "file"
                      /\ \E k \in 0..Len(Origin) : Looking(Origin, k)
  /\ child # NoChild =>
       /\ NearestEnvironment
       /\ child = Argument(child.program)

\* The place to start from is a real one.
LEMMA OriginIsThere ==
  ASSUME Placed, call.unit # "file"
  PROVE  Origin \in Location
BY CallsAssumption DEF Placed, Origin, Call

\* With no environment further down, the one at hand is the nearest.
LEMMA NearestIsHere ==
  ASSUME NEW start \in Location, NEW venvs, NEW k \in 0..Len(start),
         SubSeq(start, 1, k) \in venvs,
         \A j \in k + 1..Len(start) : SubSeq(start, 1, j) \notin venvs
  PROVE  Max({j \in 0..Len(start) : SubSeq(start, 1, j) \in venvs}) = k
<1> DEFINE above == {j \in 0..Len(start) : SubSeq(start, 1, j) \in venvs}
<1>1. Len(start) \in Nat
  BY DEF Location
<1>2. k \in above /\ above \subseteq Nat
  BY <1>1
<1>3. ASSUME NEW j \in above PROVE j =< k
  <2>1. j \in 0..Len(start) /\ j \notin k + 1..Len(start)
    OBVIOUS
  <2> QED BY <1>1, <2>1
<1> HIDE DEF above
<1>4. \A x \in above : (\A y \in above : x >= y) => x = k
  <2> SUFFICES ASSUME NEW x \in above, \A y \in above : x >= y PROVE x = k
    OBVIOUS
  <2>1. x >= k /\ x =< k /\ x \in Nat /\ k \in Nat
    BY <1>2, <1>3
  <2> QED BY <2>1
<1>5. \A y \in above : k >= y
  BY <1>2, <1>3
<1>6. Max(above) = k
  BY <1>2, <1>4, <1>5 DEF Max
<1> QED BY <1>6 DEF above

LEMMA SentInit == Init => Sent
BY DEF Init, Sent, NoChild

\* While nothing is started, and afterwards, the search goes on from where it was.
LEMMA SentStep ==
  ASSUME Placed, Sent, [Next]_vars
  PROVE  Sent'
<1> USE DEF inputs
<1>0. Origin \in Location \/ call.unit = "file"
  BY OriginIsThere
<1>1. ASSUME UNCHANGED <<disk, call, project, child>>
      PROVE  child' # NoChild => NearestEnvironment' /\ child' = Argument(child.program)'
  <2>1. (child # NoChild => NearestEnvironment) /\ UNCHANGED <<disk, call, project, child>>
    BY <1>1 DEF Sent
  <2>2. NearestEnvironment => NearestEnvironment'
    BY <1>1 DEF NearestEnvironment, WithoutVenv
  <2>3. Argument(child.program)' = Argument(child.program)
    BY <1>1 DEF Argument, tests_dir
  <2> QED BY <2>1, <2>2, <2>3 DEF Sent
<1>2. CASE StartDetection
  <2>1. /\ UNCHANGED <<disk, call, project, child>> /\ pc' = "detect"
        /\ call.unit # "file" /\ dir' = Origin
    BY <1>2 DEF StartDetection, Origin
  <2>2. Origin' = Origin
    BY <2>1 DEF Origin
  <2>3. Looking(Origin, Len(Origin))'
    <3>1. Origin \in Seq(Names \ {Dot})
      BY <1>0, <2>1 DEF Location
    <3>2. Origin = SubSeq(Origin, 1, Len(Origin)) /\ Len(Origin) \in 0..Len(Origin)
          /\ Len(Origin) + 1..Len(Origin) = {}
      BY <3>1
    <3> QED BY <2>1, <2>2, <3>2 DEF Looking
  <2>4. Len(Origin') \in 0..Len(Origin')
    BY <2>3 DEF Looking
  <2> QED BY <1>1, <2>1, <2>2, <2>3, <2>4 DEF Sent
<1>3. CASE LookAbove
  <2>1. /\ UNCHANGED <<disk, call, project, child>> /\ pc = "detect" /\ pc' = "detect"
        /\ dir \notin disk.venvs /\ dir # <<>> /\ dir' = Front(dir)
    BY <1>3 DEF LookAbove
  <2>2. PICK k \in 0..Len(Origin) : Looking(Origin, k)
    BY <2>1 DEF Sent
  <2>3. Origin \in Seq(Names \ {Dot}) /\ call.unit # "file"
    BY <1>0, <2>1 DEF Location, Sent
  <2>4. k # 0 /\ k - 1 \in 0..Len(Origin) /\ Front(dir) = SubSeq(Origin, 1, k - 1)
    <3>1. k # 0
      BY <2>1, <2>2, <2>3 DEF Looking
    <3>2. Len(SubSeq(Origin, 1, k)) = k
          /\ SubSeq(SubSeq(Origin, 1, k), 1, k - 1) = SubSeq(Origin, 1, k - 1)
      BY <2>3, <3>1
    <3> QED BY <2>2, <2>3, <3>1, <3>2 DEF Looking, Front
  <2>5. \A j \in (k - 1) + 1..Len(Origin) : SubSeq(Origin, 1, j) \notin disk.venvs
    <3>1. \A j \in (k - 1) + 1..Len(Origin) : j = k \/ j \in k + 1..Len(Origin)
      BY <2>3
    <3> QED BY <2>1, <2>2, <3>1 DEF Looking
  <2>6. Origin' = Origin
    BY <2>1 DEF Origin
  <2>7. Looking(Origin, k - 1)'
    BY <2>1, <2>4, <2>5, <2>6 DEF Looking
  <2> QED BY <1>1, <2>1, <2>3, <2>4, <2>6, <2>7 DEF Sent
<1>4. CASE VenvHere \/ NoVenv
  <2>1. PICK program :
          /\ child' = Argument(program) /\ pc = "detect" /\ pc' = "done"
          /\ UNCHANGED <<disk, call, project, dir>>
          /\ \/ dir \in disk.venvs /\ program = VenvPython(dir)
             \/ dir \notin disk.venvs /\ dir = <<>> /\ program = WithoutVenv
    BY <1>4 DEF VenvHere, NoVenv, Start
  <2>2. PICK k \in 0..Len(Origin) : Looking(Origin, k)
    BY <2>1 DEF Sent
  <2>3. Origin \in Location /\ Origin \in Seq(Names \ {Dot})
    BY <1>0, <2>1 DEF Location, Sent
  <2>4. child'.program = program /\ Argument(child.program)' = Argument(program)
    <3>1. child'.program = program
      BY <2>1 DEF Argument
    <3> QED BY <2>1, <3>1 DEF Argument, tests_dir
  <2> DEFINE above == {j \in 0..Len(Origin) : SubSeq(Origin, 1, j) \in disk.venvs}
  <2>5. program = IF above # {} THEN VenvPython(SubSeq(Origin, 1, Max(above)))
                  ELSE WithoutVenv
    <3>1. CASE dir \in disk.venvs
      <4>1. Max(above) = k /\ k \in above
        BY <2>2, <2>3, <3>1, NearestIsHere DEF Looking
      <4> QED BY <2>1, <2>2, <3>1, <4>1 DEF Looking
    <3>2. CASE dir \notin disk.venvs
      <4>1. k = 0
        BY <2>1, <2>2, <2>3, <3>2 DEF Looking
      <4>2. \A j \in 0..Len(Origin) : j = k \/ j \in k + 1..Len(Origin)
        BY <2>3, <4>1
      <4>3. above = {}
        BY <2>2, <3>2, <4>2 DEF Looking
      <4> QED BY <2>1, <3>2, <4>3
    <3> QED BY <3>1, <3>2
  <2>6. NearestEnvironment'
    BY <2>1, <2>4, <2>5 DEF NearestEnvironment, Origin, WithoutVenv
  <2> QED BY <2>1, <2>4, <2>6 DEF Sent
<1>5. CASE UNCHANGED <<disk, call, project, child>> /\ pc' # "detect"
  BY <1>1, <1>5 DEF Sent
<1>6. CASE UNCHANGED vars
  <2>1. UNCHANGED <<disk, call, project, child, pc, dir>>
    BY <1>6 DEF vars
  <2>2. Origin' = Origin
    BY <2>1 DEF Origin
  <2> QED BY <1>1, <2>1, <2>2 DEF Sent, Looking
<1>7. CASE ReadSingle \/ SingleUnreadable \/ NoTestsDir \/ NotADirectory \/ StartWalk
           \/ WalkFails \/ EndWalk \/ Parse
  BY <1>5, <1>7 DEF ReadSingle, SingleUnreadable, NoTestsDir, NotADirectory, StartWalk,
              WalkFails, EndWalk, Parse, Goto
<1>8. CASE WalkEntry \/ SkipFile \/ AllParsed \/ DeriveSmells \/ WithoutPytest
  BY <1>5, <1>8 DEF WalkEntry, SkipFile, AllParsed, DeriveSmells, WithoutPytest, Goto
<1> QED
  BY <1>2, <1>3, <1>4, <1>6, <1>7, <1>8 DEF Next, Exit

-------------------------------------------------------------------------------
(* The tests directory *)

\* A single component other than `.` is one step.
LEMMA OneStep ==
  ASSUME NEW n \in Names, n # Dot
  PROVE  Steps(<<n>>) = <<n>>
<1>1. <<n>> \in Seq(Names \ {Dot}) /\ <<>> \in Seq(Names) /\ <<n>> \in Seq(Names)
  OBVIOUS
<1>2. Steps(<<>> \o <<n>>) = Steps(<<>>) \o <<n>>
  BY <1>1, StepsBelow
<1>3. Steps(<<>>) = <<>>
  <2>1. PICK h : Stepping(h, <<>>) /\ Steps(<<>>) = h[Len(<<>>)]
    BY <1>1, StepsAreStepping
  <2>2. Len(<<>>) = 0 /\ 0 \in 0..Len(<<>>)
    OBVIOUS
  <2>3. h[0] = <<>>
    BY <2>1, <2>2 DEF Stepping
  <2> QED BY <2>1, <2>2, <2>3
<1>4. <<>> \o <<n>> = <<n>>
  BY <1>1, ConcatEmptySeq
<1> QED BY <1>2, <1>3, <1>4

\* Wherever it runs, pytest is given the directory that was walked, unless a
\* relative one was typed for another directory than the one it runs in.
LEMMA SentToWhatWasWalked ==
  ASSUME Placed, Sent
  PROVE  PytestRunsWhatWasScanned
<1> SUFFICES ASSUME child # NoChild
             PROVE  \/ Locate(child.cwd, child.tests_dir) = Walked
                    \/ call.tests_dir # NoPath /\ ~call.tests_dir.abs /\ child.cwd # call.cwd
  BY DEF PytestRunsWhatWasScanned
<1>1. child = Argument(child.program)
  BY DEF Sent
<1>2. CASE call.unit = "member" /\ call.member_cwd = "member"
  <2>1. call.tests_dir = NoPath /\ project \in Seq(Names \ {Dot})
    BY <1>2, CallsAssumption DEF Placed, Location
  <2>2. child.cwd = project /\ child.tests_dir = [abs |-> FALSE, parts |-> <<Tests>>]
    BY <1>1, <1>2 DEF Argument
  <2>3. Locate(child.cwd, child.tests_dir) = Follow(project \o <<Tests>>)
    <3>1. Steps(<<Tests>>) = <<Tests>>
      BY OneStep, ComponentsAssumption
    <3> QED BY <2>2, <3>1 DEF Locate
  <2>4. Walked = Follow(Append(project, Tests))
    BY <2>1 DEF Walked, tests_dir, Locate, Absolute
  <2>5. Append(project, Tests) = project \o <<Tests>>
    BY <2>1, ComponentsAssumption
  <2> QED BY <2>3, <2>4, <2>5
<1>3. CASE ~(call.unit = "member" /\ call.member_cwd = "member")
  <2>1. child.tests_dir = tests_dir
    BY <1>1, <1>3 DEF Argument
  <2>2. CASE call.tests_dir = NoPath
    <3>1. tests_dir.abs
      BY <2>2 DEF tests_dir, Absolute
    <3> QED BY <2>1, <3>1 DEF Walked, Locate
  <2>3. CASE call.tests_dir # NoPath
    <3>1. tests_dir = call.tests_dir
      BY <2>3 DEF tests_dir
    <3>2. CASE call.tests_dir.abs
      BY <2>1, <3>1, <3>2 DEF Walked, Locate
    <3>3. CASE ~call.tests_dir.abs /\ child.cwd = call.cwd
      BY <2>1, <3>1, <3>3 DEF Walked
    <3> QED BY <2>3, <3>2, <3>3
  <2> QED BY <2>2, <2>3
<1> QED BY <1>2, <1>3

-------------------------------------------------------------------------------
(* The theorems *)

StaticInv == Typed /\ Walking /\ Recorded /\ Sent

LEMMA StaticInvariance == Spec => []StaticInv
<1>1. Init => StaticInv
  BY TypedInit, RecordedInit, SentInit DEF StaticInv
<1>2. StaticInv /\ [Next]_vars => StaticInv'
  BY SteppedTypes, WalkingStep, RecordedStep, SentStep DEF StaticInv, Typed
<1> QED BY <1>1, <1>2, PTL DEF Spec

\* Every name the scan enters is a path, every total a number, and the file at hand
\* one of those found, whatever the disk looks like.
THEOREM TypeCorrect == Spec => []TypeOK
<1>1. StaticInv => TypeOK
  BY TypedIsTypeOK DEF StaticInv
<1> QED BY <1>1, StaticInvariance, PTL

\* run_static_dir_with_options(): a project scan enters the test files of the disk,
\* each once, in the order of their paths, under a name below the project, with its
\* own tests and the smells of these, in whatever order the disk lists them, wherever
\* the scan is started, and along any links up to the tests directory.
THEOREM ProjectRecordsCorrect == Spec => []ProjectRecordsAreTheDisks
<1>1. StaticInv => ProjectRecordsAreTheDisks
  BY RecordsAreTheDisks DEF StaticInv
<1> QED BY <1>1, StaticInvariance, PTL

\* detect_python_cmd(): the nearest environment at or above the canonical project,
\* or the root of its workspace, for any depth of directories, however the
\* project was typed.
THEOREM NearestEnvironmentCorrect == Spec => []NearestEnvironment
<1>1. StaticInv => NearestEnvironment
  BY DEF StaticInv, Sent, NearestEnvironment
<1> QED BY <1>1, StaticInvariance, PTL

\* run_audit_with_pytest() and run_workspace_with_pytest(): pytest is given the
\* directory the static pass has walked, on any disk with any links.
THEOREM PytestRunsWhatWasScannedCorrect == Spec => []PytestRunsWhatWasScanned
<1>1. StaticInv => PytestRunsWhatWasScanned
  BY SentToWhatWasWalked DEF StaticInv, Typed
<1> QED BY <1>1, StaticInvariance, PTL

===============================================================================
