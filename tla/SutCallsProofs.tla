---------------------------- MODULE SutCallsProofs ----------------------------
(***************************************************************************)
(* Which calls count, for which tests, and how the counts are ranked, for  *)
(* every suite, every pyproject.toml and every bound on the table.         *)
(***************************************************************************)
EXTENDS SutCalls, FiniteSetTheorems, TLAPS

-------------------------------------------------------------------------------
(* Finite sets in a strict order *)

\* R orders S strictly and totally.
StrictTotal(R, S) ==
  /\ \A x \in S : <<x, x>> \notin R
  /\ \A x, y, z \in S : <<x, y>> \in R /\ <<y, z>> \in R => <<x, z>> \in R
  /\ \A x, y \in S : x = y \/ <<x, y>> \in R \/ <<y, x>> \in R

Below(R, S, x) == {y \in S : <<y, x>> \in R}

\* The interval of numbers up to k has k elements.
LEMMA FirstNumbers ==
  ASSUME NEW k \in Nat
  PROVE  IsFiniteSet(1..k) /\ Cardinality(1..k) = k
<1>1. 1 \in Int /\ k \in Int
  OBVIOUS
<1>2. IsFiniteSet(1..k) /\ Cardinality(1..k) = IF 1 > k THEN 0 ELSE k - 1 + 1
  BY ONLY <1>1, FS_Interval
<1> QED BY <1>2

\* What comes earlier has fewer elements below it.
LEMMA RankGrows ==
  ASSUME NEW S, IsFiniteSet(S), NEW R, StrictTotal(R, S), NEW x \in S, NEW y \in S
  PROVE  /\ Cardinality(Below(R, S, x)) \in Nat
         /\ Cardinality(Below(R, S, x)) < Cardinality(S)
         /\ <<x, y>> \in R => Cardinality(Below(R, S, x)) < Cardinality(Below(R, S, y))
<1> DEFINE B(z) == Below(R, S, z)
<1>1. \A T \in SUBSET S, U \in SUBSET S, z \in S :
        T \subseteq U /\ z \in U /\ z \notin T =>
          Cardinality(T) \in Nat /\ Cardinality(T) < Cardinality(U)
  <2> SUFFICES ASSUME NEW T \in SUBSET S, NEW U \in SUBSET S, NEW z \in S,
                      T \subseteq U, z \in U, z \notin T
               PROVE  Cardinality(T) \in Nat /\ Cardinality(T) < Cardinality(U)
    OBVIOUS
  <2>1. IsFiniteSet(U) /\ IsFiniteSet(T)
    BY FS_Subset
  <2>2. Cardinality(T) \in Nat /\ Cardinality(U) \in Nat
    BY <2>1, FS_CardinalityType
  <2>3. T \in SUBSET U /\ T # U
    OBVIOUS
  <2>4. Cardinality(T) =< Cardinality(U) /\ Cardinality(T) # Cardinality(U)
    BY <2>1, <2>3, FS_Subset
  <2> QED BY <2>2, <2>4
<1>2. B(x) \in SUBSET S /\ x \notin B(x) /\ B(y) \in SUBSET S
  BY DEF Below, StrictTotal
<1>3. <<x, y>> \in R => B(x) \subseteq B(y) /\ x \in B(y)
  BY DEF Below, StrictTotal
<1> QED BY <1>1, <1>2, <1>3

\* Every place below the size of a finite ordered set is taken.
LEMMA RankIsOnto ==
  ASSUME NEW S, IsFiniteSet(S), NEW R, StrictTotal(R, S),
         NEW k \in Nat, k < Cardinality(S)
  PROVE  \E x \in S : Cardinality(Below(R, S, x)) = k
<1> DEFINE n == Cardinality(S)
           f == [x \in S |-> Cardinality(Below(R, S, x)) + 1]
<1>1. n \in Nat
  BY FS_CardinalityType
<1>2. \A x \in S : f[x] \in 1..n
  <2> SUFFICES ASSUME NEW x \in S PROVE Cardinality(Below(R, S, x)) + 1 \in 1..n
    OBVIOUS
  <2>1. Cardinality(Below(R, S, x)) \in Nat /\ Cardinality(Below(R, S, x)) < n
    BY RankGrows
  <2> QED BY <1>1, <2>1
<1>3. \A x \in S, y \in S : f[x] = f[y] => x = y
  <2> SUFFICES ASSUME NEW x \in S, NEW y \in S, <<x, y>> \in R PROVE f[x] # f[y]
    BY DEF StrictTotal
  <2>1. /\ Cardinality(Below(R, S, x)) \in Nat
        /\ Cardinality(Below(R, S, y)) \in Nat
        /\ Cardinality(Below(R, S, x)) < Cardinality(Below(R, S, y))
    BY RankGrows
  <2> QED BY <2>1
<1>4. f \in Injection(S, 1..n)
  BY <1>2, <1>3 DEF Injection, IsInjective
<1>5. IsFiniteSet(1..n) /\ Cardinality(1..n) = n
  BY <1>1, FirstNumbers
<1>6. f \in Surjection(S, 1..n)
  BY <1>4, <1>5, FS_Injection
<1>7. PICK x \in S : f[x] = k + 1
  <2>1. k + 1 \in 1..n
    BY <1>1
  <2> QED BY <1>6, <2>1 DEF Surjection
<1>8. Cardinality(Below(R, S, x)) \in Nat
  BY RankGrows
<1> QED BY <1>7, <1>8

\* So a finite ordered set that is not empty has a first element.
LEMMA FirstExists ==
  ASSUME NEW S, IsFiniteSet(S), S # {}, NEW R, StrictTotal(R, S)
  PROVE  \E x \in S : \A y \in S \ {x} : <<x, y>> \in R
<1>1. Cardinality(S) \in Nat /\ Cardinality(S) # 0
  BY FS_CardinalityType, FS_EmptySet
<1>2. PICK x \in S : Cardinality(Below(R, S, x)) = 0
  BY <1>1, RankIsOnto
<1>3. IsFiniteSet(Below(R, S, x))
  BY FS_Subset DEF Below
<1>4. Below(R, S, x) = {}
  BY <1>2, <1>3, FS_EmptySet
<1> QED BY <1>4 DEF Below, StrictTotal

\* A set of numbers that is not empty has a least element.
LEMMA LeastNumber ==
  ASSUME NEW S \in SUBSET Nat, S # {}
  PROVE  \E n \in S : \A m \in S : n =< m
<1>1. PICK k \in S : TRUE
  OBVIOUS
<1> DEFINE T == {m \in S : m =< k}
           R == {p \in Nat \X Nat : p[1] < p[2]}
<1>2. T \in SUBSET Nat /\ k \in T /\ k \in Nat
  <2>1. k \in Nat /\ k =< k
    OBVIOUS
  <2> QED BY <2>1
<1>3. IsFiniteSet(T)
  <2>1. \A m \in T : m =< k
    OBVIOUS
  <2> HIDE DEF T
  <2> QED BY <1>2, <2>1, FS_BoundedSetOfNaturals
<1>4. \A x \in T, y \in T : <<x, y>> \in R <=> x < y
  BY <1>2
<1>5. StrictTotal(R, T)
  <2>1. T \subseteq Nat
    BY <1>2
  <2> HIDE DEF R, T
  <2> QED BY <1>4, <2>1 DEF StrictTotal
<1>6. PICK n \in T : \A m \in T \ {n} : <<n, m>> \in R
  <2> HIDE DEF R, T
  <2> QED BY <1>2, <1>3, <1>5, FirstExists
<1>7. \A m \in T \ {n} : n < m
  BY <1>4, <1>6
<1> QED BY <1>2, <1>7

-------------------------------------------------------------------------------
(* The order of names *)

NamePairs == {p \in Name \X Name : Precedes(p[1], p[2])}

\* A name is a sequence of segments, and segments are numbers.
LEMMA NameIsSequence ==
  ASSUME NEW n \in Name
  PROVE  /\ n \in Seq(Segments) /\ Len(n) \in Nat \ {0}
         /\ DOMAIN n = 1..Len(n)
         /\ \A k \in 1..Len(n) : n[k] \in Segments /\ n[k] \in Nat
         /\ Head(n) \in Segments /\ Tail(n) \in Seq(Segments)
<1>1. n \in Seq(Segments) /\ n # <<>>
  BY DEF Name
<1>2. Len(n) \in Nat /\ DOMAIN n = 1..Len(n) /\ \A k \in 1..Len(n) : n[k] \in Segments
  BY <1>1
<1>3. Len(n) # 0
  BY <1>1
<1>4. Head(n) \in Segments /\ Tail(n) \in Seq(Segments)
  BY <1>1
<1> QED BY <1>1, <1>2, <1>3, <1>4, SegmentsAssumption

\* No name precedes itself.
LEMMA PrecedesIrreflexive == \A n \in Name : ~Precedes(n, n)
<1> SUFFICES ASSUME NEW n \in Name, NEW k \in 1..Len(n), k > Len(n) \/ n[k] < n[k]
             PROVE  FALSE
  BY DEF Precedes
<1>1. Len(n) \in Nat /\ n[k] \in Nat
  BY NameIsSequence
<1> QED BY <1>1

\* The shorter of two common prefixes decides.
LEMMA PrecedesTransitive ==
  ASSUME NEW a \in Name, NEW b \in Name, NEW c \in Name, Precedes(a, b), Precedes(b, c)
  PROVE  Precedes(a, c)
<1>1. PICK k \in 1..Len(b) :
        /\ \A j \in 1..(k - 1) : j =< Len(a) /\ a[j] = b[j]
        /\ k > Len(a) \/ a[k] < b[k]
  BY DEF Precedes
<1>2. PICK m \in 1..Len(c) :
        /\ \A j \in 1..(m - 1) : j =< Len(b) /\ b[j] = c[j]
        /\ m > Len(b) \/ b[m] < c[m]
  BY DEF Precedes
<1>3. /\ Len(a) \in Nat /\ Len(b) \in Nat /\ Len(c) \in Nat
      /\ \A j \in 1..Len(a) : a[j] \in Nat
      /\ \A j \in 1..Len(b) : b[j] \in Nat
      /\ \A j \in 1..Len(c) : c[j] \in Nat
  BY NameIsSequence
<1> DEFINE Decides(i) == /\ i \in 1..Len(c)
                         /\ \A j \in 1..(i - 1) : j =< Len(a) /\ a[j] = c[j]
                         /\ i > Len(a) \/ a[i] < c[i]
<1>4. CASE k < m
  <2>1. k \in 1..Len(c) /\ b[k] = c[k]
    BY <1>2, <1>3, <1>4
  <2>2. \A j \in 1..(k - 1) : j =< Len(a) /\ a[j] = c[j]
    BY <1>1, <1>2, <1>3, <1>4
  <2> QED BY <1>1, <2>1, <2>2 DEF Precedes
<1>5. CASE m < k
  <2>1. m =< Len(a) /\ a[m] = b[m] /\ m =< Len(b)
    BY <1>1, <1>3, <1>5
  <2>2. \A j \in 1..(m - 1) : j =< Len(a) /\ a[j] = c[j]
    BY <1>1, <1>2, <1>3, <1>5
  <2>3. a[m] < c[m]
    BY <1>2, <1>3, <2>1
  <2> QED BY <2>2, <2>3 DEF Precedes
<1>6. CASE m = k
  <2>1. \A j \in 1..(m - 1) : j =< Len(a) /\ a[j] = c[j]
    BY <1>1, <1>2, <1>3, <1>6
  <2>2. b[m] < c[m] /\ m \in 1..Len(b)
    BY <1>1, <1>2, <1>3, <1>6
  <2>3. m > Len(a) \/ a[m] < c[m]
    <3>1. CASE k > Len(a)
      BY <1>6, <3>1
    <3>2. CASE k =< Len(a) /\ a[k] < b[k]
      <4>1. a[m] \in Nat /\ b[m] \in Nat /\ c[m] \in Nat /\ a[m] < b[m]
        BY <1>3, <1>6, <2>2, <3>2
      <4> QED BY <2>2, <4>1
    <3> QED BY <1>1, <1>3, <3>1, <3>2
  <2> QED BY <2>1, <2>3 DEF Precedes
<1> QED BY <1>1, <1>2, <1>3, <1>4, <1>5, <1>6

\* Two names differ at some first place, and that decides.
LEMMA PrecedesTotal ==
  ASSUME NEW a \in Name, NEW b \in Name, a # b
  PROVE  Precedes(a, b) \/ Precedes(b, a)
<1>1. /\ a \in Seq(Segments) /\ b \in Seq(Segments)
      /\ Len(a) \in Nat /\ Len(b) \in Nat
      /\ \A j \in 1..Len(a) : a[j] \in Nat
      /\ \A j \in 1..Len(b) : b[j] \in Nat
  BY NameIsSequence
<1> DEFINE D == {k \in Nat : k > 0 /\ (k > Len(a) \/ k > Len(b) \/ a[k] # b[k])}
<1>2. PICK k \in D : \A m \in D : k =< m
  <2>1. Len(a) + 1 \in D
    BY <1>1
  <2>2. D \in SUBSET Nat /\ D # {}
    BY <2>1
  <2> HIDE DEF D
  <2> QED BY <2>2, LeastNumber
<1>3. k \in Nat /\ k > 0 /\ (k > Len(a) \/ k > Len(b) \/ a[k] # b[k])
  OBVIOUS
<1>4. \A j \in 1..(k - 1) : j =< Len(a) /\ j =< Len(b) /\ a[j] = b[j]
  <2> SUFFICES ASSUME NEW j \in 1..(k - 1) PROVE j \notin D
    BY <1>1, <1>3
  <2>1. j < k
    BY <1>3
  <2> HIDE DEF D
  <2> QED BY <1>2, <1>3, <2>1
<1> HIDE DEF D
<1>5. CASE k > Len(a) /\ k > Len(b)
  <2>1. Len(a) = k - 1 /\ Len(b) = k - 1
    <3>1. k - 1 =< Len(a) /\ k - 1 =< Len(b)
      <4>1. CASE k = 1
        BY <1>1, <4>1
      <4>2. CASE k > 1
        BY <1>3, <1>4, <4>2
      <4> QED BY <1>3, <4>1, <4>2
    <3> QED BY <1>1, <1>3, <1>5, <3>1
  <2>2. a = b
    BY <1>1, <1>4, <2>1
  <2> QED BY <2>2
<1>6. CASE k > Len(a) /\ k =< Len(b)
  BY <1>3, <1>4, <1>6 DEF Precedes
<1>7. CASE k =< Len(a) /\ k > Len(b)
  BY <1>3, <1>4, <1>7 DEF Precedes
<1>8. CASE k =< Len(a) /\ k =< Len(b)
  <2>1. a[k] \in Nat /\ b[k] \in Nat /\ a[k] # b[k] /\ k \in 1..Len(a) /\ k \in 1..Len(b)
    BY <1>1, <1>3, <1>8
  <2>2. CASE a[k] < b[k]
    BY <1>4, <2>1, <2>2 DEF Precedes
  <2>3. CASE b[k] < a[k]
    BY <1>4, <2>1, <2>3 DEF Precedes
  <2> QED BY <2>1, <2>2, <2>3
<1> QED BY <1>1, <1>3, <1>5, <1>6, <1>7, <1>8

\* The first of some names is one of them.
LEMMA FirstIsOne ==
  ASSUME NEW S \in SUBSET Name, IsFiniteSet(S), S # {}
  PROVE  First(S) \in S
<1> DEFINE R == NamePairs
<1>1. \A x \in S, y \in S : <<x, y>> \in R <=> Precedes(x, y)
  BY DEF NamePairs
<1>2. StrictTotal(R, S)
  <2> HIDE DEF R
  <2> QED BY <1>1, PrecedesIrreflexive, PrecedesTransitive, PrecedesTotal DEF StrictTotal
<1>3. PICK x \in S : \A y \in S \ {x} : <<x, y>> \in R
  <2> HIDE DEF R
  <2> QED BY <1>2, FirstExists
<1>4. \A y \in S \ {x} : Precedes(x, y)
  BY <1>1, <1>3
<1> QED BY <1>4 DEF First

-------------------------------------------------------------------------------
(* Types *)

\* A statement that binds a name binds a segment to a name.
LEMMA StatementType ==
  ASSUME NEW s \in Statement
  PROVE  /\ s.kind \in {"import", "import as", "from"} => Local(s) \in Segments /\ Target(s) \in Name
         /\ s.kind = "from star" => s.module \in Name
<1>1. CASE s \in [kind : {"import"}, name : Name]
  BY <1>1, NameIsSequence DEF Local, Target
<1>2. CASE s \in [kind : {"import as"}, name : Name, alias : Segments]
  BY <1>2 DEF Local, Target
<1>3. CASE s \in [kind : {"from"}, module : Name, name : Segments, alias : Segments]
  <2>1. s.module \in Name /\ s.name \in Segments /\ s.alias \in Segments /\ s.kind = "from"
    BY <1>3
  <2>2. s.module \in Seq(Segments)
    BY <2>1 DEF Name
  <2>3. Append(s.module, s.name) \in Seq(Segments) /\ Append(s.module, s.name) # <<>>
    BY <2>1, <2>2
  <2> QED BY <2>1, <2>3 DEF Local, Target, Name
<1>4. CASE s \in [kind : {"from star"}, module : Name]
  BY <1>4
<1>5. CASE s \in [kind : {"relative"}]
  BY <1>5
<1> QED BY <1>1, <1>2, <1>3, <1>4, <1>5 DEF Statement

MapOK(m) == IsImportMap(m) /\ IsFiniteSet(m.stars)

\* A name joined to a sequence of segments is a name.
LEMMA JoinedName ==
  ASSUME NEW m \in Name, NEW q \in Seq(Segments)
  PROVE  m \o q \in Name
<1>1. m \in Seq(Segments) /\ m # <<>> /\ Len(m) > 0
  BY NameIsSequence DEF Name
<1>2. m \o q \in Seq(Segments) /\ Len(m \o q) = Len(m) + Len(q) /\ Len(q) \in Nat /\ Len(m) \in Nat
  BY <1>1
<1>3. Len(m \o q) # 0
  BY <1>1, <1>2
<1>4. m \o q # <<>>
  BY <1>3
<1> QED BY <1>2, <1>4 DEF Name

\* A call counts under one name at most.
LEMMA ResolveType ==
  ASSUME NEW raw \in Name, NEW map, MapOK(map)
  PROVE  Resolve(raw, map) \subseteq Name /\ IsFiniteSet(Resolve(raw, map))
<1> DEFINE own == {s \in map.stars : UnderProject(s)}
           bound == {n \in {Canonical(raw, map.aliases)} : UnderProject(map.aliases[Head(raw)])}
<1>1. IsFiniteSet(own) /\ own \in SUBSET Name
  BY FS_Subset DEF MapOK, IsImportMap
<1>2. own # {} => First(own) \o raw \in Name
  <2> HIDE DEF own
  <2>1. raw \in Seq(Segments)
    BY NameIsSequence
  <2> QED BY <1>1, <2>1, FirstIsOne, JoinedName
<1>3. Head(raw) \in DOMAIN map.aliases => Canonical(raw, map.aliases) \in Name
  <2> SUFFICES ASSUME Head(raw) \in DOMAIN map.aliases
               PROVE  Canonical(raw, map.aliases) \in Name
    OBVIOUS
  <2>1. map.aliases[Head(raw)] \in Name /\ Tail(raw) \in Seq(Segments)
    BY NameIsSequence DEF MapOK, IsImportMap
  <2>2. map.aliases[Head(raw)] \o Tail(raw) \in Name
    BY <2>1, JoinedName
  <2> QED BY <2>2 DEF Canonical
<1>4. IsFiniteSet(bound)
  <2>1. IsFiniteSet({Canonical(raw, map.aliases)}) /\ bound \in SUBSET {Canonical(raw, map.aliases)}
    BY FS_Singleton
  <2> HIDE DEF bound
  <2> QED BY <2>1, FS_Subset
<1>5. Resolve(raw, map) \in {{}, {raw}, bound, {First(own) \o raw}}
  BY DEF Resolve
<1>6. \A n \in Resolve(raw, map) : n \in Name
  <2>1. CASE Resolve(raw, map) \in {{}, {raw}}
    BY <2>1
  <2>2. CASE Head(raw) \in DOMAIN map.aliases /\ Resolve(raw, map) = bound
    BY <1>3, <2>2
  <2>3. CASE own # {} /\ Resolve(raw, map) = {First(own) \o raw}
    BY <1>2, <2>3
  <2> QED BY <2>1, <2>2, <2>3 DEF Resolve
<1>7. IsFiniteSet({}) /\ \A x : IsFiniteSet({x})
  BY FS_EmptySet, FS_Singleton
<1> HIDE DEF own, bound
<1> QED BY <1>4, <1>5, <1>6, <1>7

\* What pyproject.toml declares is names.
LEMMA DeclaredType ==
  ASSUME NEW p \in Project
  PROVE  /\ Collected(p) \subseteq Name
         /\ \A n \in Name : Importable(n) \in Name /\ Len(Importable(n)) = Len(n)
         /\ Declared(p) \subseteq Name
<1>1. \A n \in Name : Importable(n) \in Name /\ Len(Importable(n)) = Len(n)
  <2> SUFFICES ASSUME NEW n \in Name
               PROVE  Importable(n) \in Name /\ Len(Importable(n)) = Len(n)
    OBVIOUS
  <2>1. Len(n) \in Nat \ {0} /\ DOMAIN n = 1..Len(n) /\ \A k \in 1..Len(n) : n[k] \in Segments
    BY NameIsSequence
  <2>2. Importable(n) \in [1..Len(n) -> Segments]
    BY <2>1, SegmentsAssumption DEF Importable
  <2>3. Importable(n) \in Seq(Segments) /\ Len(Importable(n)) = Len(n)
    BY <2>1, <2>2
  <2>4. Importable(n) # <<>>
    BY <2>1, <2>3
  <2> QED BY <2>3, <2>4 DEF Name
<1>2. \A q \in Seq(Seq(Segments)) : \A path \in Range(q) : path # <<>> => <<Last(path)>> \in Name
  <2> SUFFICES ASSUME NEW path \in Seq(Segments), path # <<>> PROVE <<Last(path)>> \in Name
    BY DEF Range
  <2>1. Len(path) \in Nat /\ Len(path) # 0 /\ path[Len(path)] \in Segments
    BY DEF Last
  <2> QED BY <2>1 DEF Last, Name
<1>3. \A q \in Seq(Name) : Range(q) \subseteq Name
  BY DEF Range
<1>4. Collected(p) \subseteq Name
  <2>1. /\ p.name \in Name \cup {Absent} /\ p.dir \in Name \cup {Absent}
        /\ p.hatch \in Seq(Seq(Segments)) /\ p.setuptools \in Seq(Name)
    BY DEF Project, Optional
  <2> QED BY <1>2, <1>3, <2>1 DEF Collected
<1> QED BY <1>1, <1>4 DEF Declared

Inputs == suite \in Suites /\ project \in Projects /\ override \in Overrides

RecordType == [file : DOMAIN importsOf, nodeid : Nodeids, called : SUBSET Name]

\* TypeOK, with what makes sets finite.
TypeInv ==
  /\ TypeOK
  /\ Inputs
  /\ IsFiniteSet(imports.stars)
  /\ \A f \in DOMAIN importsOf : IsFiniteSet(importsOf[f].stars)
  /\ \A i \in DOMAIN records : IsFiniteSet(records[i].called)

\* A file of a suite, its statements and its tests.
LEMMA FileType ==
  ASSUME TypeInv, NEW f \in DOMAIN suite
  PROVE  /\ suite[f].statements \in Seq(Statement)
         /\ suite[f].tests \in Seq([nodeid : Nodeids, calls : SUBSET Name])
         /\ \A n \in DOMAIN suite[f].statements : suite[f].statements[n] \in Statement
         /\ \A k \in DOMAIN suite[f].tests :
              /\ suite[f].tests[k].nodeid \in Nodeids
              /\ suite[f].tests[k].calls \in SUBSET Name
              /\ IsFiniteSet(suite[f].tests[k].calls)
<1>1. suite \in Seq(File)
  BY DEF TypeInv, TypeOK
<1>2. suite[f] \in File
  BY <1>1
<1>3. /\ suite[f].statements \in Seq(Statement)
      /\ suite[f].tests \in Seq([nodeid : Nodeids, calls : SUBSET Name])
  BY <1>2 DEF File
<1>4. \A T : \A q \in Seq(T) : \A n \in DOMAIN q : q[n] \in T
  OBVIOUS
<1>5. \A n \in DOMAIN suite[f].statements : suite[f].statements[n] \in Statement
  BY <1>3, <1>4
<1>6. \A k \in DOMAIN suite[f].tests : suite[f].tests[k] \in [nodeid : Nodeids, calls : SUBSET Name]
  BY <1>3, <1>4
<1>7. \A k \in DOMAIN suite[f].tests : IsFiniteSet(suite[f].tests[k].calls)
  BY CallsAreFinite DEF TypeInv, Inputs
<1> QED BY <1>3, <1>5, <1>6, <1>7

\* The records of a file hold its calls, without those of self.
LEMMA RecordsOfType ==
  ASSUME TypeInv, NEW f \in DOMAIN suite
  PROVE  /\ RecordsOf(f) \in Seq([file : {f}, nodeid : Nodeids, called : SUBSET Name])
         /\ DOMAIN RecordsOf(f) = DOMAIN suite[f].tests
         /\ \A k \in DOMAIN RecordsOf(f) : IsFiniteSet(RecordsOf(f)[k].called)
<1>1. suite[f].tests \in Seq([nodeid : Nodeids, calls : SUBSET Name])
  BY FileType
<1>2. Len(suite[f].tests) \in Nat /\ DOMAIN suite[f].tests = 1..Len(suite[f].tests)
  BY <1>1
<1>3. \A k \in DOMAIN suite[f].tests :
        /\ [file |-> f, nodeid |-> suite[f].tests[k].nodeid,
            called |-> {c \in suite[f].tests[k].calls : Head(c) # Itself}]
             \in [file : {f}, nodeid : Nodeids, called : SUBSET Name]
        /\ IsFiniteSet({c \in suite[f].tests[k].calls : Head(c) # Itself})
  BY FileType, FS_Subset
<1>4. RecordsOf(f) \in [1..Len(suite[f].tests) -> [file : {f}, nodeid : Nodeids, called : SUBSET Name]]
  BY <1>2, <1>3 DEF RecordsOf
<1>5. \A T : \A n \in Nat : \A q \in [1..n -> T] : q \in Seq(T)
  OBVIOUS
<1>6. RecordsOf(f) \in Seq([file : {f}, nodeid : Nodeids, called : SUBSET Name])
  BY <1>2, <1>4, <1>5
<1>7. DOMAIN RecordsOf(f) = DOMAIN suite[f].tests
  BY DEF RecordsOf
<1>8. \A k \in DOMAIN RecordsOf(f) : IsFiniteSet(RecordsOf(f)[k].called)
  BY <1>3 DEF RecordsOf
<1> QED BY <1>6, <1>7, <1>8

\* Nothing is read at first.
LEMMA TypeInit == Init => TypeInv
<1> SUFFICES ASSUME Init PROVE TypeInv
  OBVIOUS
<1>1. Inputs /\ suite \in Seq(File) /\ project \in Project /\ override \in Optional(Name)
  BY InputsAssumption DEF Init, Inputs
<1>2. DOMAIN importsOf = {} /\ records = <<>> /\ imports = NoImports
  BY DEF Init
<1>3. Len(suite) \in Nat /\ file \in 1..Len(suite) + 1
  BY <1>1 DEF Init
<1>4. IsImportMap(imports) /\ IsFiniteSet(imports.stars)
  BY <1>2, FS_EmptySet DEF IsImportMap, NoImports
<1>5. /\ records \in Seq([file : DOMAIN importsOf, nodeid : Nodeids, called : SUBSET Name])
      /\ test \in 1..Len(records) + 1 /\ DOMAIN records = {}
  BY <1>2 DEF Init
<1>6. TypeOK
  BY <1>1, <1>2, <1>3, <1>4, <1>5 DEF TypeOK, Init
<1> QED BY <1>1, <1>2, <1>4, <1>5, <1>6 DEF TypeInv

\* The next file starts at its first statement, with nothing imported.
LEMMA NextFileType ==
  ASSUME TypeInv, Parsing, NextFile, UNCHANGED suite
  PROVE  /\ (file \in 1..Len(suite) + 1)' /\ (at \in Nat \ {0})'
         /\ MapOK(imports)' /\ imports' = NoImports
<1>1. suite \in Seq(File) /\ file \in Nat /\ file >= 1 /\ file =< Len(suite)
  BY DEF TypeInv, TypeOK, Parsing
<1>2. file + 1 \in 1..Len(suite) + 1
  BY <1>1
<1>3. MapOK(NoImports)
  BY FS_EmptySet DEF MapOK, IsImportMap, NoImports
<1> QED BY <1>2, <1>3 DEF NextFile, MapOK, IsImportMap

\* The file at hand is one of the suite.
LEMMA FileAtHand ==
  ASSUME TypeInv, Parsing
  PROVE  /\ file \in DOMAIN suite /\ file \in Nat /\ Len(suite) \in Nat
         /\ suite \in Seq(File)
BY DEF TypeInv, TypeOK, Parsing

\* Parsing a statement keeps the import map a map.
LEMMA StatementStep ==
  ASSUME TypeInv, RecordAlias \/ RecordStar \/ PassRelative
  PROVE  TypeInv'
<1> DEFINE s == suite[file].statements[at]
<1>1. /\ Parsing /\ at =< Len(suite[file].statements)
      /\ at' = at + 1
      /\ UNCHANGED <<inputs, pc, file, importsOf, records, packages, test, sutCalls>>
  BY DEF RecordAlias, RecordStar, PassRelative, AtStatement
<1>2. s \in Statement
  <2>1. file \in DOMAIN suite
    BY <1>1, FileAtHand
  <2>2. suite[file].statements \in Seq(Statement)
    BY <2>1, FileType
  <2>3. at \in DOMAIN suite[file].statements
    BY <1>1, <2>2 DEF TypeInv, TypeOK
  <2> QED BY <2>2, <2>3
<1>3. MapOK(imports)
  BY DEF TypeInv, TypeOK, MapOK
<1> HIDE DEF s
<1>4. MapOK(imports)'
  <2>1. CASE RecordAlias
    <3>1. /\ s.kind \in {"import", "import as", "from"}
          /\ imports' = [imports EXCEPT !.aliases = Insert(@, Local(s), Target(s))]
      BY <2>1 DEF RecordAlias, AtStatement, s
    <3>2. Local(s) \in Segments /\ Target(s) \in Name
      BY <1>2, <3>1, StatementType
    <3>3. imports'.aliases = Insert(imports.aliases, Local(s), Target(s)) /\ imports'.stars = imports.stars
          /\ DOMAIN imports' = DOMAIN imports
      <4>1. DOMAIN imports = {"aliases", "stars"}
        BY DEF TypeInv, TypeOK, IsImportMap
      <4> QED BY <3>1, <4>1
    <3> QED BY <1>3, <3>2, <3>3 DEF MapOK, IsImportMap, Insert
  <2>2. CASE RecordStar
    <3>1. /\ s.kind = "from star"
          /\ imports' = [imports EXCEPT !.stars = @ \cup {s.module}]
      BY <2>2 DEF RecordStar, AtStatement, s
    <3>2. s.module \in Name
      BY <1>2, <3>1, StatementType
    <3>3. imports'.aliases = imports.aliases /\ imports'.stars = imports.stars \cup {s.module}
          /\ DOMAIN imports' = DOMAIN imports
      <4>1. DOMAIN imports = {"aliases", "stars"}
        BY DEF TypeInv, TypeOK, IsImportMap
      <4> QED BY <3>1, <4>1
    <3>4. IsFiniteSet(imports'.stars)
      BY <1>3, <3>3, FS_AddElement DEF MapOK
    <3> QED BY <1>3, <3>2, <3>3, <3>4 DEF MapOK, IsImportMap
  <2>3. CASE PassRelative
    BY <1>3, <2>3 DEF PassRelative, MapOK, IsImportMap
  <2> QED BY <2>1, <2>2, <2>3
<1> QED BY <1>1, <1>4 DEF TypeInv, TypeOK, MapOK, Inputs, inputs, IsImportMap

\* A parsed file leaves its map and its records behind.
LEMMA FileParsedStep ==
  ASSUME TypeInv, FileParsed
  PROVE  TypeInv'
<1>1. /\ Parsing /\ NextFile
      /\ importsOf' = Insert(importsOf, file, imports)
      /\ records' = records \o RecordsOf(file)
      /\ UNCHANGED <<inputs, pc, packages, test, sutCalls>>
  BY DEF FileParsed
<1>2. file \in DOMAIN suite
  BY <1>1, FileAtHand
<1>3. /\ (file \in 1..Len(suite) + 1)' /\ (at \in Nat \ {0})' /\ MapOK(imports)'
  BY <1>1, NextFileType DEF inputs
<1>4. /\ DOMAIN importsOf' = DOMAIN importsOf \cup {file}
      /\ \A f \in DOMAIN importsOf' : importsOf'[f] = IF f = file THEN imports ELSE importsOf[f]
  BY <1>1 DEF Insert
<1>5. /\ DOMAIN importsOf' \subseteq DOMAIN suite'
      /\ \A f \in DOMAIN importsOf' : MapOK(importsOf'[f])
  BY <1>1, <1>2, <1>4 DEF TypeInv, TypeOK, MapOK, inputs
<1> DEFINE T == [file : DOMAIN importsOf', nodeid : Nodeids, called : SUBSET Name]
<1>6. records \in Seq(T) /\ RecordsOf(file) \in Seq(T)
  <2>1. \A A, B : A \subseteq B => \A q \in Seq(A) : q \in Seq(B)
    OBVIOUS
  <2>2. /\ RecordType \subseteq T
        /\ [file : {file}, nodeid : Nodeids, called : SUBSET Name] \subseteq T
    BY <1>4 DEF RecordType
  <2>3. records \in Seq(RecordType)
    BY DEF TypeInv, TypeOK, RecordType
  <2>4. RecordsOf(file) \in Seq([file : {file}, nodeid : Nodeids, called : SUBSET Name])
    BY <1>2, RecordsOfType
  <2> HIDE DEF T
  <2>5. records \in Seq(T)
    BY <2>1, <2>2, <2>3
  <2>6. RecordsOf(file) \in Seq(T)
    BY <2>1, <2>2, <2>4
  <2> QED BY <2>5, <2>6
<1>7. /\ records' \in Seq(T) /\ Len(records') >= Len(records)
      /\ Len(records) \in Nat /\ Len(records') \in Nat
      /\ \A i \in DOMAIN records' : \/ i \in DOMAIN records /\ records'[i] = records[i]
                                   \/ \E k \in DOMAIN RecordsOf(file) : records'[i] = RecordsOf(file)[k]
  <2> HIDE DEF T
  <2>1. \A p \in Seq(T), q \in Seq(T) :
          /\ p \o q \in Seq(T) /\ Len(p \o q) >= Len(p)
          /\ Len(p) \in Nat /\ Len(p \o q) \in Nat
          /\ \A i \in DOMAIN (p \o q) : \/ i \in DOMAIN p /\ (p \o q)[i] = p[i]
                                       \/ \E k \in DOMAIN q : (p \o q)[i] = q[k]
    <3> SUFFICES ASSUME NEW p \in Seq(T), NEW q \in Seq(T)
                 PROVE  /\ p \o q \in Seq(T) /\ Len(p \o q) >= Len(p)
                        /\ Len(p) \in Nat /\ Len(p \o q) \in Nat
                        /\ \A i \in DOMAIN (p \o q) :
                             \/ i \in DOMAIN p /\ (p \o q)[i] = p[i]
                             \/ \E k \in DOMAIN q : (p \o q)[i] = q[k]
      OBVIOUS
    <3>1. /\ p \o q \in Seq(T) /\ Len(p \o q) = Len(p) + Len(q)
          /\ Len(p) \in Nat /\ Len(q) \in Nat
      OBVIOUS
    <3>2. \A i \in 1..Len(p) : (p \o q)[i] = p[i]
      OBVIOUS
    <3>3. \A i \in 1..Len(p) + Len(q) : i > Len(p) =>
            (p \o q)[i] = q[i - Len(p)] /\ i - Len(p) \in DOMAIN q
      OBVIOUS
    <3>4. DOMAIN (p \o q) = 1..Len(p) + Len(q) /\ DOMAIN p = 1..Len(p)
      BY <3>1
    <3> QED BY <3>1, <3>2, <3>3, <3>4
  <2> QED BY <1>1, <1>6, <2>1
<1>8. \A i \in DOMAIN records' : IsFiniteSet(records'[i].called)
  BY <1>2, <1>7, RecordsOfType DEF TypeInv
<1>9. (test \in 1..Len(records) + 1)'
  BY <1>1, <1>7 DEF TypeInv, TypeOK
<1>10. TypeOK'
  BY <1>1, <1>3, <1>5, <1>7, <1>9 DEF TypeInv, TypeOK, MapOK, inputs, IsImportMap
<1> QED BY <1>1, <1>3, <1>5, <1>8, <1>10 DEF TypeInv, MapOK, Inputs, inputs

\* Resolving one record leaves the others alone.
LEMMA ResolveStep ==
  ASSUME TypeInv, ResolveTest
  PROVE  /\ TypeInv'
         /\ test \in DOMAIN records /\ test' = test + 1
         /\ DOMAIN records' = DOMAIN records
         /\ \A i \in DOMAIN records :
              /\ i # test => records'[i] = records[i]
              /\ records'[i].file = records[i].file
              /\ records'[i].nodeid = records[i].nodeid
         /\ records'[test].called =
              UNION {Resolve(raw, ImportsFor(records[test])) : raw \in records[test].called}
<1> DEFINE R == RecordType
           called == UNION {Resolve(raw, ImportsFor(records[test])) : raw \in records[test].called}
<1>1. /\ test =< Len(records)
      /\ records' = [records EXCEPT ![test].called = called]
      /\ test' = test + 1
      /\ UNCHANGED <<inputs, pc, file, at, imports, importsOf, packages, sutCalls>>
  BY DEF ResolveTest
<1>2. records \in Seq(R) /\ test \in Nat /\ test >= 1
  BY DEF TypeInv, TypeOK, RecordType
<1>3. test \in DOMAIN records /\ Len(records) \in Nat /\ DOMAIN records = 1..Len(records)
  BY <1>1, <1>2
<1>4. records[test] \in R /\ IsFiniteSet(records[test].called)
  <2>1. \A T : \A q \in Seq(T) : \A i \in DOMAIN q : q[i] \in T
    OBVIOUS
  <2> HIDE DEF R
  <2> QED BY <1>2, <1>3, <2>1 DEF TypeInv
<1>5. MapOK(ImportsFor(records[test]))
  BY <1>4 DEF RecordType, ImportsFor, TypeInv, TypeOK, MapOK
<1>6. called \subseteq Name /\ IsFiniteSet(called)
  <2> DEFINE S == records[test].called
             g == [raw \in S |-> Resolve(raw, ImportsFor(records[test]))]
             T == {Resolve(raw, ImportsFor(records[test])) : raw \in S}
  <2>1. S \subseteq Name /\ IsFiniteSet(S)
    BY <1>4 DEF RecordType
  <2>2. \A raw \in S : /\ Resolve(raw, ImportsFor(records[test])) \subseteq Name
                        /\ IsFiniteSet(Resolve(raw, ImportsFor(records[test])))
    BY <1>5, <2>1, ResolveType
  <2>3. g \in Surjection(S, T)
    BY DEF Surjection
  <2>4. IsFiniteSet(T)
    <3> HIDE DEF S, T, g
    <3> QED BY <2>1, <2>3, FS_Surjection
  <2>5. \A U \in T : IsFiniteSet(U) /\ U \subseteq Name
    BY <2>2
  <2>6. called = UNION T
    OBVIOUS
  <2> HIDE DEF S, T, g, called
  <2>7. IsFiniteSet(UNION T)
    BY <2>4, <2>5, FS_UNION
  <2> QED BY <2>5, <2>6, <2>7
<1> HIDE DEF called
<1>7. /\ records' = [records EXCEPT ![test] = [records[test] EXCEPT !.called = called]]
      /\ [records[test] EXCEPT !.called = called] \in R
  BY <1>1, <1>4, <1>6 DEF RecordType
<1>8. records' \in Seq(R) /\ DOMAIN records' = DOMAIN records /\ Len(records') = Len(records)
  <2>1. \A T : \A q \in Seq(T) : \A i \in DOMAIN q, x \in T :
          /\ [q EXCEPT ![i] = x] \in Seq(T) /\ DOMAIN [q EXCEPT ![i] = x] = DOMAIN q
          /\ Len([q EXCEPT ![i] = x]) = Len(q)
    OBVIOUS
  <2> HIDE DEF R
  <2> QED BY <1>2, <1>3, <1>7, <2>1
<1>9. /\ \A i \in DOMAIN records : i # test => records'[i] = records[i]
      /\ records'[test] = [records[test] EXCEPT !.called = called]
  BY <1>3, <1>7
<1>10. /\ records'[test].called = called
       /\ records'[test].file = records[test].file
       /\ records'[test].nodeid = records[test].nodeid
  BY <1>4, <1>9 DEF RecordType
<1>11. \A i \in DOMAIN records' : IsFiniteSet(records'[i].called)
  BY <1>6, <1>8, <1>9, <1>10 DEF TypeInv
<1>12. test' \in 1..Len(records') + 1
  BY <1>1, <1>2, <1>3, <1>8
<1>13. TypeOK'
  BY <1>1, <1>8, <1>12 DEF TypeInv, TypeOK, inputs, RecordType, IsImportMap
<1>14. TypeInv'
  BY <1>1, <1>11, <1>13 DEF TypeInv, Inputs, inputs
<1> QED BY <1>1, <1>3, <1>8, <1>9, <1>10, <1>14 DEF called

\* Every step keeps the types.
LEMMA TypeStep == TypeInv /\ [Next]_vars => TypeInv'
<1> SUFFICES ASSUME TypeInv, [Next]_vars PROVE TypeInv'
  OBVIOUS
<1>1. CASE SkipFile
  <2>1. /\ Parsing /\ NextFile
        /\ UNCHANGED <<inputs, pc, importsOf, records, packages, test, sutCalls>>
    BY <1>1 DEF SkipFile
  <2>2. /\ (file \in 1..Len(suite) + 1)' /\ (at \in Nat \ {0})' /\ MapOK(imports)'
    BY <2>1, NextFileType DEF inputs
  <2> QED BY <2>1, <2>2 DEF TypeInv, TypeOK, MapOK, Inputs, inputs, IsImportMap
<1>2. CASE RecordAlias \/ RecordStar \/ PassRelative
  BY <1>2, StatementStep
<1>3. CASE FileParsed
  BY <1>3, FileParsedStep
<1>4. CASE ReadPackages
  <2>1. packages' \subseteq Name
    BY <1>4, DeclaredType DEF ReadPackages, TypeInv, TypeOK, Optional
  <2> QED BY <1>4, <2>1 DEF ReadPackages, TypeInv, TypeOK, Inputs, inputs, IsImportMap
<1>5. CASE ResolveTest
  BY <1>5, ResolveStep
<1>6. CASE Aggregate
  BY <1>6 DEF Aggregate, TypeInv, TypeOK, Inputs, inputs, IsImportMap
<1>7. CASE Done \/ UNCHANGED vars
  BY <1>7 DEF Done, vars, TypeInv, TypeOK, Inputs, inputs, IsImportMap
<1> QED BY <1>1, <1>2, <1>3, <1>4, <1>5, <1>6, <1>7 DEF Next

\* Every run keeps to the types: a record belongs to a file that was parsed, and
\* counts under names.
THEOREM TypeCorrect == Spec => []TypeOK
<1>1. Init => TypeInv
  BY TypeInit
<1>2. TypeInv /\ [Next]_vars => TypeInv'
  BY TypeStep
<1>3. TypeInv => TypeOK
  BY DEF TypeInv
<1> QED BY <1>1, <1>2, <1>3, PTL DEF Spec

-------------------------------------------------------------------------------
(* What a file's statements bind *)

Binders(f, n, h) ==
  {k \in 1..n : /\ suite[f].statements[k].kind \notin {"from star", "relative"}
               /\ Local(suite[f].statements[k]) = h}

StarsOf(f, n) ==
  {suite[f].statements[k].module : k \in {k \in 1..n : suite[f].statements[k].kind = "from star"}}

\* map is what the first n statements of f make: the last binder of a name counts.
MadeOf(map, f, n) ==
  /\ \A h \in Segments : h \in DOMAIN map.aliases <=> Binders(f, n, h) # {}
  /\ \A h \in DOMAIN map.aliases : \E k \in Binders(f, n, h) :
       /\ \A j \in Binders(f, n, h) : j =< k
       /\ map.aliases[h] = Target(suite[f].statements[k])
  /\ map.stars = StarsOf(f, n)

\* One more number.
LEMMA OneMore == \A n \in Nat : 1..(n + 1) = 1..n \cup {n + 1}
OBVIOUS

\* Nothing up to a number is above the next.
LEMMA UpToNext == \A n \in Nat : \A j : (j \in Nat /\ j =< n) \/ j = n + 1 => j =< n + 1
OBVIOUS

\* Binders are places.
LEMMA BindersAreNumbers ==
  ASSUME NEW f, NEW n \in Nat, NEW h
  PROVE  \A k \in Binders(f, n, h) : k \in Nat /\ k =< n
<1>1. Binders(f, n, h) \subseteq 1..n
  BY DEF Binders
<1>2. \A k \in 1..n : k \in Nat /\ k =< n
  OBVIOUS
<1> QED BY <1>1, <1>2

\* One more statement is one more binder, if it is one.
LEMMA OneMoreBinder ==
  ASSUME NEW f, NEW n \in Nat, NEW h
  PROVE  Binders(f, n + 1, h) =
           IF suite[f].statements[n + 1].kind \notin {"from star", "relative"}
              /\ Local(suite[f].statements[n + 1]) = h
           THEN Binders(f, n, h) \cup {n + 1} ELSE Binders(f, n, h)
<1>1. 1..(n + 1) = 1..n \cup {n + 1}
  BY OneMore
<1> QED BY <1>1 DEF Binders

\* An import makes its name stand for its target.
LEMMA MadeByBinder ==
  ASSUME NEW f, NEW n \in Nat, NEW map, MadeOf(map, f, n),
         NEW s, s = suite[f].statements[n + 1], s.kind \notin {"from star", "relative"},
         NEW new, new.aliases = Insert(map.aliases, Local(s), Target(s)),
         new.stars = map.stars, Local(s) \in Segments
  PROVE  MadeOf(new, f, n + 1)
<1>1. /\ DOMAIN new.aliases = DOMAIN map.aliases \cup {Local(s)}
      /\ \A h \in DOMAIN new.aliases :
           new.aliases[h] = IF h = Local(s) THEN Target(s) ELSE map.aliases[h]
  BY DEF Insert
<1>2. \A h : Binders(f, n + 1, h) =
               IF Local(s) = h THEN Binders(f, n, h) \cup {n + 1} ELSE Binders(f, n, h)
  BY OneMoreBinder
<1>3. \A h \in Segments : h \in DOMAIN new.aliases <=> Binders(f, n + 1, h) # {}
  BY <1>1, <1>2 DEF MadeOf
<1>4. ASSUME NEW h \in DOMAIN new.aliases
      PROVE  \E k \in Binders(f, n + 1, h) :
               /\ \A j \in Binders(f, n + 1, h) : j =< k
               /\ new.aliases[h] = Target(suite[f].statements[k])
  <2>1. CASE h = Local(s)
    <3>1. \A j \in Binders(f, n, h) : j \in Nat /\ j =< n
      BY BindersAreNumbers
    <3>2. \A j \in Binders(f, n, h) \cup {n + 1} : j =< n + 1
      BY ONLY <3>1, UpToNext, n \in Nat
    <3> QED BY <1>1, <1>2, <2>1, <3>2
  <2>2. CASE h # Local(s)
    BY <1>1, <1>2, <2>2 DEF MadeOf
  <2> QED BY <2>1, <2>2
<1>5. new.stars = StarsOf(f, n + 1)
  <2>1. {k \in 1..(n + 1) : suite[f].statements[k].kind = "from star"}
          = {k \in 1..n : suite[f].statements[k].kind = "from star"}
    <3>1. 1..(n + 1) = 1..n \cup {n + 1}
      BY OneMore
    <3> QED BY <3>1
  <2> QED BY <2>1 DEF MadeOf, StarsOf
<1> QED BY <1>3, <1>4, <1>5 DEF MadeOf

\* A star import adds its module, a relative one nothing.
LEMMA MadeByOther ==
  ASSUME NEW f, NEW n \in Nat, NEW map, MadeOf(map, f, n),
         NEW s, s = suite[f].statements[n + 1], s.kind \in {"from star", "relative"},
         NEW new, new.aliases = map.aliases,
         new.stars = IF s.kind = "from star" THEN map.stars \cup {s.module} ELSE map.stars
  PROVE  MadeOf(new, f, n + 1)
<1>1. \A h : Binders(f, n + 1, h) = Binders(f, n, h)
  BY OneMoreBinder
<1>2. new.stars = StarsOf(f, n + 1)
  <2>1. 1..(n + 1) = 1..n \cup {n + 1}
    BY OneMore
  <2>2. map.stars = StarsOf(f, n)
    BY DEF MadeOf
  <2>3. CASE s.kind = "from star"
    <3>1. {k \in 1..(n + 1) : suite[f].statements[k].kind = "from star"}
            = {k \in 1..n : suite[f].statements[k].kind = "from star"} \cup {n + 1}
      BY <2>1, <2>3
    <3> QED BY <2>2, <2>3, <3>1 DEF StarsOf
  <2>4. CASE s.kind = "relative"
    <3>1. {k \in 1..(n + 1) : suite[f].statements[k].kind = "from star"}
            = {k \in 1..n : suite[f].statements[k].kind = "from star"}
      BY <2>1, <2>4
    <3> QED BY <2>2, <2>4, <3>1 DEF StarsOf
  <2> QED BY <2>3, <2>4
<1> QED BY <1>1, <1>2 DEF MadeOf

\* Where the map is made of the whole file, resolution credits as it should.
LEMMA ResolveIsCredited ==
  ASSUME TypeInv, NEW f \in DOMAIN suite, NEW map, MapOK(map),
         MadeOf(map, f, Len(suite[f].statements)),
         NEW raw \in Name, Head(raw) # Itself
  PROVE  Resolve(raw, map) = Credited(f, raw)
<1> DEFINE h == Head(raw)
           n == Len(suite[f].statements)
           bound == PythonBinds(f, h)
           stars == {s.module : s \in {s \in Range(suite[f].statements) : s.kind = "from star"}}
           claim == {s \in stars : UnderProject(s)}
           own == {s \in map.stars : UnderProject(s)}
<1>1. /\ n \in Nat /\ DOMAIN suite[f].statements = 1..n
      /\ \A k \in 1..n : suite[f].statements[k] \in Statement
  BY FileType
<1>2. h \in Segments /\ raw \in Seq(Segments)
  BY NameIsSequence
<1>3. map.stars = stars /\ own = claim
  <2>1. Range(suite[f].statements) = {suite[f].statements[k] : k \in 1..n}
    BY <1>1 DEF Range
  <2>2. StarsOf(f, n) = stars
    BY <2>1 DEF StarsOf
  <2> QED BY <2>2 DEF MadeOf
<1>4. Binders(f, n, h) = {k \in DOMAIN suite[f].statements :
                            /\ suite[f].statements[k].kind \notin {"from star", "relative"}
                            /\ Local(suite[f].statements[k]) = h}
  BY <1>1 DEF Binders
<1>5. bound = {IF suite[f].statements[k].kind = "import" THEN <<h>> ELSE Target(suite[f].statements[k]) :
                 k \in {k \in Binders(f, n, h) : \A j \in Binders(f, n, h) : j =< k}}
  BY <1>4 DEF PythonBinds
<1>6. CASE UnderProject(raw)
  BY <1>6 DEF Resolve, Credited
<1>7. CASE ~UnderProject(raw) /\ h \in DOMAIN map.aliases
  <2> DEFINE target == map.aliases[h]
  <2>1. PICK k \in Binders(f, n, h) : /\ \A j \in Binders(f, n, h) : j =< k
                                     /\ target = Target(suite[f].statements[k])
    BY <1>7 DEF MadeOf
  <2>2. k \in 1..n
    BY <2>1 DEF Binders
  <2>3. \A i \in Binders(f, n, h) : (\A j \in Binders(f, n, h) : j =< i) => i = k
    <3> SUFFICES ASSUME NEW i \in Binders(f, n, h), \A j \in Binders(f, n, h) : j =< i
                 PROVE  i = k
      OBVIOUS
    <3>1. i =< k /\ k =< i /\ i \in Nat /\ k \in Nat
      BY <1>1, <2>1, BindersAreNumbers
    <3> QED BY <3>1
  <2>4. bound = {IF suite[f].statements[k].kind = "import" THEN <<h>> ELSE target}
    BY <1>5, <2>1, <2>3
  <2>5. target \in Name
    BY <1>7 DEF MapOK, IsImportMap
  <2>6. Resolve(raw, map) = {m \in {Canonical(raw, map.aliases)} : UnderProject(target)}
    BY <1>7 DEF Resolve
  <2>7. Credited(f, raw) = {b \o Tail(raw) : b \in {b \in bound : UnderProject(b)}}
    BY <1>7, <2>4 DEF Credited
  <2>8. UnderProject(target) => Canonical(raw, map.aliases) = target \o Tail(raw)
    <3> SUFFICES ASSUME UnderProject(target)
                 PROVE  Canonical(raw, map.aliases) = target \o Tail(raw)
      OBVIOUS
    <3>1. Head(target) # h
      BY <1>7 DEF UnderProject
    <3>2. ~AtOrUnder(target, <<h>>)
      BY <2>5, <3>1, NameIsSequence DEF AtOrUnder, IsPrefix
    <3> QED BY <1>7, <3>2 DEF Canonical
  <2>9. CASE suite[f].statements[k].kind = "import"
    <3>1. suite[f].statements[k] \in Statement /\ Local(suite[f].statements[k]) = h
      BY <1>1, <2>1, <2>2 DEF Binders
    <3>2. target = suite[f].statements[k].name /\ h = Head(suite[f].statements[k].name)
      BY <2>1, <2>9, <3>1 DEF Target, Local
    <3>3. ~UnderProject(target) /\ ~UnderProject(<<h>>)
      BY <1>7, <3>2 DEF UnderProject
    <3> QED BY <2>4, <2>6, <2>7, <2>9, <3>3
  <2>10. CASE suite[f].statements[k].kind # "import"
    BY <2>4, <2>6, <2>7, <2>8, <2>10
  <2> QED BY <2>9, <2>10
<1>8. CASE ~UnderProject(raw) /\ h \notin DOMAIN map.aliases
  <2>1. bound = {}
    BY <1>2, <1>5, <1>8 DEF MadeOf
  <2>2. Resolve(raw, map) = IF own # {} THEN {First(own) \o raw} ELSE {}
    BY <1>8 DEF Resolve
  <2>3. Credited(f, raw) = {c \o raw : c \in {c \in claim : c = First(claim)}}
    BY <1>8, <2>1 DEF Credited
  <2>4. own # {} => First(own) \in own
    <3>1. IsFiniteSet(own) /\ own \in SUBSET Name
      BY FS_Subset DEF MapOK, IsImportMap
    <3> HIDE DEF own
    <3> QED BY <3>1, FirstIsOne
  <2> HIDE DEF own, claim
  <2> QED BY <1>3, <2>2, <2>3, <2>4
<1> QED BY <1>6, <1>7, <1>8

-------------------------------------------------------------------------------
(* Every test is credited *)

\* Records are resolved once all files are parsed, with the packages of then.
Control ==
  /\ pc = "parse" => test = 1
  /\ pc # "parse" => /\ file > Len(suite)
                     /\ packages = IF override # Absent THEN {override} ELSE Declared(project)
  /\ pc = "done" => test > Len(records)
  /\ Parsing /\ suite[file].parses => at =< Len(suite[file].statements) + 1

\* The map at hand is made of the statements behind, the others of whole files.
ImportsInv ==
  /\ Parsing => MadeOf(imports, file, at - 1)
  /\ \A f \in DOMAIN suite : f < file /\ suite[f].parses =>
       f \in DOMAIN importsOf /\ MadeOf(importsOf[f], f, Len(suite[f].statements))

\* The names test k of file f is to be credited with.
Due(f, k) == UNION {Credited(f, raw) : raw \in suite[f].tests[k].calls}

\* Record i is that of test k of file f, with the calls it has at this time.
Credits(i, f, k) ==
  /\ records[i].file = f
  /\ records[i].nodeid = suite[f].tests[k].nodeid
  /\ records[i].called =
       IF i < test THEN Due(f, k)
       ELSE {c \in suite[f].tests[k].calls : Head(c) # Itself}

RecordsInv ==
  \A f \in DOMAIN suite : f < file /\ suite[f].parses =>
    \A k \in DOMAIN suite[f].tests : \E i \in DOMAIN records : Credits(i, f, k)

CreditInv == TypeInv /\ Control /\ ImportsInv /\ RecordsInv

\* At first no file is behind.
LEMMA CreditInit == Init => CreditInv
<1> SUFFICES ASSUME Init PROVE CreditInv
  OBVIOUS
<1>1. TypeInv
  BY TypeInit
<1>2. suite \in Seq(File)
  BY <1>1 DEF TypeInv, TypeOK
<1>3. file = 1 /\ at = 1 /\ imports = NoImports /\ pc = "parse" /\ test = 1
  BY DEF Init
<1>4. \A f \in DOMAIN suite : ~(f < file)
  BY <1>2, <1>3
<1>5. MadeOf(imports, file, at - 1)
  <2>1. DOMAIN imports.aliases = {} /\ imports.stars = {} /\ at - 1 = 0 /\ 1..0 = {}
    BY <1>3 DEF NoImports
  <2> QED BY <2>1 DEF MadeOf, Binders, StarsOf
<1>6. Control
  <2>1. Parsing /\ suite[file].parses => 1 =< Len(suite[file].statements) + 1
    <3> SUFFICES ASSUME Parsing PROVE 1 =< Len(suite[file].statements) + 1
      OBVIOUS
    <3>1. file \in DOMAIN suite
      BY <1>1, FileAtHand
    <3>2. Len(suite[file].statements) \in Nat
      BY <1>1, <3>1, FileType
    <3> QED BY <3>2
  <2> QED BY <1>3, <2>1 DEF Control
<1> QED BY <1>1, <1>4, <1>5, <1>6 DEF CreditInv, ImportsInv, RecordsInv

\* What counts depends on the suite and the packages.
LEMMA SameCredit ==
  ASSUME UNCHANGED <<suite, packages>>
  PROVE  \A f, k : Due(f, k)' = Due(f, k)
BY DEF Due, Credited, PythonBinds, UnderProject

\* What a map is made of depends on the suite.
LEMMA SameMap ==
  ASSUME UNCHANGED suite
  PROVE  \A map, f, n : MadeOf(map, f, n)' <=> MadeOf(map, f, n)
BY DEF MadeOf, Binders, StarsOf

\* So do the maps of the files behind.
LEMMA SameMaps ==
  ASSUME UNCHANGED <<suite, importsOf>>
  PROVE  \A f : MadeOf(importsOf[f], f, Len(suite[f].statements))'
               <=> MadeOf(importsOf[f], f, Len(suite[f].statements))
BY DEF MadeOf, Binders, StarsOf

\* Records that nobody touches stay those of their tests.
LEMMA SameRecords ==
  ASSUME RecordsInv, UNCHANGED <<suite, packages, records, test>>,
         \A f \in DOMAIN suite : suite[f].parses /\ f < file' => f < file
  PROVE  RecordsInv'
<1>1. \A i, f, k : Credits(i, f, k)' <=> Credits(i, f, k)
  BY SameCredit DEF Credits
<1> QED BY <1>1 DEF RecordsInv

\* A map with nothing in it is made of no statements.
LEMMA NothingMade == \A f : MadeOf(NoImports, f, 0)
<1>1. DOMAIN NoImports.aliases = {} /\ NoImports.stars = {} /\ 1..0 = {}
  BY DEF NoImports
<1> QED BY <1>1 DEF MadeOf, Binders, StarsOf

\* A statement is read into the map.
LEMMA StatementCredit ==
  ASSUME CreditInv, RecordAlias \/ RecordStar \/ PassRelative
  PROVE  CreditInv'
<1> USE DEF CreditInv
<1>1. /\ Parsing /\ at =< Len(suite[file].statements) /\ at' = at + 1
      /\ UNCHANGED <<inputs, pc, file, importsOf, records, packages, test, sutCalls>>
  BY DEF RecordAlias, RecordStar, PassRelative, AtStatement
<1>2. TypeInv'
  BY StatementStep
<1>3. /\ at \in Nat /\ at - 1 \in Nat /\ (at - 1) + 1 = at /\ at' - 1 = at
      /\ file \in DOMAIN suite
      /\ suite[file].statements[at] \in Statement
  <2>1. file \in DOMAIN suite /\ at \in Nat /\ at # 0
    BY <1>1, FileAtHand DEF TypeInv, TypeOK
  <2>2. suite[file].statements \in Seq(Statement)
    BY <2>1, FileType
  <2>3. suite[file].statements[at] \in Statement
    BY <1>1, <2>1, <2>2
  <2> QED BY <1>1, <2>1, <2>3
<1>4. MadeOf(imports, file, at - 1)
  BY <1>1 DEF ImportsInv
<1> DEFINE s == suite[file].statements[at]
<1>5. DOMAIN imports = {"aliases", "stars"}
  BY DEF TypeInv, TypeOK, IsImportMap
<1>6. MadeOf(imports', file, at)
  <2>1. CASE RecordAlias
    <3>1. /\ s.kind \in {"import", "import as", "from"}
          /\ imports' = [imports EXCEPT !.aliases = Insert(@, Local(s), Target(s))]
      BY <2>1 DEF RecordAlias, AtStatement
    <3>2. Local(s) \in Segments
      BY <1>3, <3>1, StatementType
    <3>3. /\ imports'.aliases = Insert(imports.aliases, Local(s), Target(s))
          /\ imports'.stars = imports.stars
      BY <1>5, <3>1
    <3>4. s.kind \notin {"from star", "relative"} /\ s = suite[file].statements[(at - 1) + 1]
      BY <1>3, <3>1
    <3> HIDE DEF s
    <3>5. MadeOf(imports', file, (at - 1) + 1)
      BY <1>3, <1>4, <3>2, <3>3, <3>4, MadeByBinder
    <3> QED BY <1>3, <3>5
  <2>2. CASE RecordStar \/ PassRelative
    <3>1. /\ s.kind \in {"from star", "relative"}
          /\ imports'.aliases = imports.aliases
          /\ imports'.stars = IF s.kind = "from star" THEN imports.stars \cup {s.module}
                             ELSE imports.stars
      BY <1>5, <2>2 DEF RecordStar, PassRelative, AtStatement
    <3>2. s = suite[file].statements[(at - 1) + 1]
      BY <1>3
    <3> HIDE DEF s
    <3>3. MadeOf(imports', file, (at - 1) + 1)
      BY <1>3, <1>4, <3>1, <3>2, MadeByOther
    <3> QED BY <1>3, <3>3
  <2> QED BY <2>1, <2>2
<1>7. /\ \A f, k : Due(f, k)' = Due(f, k)
      /\ \A map, f, n : MadeOf(map, f, n)' <=> MadeOf(map, f, n)
  BY <1>1, SameCredit, SameMap DEF inputs
<1>8. ImportsInv'
  <2>1. MadeOf(imports, file, at - 1)'
    <3>1. UNCHANGED <<suite, file>>
      BY <1>1 DEF inputs
    <3> QED BY <1>3, <1>6, <3>1 DEF MadeOf, Binders, StarsOf
  <2>2. \A f \in DOMAIN suite : f < file /\ suite[f].parses =>
          f \in DOMAIN importsOf' /\ MadeOf(importsOf[f], f, Len(suite[f].statements))'
    <3>1. UNCHANGED <<suite, importsOf>>
      BY <1>1 DEF inputs
    <3> QED BY <3>1, SameMaps DEF ImportsInv
  <2> QED BY <1>1, <2>1, <2>2 DEF ImportsInv, inputs
<1>9. RecordsInv'
  BY <1>1, SameRecords DEF inputs
<1>10. Control'
  <2>1. (Parsing /\ suite[file].parses => at =< Len(suite[file].statements) + 1)'
    <3>1. Len(suite[file].statements) \in Nat
      BY <1>3, FileType
    <3> QED BY <1>1, <1>3, <3>1 DEF inputs
  <2> QED BY <1>1, <2>1 DEF Control, inputs
<1> QED BY <1>2, <1>8, <1>9, <1>10

\* A file is left behind: parsed, with its map and its records, or skipped.
LEMMA FileCredit ==
  ASSUME CreditInv, SkipFile \/ FileParsed
  PROVE  CreditInv'
<1> USE DEF CreditInv
<1>1. /\ Parsing /\ NextFile
      /\ UNCHANGED <<inputs, pc, packages, test, sutCalls>>
  BY DEF SkipFile, FileParsed
<1>2. TypeInv'
  BY TypeStep DEF Next
<1>3. /\ file \in DOMAIN suite /\ file \in Nat /\ file' = file + 1 /\ at' = 1
      /\ imports' = NoImports
      /\ pc = "parse" /\ test = 1 /\ \A f \in DOMAIN suite : f \in Nat
  BY <1>1, FileAtHand DEF NextFile, Control, Parsing
<1>4. /\ \A f, k : Due(f, k)' = Due(f, k)
      /\ \A map, f, n : MadeOf(map, f, n)' <=> MadeOf(map, f, n)
  BY <1>1, SameCredit, SameMap DEF inputs
<1>5. \A f \in DOMAIN suite : f < file' => f < file \/ f = file
  BY <1>3
<1>6. MadeOf(imports, file, at - 1)'
  <2>1. /\ DOMAIN imports'.aliases = {} /\ imports'.stars = {} /\ at' - 1 = 0
        /\ 1..0 = {}
    BY <1>3 DEF NoImports
  <2> QED BY <2>1 DEF MadeOf, Binders, StarsOf
<1>7. Control'
  <2>1. (Parsing /\ suite[file].parses => at =< Len(suite[file].statements) + 1)'
    <3> SUFFICES ASSUME Parsing' PROVE (1 =< Len(suite[file].statements) + 1)'
      BY <1>3
    <3>1. suite' = suite /\ suite \in Seq(File) /\ file' \in Nat /\ file' >= 1 /\ file' =< Len(suite)
      BY <1>1, <1>3, FileAtHand DEF Parsing, inputs
    <3>2. file' \in DOMAIN suite
      BY <3>1
    <3>3. Len(suite[file'].statements) \in Nat
      BY <3>2, FileType
    <3> QED BY <3>1, <3>3
  <2> QED BY <1>1, <1>3, <2>1 DEF Control, inputs
<1>8. CASE SkipFile
  <2>1. ~suite[file].parses /\ UNCHANGED <<importsOf, records>>
    BY <1>8 DEF SkipFile
  <2>2. ImportsInv'
    <3>1. UNCHANGED <<suite, importsOf>>
      BY <1>1, <2>1 DEF inputs
    <3> QED BY <1>5, <1>6, <2>1, <3>1, SameMaps DEF ImportsInv
  <2>3. RecordsInv'
    <3>1. \A f \in DOMAIN suite : suite[f].parses /\ f < file' => f < file
      BY <1>5, <2>1
    <3> QED BY <1>1, <2>1, <3>1, SameRecords DEF inputs
  <2> QED BY <1>2, <1>7, <2>2, <2>3
<1>9. CASE FileParsed
  <2>1. /\ suite[file].parses /\ at > Len(suite[file].statements)
        /\ importsOf' = Insert(importsOf, file, imports)
        /\ records' = records \o RecordsOf(file)
    BY <1>9 DEF FileParsed
  <2>2. MadeOf(imports, file, Len(suite[file].statements))
    <3>1. Len(suite[file].statements) \in Nat /\ at \in Nat
      BY <1>3, FileType DEF TypeInv, TypeOK
    <3>2. at - 1 = Len(suite[file].statements)
      BY <1>1, <2>1, <3>1 DEF Control
    <3> QED BY <1>1, <3>2 DEF ImportsInv
  <2>3. ImportsInv'
    BY <1>1, <1>3, <1>4, <1>5, <2>1, <2>2, NothingMade DEF ImportsInv, Insert, inputs
  <2>4. /\ records \in Seq(RecordType) /\ Len(records) \in Nat
        /\ Len(RecordsOf(file)) \in Nat /\ DOMAIN RecordsOf(file) = DOMAIN suite[file].tests
        /\ DOMAIN RecordsOf(file) = 1..Len(RecordsOf(file))
        /\ DOMAIN records = 1..Len(records)
    <3>1. RecordsOf(file) \in Seq([file : {file}, nodeid : Nodeids, called : SUBSET Name])
          /\ DOMAIN RecordsOf(file) = DOMAIN suite[file].tests
      BY <1>3, RecordsOfType
    <3>2. records \in Seq(RecordType)
      BY DEF TypeInv, TypeOK, RecordType
    <3>3. \A T : \A q \in Seq(T) : Len(q) \in Nat /\ DOMAIN q = 1..Len(q)
      OBVIOUS
    <3> QED BY <3>1, <3>2, <3>3
  <2>5. /\ \A i \in DOMAIN records : i \in DOMAIN records' /\ records'[i] = records[i]
        /\ \A k \in DOMAIN RecordsOf(file) :
             /\ Len(records) + k \in DOMAIN records'
             /\ records'[Len(records) + k] = RecordsOf(file)[k]
    <3>1. \A A, B : \A p \in Seq(A), q \in Seq(B) :
            /\ \A i \in 1..Len(p) : i \in DOMAIN (p \o q) /\ (p \o q)[i] = p[i]
            /\ \A k \in 1..Len(q) : /\ Len(p) + k \in DOMAIN (p \o q)
                                   /\ (p \o q)[Len(p) + k] = q[k]
      <4> SUFFICES ASSUME NEW A, NEW B, NEW p \in Seq(A), NEW q \in Seq(B)
                   PROVE  /\ \A i \in 1..Len(p) : i \in DOMAIN (p \o q) /\ (p \o q)[i] = p[i]
                          /\ \A k \in 1..Len(q) : /\ Len(p) + k \in DOMAIN (p \o q)
                                                 /\ (p \o q)[Len(p) + k] = q[k]
        OBVIOUS
      <4>1. p \in Seq(A \cup B) /\ q \in Seq(A \cup B)
        OBVIOUS
      <4> QED BY <4>1
    <3>2. RecordsOf(file) \in Seq([file : {file}, nodeid : Nodeids, called : SUBSET Name])
      BY <1>3, RecordsOfType
    <3> QED BY <2>1, <2>4, <3>1, <3>2
  <2>6. ASSUME NEW f \in DOMAIN suite, f < file, suite[f].parses, NEW k \in DOMAIN suite[f].tests
        PROVE  \E i \in DOMAIN records' : Credits(i, f, k)'
    <3>1. PICK i \in DOMAIN records : Credits(i, f, k)
      BY <2>6 DEF RecordsInv
    <3>2. i \in DOMAIN records' /\ records'[i] = records[i]
      BY <2>5
    <3>3. Credits(i, f, k)'
      BY <1>1, <1>4, <3>1, <3>2 DEF Credits, inputs
    <3> QED BY <3>2, <3>3
  <2>7. ASSUME NEW f \in DOMAIN suite, f = file, NEW k \in DOMAIN suite[f].tests
        PROVE  \E i \in DOMAIN records' : Credits(i, f, k)'
    <3>1. k \in DOMAIN RecordsOf(file) /\ k \in Nat /\ k >= 1
      <4>1. k \in 1..Len(RecordsOf(file))
        BY <2>4, <2>7
      <4> QED BY <2>4, <4>1
    <3>2. PICK i \in DOMAIN records' : i = Len(records) + k /\ records'[i] = RecordsOf(file)[k]
      BY <2>5, <3>1
    <3>3. ~(i < test')
      BY <1>1, <1>3, <2>4, <3>1, <3>2
    <3>4. /\ records'[i].file = f
          /\ records'[i].nodeid = suite[f].tests[k].nodeid
          /\ records'[i].called = {c \in suite[f].tests[k].calls : Head(c) # Itself}
      BY <2>7, <3>1, <3>2 DEF RecordsOf
    <3>5. Credits(i, f, k)'
      <4>1. suite' = suite
        BY <1>1 DEF inputs
      <4> QED BY <3>3, <3>4, <4>1 DEF Credits
    <3> QED BY <3>2, <3>5
  <2>8. RecordsInv'
    <3> SUFFICES ASSUME NEW f \in DOMAIN suite, f < file', suite[f].parses,
                        NEW k \in DOMAIN suite[f].tests
                 PROVE  \E i \in DOMAIN records' : Credits(i, f, k)'
      BY <1>1 DEF RecordsInv, inputs
    <3>1. CASE f < file
      BY <2>6, <3>1
    <3>2. CASE f = file
      BY <2>7, <3>2
    <3> QED BY <1>5, <3>1, <3>2
  <2> QED BY <1>2, <1>7, <2>3, <2>8
<1> QED BY <1>8, <1>9

\* The packages are read before any record is resolved.
LEMMA ReadPackagesCredit ==
  ASSUME CreditInv, ReadPackages
  PROVE  CreditInv'
<1> USE DEF CreditInv
<1>1. /\ pc = "parse" /\ pc' = "resolve" /\ file > Len(suite) /\ test = 1
      /\ packages' = IF override # Absent THEN {override} ELSE Declared(project)
      /\ UNCHANGED <<inputs, file, at, imports, importsOf, records, test, sutCalls>>
  BY DEF ReadPackages, Control
<1>2. TypeInv'
  BY TypeStep DEF Next
<1>3. Control'
  BY <1>1 DEF Control, Parsing, inputs
<1>4. ImportsInv'
  <2>1. UNCHANGED <<suite, importsOf, file>>
    BY <1>1 DEF inputs
  <2> QED BY <1>1, <2>1, SameMaps DEF ImportsInv, Parsing
<1>5. RecordsInv'
  <2>1. \A i \in DOMAIN records : i \in Nat /\ i >= 1 /\ ~(i < test)
    <3>1. records \in Seq(RecordType)
      BY DEF TypeInv, TypeOK, RecordType
    <3> QED BY <1>1, <3>1
  <2>2. UNCHANGED <<suite, records, test, file>>
    BY <1>1 DEF inputs
  <2>3. \A i \in DOMAIN records : \A f, k : Credits(i, f, k)' <=> Credits(i, f, k)
    BY <2>1, <2>2 DEF Credits
  <2> QED BY <2>2, <2>3 DEF RecordsInv
<1> QED BY <1>2, <1>3, <1>4, <1>5

\* Resolving a record credits its test with what is due.
LEMMA ResolveCredit ==
  ASSUME CreditInv, ResolveTest
  PROVE  CreditInv'
<1> USE DEF CreditInv
<1>1. /\ pc = "resolve"
      /\ UNCHANGED <<inputs, pc, file, at, imports, importsOf, packages, sutCalls>>
  BY DEF ResolveTest
<1>2. /\ TypeInv' /\ test \in DOMAIN records /\ test' = test + 1
      /\ DOMAIN records' = DOMAIN records
      /\ \A i \in DOMAIN records :
           /\ i # test => records'[i] = records[i]
           /\ records'[i].file = records[i].file
           /\ records'[i].nodeid = records[i].nodeid
      /\ records'[test].called =
           UNION {Resolve(raw, ImportsFor(records[test])) : raw \in records[test].called}
  BY ResolveStep
<1>3. /\ test \in Nat
      /\ \A i \in DOMAIN records : i \in Nat
  <2>1. records \in Seq(RecordType)
    BY DEF TypeInv, TypeOK, RecordType
  <2> QED BY <1>2, <2>1
<1>4. Control'
  BY <1>1 DEF Control, Parsing, inputs
<1>5. ImportsInv'
  <2>1. UNCHANGED <<suite, importsOf, file>>
    BY <1>1 DEF inputs
  <2> QED BY <1>1, <2>1, SameMaps DEF ImportsInv, Parsing
<1>6. UNCHANGED <<suite, packages, file>> /\ \A f, k : Due(f, k)' = Due(f, k)
  <2>1. UNCHANGED <<suite, packages>>
    BY <1>1 DEF inputs
  <2> QED BY <1>1, <2>1, SameCredit
<1>7. ASSUME NEW f \in DOMAIN suite, f < file, suite[f].parses, NEW k \in DOMAIN suite[f].tests,
             NEW i \in DOMAIN records, Credits(i, f, k), i # test
      PROVE  Credits(i, f, k)'
  <2>1. i < test' <=> i < test
    BY <1>2, <1>3, <1>7
  <2> QED BY <1>2, <1>6, <1>7, <2>1 DEF Credits
<1>8. ASSUME NEW f \in DOMAIN suite, f < file, suite[f].parses, NEW k \in DOMAIN suite[f].tests,
             NEW i \in DOMAIN records, Credits(i, f, k), i = test
      PROVE  Credits(i, f, k)'
  <2> DEFINE calls == suite[f].tests[k].calls
  <2>1. ~(i < test) /\ i < test'
    BY <1>2, <1>3, <1>8
  <2>2. records[i].file = f /\ records[i].called = {c \in calls : Head(c) # Itself}
    BY <1>8, <2>1 DEF Credits
  <2>3. f \in DOMAIN importsOf /\ MadeOf(importsOf[f], f, Len(suite[f].statements))
    BY <1>8 DEF ImportsInv
  <2>4. ImportsFor(records[i]) = importsOf[f] /\ MapOK(importsOf[f])
    BY <2>2, <2>3 DEF ImportsFor, TypeInv, TypeOK, MapOK
  <2>5. \A raw \in calls : raw \in Name
    BY FileType
  <2>6. \A raw \in calls : Head(raw) # Itself => Resolve(raw, importsOf[f]) = Credited(f, raw)
    BY <2>3, <2>4, <2>5, ResolveIsCredited
  <2>7. \A raw \in calls : Head(raw) = Itself => Credited(f, raw) = {}
    BY DEF Credited
  <2>8. records'[i].called =
          UNION {Resolve(raw, importsOf[f]) : raw \in {c \in calls : Head(c) # Itself}}
    BY <1>2, <1>8, <2>2, <2>4
  <2>9. records'[i].called = Due(f, k)
    <3>1. \A x : x \in UNION {Resolve(raw, importsOf[f]) : raw \in {c \in calls : Head(c) # Itself}}
                 <=> \E raw \in calls : Head(raw) # Itself /\ x \in Resolve(raw, importsOf[f])
      OBVIOUS
    <3>2. \A x : x \in Due(f, k) <=> \E raw \in calls : x \in Credited(f, raw)
      BY DEF Due
    <3>3. \A x : (\E raw \in calls : Head(raw) # Itself /\ x \in Resolve(raw, importsOf[f]))
                 <=> \E raw \in calls : x \in Credited(f, raw)
      BY <2>6, <2>7
    <3>4. \A x : x \in UNION {Resolve(raw, importsOf[f]) : raw \in {c \in calls : Head(c) # Itself}}
                 <=> x \in Due(f, k)
      BY <3>1, <3>2, <3>3
    <3> HIDE DEF calls
    <3> QED BY <2>8, <3>4
  <2>10. records'[i].file = f /\ records'[i].nodeid = suite[f].tests[k].nodeid
    BY <1>2, <1>8 DEF Credits
  <2> QED BY <1>6, <2>1, <2>9, <2>10 DEF Credits
<1>9. RecordsInv'
  <2> SUFFICES ASSUME NEW f \in DOMAIN suite, f < file, suite[f].parses,
                      NEW k \in DOMAIN suite[f].tests
               PROVE  \E i \in DOMAIN records' : Credits(i, f, k)'
    BY <1>6 DEF RecordsInv
  <2>1. PICK i \in DOMAIN records : Credits(i, f, k)
    BY DEF RecordsInv
  <2>2. Credits(i, f, k)'
    BY <1>7, <1>8, <2>1
  <2> QED BY <1>2, <2>2
<1> QED BY <1>2, <1>4, <1>5, <1>9

\* Every step keeps maps and records what they should be.
LEMMA CreditStep == CreditInv /\ [Next]_vars => CreditInv'
<1> SUFFICES ASSUME CreditInv, [Next]_vars PROVE CreditInv'
  OBVIOUS
<1>1. CASE SkipFile \/ FileParsed
  BY <1>1, FileCredit
<1>2. CASE RecordAlias \/ RecordStar \/ PassRelative
  BY <1>2, StatementCredit
<1>3. CASE ReadPackages
  BY <1>3, ReadPackagesCredit
<1>4. CASE ResolveTest
  BY <1>4, ResolveCredit
<1>5. CASE Aggregate \/ UNCHANGED vars
  <2>1. /\ UNCHANGED <<inputs, file, at, imports, importsOf, records, packages, test>>
        /\ \/ pc' = pc
           \/ pc = "resolve" /\ pc' = "done" /\ test > Len(records)
    BY <1>5 DEF Aggregate, vars
  <2>2. TypeInv'
    BY TypeStep DEF CreditInv
  <2>3. UNCHANGED <<suite, override, project, packages, records, test, importsOf, file, imports, at>>
    BY <2>1 DEF inputs
  <2>4. Control'
    BY <2>1, <2>3 DEF CreditInv, Control, Parsing
  <2>5. RecordsInv'
    BY <2>3, SameRecords DEF CreditInv
  <2>6. ImportsInv'
    <3>1. Parsing' => Parsing
      BY <2>1, <2>3 DEF Parsing
    <3>2. MadeOf(imports, file, at - 1)' <=> MadeOf(imports, file, at - 1)
      BY <2>3 DEF MadeOf, Binders, StarsOf
    <3> QED BY <2>3, <3>1, <3>2, SameMaps DEF CreditInv, ImportsInv
  <2> QED BY <2>2, <2>4, <2>5, <2>6 DEF CreditInv
<1> QED BY <1>1, <1>2, <1>3, <1>4, <1>5 DEF Next, Done

\* At the end every record is resolved, and every test has one.
LEMMA AllCredited ==
  ASSUME CreditInv, pc = "done", NEW f \in DOMAIN suite, suite[f].parses,
         NEW k \in DOMAIN suite[f].tests
  PROVE  \E r \in Range(records) :
           r.file = f /\ r.nodeid = suite[f].tests[k].nodeid /\ r.called = Due(f, k)
<1>1. f < file /\ test > Len(records) /\ test \in Nat
  <2>1. suite \in Seq(File) /\ file > Len(suite) /\ file \in Nat /\ test > Len(records) /\ test \in Nat
    BY DEF CreditInv, TypeInv, TypeOK, Control
  <2> QED BY <2>1
<1>2. PICK i \in DOMAIN records : Credits(i, f, k)
  BY <1>1 DEF CreditInv, RecordsInv
<1>3. i < test
  <2>1. records \in Seq(RecordType)
    BY DEF CreditInv, TypeInv, TypeOK, RecordType
  <2> QED BY <1>1, <2>1
<1> QED BY <1>2, <1>3 DEF Credits, Range

\* Every test of every file that parses is credited with what its own file's
\* imports make of its calls: whatever rebinds a name, in whatever order, and
\* whatever other files import.
THEOREM CreditedByItsOwnImportsCorrect == Spec => []CreditedByItsOwnImports
<1>1. Init => CreditInv
  BY CreditInit
<1>2. CreditInv /\ [Next]_vars => CreditInv'
  BY CreditStep
<1>3. CreditInv => CreditedByItsOwnImports
  BY AllCredited DEF CreditedByItsOwnImports, Due
<1> QED BY <1>1, <1>2, <1>3, PTL DEF Spec

\* What a project may be imported as is among the packages it declares.
LEMMA ImportableIsDeclared ==
  ASSUME NEW p \in Project, p.reads, NEW h \in ImportableAs(p)
  PROVE  <<h>> \in Declared(p)
<1>1. /\ p.name \in Name \cup {Absent}
      /\ p.hatch \in Seq(Seq(Segments)) /\ p.setuptools \in Seq(Name)
  BY DEF Project, Optional
<1>2. \A x : Importable(<<x>>) = <<Underscored[x]>>
  BY DEF Importable
<1>3. CASE \E n \in {p.name} \ {Absent} : Len(n) = 1 /\ h = Underscored[n[1]]
  <2>1. p.name \in Name /\ Len(p.name) = 1 /\ h = Underscored[p.name[1]]
    BY <1>1, <1>3
  <2>2. p.name = <<p.name[1]>>
    BY <2>1, NameIsSequence
  <2>3. p.name \in Collected(p)
    BY <2>1, SegmentsAssumption DEF Collected
  <2>4. Importable(p.name) = <<h>>
    BY <1>2, <2>1, <2>2
  <2> QED BY <2>3, <2>4 DEF Declared
<1>4. CASE \E path \in Range(p.hatch) \ {<<>>} : h = Underscored[Last(path)]
  <2>1. PICK path \in Range(p.hatch) \ {<<>>} : h = Underscored[Last(path)]
    BY <1>4
  <2>2. <<Last(path)>> \in Name
    <3>1. path \in Seq(Segments) /\ path # <<>>
      BY <1>1, <2>1 DEF Range
    <3>2. Last(path) \in Segments
      BY <3>1 DEF Last
    <3> QED BY <3>2 DEF Name
  <2>3. <<Last(path)>> \in Collected(p)
    BY <2>1, <2>2, SegmentsAssumption DEF Collected
  <2>4. Importable(<<Last(path)>>) = <<h>>
    BY <1>2, <2>1
  <2> QED BY <2>3, <2>4 DEF Declared
<1> QED BY <1>3, <1>4 DEF ImportableAs

\* Without --project-package, a call through a name that pyproject.toml declares
\* is never lost, however the name is spelled there and whatever the file imports.
THEOREM OwnCallsAreKeptCorrect == Spec => []OwnCallsAreKept
<1>1. Init => CreditInv
  BY CreditInit
<1>2. CreditInv /\ [Next]_vars => CreditInv'
  BY CreditStep
<1>3. CreditInv => OwnCallsAreKept
  <2> SUFFICES ASSUME CreditInv, pc = "done", override = Absent, project.reads,
                      NEW f \in DOMAIN suite, suite[f].parses,
                      NEW k \in DOMAIN suite[f].tests, NEW raw \in suite[f].tests[k].calls,
                      Head(raw) \in ImportableAs(project) \ {Itself}
               PROVE  \E r \in Range(records) :
                        r.file = f /\ r.nodeid = suite[f].tests[k].nodeid /\ raw \in r.called
    BY DEF OwnCallsAreKept
  <2>1. packages = Declared(project) /\ project \in Project
    BY DEF CreditInv, Control, TypeInv, TypeOK
  <2>2. UnderProject(raw)
    BY <2>1, ImportableIsDeclared DEF UnderProject
  <2>3. Credited(f, raw) = {raw}
    BY <2>2 DEF Credited
  <2>4. raw \in Due(f, k)
    BY <2>3 DEF Due
  <2> QED BY <2>4, AllCredited
<1> QED BY <1>1, <1>2, <1>3, PTL DEF Spec

-------------------------------------------------------------------------------
(* The counts and the table of the most called *)

\* A function from a finite set has finitely many values.
LEMMA FiniteImage ==
  ASSUME NEW S, IsFiniteSet(S), NEW g, DOMAIN g = S
  PROVE  IsFiniteSet({g[x] : x \in S})
<1> DEFINE h == [x \in S |-> g[x]]
           T == {g[x] : x \in S}
<1>1. h \in Surjection(S, T)
  BY DEF Surjection
<1> HIDE DEF h, T
<1> QED BY <1>1, FS_Surjection DEF T

\* There are finitely many names, and finitely many tests for each.
LEMMA ByNameIsFinite ==
  ASSUME TypeInv
  PROVE  /\ DOMAIN ByName \in SUBSET Name /\ IsFiniteSet(DOMAIN ByName)
         /\ \A n \in DOMAIN ByName : IsFiniteSet(ByName[n])
<1> DEFINE rs == Range(records)
<1>1. records \in Seq(RecordType) /\ Len(records) \in Nat /\ DOMAIN records = 1..Len(records)
  <2>1. records \in Seq(RecordType)
    BY DEF TypeInv, TypeOK, RecordType
  <2> QED BY <2>1
<1>2. IsFiniteSet(rs)
  <2>1. IsFiniteSet(DOMAIN records)
    BY <1>1, FirstNumbers
  <2>2. rs = {records[i] : i \in DOMAIN records}
    BY DEF Range
  <2> HIDE DEF rs
  <2> QED BY <2>1, <2>2, FiniteImage
<1>3. \A r \in rs : r \in RecordType /\ IsFiniteSet(r.called)
  <2>1. \A T : \A q \in Seq(T) : \A i \in DOMAIN q : q[i] \in T
    OBVIOUS
  <2> QED BY <1>1, <2>1 DEF Range, TypeInv
<1> HIDE DEF rs
<1>4. IsFiniteSet({r.called : r \in rs})
  <2> DEFINE g == [r \in rs |-> r.called]
  <2>1. IsFiniteSet({g[r] : r \in rs})
    <3>1. DOMAIN g = rs
      OBVIOUS
    <3> HIDE DEF g
    <3> QED BY <1>2, <3>1, FiniteImage
  <2>2. {g[r] : r \in rs} = {r.called : r \in rs}
    OBVIOUS
  <2> QED BY <2>1, <2>2
<1>5. DOMAIN ByName = UNION {r.called : r \in rs}
  BY DEF ByName, rs
<1>6. IsFiniteSet(UNION {r.called : r \in rs}) /\ UNION {r.called : r \in rs} \in SUBSET Name
  <2>1. \A T \in {r.called : r \in rs} : IsFiniteSet(T) /\ T \subseteq Name
    BY <1>3 DEF RecordType
  <2> QED BY <1>4, <2>1, FS_UNION
<1>7. ASSUME NEW n \in DOMAIN ByName PROVE IsFiniteSet(ByName[n])
  <2> DEFINE callers == {r \in rs : n \in r.called}
             g == [r \in callers |-> r.nodeid]
  <2>1. IsFiniteSet(callers)
    BY <1>2, FS_Subset
  <2>2. IsFiniteSet({g[r] : r \in callers})
    <3>1. DOMAIN g = callers
      OBVIOUS
    <3> HIDE DEF g, callers
    <3> QED BY <2>1, <3>1, FiniteImage
  <2>3. {g[r] : r \in callers} = {r.nodeid : r \in callers}
    OBVIOUS
  <2>4. ByName[n] = {r.nodeid : r \in callers}
    BY <1>5, <1>7 DEF ByName, rs
  <2> QED BY <2>2, <2>3, <2>4
<1> QED BY <1>5, <1>6, <1>7

\* The ranking as a relation between the names that are called.
AheadPairs(by) == {p \in (DOMAIN by) \X (DOMAIN by) : Ahead(by, p[1], p[2])}

\* The pairs of the relation, one by one.
LEMMA AheadPair ==
  \A by : \A m \in DOMAIN by, n \in DOMAIN by : <<m, n>> \in AheadPairs(by) <=> Ahead(by, m, n)
  BY DEF AheadPairs

\* Who is ahead of whom is a strict order of the names that count.
LEMMA AheadIsTotal ==
  ASSUME NEW by, DOMAIN by \in SUBSET Name, \A n \in DOMAIN by : IsFiniteSet(by[n])
  PROVE  StrictTotal(AheadPairs(by), DOMAIN by)
<1> DEFINE D == DOMAIN by
           R == AheadPairs(by)
           count(n) == Cardinality(by[n])
<1>1. \A n \in D : count(n) \in Nat
  BY FS_CardinalityType
<1>2. \A m, n : Ahead(by, m, n) <=> count(m) > count(n) \/ (count(m) = count(n) /\ Precedes(m, n))
  BY DEF Ahead
<1>3. \A m \in D, n \in D : <<m, n>> \in R <=> Ahead(by, m, n)
  BY AheadPair
<1>4. \A n \in D : n \in Name
  OBVIOUS
<1> HIDE DEF D, R, count
<1>5. \A n \in D : ~Ahead(by, n, n)
  BY <1>1, <1>2, <1>4, PrecedesIrreflexive
<1>6. ASSUME NEW a \in D, NEW b \in D, NEW c \in D, Ahead(by, a, b), Ahead(by, b, c)
      PROVE  Ahead(by, a, c)
  <2>1. count(a) \in Nat /\ count(b) \in Nat /\ count(c) \in Nat
    BY <1>1
  <2>2. CASE count(a) > count(b) \/ count(b) > count(c)
    BY <1>2, <1>6, <2>1, <2>2
  <2>3. CASE count(a) = count(b) /\ count(b) = count(c)
    <3>1. Precedes(a, b) /\ Precedes(b, c)
      BY <1>2, <1>6, <2>1, <2>3
    <3>2. Precedes(a, c)
      BY <1>4, <3>1, PrecedesTransitive
    <3> QED BY <1>2, <2>3, <3>2
  <2> QED BY <1>2, <1>6, <2>1, <2>2, <2>3
<1>7. ASSUME NEW a \in D, NEW b \in D, a # b
      PROVE  Ahead(by, a, b) \/ Ahead(by, b, a)
  <2>1. count(a) \in Nat /\ count(b) \in Nat
    BY <1>1
  <2>2. Precedes(a, b) \/ Precedes(b, a)
    BY <1>4, <1>7, PrecedesTotal
  <2> QED BY <1>2, <2>1, <2>2
<1>8. StrictTotal(R, D)
  BY <1>3, <1>5, <1>6, <1>7 DEF StrictTotal
<1> QED BY <1>8 DEF D, R

\* The table is the head of the one ranking there is.
LEMMA TopIsRanked ==
  ASSUME NEW by, DOMAIN by \in SUBSET Name, IsFiniteSet(DOMAIN by),
         \A n \in DOMAIN by : IsFiniteSet(by[n]),
         NEW top, top = TopCalled(by)
  PROVE  /\ top \in Seq(DOMAIN by)
         /\ \A j \in DOMAIN top, k \in DOMAIN top : j < k => Ahead(by, top[j], top[k])
         /\ \A n \in DOMAIN by \ Range(top), m \in Range(top) :
              Len(top) = Cap /\ Ahead(by, m, n)
<1> DEFINE D == DOMAIN by
           R == AheadPairs(by)
           rank(n) == Cardinality(Below(R, D, n))
           size == IF Cardinality(D) < Cap THEN Cardinality(D) ELSE Cap
<1>1. StrictTotal(R, D)
  BY AheadIsTotal
<1>2. \A n \in D : Below(R, D, n) = {m \in D : Ahead(by, m, n)}
  BY AheadPair DEF Below
<1>3. \A m \in D, n \in D : <<m, n>> \in R <=> Ahead(by, m, n)
  BY AheadPair
<1>4. Cardinality(D) \in Nat /\ Cap \in Nat
  BY FS_CardinalityType, InputsAssumption
<1>5. size \in Nat /\ size =< Cardinality(D) /\ size =< Cap
      /\ (size < Cardinality(D) => size = Cap)
  BY <1>4
<1>6. top = [k \in 1..size |-> CHOOSE n \in D : Cardinality({m \in D : Ahead(by, m, n)}) = k - 1]
  BY DEF TopCalled
<1> HIDE DEF D, R, size
<1>7. \A m \in D, n \in D :
        /\ rank(n) \in Nat /\ rank(n) < Cardinality(D)
        /\ (Ahead(by, m, n) => rank(m) < rank(n))
        /\ (m = n \/ Ahead(by, m, n) \/ Ahead(by, n, m))
  <2>1. \A m \in D, n \in D : m = n \/ Ahead(by, m, n) \/ Ahead(by, n, m)
    BY <1>1, <1>3 DEF StrictTotal
  <2>2. IsFiniteSet(D)
    BY DEF D
  <2> QED BY <1>1, <1>3, <2>1, <2>2, RankGrows
<1> HIDE DEF rank
<1>8. ASSUME NEW k \in 1..size PROVE top[k] \in D /\ rank(top[k]) = k - 1
  <2>1. k - 1 \in Nat /\ k - 1 < Cardinality(D)
    BY <1>4, <1>5
  <2>2. IsFiniteSet(D)
    BY DEF D
  <2>3. \E n \in D : rank(n) = k - 1
    BY <1>1, <2>1, <2>2, RankIsOnto DEF rank
  <2>4. \E n \in D : Cardinality({m \in D : Ahead(by, m, n)}) = k - 1
    BY <1>2, <2>3 DEF rank
  <2>5. top[k] \in D /\ Cardinality({m \in D : Ahead(by, m, top[k])}) = k - 1
    BY <1>6, <2>4
  <2> QED BY <1>2, <2>5 DEF rank
<1>9. DOMAIN top = 1..size /\ top \in Seq(D) /\ Len(top) = size
  <2>1. top \in [1..size -> D]
    BY <1>6, <1>8
  <2> QED BY <1>5, <2>1
<1>10. ASSUME NEW m \in D, NEW n \in D, rank(m) < rank(n) PROVE Ahead(by, m, n)
  <2>1. /\ rank(m) \in Nat /\ rank(n) \in Nat
        /\ (Ahead(by, n, m) => rank(n) < rank(m))
        /\ (m = n \/ Ahead(by, m, n) \/ Ahead(by, n, m))
    BY <1>7
  <2> QED BY <1>10, <2>1
<1>11. ASSUME NEW j \in DOMAIN top, NEW k \in DOMAIN top, j < k PROVE Ahead(by, top[j], top[k])
  <2>1. /\ top[j] \in D /\ top[k] \in D /\ rank(top[j]) = j - 1 /\ rank(top[k]) = k - 1
        /\ j \in Nat /\ k \in Nat
    BY <1>8, <1>9
  <2>2. rank(top[j]) < rank(top[k])
    BY <1>11, <2>1
  <2> QED BY <1>10, <2>1, <2>2
<1>12. ASSUME NEW n \in D \ Range(top), NEW m \in Range(top)
       PROVE  Len(top) = Cap /\ Ahead(by, m, n)
  <2>1. rank(n) \in Nat /\ rank(n) < Cardinality(D)
    BY <1>7
  <2>2. rank(n) >= size
    <3> SUFFICES ASSUME rank(n) < size PROVE FALSE
      BY <1>5, <2>1
    <3> DEFINE k == rank(n) + 1
    <3>1. k \in 1..size /\ k - 1 = rank(n)
      BY <1>5, <2>1
    <3>2. top[k] \in D /\ rank(top[k]) = rank(n) /\ top[k] \in Range(top)
      BY <1>8, <1>9, <3>1 DEF Range
    <3> HIDE DEF k
    <3>3. top[k] = n
      <4>1. /\ (Ahead(by, n, top[k]) => rank(n) < rank(top[k]))
            /\ (Ahead(by, top[k], n) => rank(top[k]) < rank(n))
            /\ (top[k] = n \/ Ahead(by, top[k], n) \/ Ahead(by, n, top[k]))
        BY <1>7, <3>2
      <4>2. ~(rank(n) < rank(n))
        BY <2>1
      <4> QED BY <3>2, <4>1, <4>2
    <3> QED BY <3>2, <3>3
  <2>3. Len(top) = Cap
    BY <1>4, <1>5, <1>9, <2>1, <2>2
  <2>4. PICK k \in 1..size : m = top[k]
    BY <1>9 DEF Range
  <2>5. m \in D /\ rank(m) < rank(n)
    <3>1. m \in D /\ rank(m) = k - 1 /\ k \in Nat /\ k =< size
      BY <1>5, <1>8, <2>4
    <3> QED BY <1>5, <2>1, <2>2, <3>1
  <2> QED BY <1>10, <2>3, <2>5
<1> QED BY <1>9, <1>11, <1>12 DEF D

\* What is reported is counted from the records as they are at the end.
Counted ==
  pc = "done" => sutCalls = [by_name |-> ByName, top_called |-> TopCalled(ByName)]

\* Nothing is counted before the end, and nothing changes after it.
LEMMA CountedStep == TypeInv /\ Counted /\ [Next]_vars => Counted'
<1> SUFFICES ASSUME Counted, [Next]_vars, pc' = "done" PROVE Counted'
  BY DEF Counted
<1>1. CASE Aggregate
  <2>1. UNCHANGED records /\ sutCalls' = [by_name |-> ByName, top_called |-> TopCalled(ByName)]
    BY <1>1 DEF Aggregate
  <2>2. ByName' = ByName
    BY <2>1 DEF ByName
  <2>3. TopCalled(ByName)' = TopCalled(ByName)
    BY <2>2 DEF TopCalled, Ahead, Precedes
  <2> QED BY <2>1, <2>2, <2>3 DEF Counted
<1>2. CASE UNCHANGED vars
  <2>1. UNCHANGED <<records, sutCalls, pc>>
    BY <1>2 DEF vars
  <2>2. ByName' = ByName
    BY <2>1 DEF ByName
  <2>3. TopCalled(ByName)' = TopCalled(ByName)
    BY <2>2 DEF TopCalled, Ahead, Precedes
  <2> QED BY <2>1, <2>2, <2>3 DEF Counted
<1>3. CASE ~Aggregate /\ ~UNCHANGED vars
  BY <1>3 DEF Next, Done, SkipFile, RecordAlias, RecordStar, PassRelative, FileParsed,
              ReadPackages, ResolveTest, Parsing, AtStatement
<1> QED BY <1>1, <1>2, <1>3

\* Counts and records join both ways, the table is the head of the one ranking of
\* all the names, and what is printed goes down by its counts.
THEOREM SutCallsAgreeCorrect == Spec => []SutCallsAgree
<1>1. Init => TypeInv /\ Counted
  BY TypeInit DEF Init, Counted
<1>2. TypeInv /\ Counted /\ [Next]_vars => (TypeInv /\ Counted)'
  BY TypeStep, CountedStep
<1>3. TypeInv /\ Counted => SutCallsAgree
  <2> SUFFICES ASSUME TypeInv, Counted, pc = "done" PROVE SutCallsAgree
    BY DEF SutCallsAgree
  <2> DEFINE by == sutCalls.by_name
             top == sutCalls.top_called
  <2>1. by = ByName /\ top = TopCalled(by)
    BY DEF Counted
  <2>2. /\ DOMAIN by \in SUBSET Name /\ IsFiniteSet(DOMAIN by)
        /\ \A n \in DOMAIN by : IsFiniteSet(by[n])
    BY <2>1, ByNameIsFinite
  <2>3. /\ DOMAIN by = UNION {r.called : r \in Range(records)}
        /\ \A n \in DOMAIN by :
             by[n] = {r.nodeid : r \in {r \in Range(records) : n \in r.called}}
    BY <2>1 DEF ByName
  <2> HIDE DEF by, top
  <2>4. /\ top \in Seq(DOMAIN by)
        /\ \A j \in DOMAIN top, k \in DOMAIN top : j < k => Ahead(by, top[j], top[k])
        /\ \A n \in DOMAIN by \ Range(top), m \in Range(top) :
             Len(top) = Cap /\ Ahead(by, m, n)
    BY <2>1, <2>2, TopIsRanked
  <2>5. \A r \in Range(records) : \A n \in r.called : r.nodeid \in by[n]
    BY <2>3
  <2>6. \A n \in DOMAIN by : by[n] # {} /\ \A id \in by[n] :
          \E r \in Range(records) : r.nodeid = id /\ n \in r.called
    BY <2>3
  <2>7. ASSUME NEW j \in DOMAIN top, NEW k \in DOMAIN top, j < k
        PROVE  render_sut_calls[j].count >= render_sut_calls[k].count
    <3>1. top[j] \in DOMAIN by /\ top[k] \in DOMAIN by
      BY <2>4
    <3>2. /\ render_sut_calls[j].count = Cardinality(by[top[j]])
          /\ render_sut_calls[k].count = Cardinality(by[top[k]])
      BY <3>1 DEF render_sut_calls, by, top
    <3>3. Cardinality(by[top[j]]) \in Nat /\ Cardinality(by[top[k]]) \in Nat
      BY <2>2, <3>1, FS_CardinalityType
    <3>4. Cardinality(by[top[j]]) >= Cardinality(by[top[k]])
      BY <2>4, <2>7, <3>3 DEF Ahead
    <3> QED BY <3>2, <3>4
  <2> QED BY <2>4, <2>5, <2>6, <2>7 DEF SutCallsAgree, by, top
<1> QED BY <1>1, <1>2, <1>3, PTL DEF Spec
===============================================================================
