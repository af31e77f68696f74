-------------------------- MODULE VerificationProofs --------------------------
(***************************************************************************)
(* Proofs about Verification: what the records of a file call verification *)
(* of a child process, whatever its classes, tests and statements are.     *)
(***************************************************************************)
EXTENDS Verification, FiniteSetTheorems, TLAPS

-------------------------------------------------------------------------------
(* Numbers *)

\* The set of all numbers is the only one with zero and with all successors: if
\* k is missing, the successor maps the members below k one to one into
\* themselves, so it reaches all of them, zero as well.
LEMMA Counting ==
  ASSUME NEW S \in SUBSET Nat, 0 \in S, \A m \in S : m + 1 \in S
  PROVE  Nat \subseteq S
<1> SUFFICES ASSUME NEW k \in Nat, k \notin S PROVE FALSE
  OBVIOUS
<1> DEFINE T == {m \in S : m =< k}
           f == [m \in T |-> m + 1]
<1>1. T \in SUBSET Nat /\ 0 \in T
  <2>1. 0 =< k
    OBVIOUS
  <2> QED BY <2>1
<1>2. \A m \in T : m + 1 \in T
  <2> SUFFICES ASSUME NEW m \in T PROVE m + 1 =< k
    OBVIOUS
  <2>1. m \in Nat /\ m =< k /\ m # k
    OBVIOUS
  <2> QED BY <2>1
<1>3. \A m \in T : m =< k
  OBVIOUS
<1> HIDE DEF T
<1>4. IsFiniteSet(T)
  BY <1>1, <1>3, FS_BoundedSetOfNaturals
<1>5. f \in Injection(T, T)
  <2>1. \A a \in T, b \in T : f[a] = f[b] => a = b
    BY <1>1
  <2> QED BY <1>2, <2>1 DEF Injection, IsInjective
<1>6. f \in Surjection(T, T)
  BY <1>4, <1>5, FS_Injection
<1>7. PICK m \in T : f[m] = 0
  BY <1>1, <1>6 DEF Surjection
<1> QED BY <1>1, <1>7

-------------------------------------------------------------------------------
(* What a test replaces when it runs *)

\* The names that are replaced whatever the locals are.
Base(r) == ReplacedBefore(r) \cup PatchTargets(ValuesOf(FunctionOf(r).body))

\* The execution of a body is what it is said to be, statement by statement.
LEMMA Execution ==
  ASSUME NEW r, FunctionOf(r).body \in Seq(Statement)
  PROVE  /\ ReplacedAfter(r)[0] = ReplacedBefore(r)
         /\ \A i \in 1..Len(FunctionOf(r).body) :
              ReplacedAfter(r)[i]
                = ReplacedBy(FunctionOf(r).body[i], ReplacedAfter(r)[i - 1])
<1> DEFINE body == FunctionOf(r).body
           last == Len(body)
           Step(i, replaced) == ReplacedBy(body[i], replaced)
           Runs(k, g) == g = [i \in 0..k |-> IF i = 0 THEN ReplacedBefore(r)
                                             ELSE Step(i, g[i - 1])]
           S == {k \in Nat : \E g : Runs(k, g)}
<1>1. last \in Nat
  OBVIOUS
<1>2. ReplacedAfter(r) = CHOOSE g : Runs(last, g)
  BY DEF ReplacedAfter
<1> HIDE DEF body, last, Step
<1>3. 0 \in S
  <2> DEFINE g == [i \in 0..0 |-> ReplacedBefore(r)]
  <2>1. Runs(0, g)
    OBVIOUS
  <2> QED BY <2>1
<1>4. ASSUME NEW k \in S PROVE k + 1 \in S
  <2>1. PICK g : Runs(k, g)
    OBVIOUS
  <2> DEFINE h == [i \in 0..(k + 1) |-> IF i = k + 1 THEN Step(k + 1, g[k]) ELSE g[i]]
  <2>2. ASSUME NEW i \in 0..(k + 1)
        PROVE  h[i] = IF i = 0 THEN ReplacedBefore(r) ELSE Step(i, h[i - 1])
    <3>1. CASE i = 0
      <4>1. 0 \in 0..k /\ 0 # k + 1 /\ g[0] = ReplacedBefore(r)
        BY <2>1
      <4> QED BY <3>1, <4>1
    <3>2. CASE i = k + 1
      <4>1. h[i - 1] = g[k] /\ i # 0
        BY <3>2
      <4> QED BY <3>2, <4>1
    <3>3. CASE i # 0 /\ i # k + 1
      <4>1. i \in 0..k /\ i - 1 \in 0..k /\ i - 1 # k + 1 /\ i - 1 \in 0..(k + 1)
        BY <3>3
      <4>2. g[i] = Step(i, g[i - 1])
        BY <2>1, <3>3, <4>1
      <4>3. h[i] = g[i] /\ h[i - 1] = g[i - 1]
        BY <3>3, <4>1
      <4> QED BY <3>3, <4>2, <4>3
    <3> QED BY <3>1, <3>2, <3>3
  <2>3. Runs(k + 1, h)
    <3>1. h = [i \in 0..(k + 1) |-> h[i]]
      OBVIOUS
    <3> HIDE DEF h
    <3> QED BY <2>2, <3>1
  <2> HIDE DEF h, Runs
  <2> QED BY <2>3
<1>5. \E g : Runs(last, g)
  <2>1. S \in SUBSET Nat
    OBVIOUS
  <2> HIDE DEF S
  <2>2. Nat \subseteq S
    BY <1>3, <1>4, <2>1, Counting
  <2> QED BY <1>1, <2>2 DEF S
<1>6. Runs(last, ReplacedAfter(r))
  <2> HIDE DEF Runs
  <2> QED BY <1>2, <1>5
<1> DEFINE after == ReplacedAfter(r)
<1>7. after[0] = ReplacedBefore(r) /\ \A i \in 1..last : after[i] = Step(i, after[i - 1])
  <2> HIDE DEF after
  <2>1. after = [i \in 0..last |-> IF i = 0 THEN ReplacedBefore(r) ELSE Step(i, after[i - 1])]
    BY <1>6 DEF after
  <2>2. 0 \in 0..last /\ \A i \in 1..last : i \in 0..last /\ i # 0
    BY <1>1
  <2> QED BY <2>1, <2>2
<1> QED BY <1>7 DEF body, last, Step

\* What it is for a statement to bind a local to a double.
LEMMA BindsDouble ==
  ASSUME NEW r, NEW i
  PROVE  i \in BindsDoubles(r) <=>
           /\ i \in DOMAIN FunctionOf(r).body
           /\ FunctionOf(r).body[i].left # ""
           /\ YieldsADouble(FunctionOf(r).body[i].value, ReplacedAfter(r)[i - 1])
  BY DEF BindsDoubles

\* Every name that is replaced at some point is so from the start, or a local
\* that a statement before that point binds to a double.
LEMMA WhereFrom ==
  ASSUME NEW r, FunctionOf(r).body \in Seq(Statement),
         NEW k \in 0..Len(FunctionOf(r).body), NEW n \in ReplacedAfter(r)[k]
  PROVE  \/ n \in Base(r)
         \/ \E j \in BindsDoubles(r) : j =< k /\ n = <<FunctionOf(r).body[j].left>>
<1> DEFINE body == FunctionOf(r).body
           after == ReplacedAfter(r)
           Known(m) == \A x \in after[m] :
                         \/ x \in Base(r)
                         \/ \E j \in BindsDoubles(r) : j =< m /\ x = <<body[j].left>>
           S == {m \in Nat : m =< Len(body) => Known(m)}
<1>1. Len(body) \in Nat /\ DOMAIN body = 1..Len(body)
  OBVIOUS
<1>2. 0 \in S
  <2>1. Known(0)
    BY Execution DEF Base
  <2> QED BY <2>1
<1>3. ASSUME NEW m \in S, m + 1 =< Len(body) PROVE Known(m + 1)
  <2> DEFINE i == m + 1
  <2>1. m \in Nat /\ i \in 1..Len(body) /\ i - 1 = m /\ Known(m)
    BY <1>1, <1>3
  <2>2. after[i] = ReplacedBy(body[i], after[m])
    BY <2>1, Execution
  <2>3. PatchTargets({body[i].value}) \subseteq Base(r)
    <3>1. body[i].value \in ValuesOf(body)
      BY <1>1, <2>1 DEF ValuesOf
    <3> QED BY <3>1 DEF PatchTargets, Base
  <2> SUFFICES ASSUME NEW x \in after[i]
               PROVE  \/ x \in Base(r)
                      \/ \E j \in BindsDoubles(r) : j =< i /\ x = <<body[j].left>>
    OBVIOUS
  <2>4. CASE x \in after[m] \cup PatchTargets({body[i].value})
    <3>1. ASSUME NEW j \in BindsDoubles(r), j =< m PROVE j =< i
      <4>1. j \in 1..Len(body)
        <5>1. j \in DOMAIN FunctionOf(r).body
          BY BindsDouble
        <5> QED BY <1>1, <5>1
      <4> QED BY <2>1, <3>1, <4>1
    <3> HIDE DEF i, body, after
    <3> QED BY <2>1, <2>3, <2>4, <3>1
  <2>5. CASE x \notin after[m] \cup PatchTargets({body[i].value})
    <3>1. body[i].left # "" /\ YieldsADouble(body[i].value, after[m]) /\ x = <<body[i].left>>
      BY <2>2, <2>5 DEF ReplacedBy
    <3>2. i \in BindsDoubles(r) /\ i =< i
      <4>1. i \in DOMAIN body /\ i =< i
        BY <1>1, <2>1
      <4>2. YieldsADouble(body[i].value, after[i - 1])
        BY <2>1, <3>1
      <4> HIDE DEF i
      <4> QED BY <3>1, <4>1, <4>2, BindsDouble
    <3> QED BY <3>1, <3>2
  <2> QED BY <2>4, <2>5
<1>4. \A m \in S : m + 1 \in S
  <2> SUFFICES ASSUME NEW m \in S PROVE m + 1 \in Nat /\ (m + 1 =< Len(body) => Known(m + 1))
    OBVIOUS
  <2> QED BY <1>3
<1>5. k \in S
  <2>1. S \in SUBSET Nat /\ k \in Nat
    BY <1>1
  <2> HIDE DEF S
  <2> QED BY <1>2, <1>4, <2>1, Counting
<1> QED BY <1>1, <1>5

-------------------------------------------------------------------------------
(* The invariant *)

\* The test at hand, as its record will name it.
Mark == [of |-> <<child, member>>]

TypeInv ==
  /\ IsSource(source)
  /\ pc \in {"walk", "bind", "judge", "done"}
  /\ child \in Nat \ {0} /\ member \in Nat
  /\ member > 0 => child =< Len(Children) /\ Children[child].kind = "class"
  /\ pc \in {"bind", "judge"} => Here \in Function

\* What the class at hand replaces, and nothing from the class before.
ShadowsInv == shadows = UNION {class_installed_doubles(c) : c \in ClassOf(Mark)}

\* What is replaced from the start is known, where nothing is nothing is, and a
\* local that is bound to a double is known as soon as its binding was looked at.
NamesInv ==
  pc \in {"bind", "judge"} => \A r \in {Mark} :
    /\ Base(r) \subseteq names
    /\ ReplacesNothing(r) => names = {}
    /\ KeepsToTrackedForms(r) =>
         \A i \in BindsDoubles(r) :
           (pc = "bind" /\ i \in todo) \/ <<FunctionOf(r).body[i].left>> \in names

\* What is known is final when the calls are judged.
SitesInv ==
  pc \in {"bind", "judge"} => \A r \in {Mark} :
    LET body == FunctionOf(r).body
    IN  /\ pc = "bind" => todo \subseteq Bindings(body) /\ sites = {}
        /\ pc = "judge" =>
             /\ todo \subseteq Calls(body)
             /\ sites = {i \in Calls(body) \ todo : Verifies(body[i])}

\* What the properties say of one record.
Exact(r) ==
  ReplacesNothing(r) =>
    r.verification_sites =
      {i \in Calls(FunctionOf(r).body) :
         ChecksAChild(FunctionOf(r).body[i].value) /\ FailsTheTest(r, i)}

Uncredited(r) ==
  KeepsToTrackedForms(r) /\ ChecksLocals(r) =>
    \A i \in r.verification_sites : ~RunsOnADouble(r, i)

RecordsInv ==
  /\ "test_functions" \in DOMAIN parsed
  /\ parsed.test_functions \in Seq(Range(parsed.test_functions))
  /\ \A r \in Records : Exact(r) /\ Uncredited(r)

VerificationInv ==
  TypeInv /\ ShadowsInv /\ NamesInv /\ SitesInv /\ RecordsInv

-------------------------------------------------------------------------------
(* What the reference says depends on the file alone *)

\* The file stays as it is, and with it what names mean in it.
LEMMA SameFile ==
  ASSUME UNCHANGED source
  PROVE  /\ \A c : Canon(c)' = Canon(c)
         /\ \A es : PatchTargets(es)' = PatchTargets(es)
         /\ \A c : class_installed_doubles(c)' = class_installed_doubles(c)
         /\ \A r : FunctionOf(r)' = FunctionOf(r)
         /\ \A r : ClassOf(r)' = ClassOf(r)
<1>1. \A c : Canon(c)' = Canon(c)
  BY DEF Canon
<1>2. \A es : PatchTargets(es)' = PatchTargets(es)
  BY DEF PatchTargets, Canon
<1>3. \A c : class_installed_doubles(c)' = class_installed_doubles(c)
  BY DEF class_installed_doubles, PatchTargets, Canon
<1>4. \A r : FunctionOf(r)' = FunctionOf(r)
  BY DEF FunctionOf, Function_at, Children
<1>5. \A r : ClassOf(r)' = ClassOf(r)
  BY DEF ClassOf, Children
<1> QED BY <1>1, <1>2, <1>3, <1>4, <1>5

\* So does the execution of a test.
LEMMA SameExecution ==
  ASSUME UNCHANGED source
  PROVE  /\ \A r : ReplacedBefore(r)' = ReplacedBefore(r)
         /\ \A e, replaced : IsReplaced(e, replaced)' = IsReplaced(e, replaced)
         /\ \A e, replaced : YieldsADouble(e, replaced)' = YieldsADouble(e, replaced)
         /\ \A s, replaced : ReplacedBy(s, replaced)' = ReplacedBy(s, replaced)
         /\ \A r : ReplacedAfter(r)' = ReplacedAfter(r)
         /\ \A r : Base(r)' = Base(r)
         /\ \A r : BindsDoubles(r)' = BindsDoubles(r)
<1>1. \A r : ReplacedBefore(r)' = ReplacedBefore(r)
  BY SameFile DEF ReplacedBefore
<1>2. \A e, replaced : IsReplaced(e, replaced)' = IsReplaced(e, replaced)
  BY DEF IsReplaced, Canon
<1>3. \A e, replaced : YieldsADouble(e, replaced)' = YieldsADouble(e, replaced)
  BY DEF YieldsADouble, IsReplaced, Canon
<1>4. \A s, replaced : ReplacedBy(s, replaced)' = ReplacedBy(s, replaced)
  BY <1>3, SameFile DEF ReplacedBy
<1>5. \A r : ReplacedAfter(r)' = ReplacedAfter(r)
  BY <1>1, <1>4, SameFile DEF ReplacedAfter
<1>6. \A r : Base(r)' = Base(r)
  BY <1>1, SameFile DEF Base
<1>7. \A r : BindsDoubles(r)' = BindsDoubles(r)
  <2> SUFFICES ASSUME NEW r PROVE BindsDoubles(r)' = BindsDoubles(r)
    OBVIOUS
  <2>1. FunctionOf(r)' = FunctionOf(r) /\ ReplacedAfter(r)' = ReplacedAfter(r)
    BY <1>5, SameFile
  <2> QED BY <2>1 DEF BindsDoubles, YieldsADouble, IsReplaced, Canon
<1> QED BY <1>1, <1>2, <1>3, <1>4, <1>5, <1>6, <1>7

\* And what is asked of a test before its record is judged, and of its record.
LEMMA SameVerdict ==
  ASSUME UNCHANGED source
  PROVE  /\ \A r : ReplacesNothing(r)' = ReplacesNothing(r)
         /\ \A r : KeepsToTrackedForms(r)' = KeepsToTrackedForms(r)
         /\ \A r : Exact(r)' = Exact(r)
         /\ \A r : Uncredited(r)' = Uncredited(r)
<1>1. \A r : ReplacesNothing(r)' = ReplacesNothing(r)
  BY SameFile, SameExecution DEF ReplacesNothing
<1>2. \A r : KeepsToTrackedForms(r)' = KeepsToTrackedForms(r)
  <2> SUFFICES ASSUME NEW r PROVE KeepsToTrackedForms(r)' = KeepsToTrackedForms(r)
    OBVIOUS
  <2>1. FunctionOf(r)' = FunctionOf(r) /\ BindsDoubles(r)' = BindsDoubles(r)
    BY SameFile, SameExecution
  <2> QED BY <2>1 DEF KeepsToTrackedForms, IsReplaced, Canon
<1>3. \A r : ChecksLocals(r)' = ChecksLocals(r)
  BY SameFile, SameExecution DEF ChecksLocals
<1>4. \A r, i : RunsOnADouble(r, i)' = RunsOnADouble(r, i)
  BY SameFile, SameExecution DEF RunsOnADouble
<1>5. \A r, i : FailsTheTest(r, i)' = FailsTheTest(r, i)
  BY SameFile DEF FailsTheTest
<1>6. \A e : ChecksAChild(e)' = ChecksAChild(e)
  BY SameFile DEF ChecksAChild
<1>7. \A r : Exact(r)' = Exact(r)
  BY <1>1, <1>5, <1>6, SameFile DEF Exact
<1>8. \A r : Uncredited(r)' = Uncredited(r)
  BY <1>2, <1>3, <1>4 DEF Uncredited
<1> QED BY <1>1, <1>2, <1>7, <1>8

-------------------------------------------------------------------------------
(* The test at hand *)

\* What the walk comes to next: a function, in a class or not, or a class.
LEMMA WhatComesNext ==
  ASSUME TypeInv, HasNext
  PROVE  /\ Here.kind = "def" => Here \in Function
         /\ Here.kind = "class" => member = 0 /\ child =< Len(Children)
<1>1. Children \in Seq(Child)
  BY DEF TypeInv, IsSource, Children
<1>2. child =< Len(Children)
  BY DEF TypeInv, HasNext
<1>3. Children[child] \in Child
  <2>1. child \in 1..Len(Children)
    BY <1>1, <1>2 DEF TypeInv
  <2> QED BY <1>1, <2>1
<1>4. \A c \in Child : c.kind = "def" => c \in Function
  BY DEF Child
<1>5. \A c \in Child : c.kind = "class" => c.members \in Seq(Function)
  BY DEF Child, Function
<1>6. \A f \in Function : f.kind = "def"
  BY DEF Function
<1>7. CASE member = 0
  BY <1>2, <1>3, <1>4, <1>7 DEF Here, Function_at
<1>8. CASE member # 0
  <2>1. Children[child].members \in Seq(Function) /\ member \in Nat /\ member > 0
    BY <1>3, <1>5, <1>8 DEF TypeInv
  <2>2. member \in 1..Len(Children[child].members)
    BY <1>8, <2>1 DEF HasNext
  <2>3. Here \in Function
    BY <1>8, <2>1, <2>2 DEF Here, Function_at
  <2> QED BY <1>6, <2>3
<1> QED BY <1>7, <1>8

\* The record is of the function the walk is at.
LEMMA MarkIsHere ==
  /\ FunctionOf(Mark) = Here
  /\ \A r : r.of = Mark.of => FunctionOf(r) = FunctionOf(Mark) /\ ClassOf(r) = ClassOf(Mark)
BY DEF Mark, FunctionOf, Here, ClassOf

\* What a test starts with is what is replaced when it runs, before its locals.
LEMMA StartsWithTheBase ==
  ASSUME ShadowsInv
  PROVE  Replaced(Here) = Base(Mark)
BY MarkIsHere DEF ShadowsInv, Replaced, Base, ReplacedBefore

\* The statements of the test are typed.
LEMMA BodyType ==
  ASSUME TypeInv, pc \in {"bind", "judge"}
  PROVE  FunctionOf(Mark).body \in Seq(Statement)
BY MarkIsHere DEF TypeInv, Function

\* A local that is bound to a double is bound by a pair that double_bindings lists.
LEMMA TrackedArePairs ==
  ASSUME NEW r, KeepsToTrackedForms(r), NEW i \in BindsDoubles(r)
  PROVE  i \in Bindings(FunctionOf(r).body)
<1>1. IsCall(FunctionOf(r).body[i].value)
  BY DEF KeepsToTrackedForms
<1>2. i \in DOMAIN FunctionOf(r).body /\ FunctionOf(r).body[i].left # ""
  BY BindsDouble
<1> QED BY <1>1, <1>2 DEF Bindings, IsCall

\* The passes, in their order.
LEMMA PassOrder ==
  ASSUME NEW body, NEW i \in Nat, NEW j \in Nat, j < i, Pass(body[j].form) =< Pass(body[i].form)
  PROVE  Earlier(body, j, i) /\ ~Earlier(body, i, j)
<1> DEFINE a == Pass(body[j].form)
           b == Pass(body[i].form)
<1>1. a \in Nat /\ b \in Nat
  BY DEF Pass
<1>2. Earlier(body, j, i) <=> a < b \/ (a = b /\ j < i)
  BY DEF Earlier
<1>3. Earlier(body, i, j) <=> b < a \/ (b = a /\ i < j)
  BY DEF Earlier
<1> HIDE DEF a, b
<1>4. a =< b
  BY DEF a, b
<1> QED BY <1>1, <1>2, <1>3, <1>4

\* The binding at hand is seen to bind a double, if it does.
LEMMA DoublesAreSeen ==
  ASSUME TypeInv, NamesInv, pc = "bind", NEW r \in {Mark}, KeepsToTrackedForms(r),
         NEW i \in todo, \A j \in todo \ {i} : Earlier(FunctionOf(r).body, i, j),
         i \in BindsDoubles(r)
  PROVE  binds_a_double(FunctionOf(r).body[i].value)
<1> DEFINE body == FunctionOf(r).body
           e == body[i].value
<1>1. body \in Seq(Statement)
  BY BodyType
<1>2. i \in 1..Len(body) /\ YieldsADouble(e, ReplacedAfter(r)[i - 1])
  <2>1. i \in DOMAIN body /\ YieldsADouble(e, ReplacedAfter(r)[i - 1])
    BY BindsDouble
  <2> QED BY <1>1, <2>1
<1>3. IsCall(e) /\ (PatchesAName(e.chain) => Last(e.chain) \in MockConstructors)
  BY DEF KeepsToTrackedForms
<1>4. ASSUME NEW n \in ReplacedAfter(r)[i - 1], IsReplaced(e, {n}) PROVE n \in names
  <2>1. i - 1 \in 0..Len(body) /\ i - 1 < i
    BY <1>1, <1>2
  <2>2. \/ n \in Base(r)
        \/ \E j \in BindsDoubles(r) : j =< i - 1 /\ n = <<body[j].left>>
    BY <1>1, <2>1, WhereFrom
  <2>3. CASE n \in Base(r)
    BY <2>3 DEF NamesInv
  <2>4. ASSUME NEW j \in BindsDoubles(r), j =< i - 1, n = <<body[j].left>>
        PROVE  n \in names
    <3>1. j \in 1..Len(body)
      <4>1. j \in DOMAIN body
        BY BindsDouble
      <4> QED BY <1>1, <4>1
    <3>2. j < i /\ j \in Nat /\ i \in Nat /\ j # i
      BY <1>1, <1>2, <2>4, <3>1
    <3>3. Pass(body[j].form) =< Pass(body[i].form)
      BY <1>4, <2>4, <3>2 DEF KeepsToTrackedForms
    <3>4. ~Earlier(body, i, j)
      BY <3>2, <3>3, PassOrder
    <3>5. j \notin todo
      BY <3>2, <3>4
    <3> QED BY <2>4, <3>5 DEF NamesInv
  <2> QED BY <2>2, <2>3, <2>4
<1>5. CASE Last(e.chain) \in MockConstructors
  BY <1>3, <1>5 DEF binds_a_double
<1>6. CASE IsReplaced(e, ReplacedAfter(r)[i - 1])
  <2>1. PICK n \in ReplacedAfter(r)[i - 1] : n = <<Head(e.chain)>> \/ AtOrUnder(Canon(e.chain), n)
    BY <1>6 DEF IsReplaced
  <2>2. IsReplaced(e, {n})
    BY <2>1 DEF IsReplaced
  <2>3. n \in names
    BY <1>4, <2>2
  <2> QED BY <1>3, <2>1, <2>3 DEF binds_a_double, HeadIsShadowed, IsShadowed
<1> QED BY <1>2, <1>3, <1>5, <1>6 DEF YieldsADouble

\* A call that is taken for verification does not run on a double.
LEMMA NoDoubleVerifies ==
  ASSUME TypeInv, NamesInv, pc = "judge", NEW r \in {Mark},
         KeepsToTrackedForms(r), ChecksLocals(r),
         NEW i \in Calls(FunctionOf(r).body), Verifies(FunctionOf(r).body[i])
  PROVE  ~RunsOnADouble(r, i)
<1> DEFINE body == FunctionOf(r).body
           chain == body[i].value.chain
<1> SUFFICES ASSUME IsReplaced(body[i].value, ReplacedAfter(r)[i - 1]) PROVE FALSE
  BY DEF RunsOnADouble
<1>1. body \in Seq(Statement)
  BY BodyType
<1>2. i - 1 \in 0..Len(body)
  <2>1. i \in DOMAIN body
    BY DEF Calls
  <2> QED BY <1>1, <2>1
<1>3. ReplacedAfter(r)[i - 1] \subseteq names
  <2> SUFFICES ASSUME NEW n \in ReplacedAfter(r)[i - 1] PROVE n \in names
    OBVIOUS
  <2>1. \/ n \in Base(r)
        \/ \E j \in BindsDoubles(r) : n = <<body[j].left>>
    BY <1>1, <1>2, WhereFrom
  <2> QED BY <2>1 DEF NamesInv
<1>4. ~HeadIsShadowed(chain)
  BY DEF Verifies
<1>5. PICK n \in ReplacedAfter(r)[i - 1] : n = <<Head(chain)>> \/ AtOrUnder(Canon(chain), n)
  BY DEF IsReplaced
<1>6. n # <<Head(chain)>>
  BY <1>3, <1>4 DEF HeadIsShadowed
<1>7. CASE IsReturncodeCheck(chain)
  <2>1. AtOrUnder(Canon(chain), n) => n = <<Head(chain)>>
    BY <1>7 DEF ChecksLocals
  <2> QED BY <1>5, <1>6, <2>1
<1>8. CASE ~IsReturncodeCheck(chain)
  <2>1. ~IsShadowed(Canon(chain))
    BY <1>8 DEF Verifies
  <2> QED BY <1>3, <1>5, <1>6, <2>1 DEF IsShadowed
<1> QED BY <1>7, <1>8

\* Where nothing is replaced, what verifies is what checks a child process and
\* fails the test.
LEMMA NothingReplacedIsExact ==
  ASSUME names = {}, NEW r, NEW i, FunctionOf(r).body[i] \in Statement
  PROVE  Verifies(FunctionOf(r).body[i])
           <=> ChecksAChild(FunctionOf(r).body[i].value) /\ FailsTheTest(r, i)
<1> DEFINE s == FunctionOf(r).body[i]
<1>1. s.inside \in Seq(Block)
  BY DEF Statement
<1>2. \A b \in Block : ~Swallows(b) <=>
        \/ b.kind \in {"else", "finally", "if"}
        \/ b.kind = "with" /\ (IsCall(b.value) => Canon(b.value.chain) # Suppress)
  BY DEF Block, Swallows
<1>3. ~verification_is_unreliable(s) <=> FailsTheTest(r, i)
  <2>1. \A k \in DOMAIN s.inside : s.inside[k] \in Block
    BY <1>1
  <2> QED BY <1>2, <2>1 DEF verification_is_unreliable, FailsTheTest
<1> QED BY <1>3 DEF Verifies, ChecksAChild, HeadIsShadowed, IsShadowed

-------------------------------------------------------------------------------
(* The steps *)

\* One more record at the end.
LEMMA OneMoreRecord ==
  ASSUME NEW q, q \in Seq(Range(q)), NEW x
  PROVE  /\ Append(q, x) \in Seq(Range(Append(q, x)))
         /\ Range(Append(q, x)) = Range(q) \cup {x}
<1> DEFINE T == Range(q) \cup {x}
<1>1. q \in Seq(T)
  <2>1. Range(q) \subseteq T
    OBVIOUS
  <2>2. \A R : R \subseteq T /\ q \in Seq(R) => q \in Seq(T)
    BY SMT
  <2> HIDE DEF T
  <2> QED BY <2>1, <2>2
<1>2. Append(q, x) \in Seq(T)
  <2>1. x \in T
    OBVIOUS
  <2> HIDE DEF T
  <2> QED BY <1>1, <2>1
<1>3. /\ DOMAIN q = 1..Len(q) /\ Len(q) \in Nat
      /\ DOMAIN Append(q, x) = 1..(Len(q) + 1)
      /\ \A k \in 1..Len(q) : Append(q, x)[k] = q[k]
      /\ Append(q, x)[Len(q) + 1] = x
  <2> HIDE DEF T
  <2> QED BY <1>1
<1>4. Range(Append(q, x)) = T
  <2>1. Range(Append(q, x)) = {Append(q, x)[k] : k \in 1..(Len(q) + 1)}
    BY <1>3 DEF Range
  <2>2. 1..(Len(q) + 1) = 1..Len(q) \cup {Len(q) + 1}
    BY <1>3
  <2>3. Range(q) = {q[k] : k \in 1..Len(q)}
    BY <1>3 DEF Range
  <2> QED BY <1>3, <2>1, <2>2, <2>3
<1> QED BY <1>2, <1>4

\* The walk begins with nothing known.
LEMMA InvInit == Init => VerificationInv
<1> SUFFICES ASSUME Init PROVE VerificationInv
  OBVIOUS
<1>1. TypeInv
  BY SourcesAssumption DEF Init, TypeInv
<1>2. ShadowsInv
  BY DEF Init, ShadowsInv, ClassOf, Mark
<1>3. NamesInv /\ SitesInv
  BY DEF Init, NamesInv, SitesInv
<1>4. RecordsInv
  <2>1. parsed.test_functions = <<>> /\ "test_functions" \in DOMAIN parsed
    BY DEF Init
  <2>2. Range(parsed.test_functions) = {}
    BY <2>1 DEF Range
  <2> QED BY <2>1, <2>2 DEF RecordsInv, Records
<1> QED BY <1>1, <1>2, <1>3, <1>4 DEF VerificationInv

\* Which records there are is decided by the records; the file does not change.
LEMMA RecordsStay ==
  ASSUME RecordsInv, UNCHANGED source, UNCHANGED parsed.test_functions,
         DOMAIN parsed' = DOMAIN parsed
  PROVE  RecordsInv'
<1>1. UNCHANGED Records
  BY DEF Records, Range
<1>2. ASSUME NEW r \in Records PROVE Exact(r)' /\ Uncredited(r)'
  BY SameVerdict DEF RecordsInv
<1> QED BY <1>1, <1>2 DEF RecordsInv, Range

\* Nothing is known of a test outside the test.
LEMMA OnTheWalk ==
  ASSUME pc' \in {"walk", "done"}
  PROVE  NamesInv' /\ SitesInv'
BY DEF NamesInv, SitesInv

\* To the next child of the module or of the class.
LEMMA TheWalkGoesOn ==
  ASSUME TypeInv, ShadowsInv, Advance, UNCHANGED <<source, shadows>>, pc' \in {"walk", "done"}
  PROVE  TypeInv' /\ ShadowsInv'
<1>1. CASE member = 0
  <2>1. child' = child + 1 /\ member' = 0
    BY <1>1 DEF Advance
  <2>2. TypeInv'
    BY <2>1 DEF TypeInv, IsSource
  <2>3. ClassOf(Mark) = {} /\ ClassOf(Mark)' = {}
    BY <1>1, <2>1 DEF ClassOf, Mark
  <2> QED BY <2>2, <2>3 DEF ShadowsInv
<1>2. CASE member # 0
  <2>1. child' = child /\ member' = member + 1 /\ member \in Nat /\ member > 0 /\ member' # 0
    BY <1>2 DEF Advance, TypeInv
  <2>2. TypeInv'
    BY <2>1 DEF TypeInv, IsSource, Children
  <2>3. ClassOf(Mark) = {Children[child]} /\ ClassOf(Mark)' = {Children[child]}
    BY <1>2, <2>1 DEF ClassOf, Mark, Children
  <2>4. ClassOf(Mark)' = ClassOf(Mark)
    BY <2>1, <2>3 DEF Children
  <2>5. \A c : class_installed_doubles(c)' = class_installed_doubles(c)
    BY SameFile
  <2> QED BY <2>1, <2>2, <2>4, <2>5 DEF ShadowsInv
<1> QED BY <1>1, <1>2

\* While the walk is at one test, its text and its doubles stay what they are.
LEMMA AtOneTest ==
  ASSUME TypeInv, ShadowsInv, UNCHANGED <<source, child, member, shadows>>,
         pc' \in {"bind", "judge"} => Here \in Function,
         pc' \in {"walk", "bind", "judge", "done"}
  PROVE  TypeInv' /\ ShadowsInv' /\ UNCHANGED <<Mark, Here>>
<1>1. UNCHANGED <<Mark, Here>>
  BY DEF Mark, Here, Function_at, Children
<1>2. TypeInv'
  BY <1>1 DEF TypeInv, IsSource, Children
<1>3. ShadowsInv'
  BY <1>1 DEF ShadowsInv, ClassOf, Mark, class_installed_doubles, PatchTargets, Canon, Children
<1> QED BY <1>1, <1>2, <1>3

\* A test begins with what is replaced before its locals, and with all its pairs.
LEMMA StartTestStep ==
  ASSUME VerificationInv, StartTest
  PROVE  VerificationInv'
<1>1. TypeInv' /\ ShadowsInv' /\ UNCHANGED <<Mark, Here>>
  <2>1. Here \in Function
    BY WhatComesNext DEF VerificationInv, StartTest
  <2> QED BY <2>1, AtOneTest DEF VerificationInv, StartTest
<1>2. RecordsInv'
  BY RecordsStay DEF VerificationInv, StartTest
<1>3. ASSUME NEW r, r = Mark
      PROVE  /\ (Base(r) \subseteq names)'
             /\ (ReplacesNothing(r) => names = {})'
             /\ (KeepsToTrackedForms(r) => BindsDoubles(r) \subseteq todo)'
             /\ (todo \subseteq Bindings(FunctionOf(r).body))'
  <2>1. FunctionOf(r) = Here /\ FunctionOf(r)' = Here
    BY <1>3, MarkIsHere, SameFile DEF StartTest
  <2>2. names' = Base(r) /\ Base(r)' = Base(r)
    BY <1>3, StartsWithTheBase, SameExecution DEF VerificationInv, StartTest
  <2>3. todo' = Bindings(FunctionOf(r).body)
    BY <2>1 DEF StartTest
  <2>4. ReplacesNothing(r) => Base(r) = {}
    BY DEF ReplacesNothing, Base
  <2>5. KeepsToTrackedForms(r) => BindsDoubles(r) \subseteq Bindings(FunctionOf(r).body)
    BY TrackedArePairs
  <2>6. /\ ReplacesNothing(r)' = ReplacesNothing(r)
        /\ KeepsToTrackedForms(r)' = KeepsToTrackedForms(r)
        /\ BindsDoubles(r)' = BindsDoubles(r)
    BY SameVerdict, SameExecution DEF StartTest
  <2> QED BY <2>1, <2>2, <2>3, <2>4, <2>5, <2>6 DEF Bindings
<1>4. pc' = "bind" /\ sites' = {}
  BY DEF StartTest
<1>5. NamesInv'
  BY <1>1, <1>3, <1>4 DEF NamesInv
<1>6. SitesInv'
  BY <1>1, <1>3, <1>4 DEF SitesInv
<1> QED BY <1>1, <1>2, <1>5, <1>6 DEF VerificationInv

\* A binding is looked at: if it binds a double, its name is known from now on.
LEMMA BindingStep ==
  ASSUME VerificationInv, BindDouble \/ PassBinding
  PROVE  VerificationInv'
<1>1. /\ pc = "bind" /\ pc' = "bind" /\ sites' = sites
      /\ UNCHANGED <<source, child, member, shadows, parsed>>
  BY DEF BindDouble, PassBinding, NextBinding
<1>2. TypeInv' /\ ShadowsInv' /\ UNCHANGED <<Mark, Here>>
  BY <1>1, AtOneTest DEF VerificationInv, TypeInv
<1>3. RecordsInv'
  BY <1>1, RecordsStay DEF VerificationInv
<1>4. PICK i \in todo :
        /\ \A j \in todo \ {i} : Earlier(Here.body, i, j)
        /\ todo' = todo \ {i}
        /\ \/ binds_a_double(Here.body[i].value) /\ names' = names \cup {<<Here.body[i].left>>}
           \/ ~binds_a_double(Here.body[i].value) /\ names' = names
  BY DEF BindDouble, PassBinding, NextBinding
<1>5. ASSUME NEW r, r = Mark
      PROVE  /\ (Base(r) \subseteq names)'
             /\ (ReplacesNothing(r) => names = {})'
             /\ (KeepsToTrackedForms(r) =>
                   \A d \in BindsDoubles(r) :
                     d \in todo \/ <<FunctionOf(r).body[d].left>> \in names)'
             /\ (todo \subseteq Bindings(FunctionOf(r).body))'
  <2>1. FunctionOf(r) = Here /\ FunctionOf(r)' = FunctionOf(r)
    BY <1>1, <1>5, MarkIsHere, SameFile
  <2>2. /\ ReplacesNothing(r)' = ReplacesNothing(r)
        /\ KeepsToTrackedForms(r)' = KeepsToTrackedForms(r)
        /\ BindsDoubles(r)' = BindsDoubles(r)
        /\ Base(r)' = Base(r)
    BY <1>1, SameVerdict, SameExecution
  <2>3. /\ Base(r) \subseteq names
        /\ ReplacesNothing(r) => names = {}
        /\ KeepsToTrackedForms(r) =>
             \A d \in BindsDoubles(r) :
               d \in todo \/ <<FunctionOf(r).body[d].left>> \in names
        /\ todo \subseteq Bindings(FunctionOf(r).body)
    BY <1>1, <1>5 DEF VerificationInv, NamesInv, SitesInv
  <2>4. (Base(r) \subseteq names)'
    BY <1>4, <2>2, <2>3
  <2>5. (ReplacesNothing(r) => names = {})'
    <3> SUFFICES ASSUME ReplacesNothing(r) PROVE names' = {}
      BY <2>2
    <3>1. names = {}
      BY <2>3
    <3>2. i \in DOMAIN Here.body
      BY <2>1, <2>3 DEF Bindings
    <3>3. IsCall(Here.body[i].value) => Last(Here.body[i].value.chain) \notin MockConstructors
      BY <2>1, <3>2 DEF ReplacesNothing, ValuesOf
    <3>4. ~binds_a_double(Here.body[i].value)
      BY <3>1, <3>3 DEF binds_a_double, HeadIsShadowed, IsShadowed
    <3> QED BY <1>4, <3>1, <3>4
  <2>6. ASSUME KeepsToTrackedForms(r), NEW d \in BindsDoubles(r)
        PROVE  d \in todo' \/ <<FunctionOf(r).body[d].left>> \in names'
    <3>1. CASE d = i
      <4>1. binds_a_double(FunctionOf(r).body[i].value)
        BY <1>1, <1>4, <1>5, <2>1, <2>6, <3>1, DoublesAreSeen DEF VerificationInv
      <4> QED BY <1>4, <2>1, <3>1, <4>1
    <3>2. CASE d # i
      BY <1>4, <2>3, <2>6, <3>2
    <3> QED BY <3>1, <3>2
  <2>7. (todo \subseteq Bindings(FunctionOf(r).body))'
    BY <1>4, <2>1, <2>3 DEF Bindings
  <2> QED BY <2>1, <2>2, <2>4, <2>5, <2>6, <2>7
<1>6. NamesInv'
  BY <1>1, <1>2, <1>5 DEF NamesInv
<1>7. SitesInv'
  <2>1. sites = {}
    BY <1>1 DEF VerificationInv, SitesInv
  <2> QED BY <1>1, <1>2, <1>5, <2>1 DEF SitesInv
<1> QED BY <1>2, <1>3, <1>6, <1>7 DEF VerificationInv

\* With all pairs looked at, what is known is final.
LEMMA AllBoundStep ==
  ASSUME VerificationInv, AllBound
  PROVE  VerificationInv'
<1>1. /\ pc = "bind" /\ pc' = "judge" /\ todo = {}
      /\ UNCHANGED <<source, child, member, shadows, names, sites, parsed>>
      /\ todo' = Calls(Here.body)
  BY DEF AllBound
<1>2. TypeInv' /\ ShadowsInv' /\ UNCHANGED <<Mark, Here>>
  BY <1>1, AtOneTest DEF VerificationInv, TypeInv
<1>3. RecordsInv'
  BY <1>1, RecordsStay DEF VerificationInv
<1>4. ASSUME NEW r, r = Mark
      PROVE  /\ (Base(r) \subseteq names)'
             /\ (ReplacesNothing(r) => names = {})'
             /\ (KeepsToTrackedForms(r) =>
                   \A d \in BindsDoubles(r) : <<FunctionOf(r).body[d].left>> \in names)'
             /\ (todo = Calls(FunctionOf(r).body))'
  <2>1. FunctionOf(r) = Here /\ FunctionOf(r)' = FunctionOf(r)
    BY <1>1, <1>4, MarkIsHere, SameFile
  <2>2. /\ ReplacesNothing(r)' = ReplacesNothing(r)
        /\ KeepsToTrackedForms(r)' = KeepsToTrackedForms(r)
        /\ BindsDoubles(r)' = BindsDoubles(r)
        /\ Base(r)' = Base(r)
    BY <1>1, SameVerdict, SameExecution
  <2>3. /\ Base(r) \subseteq names
        /\ ReplacesNothing(r) => names = {}
        /\ KeepsToTrackedForms(r) =>
             \A d \in BindsDoubles(r) : <<FunctionOf(r).body[d].left>> \in names
    BY <1>1, <1>4 DEF VerificationInv, NamesInv
  <2>4. (todo = Calls(FunctionOf(r).body))'
    BY <1>1, <2>1 DEF Calls
  <2> QED BY <1>1, <2>1, <2>2, <2>3, <2>4
<1>5. NamesInv'
  BY <1>1, <1>2, <1>4 DEF NamesInv
<1>6. SitesInv'
  <2>1. sites' = {}
    BY <1>1 DEF VerificationInv, SitesInv
  <2> QED BY <1>1, <1>2, <1>4, <2>1 DEF SitesInv
<1> QED BY <1>2, <1>3, <1>5, <1>6 DEF VerificationInv

\* A call is judged, by names that are final.
LEMMA CallStep ==
  ASSUME VerificationInv, CountSite \/ PassCall
  PROVE  VerificationInv'
<1>1. /\ pc = "judge" /\ pc' = "judge"
      /\ UNCHANGED <<source, child, member, shadows, names, parsed>>
  BY DEF CountSite, PassCall, NextCall
<1>2. TypeInv' /\ ShadowsInv' /\ UNCHANGED <<Mark, Here>>
  BY <1>1, AtOneTest DEF VerificationInv, TypeInv
<1>3. RecordsInv'
  BY <1>1, RecordsStay DEF VerificationInv
<1>4. PICK i \in todo :
        /\ todo' = todo \ {i}
        /\ \/ Verifies(Here.body[i]) /\ sites' = sites \cup {i}
           \/ ~Verifies(Here.body[i]) /\ sites' = sites
  BY DEF CountSite, PassCall, NextCall
<1>5. \A s : Verifies(s)' = Verifies(s)
  BY <1>1 DEF Verifies, verification_is_unreliable, Swallows, HeadIsShadowed, IsShadowed, Canon
<1>6. ASSUME NEW r, r = Mark
      PROVE  /\ (Base(r) \subseteq names)'
             /\ (ReplacesNothing(r) => names = {})'
             /\ (KeepsToTrackedForms(r) =>
                   \A d \in BindsDoubles(r) : <<FunctionOf(r).body[d].left>> \in names)'
             /\ (todo \subseteq Calls(FunctionOf(r).body))'
             /\ (sites = {k \in Calls(FunctionOf(r).body) \ todo :
                            Verifies(FunctionOf(r).body[k])})'
  <2>1. FunctionOf(r) = Here /\ FunctionOf(r)' = FunctionOf(r)
    BY <1>1, <1>6, MarkIsHere, SameFile
  <2>2. /\ ReplacesNothing(r)' = ReplacesNothing(r)
        /\ KeepsToTrackedForms(r)' = KeepsToTrackedForms(r)
        /\ BindsDoubles(r)' = BindsDoubles(r)
        /\ Base(r)' = Base(r)
    BY <1>1, SameVerdict, SameExecution
  <2>3. /\ Base(r) \subseteq names
        /\ ReplacesNothing(r) => names = {}
        /\ KeepsToTrackedForms(r) =>
             \A d \in BindsDoubles(r) : <<FunctionOf(r).body[d].left>> \in names
        /\ todo \subseteq Calls(FunctionOf(r).body)
        /\ sites = {k \in Calls(FunctionOf(r).body) \ todo : Verifies(FunctionOf(r).body[k])}
    BY <1>1, <1>6 DEF VerificationInv, NamesInv, SitesInv
  <2>4. (todo \subseteq Calls(FunctionOf(r).body))'
    BY <1>4, <2>1, <2>3 DEF Calls
  <2>5. sites' = {k \in Calls(FunctionOf(r).body) \ todo' : Verifies(FunctionOf(r).body[k])}
    BY <1>4, <2>1, <2>3
  <2>6. (sites = {k \in Calls(FunctionOf(r).body) \ todo : Verifies(FunctionOf(r).body[k])})'
    <3> DEFINE body == FunctionOf(r).body
    <3>1. body' = body /\ Calls(body)' = Calls(body)
      BY <2>1 DEF Calls
    <3>2. \A k : Verifies(body[k])' = Verifies(body[k])
      BY <1>1, <3>1 DEF Verifies, verification_is_unreliable, Swallows, HeadIsShadowed,
                        IsShadowed, Canon
    <3> QED BY <2>5, <3>1, <3>2
  <2> QED BY <1>1, <2>1, <2>2, <2>3, <2>4, <2>6
<1>7. NamesInv'
  BY <1>1, <1>2, <1>6 DEF NamesInv
<1>8. SitesInv'
  BY <1>1, <1>2, <1>6 DEF SitesInv
<1> QED BY <1>2, <1>3, <1>7, <1>8 DEF VerificationInv

\* Two records of one test are judged alike.
LEMMA SameTest ==
  ASSUME NEW r, NEW m, FunctionOf(r) = FunctionOf(m), ClassOf(r) = ClassOf(m)
  PROVE  /\ ReplacesNothing(r) <=> ReplacesNothing(m)
         /\ KeepsToTrackedForms(r) <=> KeepsToTrackedForms(m)
         /\ ChecksLocals(r) <=> ChecksLocals(m)
         /\ \A i : FailsTheTest(r, i) <=> FailsTheTest(m, i)
         /\ \A i : RunsOnADouble(r, i) <=> RunsOnADouble(m, i)
<1>1. ReplacedBefore(r) = ReplacedBefore(m)
  BY DEF ReplacedBefore
<1>2. ReplacedAfter(r) = ReplacedAfter(m)
  BY <1>1 DEF ReplacedAfter
<1>3. BindsDoubles(r) = BindsDoubles(m)
  BY <1>2 DEF BindsDoubles
<1>4. ReplacesNothing(r) <=> ReplacesNothing(m)
  BY <1>1 DEF ReplacesNothing
<1>5. KeepsToTrackedForms(r) <=> KeepsToTrackedForms(m)
  BY <1>3 DEF KeepsToTrackedForms
<1>6. ChecksLocals(r) <=> ChecksLocals(m)
  BY <1>2 DEF ChecksLocals
<1>7. \A i : FailsTheTest(r, i) <=> FailsTheTest(m, i)
  BY DEF FailsTheTest
<1>8. \A i : RunsOnADouble(r, i) <=> RunsOnADouble(m, i)
  BY <1>2 DEF RunsOnADouble
<1> QED BY <1>4, <1>5, <1>6, <1>7, <1>8

\* A record says of its test what was found.
LEMMA PushRecordStep ==
  ASSUME VerificationInv, PushRecord
  PROVE  VerificationInv'
<1> DEFINE r == Record(Here)
<1>1. /\ pc = "judge" /\ pc' = "walk" /\ todo = {} /\ Advance
      /\ UNCHANGED <<source, shadows>>
      /\ parsed'.test_functions = Append(parsed.test_functions, r)
      /\ DOMAIN parsed' = DOMAIN parsed
  BY DEF PushRecord, VerificationInv, RecordsInv
<1>2. TypeInv' /\ ShadowsInv'
  BY <1>1, TheWalkGoesOn DEF VerificationInv
<1>3. NamesInv' /\ SitesInv'
  BY <1>1, OnTheWalk
<1>4. r.of = <<child, member>> /\ r.verification_sites = sites
  BY DEF Record
<1>5. PICK m : m = Mark
  OBVIOUS
<1>6. FunctionOf(r) = FunctionOf(m) /\ ClassOf(r) = ClassOf(m)
  BY <1>4, <1>5, MarkIsHere DEF Mark
<1>7. Exact(r) /\ Uncredited(r)
  <2> DEFINE body == FunctionOf(m).body
  <2>1. body \in Seq(Statement)
    BY <1>1, <1>5, BodyType DEF VerificationInv
  <2>2. sites = {i \in Calls(body) : Verifies(body[i])}
    BY <1>1, <1>5 DEF VerificationInv, SitesInv
  <2>3. ASSUME ReplacesNothing(m)
        PROVE  sites = {i \in Calls(body) : ChecksAChild(body[i].value) /\ FailsTheTest(m, i)}
    <3>1. names = {}
      BY <1>1, <1>5, <2>3 DEF VerificationInv, NamesInv
    <3>2. ASSUME NEW i \in Calls(body)
          PROVE  Verifies(body[i]) <=> ChecksAChild(body[i].value) /\ FailsTheTest(m, i)
      <4>1. body[i] \in Statement
        <5>1. i \in DOMAIN body
          BY DEF Calls
        <5> QED BY <2>1, <5>1
      <4> QED BY <3>1, <4>1, NothingReplacedIsExact
    <3> HIDE DEF body
    <3> QED BY <2>2, <3>2
  <2>4. ASSUME KeepsToTrackedForms(m), ChecksLocals(m), NEW i \in sites
        PROVE  ~RunsOnADouble(m, i)
    <3>1. i \in Calls(body) /\ Verifies(body[i])
      BY <2>2
    <3> QED BY <1>1, <1>5, <2>4, <3>1, NoDoubleVerifies DEF VerificationInv
  <2>5. Exact(r)
    BY <1>4, <1>6, <2>3, SameTest DEF Exact
  <2>6. Uncredited(r)
    BY <1>4, <1>6, <2>4, SameTest DEF Uncredited
  <2> QED BY <2>5, <2>6
<1>8. RecordsInv'
  <2>1. PICK c : c = r
    OBVIOUS
  <2>2. Exact(c)' /\ Uncredited(c)'
    BY <1>1, <1>7, <2>1, SameVerdict
  <2>3. ASSUME NEW x \in Records PROVE Exact(x)' /\ Uncredited(x)'
    BY <1>1, SameVerdict DEF VerificationInv, RecordsInv
  <2>4. parsed'.test_functions = Append(parsed.test_functions, c)
    BY <1>1, <2>1
  <2>5. /\ Append(parsed.test_functions, c) \in Seq(Range(Append(parsed.test_functions, c)))
        /\ Range(Append(parsed.test_functions, c)) = Records \cup {c}
    BY OneMoreRecord DEF VerificationInv, RecordsInv, Records
  <2>6. Records' = Records \cup {c}
    BY <2>4, <2>5 DEF Records, Range
  <2>7. (parsed.test_functions \in Seq(Range(parsed.test_functions)))'
    BY <2>4, <2>5 DEF Range
  <2>8. ("test_functions" \in DOMAIN parsed)'
    BY <1>1 DEF VerificationInv, RecordsInv
  <2> QED BY <2>2, <2>3, <2>6, <2>7, <2>8 DEF RecordsInv
<1> QED BY <1>2, <1>3, <1>8 DEF VerificationInv

\* Every step keeps the invariant.
LEMMA InvStep ==
  ASSUME VerificationInv, [Next]_vars
  PROVE  VerificationInv'
<1>1. CASE UNCHANGED vars
  <2>1. /\ UNCHANGED <<source, pc, child, member, shadows, names, todo, sites, parsed>>
    BY <1>1 DEF vars
  <2>2. TypeInv' /\ ShadowsInv' /\ UNCHANGED <<Mark, Here>>
    BY <2>1, AtOneTest DEF VerificationInv, TypeInv
  <2>3. RecordsInv'
    BY <2>1, RecordsStay DEF VerificationInv
  <2>4. NamesInv'
    <3> SUFFICES ASSUME pc \in {"bind", "judge"}, NEW r, r = Mark
                 PROVE  /\ Base(r)' \subseteq names
                        /\ ReplacesNothing(r)' => names = {}
                        /\ KeepsToTrackedForms(r)' =>
                             \A d \in BindsDoubles(r)' :
                               \/ pc = "bind" /\ d \in todo
                               \/ <<FunctionOf(r)'.body[d].left>> \in names
      BY <2>1, <2>2 DEF NamesInv
    <3>1. /\ Base(r) \subseteq names
          /\ ReplacesNothing(r) => names = {}
          /\ KeepsToTrackedForms(r) =>
               \A d \in BindsDoubles(r) :
                 \/ pc = "bind" /\ d \in todo
                 \/ <<FunctionOf(r).body[d].left>> \in names
      BY DEF VerificationInv, NamesInv
    <3>2. /\ ReplacesNothing(r)' = ReplacesNothing(r)
          /\ KeepsToTrackedForms(r)' = KeepsToTrackedForms(r)
          /\ BindsDoubles(r)' = BindsDoubles(r)
          /\ Base(r)' = Base(r)
          /\ FunctionOf(r)' = FunctionOf(r)
      BY <2>1, SameVerdict, SameExecution, SameFile
    <3> QED BY <3>1, <3>2
  <2>5. SitesInv'
    <3>1. ASSUME NEW r, r = Mark
          PROVE  /\ Bindings(FunctionOf(r).body)' = Bindings(FunctionOf(r).body)
                 /\ Calls(FunctionOf(r).body)' = Calls(FunctionOf(r).body)
                 /\ \A i : Verifies(FunctionOf(r).body[i])' = Verifies(FunctionOf(r).body[i])
      <4>1. FunctionOf(r)' = FunctionOf(r)
        BY <2>1, SameFile
      <4>2. UNCHANGED <<source, names>>
        BY <2>1
      <4> QED BY <4>1, <4>2 DEF Bindings, Calls, Verifies, verification_is_unreliable, Swallows,
                 HeadIsShadowed, IsShadowed, Canon
    <3>2. ASSUME NEW r, r = Mark, pc \in {"bind", "judge"}
          PROVE  /\ pc = "bind" => todo \subseteq Bindings(FunctionOf(r).body) /\ sites = {}
                 /\ pc = "judge" =>
                      /\ todo \subseteq Calls(FunctionOf(r).body)
                      /\ sites = {i \in Calls(FunctionOf(r).body) \ todo :
                                    Verifies(FunctionOf(r).body[i])}
      BY <3>2 DEF VerificationInv, SitesInv
    <3> QED BY <2>1, <2>2, <3>1, <3>2 DEF SitesInv
  <2> QED BY <2>2, <2>3, <2>4, <2>5 DEF VerificationInv
<1>2. CASE Skip
  <2>1. TypeInv' /\ ShadowsInv'
    BY <1>2, TheWalkGoesOn DEF VerificationInv, Skip
  <2>2. RecordsInv'
    BY <1>2, RecordsStay DEF VerificationInv, Skip
  <2>3. NamesInv' /\ SitesInv'
    BY <1>2, OnTheWalk DEF Skip
  <2> QED BY <2>1, <2>2, <2>3 DEF VerificationInv
<1>3. CASE EnterClass
  <2>1. member = 0 /\ child =< Len(Children)
    BY <1>3, WhatComesNext DEF VerificationInv, EnterClass
  <2>2. Here = Children[child]
    BY <2>1 DEF Here, Function_at
  <2>3. TypeInv'
    BY <1>3, <2>1, <2>2 DEF VerificationInv, TypeInv, EnterClass, IsSource, Children
  <2>4. ShadowsInv'
    <3>1. ClassOf(Mark)' = {Here}
      BY <1>3, <2>2 DEF EnterClass, ClassOf, Mark, Children
    <3>2. \A c : class_installed_doubles(c)' = class_installed_doubles(c)
      BY <1>3, SameFile DEF EnterClass
    <3> QED BY <1>3, <3>1, <3>2 DEF EnterClass, ShadowsInv
  <2>5. RecordsInv'
    BY <1>3, RecordsStay DEF VerificationInv, EnterClass
  <2>6. NamesInv' /\ SitesInv'
    BY <1>3, OnTheWalk DEF EnterClass
  <2> QED BY <2>3, <2>4, <2>5, <2>6 DEF VerificationInv
<1>4. CASE LeaveClass
  <2>1. TypeInv'
    BY <1>4 DEF VerificationInv, TypeInv, LeaveClass, IsSource
  <2>2. ShadowsInv'
    BY <1>4 DEF LeaveClass, ShadowsInv, ClassOf, Mark
  <2>3. RecordsInv'
    BY <1>4, RecordsStay DEF VerificationInv, LeaveClass
  <2>4. NamesInv' /\ SitesInv'
    BY <1>4, OnTheWalk DEF LeaveClass
  <2> QED BY <2>1, <2>2, <2>3, <2>4 DEF VerificationInv
<1>5. CASE Parsed
  <2>1. TypeInv' /\ ShadowsInv'
    BY <1>5, AtOneTest DEF VerificationInv, Parsed
  <2>2. RecordsInv'
    <3>1. /\ UNCHANGED source /\ parsed'.test_functions = parsed.test_functions
          /\ DOMAIN parsed' = DOMAIN parsed
      BY <1>5 DEF Parsed, VerificationInv, RecordsInv
    <3> QED BY <3>1, RecordsStay DEF VerificationInv
  <2>3. NamesInv' /\ SitesInv'
    BY <1>5, OnTheWalk DEF Parsed
  <2> QED BY <2>1, <2>2, <2>3 DEF VerificationInv
<1> QED BY <1>1, <1>2, <1>3, <1>4, <1>5, StartTestStep, BindingStep, AllBoundStep, CallStep,
         PushRecordStep DEF Next, Done

-------------------------------------------------------------------------------
(* The theorems *)

\* No call that the records of a file credit as verification runs on a test
\* double, where doubles are bound by calls and in an order the passes follow:
\* for every file, with classes, hooks, decorators and bodies of any length.
THEOREM NoTrackedDoubleIsCreditedCorrect == Spec => []NoTrackedDoubleIsCredited
<1>1. VerificationInv => NoTrackedDoubleIsCredited
  BY DEF VerificationInv, RecordsInv, Uncredited, NoTrackedDoubleIsCredited
<1> QED BY InvInit, InvStep, <1>1, PTL DEF Spec

\* A test that replaces nothing is credited with exactly the calls that check a
\* child process and whose failure reaches pytest, whatever the tests and the
\* classes around it replace.
THEOREM ExactWithoutDoublesCorrect == Spec => []ExactWithoutDoubles
<1>1. VerificationInv => ExactWithoutDoubles
  BY DEF VerificationInv, RecordsInv, Exact, ExactWithoutDoubles
<1> QED BY InvInit, InvStep, <1>1, PTL DEF Spec
===============================================================================
