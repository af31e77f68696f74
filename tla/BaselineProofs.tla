---------------------------- MODULE BaselineProofs ----------------------------
(***************************************************************************)
(* Theorems about Baseline, for any texts, any files and any depth of      *)
(* directories.                                                            *)
(***************************************************************************)
EXTENDS Baseline, FiniteSetTheorems, TLAPS

-------------------------------------------------------------------------------
(* Flattening, one sequence at a time *)

\* Whoever counts on from 0 reaches every number.
LEMMA Counting ==
  ASSUME NEW S \in SUBSET Nat, 0 \in S, \A m \in S : m + 1 \in S
  PROVE  Nat \subseteq S
<1> SUFFICES ASSUME NEW k \in Nat, k \notin S PROVE FALSE
  OBVIOUS
<1> DEFINE T == {m \in S : m =< k}
           f == [m \in T |-> m + 1]
<1>1. T \in SUBSET Nat /\ 0 \in T
  <2>1. 0 =< k
    OBVIOUS
  <2> QED BY <2>1
<1>2. \A m \in T : m + 1 \in T
  <2> SUFFICES ASSUME NEW m \in T PROVE m + 1 =< k
    OBVIOUS
  <2>1. m \in Nat /\ m =< k /\ m # k
    OBVIOUS
  <2> QED BY <2>1
<1>3. \A m \in T : m =< k
  OBVIOUS
<1> HIDE DEF T
<1>4. IsFiniteSet(T)
  BY <1>1, <1>3, FS_BoundedSetOfNaturals
<1>5. f \in Injection(T, T)
  <2>1. \A a \in T, b \in T : f[a] = f[b] => a = b
    BY <1>1
  <2> QED BY <1>2, <2>1 DEF Injection, IsInjective
<1>6. f \in Surjection(T, T)
  BY <1>4, <1>5, FS_Injection
<1>7. PICK m \in T : f[m] = 0
  BY <1>1, <1>6 DEF Surjection
<1> QED BY <1>1, <1>7

\* f joins the sequences of s from the left, the first n of them.
Joins(f, s, n) ==
  f = [i \in 1..n |-> IF i = 1 THEN s[1] ELSE f[i - 1] \o s[i]]

LEMMA JoinExists ==
  ASSUME NEW T, NEW s \in Seq(Seq(T))
  PROVE  \A n \in 1..Len(s) : \E f : Joins(f, s, n) /\ f \in [1..n -> Seq(T)]
<1> DEFINE S == {n \in Nat : n + 1 =< Len(s) =>
                   \E f : Joins(f, s, n + 1) /\ f \in [1..(n + 1) -> Seq(T)]}
<1>1. 0 \in S
  <2> SUFFICES ASSUME 1 =< Len(s)
               PROVE  \E f : Joins(f, s, 1) /\ f \in [1..1 -> Seq(T)]
    OBVIOUS
  <2> DEFINE f == [i \in 1..1 |-> s[1]]
  <2>1. s[1] \in Seq(T)
    OBVIOUS
  <2>2. Joins(f, s, 1)
    BY DEF Joins
  <2> QED BY <2>1, <2>2
<1>2. ASSUME NEW n \in S PROVE n + 1 \in S
  <2> SUFFICES ASSUME n + 2 =< Len(s)
               PROVE  \E f : Joins(f, s, n + 2) /\ f \in [1..(n + 2) -> Seq(T)]
    OBVIOUS
  <2>1. n + 1 =< Len(s) /\ n + 2 \in 1..Len(s)
    OBVIOUS
  <2>2. PICK f : Joins(f, s, n + 1) /\ f \in [1..(n + 1) -> Seq(T)]
    BY <2>1
  <2> DEFINE g == [i \in 1..(n + 2) |-> IF i = n + 2 THEN f[n + 1] \o s[n + 2] ELSE f[i]]
  <2>3. s[n + 2] \in Seq(T) /\ f[n + 1] \in Seq(T)
    BY <2>1, <2>2
  <2>4. g \in [1..(n + 2) -> Seq(T)]
    BY <2>2, <2>3
  <2>5. ASSUME NEW i \in 1..(n + 2)
        PROVE  g[i] = IF i = 1 THEN s[1] ELSE g[i - 1] \o s[i]
    <3>1. CASE i = n + 2
      <4>1. i # 1 /\ i - 1 = n + 1 /\ n + 1 \in 1..(n + 2) /\ n + 1 # n + 2
        BY <3>1
      <4>2. g[i - 1] = f[n + 1]
        BY <4>1
      <4> QED BY <3>1, <4>1, <4>2
    <3>2. CASE i # n + 2
      <4>1. i \in 1..(n + 1)
        BY <3>2
      <4>2. f[i] = IF i = 1 THEN s[1] ELSE f[i - 1] \o s[i]
        BY <2>2, <4>1 DEF Joins
      <4>3. i # 1 => i - 1 \in 1..(n + 2) /\ i - 1 # n + 2
        OBVIOUS
      <4> QED BY <3>2, <4>2, <4>3
    <3> QED BY <3>1, <3>2
  <2>6. Joins(g, s, n + 2)
    <3>1. g = [i \in 1..(n + 2) |-> g[i]]
      OBVIOUS
    <3> HIDE DEF g
    <3> QED BY <2>5, <3>1 DEF Joins
  <2> HIDE DEF g
  <2> QED BY <2>4, <2>6
<1>3. Nat \subseteq S
  <2>1. S \in SUBSET Nat
    OBVIOUS
  <2> HIDE DEF S
  <2> QED BY <1>1, <1>2, <2>1, Counting
<1> SUFFICES ASSUME NEW n \in 1..Len(s)
             PROVE  \E f : Joins(f, s, n) /\ f \in [1..n -> Seq(T)]
  OBVIOUS
<1>4. n - 1 \in Nat /\ (n - 1) + 1 = n /\ n =< Len(s)
  OBVIOUS
<1>5. n - 1 \in S
  BY <1>3, <1>4
<1> QED BY <1>4, <1>5

AgreeUpTo(f, g, n) == \A i \in 1..n : f[i] = g[i]

\* Two such functions agree as far as what they join does.
LEMMA JoinUnique ==
  ASSUME NEW s, NEW t, NEW m \in Nat, NEW n \in Nat, m =< n,
         AgreeUpTo(s, t, m),
         NEW f, Joins(f, s, m), NEW g, Joins(g, t, n)
  PROVE  AgreeUpTo(f, g, m)
<1> DEFINE S == {i \in Nat : i + 1 =< m => f[i + 1] = g[i + 1]}
<1>0. \A i \in 1..m : /\ f[i] = IF i = 1 THEN s[1] ELSE f[i - 1] \o s[i]
                      /\ g[i] = IF i = 1 THEN t[1] ELSE g[i - 1] \o t[i]
  <2>1. \A i \in 1..m : i \in 1..n
    OBVIOUS
  <2> QED BY <2>1 DEF Joins
<1>1. 0 \in S
  <2>1. ASSUME 1 =< m PROVE 1 \in 1..m
    BY <2>1
  <2> QED BY <1>0, <2>1 DEF AgreeUpTo
<1>2. ASSUME NEW i \in S PROVE i + 1 \in S
  <2> SUFFICES ASSUME i + 2 =< m PROVE f[i + 2] = g[i + 2]
    OBVIOUS
  <2>1. i + 1 =< m /\ i + 2 \in 1..m /\ i + 2 # 1 /\ (i + 2) - 1 = i + 1
    OBVIOUS
  <2>2. f[i + 1] = g[i + 1]
    BY <2>1
  <2> QED BY <1>0, <2>1, <2>2 DEF AgreeUpTo
<1>3. Nat \subseteq S
  <2>1. S \in SUBSET Nat
    OBVIOUS
  <2> HIDE DEF S
  <2> QED BY <1>1, <1>2, <2>1, Counting
<1> SUFFICES ASSUME NEW i \in 1..m PROVE f[i] = g[i]
  BY DEF AgreeUpTo
<1>4. i - 1 \in S /\ (i - 1) + 1 = i /\ i =< m
  BY <1>3
<1> QED BY <1>4

\* FlattenSeq is the last value of any such function.
LEMMA FlattenIsJoin ==
  ASSUME NEW T, NEW s \in Seq(Seq(T)), Len(s) # 0, NEW f, Joins(f, s, Len(s))
  PROVE  FlattenSeq(s) = f[Len(s)]
<1> DEFINE n == Len(s)
           g == CHOOSE h : Joins(h, s, n)
<1>1. FlattenSeq(s) = g[n]
  BY DEF FlattenSeq, Joins
<1>2. n \in Nat /\ n \in 1..n
  OBVIOUS
<1>3. Joins(g, s, n)
  OBVIOUS
<1> HIDE DEF n, g
<1>4. AgreeUpTo(s, s, n)
  BY DEF AgreeUpTo
<1>5. AgreeUpTo(g, f, n)
  <2>1. Joins(f, s, n) /\ n =< n
    BY <1>2 DEF n
  <2> QED BY <1>2, <1>3, <1>4, <2>1, JoinUnique
<1> QED BY <1>1, <1>2, <1>5 DEF n, AgreeUpTo

\* FlattenSeq, one sequence at a time.
LEMMA FlattenStep ==
  ASSUME NEW T, NEW s \in Seq(Seq(T)), NEW n \in 1..Len(s)
  PROVE  /\ FlattenSeq(SubSeq(s, 1, n - 1)) \in Seq(T)
         /\ FlattenSeq(SubSeq(s, 1, n)) = FlattenSeq(SubSeq(s, 1, n - 1)) \o s[n]
<1> DEFINE t == SubSeq(s, 1, n)
           r == SubSeq(s, 1, n - 1)
<1>1. /\ t \in Seq(Seq(T)) /\ Len(t) = n /\ \A i \in 1..n : t[i] = s[i]
      /\ r \in Seq(Seq(T)) /\ Len(r) = n - 1 /\ \A i \in 1..(n - 1) : r[i] = s[i]
      /\ s[n] \in Seq(T)
  OBVIOUS
<1> HIDE DEF t, r
<1>2. PICK f : Joins(f, t, n) /\ f \in [1..n -> Seq(T)]
  <2>1. n \in 1..Len(t)
    BY <1>1
  <2> QED BY <1>1, <2>1, JoinExists
<1>3. FlattenSeq(t) = f[n]
  <2>1. Len(t) # 0 /\ Joins(f, t, Len(t))
    BY <1>1, <1>2
  <2>2. FlattenSeq(t) = f[Len(t)]
    BY <1>1, <2>1, FlattenIsJoin
  <2> QED BY <1>1, <2>2
<1>4. CASE n = 1
  <2>1. f[n] = s[n]
    <3>1. n \in 1..n
      OBVIOUS
    <3> QED BY <1>1, <1>2, <1>4, <3>1 DEF Joins
  <2>2. FlattenSeq(r) = <<>>
    <3>1. Len(r) = 0 /\ r = <<>>
      BY <1>1, <1>4
    <3> QED BY <3>1 DEF FlattenSeq
  <2>3. <<>> \o s[n] = s[n] /\ <<>> \in Seq(T)
    BY <1>1
  <2> QED BY <1>3, <2>1, <2>2, <2>3 DEF t, r
<1>5. CASE n # 1
  <2>1. n - 1 \in 1..Len(r) /\ n \in 1..n /\ n - 1 \in 1..n
    BY <1>1, <1>5
  <2>2. PICK g : Joins(g, r, n - 1) /\ g \in [1..(n - 1) -> Seq(T)]
    BY <1>1, <2>1, JoinExists
  <2>3. FlattenSeq(r) = g[n - 1]
    <3>1. Len(r) # 0 /\ Joins(g, r, Len(r))
      BY <1>1, <2>1, <2>2
    <3>2. FlattenSeq(r) = g[Len(r)]
      BY <1>1, <3>1, FlattenIsJoin
    <3> QED BY <1>1, <3>2
  <2>4. g[n - 1] = f[n - 1]
    <3> DEFINE k == n - 1
    <3>1. AgreeUpTo(r, t, k)
      <4>1. \A i \in 1..k : i \in 1..n
        OBVIOUS
      <4> QED BY <1>1, <4>1 DEF AgreeUpTo
    <3>2. k \in Nat /\ n \in Nat /\ k =< n /\ k \in 1..k
      BY <1>5
    <3>3. Joins(f, t, n) /\ Joins(g, r, k)
      BY <1>2, <2>2
    <3> HIDE DEF k
    <3>4. AgreeUpTo(g, f, k)
      BY <3>1, <3>2, <3>3, JoinUnique
    <3>5. g[k] = f[k]
      BY <3>2, <3>4 DEF AgreeUpTo
    <3> QED BY <3>5 DEF k
  <2>5. f[n] = f[n - 1] \o s[n]
    BY <1>1, <1>2, <1>5, <2>1 DEF Joins
  <2>6. f[n - 1] \in Seq(T)
    BY <1>2, <2>1
  <2> QED BY <1>3, <2>3, <2>4, <2>5, <2>6 DEF t, r
<1> QED BY <1>4, <1>5
-------------------------------------------------------------------------------
(* Files and blocks *)

LEMMA DocumentInFile ==
  ASSUME NEW f \in File, f.kind = "document"
  PROVE  f.doc \in Documents
BY DEF File

\* The blocks of a document that was loaded.
LEMMA BlocksOfDocument ==
  ASSUME TypeOK, disk[place].kind = "document"
  PROVE  Blocks \in Seq(RawEntry)
<1>1. disk[place] \in File
  BY DEF TypeOK
<1>2. disk[place].doc \in Documents
  BY <1>1, DocumentInFile
<1> QED
  BY <1>2, DocumentsAssumption DEF Blocks

\* The names of a block that states its signals in one form.
LEMMA NamesOfBlock ==
  ASSUME NEW b \in RawEntry, OneForm(b)
  PROVE  signal_names(b) \in Seq(Text)
<1>1. b.signal \in Text \cup {Absent} /\ b.signals \in Seq(Text) \cup {Absent}
  BY DEF RawEntry, Optional
<1>2. CASE b.signal # Absent
  <2>1. Trim[b.signal] \in Text
    BY <1>1, <1>2, TextAssumption
  <2> QED
    BY <1>2, <2>1 DEF signal_names
<1>3. CASE b.signal = Absent
  <2>1. b.signals \in Seq(Text)
    BY <1>1, <1>3 DEF OneForm
  <2>2. \A k \in DOMAIN b.signals : Trim[b.signals[k]] \in Text
    BY <2>1, TextAssumption
  <2>3. [k \in DOMAIN b.signals |-> Trim[b.signals[k]]] \in Seq(Text)
    BY <2>1, <2>2
  <2> QED
    BY <1>3, <2>3 DEF signal_names
<1> QED
  BY <1>2, <1>3

-------------------------------------------------------------------------------
(* The invariant *)

Reach == IF explicit THEN {Given} ELSE IF upwards THEN 1..Depth ELSE {1}

\* Nothing was found so far, or the nearest file, or none at all.
Searched ==
  /\ pc = "resolve" =>
       /\ place \in (IF upwards THEN 1..Depth ELSE {1})
       /\ \A p \in 1..(place - 1) : disk[p] = NoFile
  /\ pc = "nothing" =>
       disabled \/ (~explicit /\ \A p \in Reach : disk[p] = NoFile)
  /\ pc \in {"load", "block", "name", "baseline", "error"} =>
       /\ ~disabled
       /\ \/ /\ place \in Reach /\ disk[place] # NoFile
             /\ \A p \in Reach : disk[p] # NoFile => place =< p
          \/ pc = "error" /\ explicit /\ disk[Given] = NoFile

\* The block whose names are taken is one of the file's, and complete.
AtABlock ==
  /\ pc \in {"resolve", "load"} => block = 1
  /\ pc = "name" => block \in DOMAIN Blocks /\ ~Incomplete(Blocks[block])

IInv == TypeOK /\ AtABlock /\ Searched /\ NoRepeat

-------------------------------------------------------------------------------
(* Types *)

LEMMA InitInv == Init => IInv
<1> SUFFICES ASSUME Init PROVE IInv
  OBVIOUS
<1>1. 1 \in 1..Depth /\ 1 \in Places
  BY DepthAssumption DEF Places
<1>2. TypeOK
  BY <1>1, DisksAssumption DEF Init, TypeOK, Outcomes
<1>3. AtABlock /\ Searched /\ NoRepeat
  BY <1>1 DEF Init, AtABlock, Searched, NoRepeat
<1> QED
  BY <1>2, <1>3 DEF IInv

LEMMA EntryOfBlock ==
  ASSUME NEW b \in RawEntry, ~Incomplete(b), NEW name \in Signals
  PROVE  Entry(b, name) \in [test : Text, signal : Signals, fingerprint : Optional(Text)]
BY TextAssumption DEF Entry, Incomplete, required, RawEntry, Optional

LEMMA StepType ==
  ASSUME TypeOK, AtABlock, [Next]_vars
  PROVE  TypeOK' /\ AtABlock'
<1> USE DEF inputs
<1>1. CASE Disabled \/ ExplicitMissing \/ NotFound \/ LoadFails \/ BlockRejected
           \/ NameRejected
  BY <1>1 DEF Disabled, ExplicitMissing, NotFound, LoadFails, BlockRejected,
              NameRejected, Goto, TypeOK, AtABlock, Outcomes
<1>2. CASE Explicit
  BY <1>2, DepthAssumption DEF Explicit, TypeOK, AtABlock, Outcomes, Given, Places
<1>3. CASE Discovered
  BY <1>3 DEF Discovered, Searching, Goto, TypeOK, AtABlock, Outcomes
<1>4. CASE LookAbove
  <2>1. place' \in Places
    BY <1>4, DepthAssumption DEF LookAbove, TypeOK, Places
  <2> QED
    BY <1>4, <2>1 DEF LookAbove, Searching, TypeOK, AtABlock, Outcomes
<1>5. ASSUME UNCHANGED <<disk, place>> PROVE Blocks' = Blocks
  BY <1>5 DEF Blocks
<1>6. ASSUME disk[place].kind = "document", block \in Nat \ {0}, block =< Len(Blocks)
      PROVE  block \in DOMAIN Blocks /\ Blocks[block] \in RawEntry
  BY <1>6, BlocksOfDocument
<1>7. CASE Load
  <2>1. block = 1 /\ disk[place].kind = "document"
    BY <1>7 DEF Load, AtABlock
  <2>2. block \in 1..Len(Blocks) + 1
    BY <2>1, BlocksOfDocument
  <2>3. Blocks' = Blocks
    BY <1>5, <1>7 DEF Load, Goto
  <2> QED
    BY <1>7, <2>1, <2>2, <2>3 DEF Load, Goto, TypeOK, AtABlock, Outcomes
<1>8. CASE TakeBlock
  <2>1. /\ pc = "block" /\ block =< Len(Blocks) /\ ~Incomplete(Blocks[block])
        /\ names' = signal_names(Blocks[block]) /\ pc' = "name"
        /\ UNCHANGED <<inputs, place, block, entries, disk, disabled, explicit, upwards>>
    BY <1>8 DEF TakeBlock
  <2>2. disk[place].kind = "document" /\ block \in 1..Len(Blocks) + 1
    BY <2>1 DEF TypeOK
  <2>3. block \in DOMAIN Blocks /\ Blocks[block] \in RawEntry
    BY <1>6, <2>1, <2>2
  <2>4. names' \in Seq(Text)
    BY <2>1, <2>3, NamesOfBlock DEF Incomplete
  <2>5. Blocks' = Blocks
    BY <1>5, <2>1
  <2> QED
    BY <2>1, <2>2, <2>3, <2>4, <2>5 DEF TypeOK, AtABlock, Outcomes
<1>9. CASE TakeName
  <2>1. /\ pc = "name" /\ names # <<>> /\ Head(names) \in Signals
        /\ entries' = Append(entries, Entry(Blocks[block], Head(names)))
        /\ names' = Tail(names)
        /\ UNCHANGED <<inputs, pc, place, block, disk, disabled, explicit, upwards>>
    BY <1>9 DEF TakeName
  <2>2. disk[place].kind = "document" /\ block \in 1..Len(Blocks) + 1
        /\ block \in DOMAIN Blocks /\ ~Incomplete(Blocks[block])
    BY <2>1 DEF TypeOK, AtABlock
  <2>3. Blocks[block] \in RawEntry
    BY <2>2, BlocksOfDocument
  <2>4. entries' \in Seq([test : Text, signal : Signals, fingerprint : Optional(Text)])
    BY <2>1, <2>2, <2>3, EntryOfBlock DEF TypeOK
  <2>5. names' \in Seq(Text)
    BY <2>1 DEF TypeOK
  <2>6. Blocks' = Blocks
    BY <1>5, <2>1
  <2> QED
    BY <2>1, <2>2, <2>4, <2>5, <2>6 DEF TypeOK, AtABlock, Outcomes
<1>10. CASE NextBlock
  <2>1. /\ pc = "name" /\ block' = block + 1 /\ pc' = "block"
        /\ UNCHANGED <<inputs, place, names, entries, disk, disabled, explicit, upwards>>
    BY <1>10 DEF NextBlock
  <2>2. disk[place].kind = "document" /\ block \in DOMAIN Blocks
    BY <2>1 DEF TypeOK, AtABlock
  <2>3. block' \in 1..Len(Blocks) + 1
    BY <2>1, <2>2, BlocksOfDocument
  <2>4. Blocks' = Blocks
    BY <1>5, <2>1
  <2> QED
    BY <2>1, <2>2, <2>3, <2>4 DEF TypeOK, AtABlock, Outcomes
<1>11. CASE Parsed
  <2>1. Blocks' = Blocks
    BY <1>5, <1>11 DEF Parsed, Goto
  <2> QED
    BY <1>11, <2>1 DEF Parsed, Goto, TypeOK, AtABlock, Outcomes
<1>12. CASE UNCHANGED vars
  <2>1. Blocks' = Blocks
    BY <1>5, <1>12 DEF vars
  <2> QED
    BY <1>12, <2>1 DEF vars, TypeOK, AtABlock, Outcomes
<1> QED
  BY <1>1, <1>2, <1>3, <1>4, <1>7, <1>8, <1>9, <1>10, <1>11, <1>12 DEF Next, Done

-------------------------------------------------------------------------------
(* Searching *)

LEMMA StepSearched ==
  ASSUME TypeOK, Searched, [Next]_vars
  PROVE  Searched'
<1> USE DEF inputs
<1>1. Depth \in Nat \ {0} /\ place \in Nat /\ disabled \in BOOLEAN
  BY DepthAssumption DEF TypeOK, Places
<1>2. CASE Disabled
  BY <1>2 DEF Disabled, Goto, Searched
<1>3. CASE ExplicitMissing
  BY <1>3 DEF ExplicitMissing, Goto, Searched
<1>4. CASE Explicit
  BY <1>4 DEF Explicit, Searched, Reach, Given
<1>5. CASE Discovered
  <2>1. /\ place \in Reach /\ disk[place] # NoFile
        /\ \A p \in Reach : disk[p] # NoFile => place =< p
    BY <1>1, <1>5 DEF Discovered, Searching, Searched, Reach
  <2> QED
    BY <1>5, <2>1 DEF Discovered, Searching, Goto, Searched, Reach
<1>6. CASE LookAbove
  <2>1. \A p \in 1..place : p \in 1..(place - 1) \/ p = place
    BY <1>1
  <2>2. \A p \in 1..place : disk[p] = NoFile
    BY <1>6, <2>1 DEF LookAbove, Searching, Searched
  <2>3. place' \in 1..Depth /\ place' - 1 = place
    BY <1>1, <1>6 DEF LookAbove, Searching, Searched
  <2> QED
    BY <1>6, <2>2, <2>3 DEF LookAbove, Searching, Searched
<1>7. CASE NotFound
  <2>1. \A p \in 1..place : p \in 1..(place - 1) \/ p = place
    BY <1>1
  <2>2. \A p \in 1..place : disk[p] = NoFile
    BY <1>7, <2>1 DEF NotFound, Searching, Searched
  <2>3. \A p \in Reach : disk[p] = NoFile
    BY <1>1, <1>7, <2>2 DEF NotFound, Searching, Searched, Reach
  <2> QED
    BY <1>7, <2>3 DEF NotFound, Searching, Goto, Searched, Reach
<1>8. CASE LoadFails \/ Load \/ BlockRejected \/ NameRejected \/ Parsed
  BY <1>8 DEF LoadFails, Load, BlockRejected, NameRejected, Parsed, Goto,
              Searched, Reach
<1>9. CASE TakeBlock \/ TakeName \/ NextBlock
  BY <1>9 DEF TakeBlock, TakeName, NextBlock, Searched, Reach
<1>10. CASE UNCHANGED vars
  BY <1>10 DEF vars, Searched, Reach
<1> QED
  BY <1>2, <1>3, <1>4, <1>5, <1>6, <1>7, <1>8, <1>9, <1>10 DEF Next, Done

-------------------------------------------------------------------------------
(* Repetitions *)

LEMMA StepNoRepeat ==
  ASSUME TypeOK, NoRepeat, [Next]_vars
  PROVE  NoRepeat'
<1>1. CASE TakeName
  <2> DEFINE e == Entry(Blocks[block], Head(names))
  <2>1. entries' = Append(entries, e) /\ ~Seen(e)
    BY <1>1 DEF TakeName
  <2> HIDE DEF e
  <2>2. /\ Len(entries) \in Nat /\ DOMAIN entries = 1..Len(entries)
        /\ \A k \in DOMAIN entries' :
             \/ k \in DOMAIN entries /\ entries'[k] = entries[k]
             \/ k = Len(entries) + 1 /\ entries'[k] = e
    BY <2>1 DEF TypeOK
  <2>3. \A k \in DOMAIN entries :
          entries[k].test # e.test \/ entries[k].signal # e.signal
    BY <2>1 DEF Seen
  <2> QED
    BY <2>2, <2>3 DEF NoRepeat
<1>2. CASE ~TakeName
  <2>1. entries' = entries
    BY <1>2 DEF Next, Disabled, ExplicitMissing, Explicit, Discovered, LookAbove,
                NotFound, LoadFails, Load, TakeBlock, BlockRejected, NameRejected,
                NextBlock, Parsed, Done, Goto, vars
  <2> QED
    BY <2>1 DEF NoRepeat
<1> QED
  BY <1>1, <1>2

-------------------------------------------------------------------------------
(* What the first blocks of a file stand for *)

RawDocument == [version : Optional(Text), accept : Seq(RawEntry)]

\* The file cut off after its n-th block.
UpTo(d, n) == [d EXCEPT !.accept = SubSeq(@, 1, n)]

\* The part of Stated that one block makes.
Part(raw) ==
  LET listed == IF raw.signals = Absent THEN <<raw.signal>> ELSE raw.signals
  IN  [k \in DOMAIN listed |->
         [test |-> Trim[raw.test], signal |-> Trim[listed[k]],
          fingerprint |-> raw.fingerprint]]

Parts(d) == [b \in DOMAIN d.accept |-> Part(d.accept[b])]

AnyEntry == [test : Text, signal : Text, fingerprint : Optional(Text)]

\* The guide's conditions on a block are those the code checks.
LEMMA CompleteBlocks ==
  ASSUME NEW b \in RawEntry
  PROVE  BlockComplete(b) <=> ~Incomplete(b)
<1>1. b.signals = Absent => b.signals # <<>>
  <2>1. <<>> \in Seq(Text)
    OBVIOUS
  <2> QED BY <2>1, TextAssumption
<1>2. (\A v \in {b.test, b.reason} : v # Absent /\ Trim[v] # Empty)
        <=> required(b.test) /\ required(b.reason)
  BY DEF required
<1>3. ({b.signal, b.signals} \cap {Absent} # {} /\ {b.signal, b.signals} # {Absent}
         /\ b.signals # <<>>)
        <=> OneForm(b)
  <2>1. {b.signal, b.signals} \cap {Absent} # {} <=> b.signal = Absent \/ b.signals = Absent
    OBVIOUS
  <2>2. {b.signal, b.signals} # {Absent} <=> ~(b.signal = Absent /\ b.signals = Absent)
    OBVIOUS
  <2>3. CASE b.signal = Absent
    BY <1>1, <2>1, <2>2, <2>3 DEF OneForm
  <2>4. CASE b.signal # Absent
    BY <1>1, <2>1, <2>2, <2>4 DEF OneForm
  <2> QED BY <2>3, <2>4
<1> QED BY <1>2, <1>3 DEF BlockComplete, Incomplete

\* The names taken from a complete block make its part of the file.
LEMMA NamesMakeThePart ==
  ASSUME NEW b \in RawEntry, ~Incomplete(b)
  PROVE  /\ Part(b) \in Seq(AnyEntry)
         /\ Part(b) = [k \in DOMAIN signal_names(b) |-> Entry(b, signal_names(b)[k])]
<1>1. b.signal \in Text \cup {Absent} /\ b.signals \in Seq(Text) \cup {Absent}
      /\ b.fingerprint \in Optional(Text)
  BY DEF RawEntry, Optional
<1>2. Trim[b.test] \in Text
  BY TextAssumption DEF Incomplete, required, RawEntry, Optional
<1>3. CASE b.signal # Absent
  <2>1. b.signals = Absent /\ b.signal \in Text /\ Trim[b.signal] \in Text
    BY <1>1, <1>3, TextAssumption DEF Incomplete, OneForm
  <2>2. signal_names(b) = <<Trim[b.signal]>>
    BY <1>3 DEF signal_names
  <2>3. Part(b) = [k \in DOMAIN <<b.signal>> |->
                     [test |-> Trim[b.test], signal |-> Trim[<<b.signal>>[k]],
                      fingerprint |-> b.fingerprint]]
    BY <2>1 DEF Part
  <2>4. DOMAIN <<b.signal>> = 1..1 /\ DOMAIN <<Trim[b.signal]>> = 1..1
    OBVIOUS
  <2>5. \A k \in 1..1 : <<b.signal>>[k] = b.signal /\ <<Trim[b.signal]>>[k] = Trim[b.signal]
    OBVIOUS
  <2>6. Part(b) = [k \in 1..1 |-> [test |-> Trim[b.test], signal |-> Trim[b.signal],
                                   fingerprint |-> b.fingerprint]]
    BY <2>3, <2>4, <2>5
  <2>7. Part(b) \in Seq(AnyEntry)
    BY <1>1, <1>2, <2>1, <2>6 DEF AnyEntry
  <2> QED BY <2>2, <2>4, <2>5, <2>6, <2>7 DEF Entry
<1>4. CASE b.signal = Absent
  <2>1. b.signals \in Seq(Text) /\ b.signals # Absent
    BY <1>1, <1>4 DEF Incomplete, OneForm
  <2>2. signal_names(b) = [k \in DOMAIN b.signals |-> Trim[b.signals[k]]]
    BY <1>4 DEF signal_names
  <2>3. Part(b) = [k \in DOMAIN b.signals |->
                     [test |-> Trim[b.test], signal |-> Trim[b.signals[k]],
                      fingerprint |-> b.fingerprint]]
    BY <2>1 DEF Part
  <2>4. \A k \in DOMAIN b.signals : Trim[b.signals[k]] \in Text
    BY <2>1, TextAssumption
  <2>5. Part(b) \in Seq(AnyEntry)
    <3>1. \A k \in DOMAIN b.signals :
            [test |-> Trim[b.test], signal |-> Trim[b.signals[k]],
             fingerprint |-> b.fingerprint] \in AnyEntry
      BY <1>1, <1>2, <2>4 DEF AnyEntry
    <3>2. Len(b.signals) \in Nat /\ DOMAIN b.signals = 1..Len(b.signals)
      BY <2>1
    <3> QED BY <2>3, <3>1, <3>2
  <2> QED BY <2>2, <2>3, <2>5 DEF Entry
<1> QED BY <1>3, <1>4

\* A file stands for nothing before its first block, and each block adds its part.
LEMMA StatedByBlock ==
  ASSUME NEW d \in RawDocument
  PROVE  /\ Stated(UpTo(d, 0)) = <<>>
         /\ \A n \in 1..Len(d.accept) :
              Stated(UpTo(d, n)) = Stated(UpTo(d, n - 1)) \o Part(d.accept[n])
         /\ UpTo(d, Len(d.accept)) = d
<1> DEFINE T == UNION {{Part(d.accept[b])[k] : k \in DOMAIN Part(d.accept[b])} :
                         b \in DOMAIN d.accept}
           q == Parts(d)
<1>1. d.accept \in Seq(RawEntry) /\ Len(d.accept) \in Nat
      /\ DOMAIN d.accept = 1..Len(d.accept)
  BY DEF RawDocument
<1>2. ASSUME NEW b \in DOMAIN d.accept PROVE Part(d.accept[b]) \in Seq(T)
  <2>1. PICK n \in Nat : DOMAIN Part(d.accept[b]) = 1..n
    <3>1. d.accept[b] \in RawEntry
      BY <1>1
    <3>2. CASE d.accept[b].signals = Absent
      <4>1. DOMAIN Part(d.accept[b]) = 1..1
        BY <3>2 DEF Part
      <4> QED BY <4>1
    <3>3. CASE d.accept[b].signals # Absent
      <4>1. d.accept[b].signals \in Seq(Text)
        BY <3>1, <3>3 DEF RawEntry, Optional
      <4>2. DOMAIN Part(d.accept[b]) = 1..Len(d.accept[b].signals)
        BY <3>3, <4>1 DEF Part
      <4> QED BY <4>1, <4>2
    <3> QED BY <3>2, <3>3
  <2>2. Part(d.accept[b]) = [k \in DOMAIN Part(d.accept[b]) |-> Part(d.accept[b])[k]]
    BY DEF Part
  <2>3. \A k \in DOMAIN Part(d.accept[b]) : Part(d.accept[b])[k] \in T
    OBVIOUS
  <2> HIDE DEF T
  <2> QED BY <2>1, <2>2, <2>3
<1> HIDE DEF T
<1>3. q \in Seq(Seq(T)) /\ Len(q) = Len(d.accept)
      /\ \A b \in 1..Len(d.accept) : q[b] = Part(d.accept[b])
  BY <1>1, <1>2 DEF Parts
<1> HIDE DEF q
<1>4. ASSUME NEW n \in 0..Len(d.accept)
      PROVE  Stated(UpTo(d, n)) = FlattenSeq(SubSeq(q, 1, n))
  <2> DEFINE a == SubSeq(d.accept, 1, n)
             x == SubSeq(q, 1, n)
  <2>1. UpTo(d, n).accept = a
    BY DEF UpTo, RawDocument
  <2>2. Stated(UpTo(d, n)) = FlattenSeq([b \in DOMAIN a |-> Part(a[b])])
    BY <2>1 DEF Stated, Part
  <2>3. /\ DOMAIN a = 1..n /\ \A b \in 1..n : a[b] = d.accept[b]
        /\ x \in Seq(Seq(T)) /\ DOMAIN x = 1..n /\ \A b \in 1..n : x[b] = q[b]
        /\ \A b \in 1..n : b \in 1..Len(d.accept)
    BY <1>1, <1>3
  <2>4. x = [b \in 1..n |-> x[b]]
    BY <2>3
  <2> HIDE DEF a, x
  <2>5. [b \in DOMAIN a |-> Part(a[b])] = x
    BY <1>3, <2>3, <2>4
  <2> QED BY <2>2, <2>5 DEF x
<1>5. Stated(UpTo(d, 0)) = <<>>
  <2>1. 0 \in 0..Len(d.accept)
    BY <1>1
  <2>2. SubSeq(q, 1, 0) = <<>>
    BY <1>3
  <2> QED BY <1>4, <2>1, <2>2 DEF FlattenSeq
<1>6. ASSUME NEW n \in 1..Len(d.accept)
      PROVE  Stated(UpTo(d, n)) = Stated(UpTo(d, n - 1)) \o Part(d.accept[n])
  <2>1. n \in 0..Len(d.accept) /\ n - 1 \in 0..Len(d.accept) /\ n \in 1..Len(q)
    BY <1>1, <1>3
  <2>2. FlattenSeq(SubSeq(q, 1, n)) = FlattenSeq(SubSeq(q, 1, n - 1)) \o q[n]
    BY <1>3, <2>1, FlattenStep
  <2> QED BY <1>3, <1>4, <2>1, <2>2
<1>7. UpTo(d, Len(d.accept)) = d
  <2>1. SubSeq(d.accept, 1, Len(d.accept)) = d.accept
    BY <1>1
  <2> QED BY <2>1 DEF UpTo, RawDocument
<1> QED BY <1>5, <1>6, <1>7

\* No unknown signal, and no test and signal twice.
Sound(es) ==
  \A j \in DOMAIN es, k \in DOMAIN es :
    /\ es[j].signal \in Signals
    /\ j # k => es[j].test # es[k].test \/ es[j].signal # es[k].signal

StartsWith(s, t) == DOMAIN t \subseteq DOMAIN s /\ \A k \in DOMAIN t : s[k] = t[k]

\* A sequence with another one after it.
LEMMA Concatenation ==
  ASSUME NEW X, NEW s \in Seq(X), NEW t \in Seq(X)
  PROVE  s \o t \in Seq(X) /\ StartsWith(s \o t, s)
BY DEF StartsWith

\* What it takes for the first n blocks to be well formed.
LEMMA CutWellFormed ==
  ASSUME NEW d \in RawDocument, NEW n \in 0..Len(d.accept)
  PROVE  WellFormed(UpTo(d, n))
           <=> /\ d.version = Current
               /\ \A b \in 1..n : ~Incomplete(d.accept[b])
               /\ Sound(Stated(UpTo(d, n)))
<1> DEFINE a == SubSeq(d.accept, 1, n)
<1>1. d.accept \in Seq(RawEntry) /\ Len(d.accept) \in Nat
  BY DEF RawDocument
<1>2. UpTo(d, n).accept = a /\ UpTo(d, n).version = d.version
  BY DEF UpTo, RawDocument
<1>3. DOMAIN a = 1..n /\ \A b \in 1..n : a[b] = d.accept[b] /\ d.accept[b] \in RawEntry
  <2>1. \A b \in 1..n : b \in 1..Len(d.accept)
    BY <1>1
  <2> QED BY <1>1, <2>1
<1> HIDE DEF a
<1>4. (\A b \in DOMAIN a : BlockComplete(a[b])) <=> \A b \in 1..n : ~Incomplete(d.accept[b])
  BY <1>3, CompleteBlocks
<1> QED BY <1>2, <1>4 DEF WellFormed, Sound

\* In a file of complete blocks, what comes later changes nothing of what the
\* first n blocks stand for.
LEMMA LaterBlocksFollow ==
  ASSUME NEW d \in RawDocument, \A b \in 1..Len(d.accept) : ~Incomplete(d.accept[b])
  PROVE  \A n \in 0..Len(d.accept) :
           /\ Stated(UpTo(d, n)) \in Seq(AnyEntry)
           /\ StartsWith(Stated(d), Stated(UpTo(d, n)))
<1> DEFINE st(n) == Stated(UpTo(d, n))
           last == Len(d.accept)
<1>1. last \in Nat /\ \A n \in 1..last : d.accept[n] \in RawEntry
  BY DEF RawDocument
<1>2. /\ st(0) = <<>> /\ st(last) = Stated(d)
      /\ \A n \in 1..last : st(n) = st(n - 1) \o Part(d.accept[n])
  BY StatedByBlock
<1>3. \A n \in 1..last : Part(d.accept[n]) \in Seq(AnyEntry)
  BY <1>1, NamesMakeThePart
<1> HIDE DEF st, last
<1>4. \A n \in 0..last : st(n) \in Seq(AnyEntry)
  <2> DEFINE S == {n \in Nat : n =< last => st(n) \in Seq(AnyEntry)}
  <2>1. 0 \in S
    <3>1. <<>> \in Seq(AnyEntry)
      OBVIOUS
    <3> QED BY <1>2, <3>1
  <2>2. ASSUME NEW n \in S PROVE n + 1 \in S
    <3> SUFFICES ASSUME n + 1 =< last PROVE st(n + 1) \in Seq(AnyEntry)
      OBVIOUS
    <3>1. n + 1 \in 1..last /\ (n + 1) - 1 = n /\ n =< last
      BY <1>1
    <3>2. st(n + 1) = st(n) \o Part(d.accept[n + 1])
      BY <1>2, <3>1
    <3>3. st(n) \in Seq(AnyEntry) /\ Part(d.accept[n + 1]) \in Seq(AnyEntry)
      BY <1>3, <3>1
    <3> QED BY <3>2, <3>3, Concatenation
  <2>3. S \in SUBSET Nat
    OBVIOUS
  <2> HIDE DEF S
  <2>4. Nat \subseteq S
    BY <2>1, <2>2, <2>3, Counting
  <2> QED BY <1>1, <2>4 DEF S
<1>5. ASSUME NEW n \in 0..last PROVE StartsWith(st(last), st(n))
  <2> DEFINE S == {m \in Nat : n + m =< last => StartsWith(st(n + m), st(n))}
  <2>1. 0 \in S
    BY DEF StartsWith
  <2>2. ASSUME NEW m \in S PROVE m + 1 \in S
    <3> SUFFICES ASSUME n + (m + 1) =< last PROVE StartsWith(st(n + (m + 1)), st(n))
      OBVIOUS
    <3> DEFINE k == n + m
    <3>1. k + 1 = n + (m + 1) /\ k + 1 \in 1..last /\ (k + 1) - 1 = k /\ k \in 0..last
      BY <1>1
    <3>2. StartsWith(st(k), st(n))
      BY <3>1
    <3> HIDE DEF k
    <3>3. st(k + 1) = st(k) \o Part(d.accept[k + 1])
      BY <1>2, <3>1
    <3>4. st(k) \in Seq(AnyEntry) /\ Part(d.accept[k + 1]) \in Seq(AnyEntry)
      BY <1>3, <1>4, <3>1
    <3>5. StartsWith(st(k + 1), st(k))
      BY <3>3, <3>4, Concatenation
    <3>6. StartsWith(st(k + 1), st(n))
      BY <3>2, <3>5 DEF StartsWith
    <3> QED BY <3>1, <3>6
  <2>3. S \in SUBSET Nat
    OBVIOUS
  <2> HIDE DEF S
  <2>4. Nat \subseteq S
    BY <2>1, <2>2, <2>3, Counting
  <2>5. last - n \in S /\ n + (last - n) = last
    BY <1>1, <2>4
  <2> QED BY <1>1, <2>5 DEF S
<1> QED BY <1>2, <1>4, <1>5 DEF st, last

\* A file is no better than its first blocks.
LEMMA FileFailsWithItsBlocks ==
  ASSUME NEW d \in RawDocument, NEW n \in 0..Len(d.accept), WellFormed(d)
  PROVE  WellFormed(UpTo(d, n))
<1>1. Len(d.accept) \in Nat /\ Len(d.accept) \in 0..Len(d.accept)
  BY DEF RawDocument
<1>2. /\ d.version = Current
      /\ \A b \in 1..Len(d.accept) : ~Incomplete(d.accept[b])
      /\ Sound(Stated(d))
  <2>1. UpTo(d, Len(d.accept)) = d
    BY StatedByBlock
  <2> QED BY <1>1, <2>1, CutWellFormed
<1>3. \A b \in 1..n : ~Incomplete(d.accept[b])
  BY <1>1, <1>2
<1>4. StartsWith(Stated(d), Stated(UpTo(d, n)))
  BY <1>2, LaterBlocksFollow
<1>5. Sound(Stated(UpTo(d, n)))
  BY <1>2, <1>4 DEF Sound, StartsWith
<1> QED BY <1>2, <1>3, <1>5, CutWellFormed

-------------------------------------------------------------------------------
(* Whole files *)

Loaded == disk[place].doc

\* The entries the names still to be taken will make.
Coming == [k \in DOMAIN names |-> Entry(Blocks[block], names[k])]

\* What is validated so far is what the file states so far.
Validated ==
  /\ pc \in {"resolve", "load"} => entries = <<>>
  /\ pc \in {"block", "name", "baseline"} =>
       /\ Loaded.version = Current
       /\ \A b \in 1..(block - 1) : ~Incomplete(Loaded.accept[b])
  /\ pc \in {"block", "baseline"} => entries = Stated(UpTo(Loaded, block - 1))
  /\ pc = "baseline" => block = Len(Loaded.accept) + 1
  /\ pc = "name" =>
       /\ StartsWith(entries, Stated(UpTo(Loaded, block - 1)))
       /\ Stated(UpTo(Loaded, block)) = entries \o Coming

\* The file without the block at hand is well formed, and with it is not.
AtFault(d, n) ==
  /\ n \in 1..Len(d.accept)
  /\ WellFormed(UpTo(d, n - 1))
  /\ ~WellFormed(UpTo(d, n))

\* A document was refused for its version or for the block at hand.
Blamed ==
  pc = "error" /\ Chosen.kind = "document" =>
    Chosen.doc.version # Current \/ AtFault(Chosen.doc, block)

WholeInv == IInv /\ Validated /\ Blamed

\* The document at hand, while its blocks are read.
LEMMA AtTheDocument ==
  ASSUME TypeOK, pc \in {"block", "name", "baseline"}
  PROVE  /\ Loaded \in RawDocument /\ Blocks = Loaded.accept
         /\ Len(Loaded.accept) \in Nat /\ block \in 1..Len(Loaded.accept) + 1
         /\ \A b \in 1..Len(Loaded.accept) : Loaded.accept[b] \in RawEntry
<1>1. disk[place] \in File /\ disk[place].kind = "document" /\ block \in 1..Len(Blocks) + 1
  BY DEF TypeOK
<1>2. Loaded \in Documents
  BY <1>1, DocumentInFile DEF Loaded
<1>3. Loaded \in RawDocument
  BY <1>2, DocumentsAssumption DEF RawDocument
<1>4. Blocks = Loaded.accept
  BY DEF Blocks, Loaded
<1>5. Loaded.accept \in Seq(RawEntry)
  BY <1>3 DEF RawDocument
<1> QED BY <1>1, <1>3, <1>4, <1>5

\* Once a file was opened, it is the chosen one.
LEMMA ChosenIsLoaded ==
  ASSUME Searched, pc \in {"load", "block", "name", "baseline"}
  PROVE  Chosen = disk[place]
BY DEF Searched, Reach, Chosen, Given

\* The entries are of the shape a file states, and name known signals.
LEMMA EntriesAreTyped ==
  ASSUME TypeOK
  PROVE  /\ entries \in Seq(AnyEntry)
         /\ \A k \in DOMAIN entries : entries[k].signal \in Signals
<1> DEFINE X == [test : Text, signal : Signals, fingerprint : Optional(Text)]
<1>1. entries \in Seq(X)
  BY DEF TypeOK
<1>2. X \subseteq AnyEntry /\ \A x \in X : x.signal \in Signals
  BY TextAssumption DEF AnyEntry
<1> HIDE DEF X
<1> QED BY <1>1, <1>2

\* The entries made of the blocks behind, before and while a block is taken.
LEMMA BlocksBehindAreSound ==
  ASSUME TypeOK, NoRepeat, Validated, pc \in {"block", "name", "baseline"}
  PROVE  WellFormed(UpTo(Loaded, block - 1))
<1>1. Sound(entries)
  BY EntriesAreTyped DEF NoRepeat, Sound
<1>2. Sound(Stated(UpTo(Loaded, block - 1)))
  <2>1. CASE pc = "name"
    <3>1. StartsWith(entries, Stated(UpTo(Loaded, block - 1)))
      BY <2>1 DEF Validated
    <3> QED BY <1>1, <3>1 DEF Sound, StartsWith
  <2>2. CASE pc # "name"
    BY <1>1, <2>2 DEF Validated
  <2> QED BY <2>1, <2>2
<1>3. block - 1 \in 0..Len(Loaded.accept)
  BY AtTheDocument
<1> QED BY <1>2, <1>3, AtTheDocument, CutWellFormed DEF Validated

\* A name that is rejected spoils the file up to its block.
LEMMA RejectedNameIsAtFault ==
  ASSUME TypeOK, AtABlock, NoRepeat, Validated, NameRejected
  PROVE  AtFault(Loaded, block)
<1> DEFINE e == Entry(Blocks[block], Head(names))
           st == Stated(UpTo(Loaded, block))
<1>1. /\ pc = "name" /\ names # <<>> /\ names \in Seq(Text)
      /\ Head(names) \notin Signals \/ Seen(e)
  BY DEF NameRejected, TypeOK
<1>2. block \in 1..Len(Loaded.accept) /\ Loaded \in RawDocument
  BY <1>1, AtTheDocument DEF AtABlock
<1>3. entries \in Seq(AnyEntry)
  BY EntriesAreTyped
<1>4. Coming \in Seq(AnyEntry) /\ Coming # <<>> /\ Coming[1] = e
  <2>1. \A name \in Text : Entry(Blocks[block], name) \in AnyEntry
    <3>1. Blocks[block] \in RawEntry /\ ~Incomplete(Blocks[block])
      BY <1>1, <1>2, AtTheDocument DEF AtABlock
    <3> QED BY <3>1, TextAssumption
            DEF Entry, Incomplete, required, RawEntry, Optional, AnyEntry
  <2>2. 1 \in 1..Len(names) /\ names[1] = Head(names)
    BY <1>1
  <2>3. Coming \in Seq(AnyEntry) /\ DOMAIN Coming = 1..Len(names)
    BY <1>1, <2>1 DEF Coming
  <2> QED BY <2>2, <2>3 DEF Coming
<1>5. st = entries \o Coming
  BY <1>1 DEF Validated
<1>6. e.signal = Head(names)
  BY DEF Entry
<1> HIDE DEF e, st
<1>7. /\ DOMAIN entries \subseteq DOMAIN st /\ \A k \in DOMAIN entries : st[k] = entries[k]
      /\ Len(entries) + 1 \in DOMAIN st /\ Len(entries) + 1 \notin DOMAIN entries
      /\ st[Len(entries) + 1] = e
  BY <1>3, <1>4, <1>5
<1>8. ~Sound(st)
  <2>1. CASE e.signal \notin Signals
    BY <1>7, <2>1 DEF Sound
  <2>2. CASE Seen(e)
    <3>1. PICK k \in DOMAIN entries : entries[k].test = e.test /\ entries[k].signal = e.signal
      BY <2>2 DEF Seen
    <3> QED BY <1>7, <3>1 DEF Sound
  <2> QED BY <1>1, <1>6, <2>1, <2>2 DEF e
<1>9. ~WellFormed(UpTo(Loaded, block))
  BY <1>2, <1>8, CutWellFormed DEF st
<1>10. WellFormed(UpTo(Loaded, block - 1))
  BY <1>1, BlocksBehindAreSound
<1> QED BY <1>2, <1>9, <1>10 DEF AtFault

\* So does a block that is not complete.
LEMMA RejectedBlockIsAtFault ==
  ASSUME TypeOK, NoRepeat, Validated, BlockRejected
  PROVE  AtFault(Loaded, block)
<1>1. pc = "block" /\ block =< Len(Loaded.accept) /\ Incomplete(Loaded.accept[block])
  BY AtTheDocument DEF BlockRejected
<1>2. block \in 1..Len(Loaded.accept) /\ Loaded \in RawDocument
  BY <1>1, AtTheDocument
<1>3. block \in 1..block /\ block \in 0..Len(Loaded.accept)
  BY <1>2
<1>4. ~WellFormed(UpTo(Loaded, block))
  BY <1>1, <1>2, <1>3, CutWellFormed
<1>5. WellFormed(UpTo(Loaded, block - 1))
  BY <1>1, BlocksBehindAreSound
<1> QED BY <1>2, <1>4, <1>5 DEF AtFault

\* One more entry taken from those that are coming leaves both together the same.
LEMMA Shift ==
  ASSUME NEW X, NEW s \in Seq(X), NEW t \in Seq(X), t # <<>>
  PROVE  Append(s, Head(t)) \o Tail(t) = s \o t
<1> DEFINE a == Append(s, Head(t)) \o Tail(t)
           b == s \o t
<1>1. /\ Len(s) \in Nat /\ Len(t) \in Nat /\ Len(t) >= 1
      /\ Append(s, Head(t)) \in Seq(X) /\ Len(Append(s, Head(t))) = Len(s) + 1
      /\ Tail(t) \in Seq(X) /\ Len(Tail(t)) = Len(t) - 1
  OBVIOUS
<1>2. a \in Seq(X) /\ b \in Seq(X) /\ Len(a) = Len(s) + Len(t) /\ Len(b) = Len(s) + Len(t)
  BY <1>1
<1>3. ASSUME NEW k \in 1..Len(s) + Len(t) PROVE a[k] = b[k]
  <2>1. CASE k =< Len(s)
    BY <1>1, <2>1
  <2>2. CASE k = Len(s) + 1
    BY <1>1, <2>2
  <2>3. CASE k > Len(s) + 1
    BY <1>1, <2>3
  <2> QED BY <1>1, <2>1, <2>2, <2>3
<1> HIDE DEF a, b
<1>4. a = b
  BY <1>1, <1>2, <1>3
<1> QED BY <1>4 DEF a, b

\* Taking the next block or name, or turning to the next block.
LEMMA StepValidated ==
  ASSUME IInv, Validated, [Next]_vars
  PROVE  Validated'
<1> USE DEF inputs
<1>0. TypeOK /\ AtABlock
  BY DEF IInv
<1>1. CASE TakeBlock
  <2>1. /\ pc = "block" /\ block =< Len(Blocks) /\ ~Incomplete(Blocks[block])
        /\ names' = signal_names(Blocks[block]) /\ pc' = "name"
        /\ UNCHANGED <<disk, place, block, entries>>
    BY <1>1 DEF TakeBlock
  <2>2. block \in 1..Len(Loaded.accept) /\ Loaded \in RawDocument /\ Blocks = Loaded.accept
        /\ Blocks[block] \in RawEntry
    BY <1>0, <2>1, AtTheDocument
  <2>3. Coming' = Part(Blocks[block])
    <3>1. Blocks' = Blocks
      BY <2>1 DEF Blocks
    <3> QED BY <2>1, <2>2, <3>1, NamesMakeThePart DEF Coming
  <2>4. Stated(UpTo(Loaded, block)) = entries \o Coming'
    <3>1. entries = Stated(UpTo(Loaded, block - 1))
      BY <2>1 DEF Validated
    <3> QED BY <2>2, <2>3, <3>1, StatedByBlock
  <2>5. StartsWith(entries, Stated(UpTo(Loaded, block - 1)))
    BY <2>1 DEF Validated, StartsWith
  <2>6. Loaded' = Loaded
    BY <2>1 DEF Loaded
  <2> QED BY <2>1, <2>4, <2>5, <2>6 DEF Validated
<1>2. CASE TakeName
  <2> DEFINE e == Entry(Blocks[block], Head(names))
  <2>1. /\ pc = "name" /\ pc' = "name" /\ names # <<>> /\ names \in Seq(Text)
        /\ entries' = Append(entries, e) /\ names' = Tail(names)
        /\ UNCHANGED <<disk, place, block>>
    BY <1>0, <1>2 DEF TakeName, TypeOK
  <2>2. Blocks' = Blocks /\ Loaded' = Loaded
    BY <2>1 DEF Blocks, Loaded
  <2>3. block \in DOMAIN Blocks /\ ~Incomplete(Blocks[block]) /\ Blocks[block] \in RawEntry
    BY <1>0, <2>1, AtTheDocument DEF AtABlock
  <2>4. \A name \in Text : Entry(Blocks[block], name) \in AnyEntry
    BY <2>3, TextAssumption
       DEF Entry, Incomplete, required, RawEntry, Optional, AnyEntry
  <2>5. Coming \in Seq(AnyEntry) /\ Coming # <<>> /\ Head(Coming) = e
        /\ Coming' = Tail(Coming)
    <3>1. /\ Coming = [k \in 1..Len(names) |-> Entry(Blocks[block], names[k])]
          /\ Len(names) \in Nat /\ 1 \in 1..Len(names) /\ Head(names) = names[1]
          /\ \A k \in 1..Len(names) : names[k] \in Text
      BY <2>1 DEF Coming
    <3>2. Coming \in Seq(AnyEntry) /\ Len(Coming) = Len(names) /\ Coming[1] = e
      BY <2>4, <3>1
    <3>3. Coming' = [k \in 1..(Len(names) - 1) |-> Entry(Blocks[block], names[k + 1])]
      <4>1. DOMAIN Tail(names) = 1..(Len(names) - 1)
            /\ \A k \in 1..(Len(names) - 1) : Tail(names)[k] = names[k + 1]
        BY <2>1
      <4> QED BY <2>1, <2>2, <4>1 DEF Coming
    <3>4. Tail(Coming) = [k \in 1..(Len(names) - 1) |-> Coming[k + 1]]
      BY <3>1, <3>2
    <3>5. \A k \in 1..(Len(names) - 1) : k + 1 \in 1..Len(names)
      BY <3>1
    <3>6. \A k \in 1..(Len(names) - 1) : Coming[k + 1] = Entry(Blocks[block], names[k + 1])
      BY <3>1, <3>5
    <3> QED BY <3>1, <3>2, <3>3, <3>4, <3>6
  <2>6. entries \in Seq(AnyEntry)
    BY <1>0, EntriesAreTyped
  <2> HIDE DEF e
  <2>7. entries' \o Coming' = entries \o Coming
    BY <2>1, <2>5, <2>6, Shift
  <2>8. e \in AnyEntry
    <3>1. Head(names) \in Text
      BY <2>1
    <3> QED BY <2>4, <3>1 DEF e
  <2>9. StartsWith(entries', entries)
    BY <2>1, <2>6, <2>8 DEF StartsWith
  <2>10. StartsWith(entries', Stated(UpTo(Loaded, block - 1)))
    BY <2>1, <2>9 DEF Validated, StartsWith
  <2> QED BY <2>1, <2>2, <2>7, <2>10 DEF Validated
<1>3. CASE NextBlock
  <2>1. /\ pc = "name" /\ pc' = "block" /\ names = <<>> /\ block' = block + 1
        /\ UNCHANGED <<disk, place, entries>>
    BY <1>3 DEF NextBlock
  <2>2. Loaded' = Loaded /\ block \in Nat /\ block' - 1 = block /\ Blocks = Loaded.accept
    BY <1>0, <2>1, AtTheDocument DEF Loaded
  <2>3. entries = Stated(UpTo(Loaded, block))
    <3>1. Coming = <<>>
      BY <2>1 DEF Coming
    <3>2. entries \o <<>> = entries
      BY <1>0, EntriesAreTyped
    <3> QED BY <2>1, <3>1, <3>2 DEF Validated
  <2>4. \A b \in 1..(block' - 1) : ~Incomplete(Loaded.accept[b])
    <3>1. \A b \in 1..block : b \in 1..(block - 1) \/ b = block
      BY <2>2
    <3>2. ~Incomplete(Loaded.accept[block])
      BY <1>0, <2>1, <2>2 DEF AtABlock
    <3> QED BY <2>1, <2>2, <3>1, <3>2 DEF Validated
  <2> QED BY <2>1, <2>2, <2>3, <2>4 DEF Validated
<1>4. CASE Load
  <2>1. /\ pc = "load" /\ pc' = "block" /\ Loaded.version = Current /\ block = 1
        /\ disk[place].kind = "document" /\ UNCHANGED <<disk, place, block, entries>>
    BY <1>0, <1>4 DEF Load, Goto, AtABlock, Loaded
  <2>2. Loaded' = Loaded
    BY <2>1 DEF Loaded
  <2>3. Loaded \in RawDocument
    <3>1. disk[place] \in File
      BY <1>0 DEF TypeOK
    <3> QED BY <2>1, <3>1, DocumentInFile, DocumentsAssumption DEF RawDocument, Loaded
  <2>4. entries = Stated(UpTo(Loaded, block - 1))
    <3>1. block - 1 = 0 /\ entries = <<>>
      BY <2>1 DEF Validated
    <3> QED BY <2>3, <3>1, StatedByBlock
  <2>5. \A b \in 1..(block - 1) : FALSE
    BY <2>1
  <2> QED BY <2>1, <2>2, <2>4, <2>5 DEF Validated
<1>5. CASE Parsed
  <2>1. /\ pc = "block" /\ pc' = "baseline" /\ block > Len(Blocks)
        /\ UNCHANGED <<disk, place, block, entries>>
    BY <1>5 DEF Parsed, Goto
  <2>2. Loaded' = Loaded
    BY <2>1 DEF Loaded
  <2>3. block = Len(Loaded.accept) + 1
    BY <1>0, <2>1, AtTheDocument
  <2> QED BY <2>1, <2>2, <2>3 DEF Validated
<1>6. CASE Disabled \/ ExplicitMissing \/ Explicit \/ Discovered \/ LookAbove \/ NotFound
  BY <1>6 DEF Disabled, ExplicitMissing, Explicit, Discovered, LookAbove, NotFound,
              Searching, Goto, Validated
<1>7. CASE LoadFails \/ BlockRejected \/ NameRejected
  BY <1>7 DEF LoadFails, BlockRejected, NameRejected, Goto, Validated
<1>8. CASE UNCHANGED vars
  <2>1. Loaded' = Loaded /\ Coming' = Coming
    BY <1>8 DEF vars, Loaded, Coming, Blocks
  <2> QED BY <1>8, <2>1 DEF vars, Validated
<1> QED
  BY <1>1, <1>2, <1>3, <1>4, <1>5, <1>6, <1>7, <1>8 DEF Next, Done

\* Every way to fail leaves the blame where it belongs.
LEMMA StepBlamed ==
  ASSUME IInv, Validated, Blamed, [Next]_vars
  PROVE  Blamed'
<1> USE DEF inputs
<1>1. TypeOK /\ AtABlock /\ Searched /\ NoRepeat
  BY DEF IInv
<1>2. CASE ExplicitMissing
  <2>1. Chosen' = NoFile
    BY <1>2 DEF ExplicitMissing, Goto, Chosen
  <2> QED BY <2>1 DEF Blamed, NoFile
<1>3. CASE LoadFails
  <2>1. pc = "load" /\ UNCHANGED <<disk, explicit, place>>
        /\ (disk[place].kind # "document" \/ disk[place].doc.version # Current)
    BY <1>3 DEF LoadFails, Goto
  <2>2. Chosen = disk[place]
    BY <1>1, <2>1, ChosenIsLoaded
  <2>3. Chosen' = Chosen
    BY <2>1 DEF Chosen
  <2> QED BY <2>1, <2>2, <2>3 DEF Blamed
<1>4. CASE BlockRejected \/ NameRejected
  <2>1. pc \in {"block", "name"} /\ UNCHANGED <<disk, explicit, place, block>>
    BY <1>4 DEF BlockRejected, NameRejected, Goto
  <2>2. AtFault(Loaded, block)
    BY <1>1, <1>4, RejectedBlockIsAtFault, RejectedNameIsAtFault
  <2>3. Chosen = disk[place]
    BY <1>1, <2>1, ChosenIsLoaded
  <2>4. Chosen' = Chosen /\ block' = block
    BY <2>1 DEF Chosen
  <2> QED BY <2>2, <2>3, <2>4 DEF Blamed, Loaded
<1>5. CASE UNCHANGED vars
  <2>1. Chosen' = Chosen /\ block' = block /\ pc' = pc
    BY <1>5 DEF vars, Chosen
  <2> QED BY <2>1 DEF Blamed
<1>6. CASE Disabled \/ Explicit \/ Discovered \/ LookAbove \/ NotFound
           \/ Load \/ TakeBlock \/ TakeName \/ NextBlock \/ Parsed
  <2>1. pc' # "error"
    BY <1>6 DEF Disabled, Explicit, Discovered, LookAbove, NotFound, Searching, Load,
                TakeBlock, TakeName, NextBlock, Parsed, Goto
  <2> QED BY <2>1 DEF Blamed
<1> QED
  BY <1>2, <1>3, <1>4, <1>5, <1>6 DEF Next, Done

-------------------------------------------------------------------------------
(* The theorems *)

LEMMA Invariance == Spec => []IInv
<1>1. IInv /\ [Next]_vars => IInv'
  BY StepType, StepSearched, StepNoRepeat DEF IInv
<1> QED
  BY <1>1, InitInv, PTL DEF Spec

\* parse(): every entry that is built names a test and a signal the tool knows,
\* however the keys of the file are combined.
THEOREM TypeCorrect == Spec => []TypeOK
<1>1. IInv => TypeOK
  BY DEF IInv
<1> QED
  BY <1>1, Invariance, PTL

\* parse(): no two entries have the same test and signal, for any number of
\* blocks, of names in a block, and any padding.
THEOREM NoRepeatCorrect == Spec => []NoRepeat
<1>1. IInv => NoRepeat
  BY DEF IInv
<1> QED
  BY <1>1, Invariance, PTL

\* resolve(), resolve_from_file() and discover(): the explicit file, else the
\* nearest one, decides, for any number of directories up to the root.
THEOREM NearestDecidesCorrect == Spec => []NearestDecides
<1>1. IInv => NearestDecides
  BY DEF IInv, Searched, Reach, NearestDecides
<1> QED
  BY <1>1, Invariance, PTL

LEMMA WholeInvariance == Spec => []WholeInv
<1>1. Init => WholeInv
  <2> SUFFICES ASSUME Init PROVE WholeInv
    OBVIOUS
  <2>1. Validated /\ Blamed
    BY DEF Init, Validated, Blamed
  <2> QED BY <2>1, InitInv DEF WholeInv
<1>2. WholeInv /\ [Next]_vars => WholeInv'
  <2> SUFFICES ASSUME WholeInv, [Next]_vars PROVE WholeInv'
    OBVIOUS
  <2>1. IInv'
    BY StepType, StepSearched, StepNoRepeat DEF IInv, WholeInv
  <2> QED BY <2>1, StepValidated, StepBlamed DEF WholeInv
<1> QED
  BY <1>1, <1>2, PTL DEF Spec

\* The chosen file is a document of the expected shape, if it is a document.
LEMMA ChosenIsTyped ==
  ASSUME TypeOK, Chosen.kind = "document"
  PROVE  Chosen.doc \in RawDocument
<1>1. Chosen \in File
  BY DepthAssumption DEF TypeOK, Chosen, Given, Places
<1> QED BY <1>1, DocumentInFile, DocumentsAssumption DEF RawDocument

\* load() and parse(): a baseline is used iff its file is well formed, and then
\* it has every entry of every block in the order of the file, for any number of
\* blocks and of names in a block ("Every failure is hard").
THEOREM TakenWholeOrNotAtAllCorrect == Spec => []TakenWholeOrNotAtAll
<1>1. ASSUME WholeInv, pc = "baseline"
      PROVE  WellFormed(Chosen.doc) /\ entries = Stated(Chosen.doc)
  <2>1. TypeOK /\ Searched /\ NoRepeat /\ Validated
    BY <1>1 DEF WholeInv, IInv
  <2>2. Chosen.doc = Loaded
    BY <1>1, <2>1, ChosenIsLoaded DEF Loaded
  <2>3. Loaded \in RawDocument /\ block - 1 = Len(Loaded.accept)
    BY <1>1, <2>1, AtTheDocument DEF Validated
  <2>4. UpTo(Loaded, block - 1) = Loaded
    BY <2>3, StatedByBlock
  <2>5. entries = Stated(UpTo(Loaded, block - 1))
    BY <1>1, <2>1 DEF Validated
  <2>6. WellFormed(UpTo(Loaded, block - 1))
    BY <1>1, <2>1, BlocksBehindAreSound
  <2> QED BY <2>2, <2>4, <2>5, <2>6
<1>2. ASSUME WholeInv, pc = "error", Chosen.kind = "document"
      PROVE  ~WellFormed(Chosen.doc)
  <2>1. Chosen.doc \in RawDocument
    BY <1>2, ChosenIsTyped DEF WholeInv, IInv
  <2>2. CASE Chosen.doc.version # Current
    BY <2>2 DEF WellFormed
  <2>3. CASE AtFault(Chosen.doc, block)
    <3>1. block \in 0..Len(Chosen.doc.accept) /\ ~WellFormed(UpTo(Chosen.doc, block))
      BY <2>1, <2>3 DEF AtFault, RawDocument
    <3> QED BY <2>1, <3>1, FileFailsWithItsBlocks
  <2> QED BY <1>2, <2>2, <2>3 DEF WholeInv, Blamed
<1>3. WholeInv => TakenWholeOrNotAtAll
  BY <1>1, <1>2 DEF TakenWholeOrNotAtAll
<1> QED BY <1>3, WholeInvariance, PTL

\* parse(): the block an error message numbers is the first at fault, whatever
\* the fault and however many blocks come before and after it.
THEOREM BlameIsTheFirstFaultCorrect == Spec => []BlameIsTheFirstFault
<1>1. WholeInv => BlameIsTheFirstFault
  <2> SUFFICES ASSUME WholeInv, pc = "error", Chosen.kind = "document",
                      Chosen.doc.version = Current
               PROVE  /\ WellFormed(UpTo(Chosen.doc, block - 1))
                      /\ ~WellFormed(UpTo(Chosen.doc, block))
    BY DEF BlameIsTheFirstFault, UpTo
  <2> QED BY DEF WholeInv, Blamed, AtFault
<1> QED BY <1>1, WholeInvariance, PTL
===============================================================================
