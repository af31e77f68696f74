----------------------------- MODULE ReviewProofs -----------------------------
(***************************************************************************)
(* What a baseline can and cannot do over its life, proved for every code  *)
(* base, every number of edits and every order of edits, scans and reviews. *)
(***************************************************************************)
EXTENDS Review, FiniteSetTheorems, TLAPS

Entry ==
  [test : NodeIds, signal : Signals, fingerprint : Fingerprints \cup {NoFingerprint}]

\* What the reviewer has looked at to leave e behind.
TextOf(e) == IF e.fingerprint = NoFingerprint THEN AnyText ELSE e.fingerprint

\* Every entry goes back to a judgement of its test, signal and text.
Backed(es) ==
  \A e \in es : \E j \in reviewed :
    j.test = e.test /\ j.signal = e.signal /\ j.text = TextOf(e)

\* What the developers and the reviewer hold is what they can hold.
Kept ==
  /\ code \in [NodeIds -> Bodies \cup {Gone}]
  /\ mocked \in [NodeIds -> BOOLEAN]
  /\ book \subseteq Entry /\ IsFiniteSet(book)
  /\ applied \subseteq Entry /\ IsFiniteSet(applied)

\* The records of an inventory have names and fingerprints.
Listed ==
  \A i \in Positions : tests[i].nodeid \in NodeIds /\ tests[i].fingerprint \in Fingerprints

ReviewInv == Kept /\ Listed /\ Backed(book) /\ Backed(applied)

-------------------------------------------------------------------------------
(* Sequences made of sets *)

\* What SetToSeq makes of a finite set holds its elements and no others.
LEMMA SetAsSequence ==
  ASSUME NEW S, IsFiniteSet(S)
  PROVE  {SetToSeq(S)[k] : k \in DOMAIN SetToSeq(S)} = S
<1> DEFINE n == Cardinality(S)
<1>1. n \in Nat /\ ExistsBijection(1..n, S)
  BY FS_CardinalityType
<1>2. PICK f \in Bijection(1..n, S) : TRUE
  BY <1>1 DEF ExistsBijection
<1>3. f \in [1..n -> S] /\ IsInjective(f)
  BY <1>2 DEF Bijection, Injection, IsInjective
<1>4. SetToSeq(S) \in [1..n -> S] /\ IsInjective(SetToSeq(S))
  BY <1>3 DEF SetToSeq
<1> DEFINE q == SetToSeq(S)
<1>5. q \in Injection(1..n, S)
  BY <1>4 DEF Injection, IsInjective
<1>6. IsFiniteSet(1..n) /\ Cardinality(1..n) = n
  <2>1. 1 \in Int /\ n \in Int
    BY <1>1
  <2>2. IsFiniteSet(1..n) /\ Cardinality(1..n) = IF 1 > n THEN 0 ELSE n - 1 + 1
    BY ONLY <2>1, FS_Interval
  <2> QED BY <1>1, <2>2
<1>7. q \in Surjection(1..n, S)
  BY <1>5, <1>6, FS_Injection
<1> QED BY <1>4, <1>7 DEF Surjection

\* The entries the contract matches are those the scan applied.
LEMMA EntriesOfTheScan ==
  ASSUME IsFiniteSet(applied)
  PROVE  Scanned!EntrySet = applied
BY SetAsSequence DEF Scanned!EntrySet, Entries

\* The contract reads the same signals off a test.
LEMMA SameSignals == \A t : Scanned!active_signals(t) = active_signals(t)
BY DEF Scanned!active_signals, active_signals, Scanned!Signals, Signals,
       Scanned!derive_test_smells, derive_test_smells,
       Scanned!verifies_nothing, verifies_nothing,
       Scanned!SmellCategories, SmellCategories,
       Scanned!HighSetupRatio, HighSetupRatio,
       Scanned!mock_overuse_fires, mock_overuse_fires, Scanned!Max, Max

\* Whatever name a record is stored under, it has the fingerprint of its text.
LEMMA RecordType ==
  ASSUME NEW n \in NodeIds, code[n] \in Bodies, mocked[n] \in BOOLEAN
  PROVE  Record(n).nodeid = n /\ Record(n).fingerprint \in Fingerprints
<1>1. Parsed[code[n]][mocked[n]] \in TestRecord
  BY BodiesAssumption
<1>2. Parsed[code[n]][mocked[n]].fingerprint \in Fingerprints
  BY ParsedHaveFingerprints
<1> QED BY <1>1, <1>2 DEF Record, TestRecord

\* The inventory `ts` has one record for each test of `read`, in their order.
ReadsInto(read, ts) ==
  /\ \A n \in read : code[n] # Gone
  /\ \E order \in [1..Cardinality(read) -> read] :
       /\ \A i \in DOMAIN order, j \in DOMAIN order : i < j => order[i] < order[j]
       /\ ts = [i \in DOMAIN order |-> Record(order[i])]

\* A scan reads some tests of the checkout, and all of them if it is a project
\* scan that skips no file.
LEMMA ScanReads ==
  ASSUME Scan
  PROVE  \E read \in SUBSET NodeIds :
           /\ ReadsInto(read, tests')
           /\ whole' => \A n \in NodeIds \ read : code[n] = Gone
<1>1. PICK scope \in {"project", "file"}, unread \in SUBSET NodeIds :
        /\ whole' = (scope = "project" /\ unread = {})
        /\ \E asked \in Asked(scope) :
             ReadsInto({n \in asked \ unread : code[n] # Gone}, tests')
  BY DEF Scan, ReadsInto
<1>2. PICK asked \in Asked(scope) :
        ReadsInto({n \in asked \ unread : code[n] # Gone}, tests')
  BY <1>1
<1>3. asked \subseteq NodeIds
  BY DEF Asked
<1>4. ASSUME whole' PROVE asked = NodeIds /\ unread = {}
  BY <1>1, <1>2, <1>4 DEF Asked
<1> DEFINE read == {n \in asked \ unread : code[n] # Gone}
<1>5. read \in SUBSET NodeIds /\ ReadsInto(read, tests')
  BY <1>2, <1>3
<1>6. whole' => \A n \in NodeIds \ read : code[n] = Gone
  BY <1>4
<1> QED BY <1>5, <1>6

-------------------------------------------------------------------------------
(* Nothing is held back that nobody judged *)

\* Nothing is written down before the first scan.
LEMMA ReviewInvInit == Init => ReviewInv
BY FS_EmptySet DEF Init, ReviewInv, Kept, Listed, Backed, Positions

\* Edits, patches, scans, reviews and deletions keep every entry backed.
LEMMA ReviewInvStep == ReviewInv /\ [Next]_vars => ReviewInv'
<1> SUFFICES ASSUME ReviewInv, [Next]_vars PROVE ReviewInv'
  OBVIOUS
<1> USE DEF ReviewInv
<1>1. CASE Edit
  BY <1>1 DEF Edit, inventory, Kept, Listed, Backed, Positions, TextOf
<1>2. CASE PatchClass
  BY <1>2 DEF PatchClass, inventory, Kept, Listed, Backed, Positions, TextOf
<1>3. CASE Scan
  <2>1. applied' = book /\ UNCHANGED <<code, mocked, book, reviewed>>
    BY <1>3 DEF Scan, source
  <2>2. PICK read \in SUBSET NodeIds : ReadsInto(read, tests')
    BY <1>3, ScanReads
  <2>3. Listed'
    <3>1. PICK order \in [1..Cardinality(read) -> read] :
            tests' = [i \in DOMAIN order |-> Record(order[i])]
      BY <2>2 DEF ReadsInto
    <3> SUFFICES ASSUME NEW i \in DOMAIN order
                 PROVE  /\ Record(order[i]).nodeid \in NodeIds
                        /\ Record(order[i]).fingerprint \in Fingerprints
      BY <3>1 DEF Listed, Positions
    <3>2. order[i] \in read
      BY <3>1
    <3>3. order[i] \in NodeIds /\ code[order[i]] \in Bodies /\ mocked[order[i]] \in BOOLEAN
      BY <2>2, <3>2 DEF ReadsInto, Kept
    <3> QED BY <3>3, RecordType
  <2> QED BY <2>1, <2>3 DEF Kept, Backed, TextOf
<1>4. CASE Accept
  <2>1. PICK i \in Positions, pinned \in BOOLEAN, s \in Signals :
          /\ book' = {e \in book : ~(e.test = tests[i].nodeid /\ e.signal = s)}
                     \cup {[test |-> tests[i].nodeid, signal |-> s,
                            fingerprint |-> Pin(i, pinned)]}
          /\ reviewed' = reviewed
               \cup {Judgement(i, s, IF pinned THEN Text(i) ELSE AnyText)}
    BY <1>4 DEF Accept, active_signals
  <2> DEFINE new == [test |-> tests[i].nodeid, signal |-> s, fingerprint |-> Pin(i, pinned)]
             kept == {e \in book : ~(e.test = tests[i].nodeid /\ e.signal = s)}
             j == Judgement(i, s, IF pinned THEN Text(i) ELSE AnyText)
  <2>2. UNCHANGED <<code, mocked, tests, applied>>
    BY <1>4 DEF Accept, source, inventory
  <2>3. new \in Entry
    BY DEF Entry, Listed, Pin, Text
  <2>4. IsFiniteSet(book')
    <3>1. IsFiniteSet(kept)
      BY FS_Subset DEF Kept
    <3> QED BY <2>1, <3>1, FS_AddElement
  <2>5. Kept'
    BY <2>1, <2>2, <2>3, <2>4 DEF Kept
  <2>6. Listed'
    BY <2>2 DEF Listed, Positions
  <2>7. j \in reviewed' /\ reviewed \subseteq reviewed'
    BY <2>1
  <2>8. j.test = new.test /\ j.signal = new.signal /\ j.text = TextOf(new)
    BY NoFingerprintIsNotOne DEF Judgement, TextOf, Pin, Text, Listed
  <2>9. Backed(book)' /\ Backed(applied)'
    <3> HIDE DEF new, j
    <3>1. \A e \in applied \cup book : \E k \in reviewed' :
            k.test = e.test /\ k.signal = e.signal /\ k.text = TextOf(e)
      BY <2>7 DEF Backed
    <3>2. book' \subseteq book \cup {new}
      BY <2>1 DEF new
    <3> QED BY <2>2, <2>7, <2>8, <3>1, <3>2 DEF Backed, TextOf
  <2> QED BY <2>5, <2>6, <2>9
<1>5. CASE Delete
  <2>1. book' \subseteq book /\ UNCHANGED <<code, mocked, tests, applied, reviewed>>
    BY <1>5 DEF Delete, source, inventory
  <2>2. IsFiniteSet(book')
    BY <2>1, FS_Subset DEF Kept
  <2> QED BY <2>1, <2>2 DEF Kept, Listed, Backed, Positions, TextOf
<1>6. CASE UNCHANGED vars
  BY <1>6 DEF vars, source, inventory, Kept, Listed, Backed, Positions, TextOf
<1> QED BY <1>1, <1>2, <1>3, <1>4, <1>5, <1>6 DEF Next

\* An entry that applies to a test was pinned to the text at hand, or to none.
LEMMA BackedEntriesWereJudged == ReviewInv => HeldBackWasJudged
<1> SUFFICES ASSUME ReviewInv, NEW i \in Positions, Scanned!HeldBack(i),
                    NEW s \in active_signals(tests[i])
             PROVE  \E j \in reviewed : /\ j.test = tests[i].nodeid
                                        /\ j.signal = s
                                        /\ j.text \in {AnyText, Text(i)}
  BY DEF HeldBackWasJudged
<1>1. PICK e \in applied : e.signal = s /\ Scanned!Applies(e, i)
  <2>1. IsFiniteSet(applied)
    BY DEF ReviewInv, Kept
  <2> QED BY <2>1, EntriesOfTheScan, SameSignals DEF Scanned!HeldBack
<1>2. e.test = tests[i].nodeid /\ e.fingerprint \in {NoFingerprint, tests[i].fingerprint}
  BY <1>1 DEF Scanned!Applies, Scanned!Stands, Scanned!Bears
<1>3. PICK j \in reviewed : j.test = e.test /\ j.signal = e.signal /\ j.text = TextOf(e)
  BY DEF ReviewInv, Backed
<1> QED BY <1>1, <1>2, <1>3 DEF TextOf, Text

\* However edits, class patches, scans of both kinds and reviews interleave, a
\* test is held back only for signals somebody judged on this very text, or left
\* unpinned.
THEOREM HeldBackWasJudgedCorrect == Spec => []HeldBackWasJudged
<1>1. Init => ReviewInv
  BY ReviewInvInit
<1>2. ReviewInv /\ [Next]_vars => ReviewInv'
  BY ReviewInvStep
<1>3. ReviewInv => HeldBackWasJudged
  BY BackedEntriesWereJudged
<1> QED BY <1>1, <1>2, <1>3, PTL DEF Spec

-------------------------------------------------------------------------------
(* An unknown test is gone, if the whole project was read *)

\* The inventory names no test twice, and of a whole project each that was there.
Complete ==
  /\ whole => \A n \in NodeIds :
                seen[n] # Gone => \E i \in Positions : tests[i].nodeid = n
  /\ \A i \in Positions, j \in Positions : tests[i].nodeid = tests[j].nodeid => i = j
  /\ Positions \subseteq Nat

\* An increasing enumeration of a finite set of numbers leaves none of them out.
LEMMA EnumerationIsOnto ==
  ASSUME NEW S \in SUBSET Nat, IsFiniteSet(S), NEW f \in [1..Cardinality(S) -> S],
         \A i \in DOMAIN f, j \in DOMAIN f : i < j => f[i] < f[j]
  PROVE  /\ \A i \in DOMAIN f, j \in DOMAIN f : f[i] = f[j] => i = j
         /\ \A n \in S : \E i \in DOMAIN f : f[i] = n
<1> DEFINE k == Cardinality(S)
<1>1. k \in Nat
  BY FS_CardinalityType
<1> HIDE DEF k
<1>2. f \in [1..k -> S] /\ \A i \in 1..k, j \in 1..k : i < j => f[i] < f[j]
  BY DEF k
<1>3. \A i \in 1..k, j \in 1..k : f[i] = f[j] => i = j
  <2> SUFFICES ASSUME NEW i \in 1..k, NEW j \in 1..k, f[i] = f[j], i < j PROVE FALSE
    BY <1>1
  <2>1. f[i] \in Nat /\ f[i] < f[j]
    BY <1>2
  <2> QED BY <2>1
<1>4. f \in Injection(1..k, S)
  BY <1>2, <1>3 DEF Injection, IsInjective
<1>5. IsFiniteSet(1..k) /\ Cardinality(1..k) = k
  <2>1. 1 \in Int /\ k \in Int
    BY <1>1
  <2>2. IsFiniteSet(1..k) /\ Cardinality(1..k) = IF 1 > k THEN 0 ELSE k - 1 + 1
    BY ONLY <2>1, FS_Interval
  <2> QED BY <1>1, <2>2
<1>6. f \in Surjection(1..k, S)
  BY <1>4, <1>5, FS_Injection DEF k
<1> QED BY <1>2, <1>3, <1>6 DEF Surjection

\* What a scan reads, it lists.
LEMMA ScanIsComplete ==
  ASSUME ReviewInv, Scan
  PROVE  Complete'
<1>1. PICK read \in SUBSET NodeIds :
        /\ ReadsInto(read, tests')
        /\ whole' => \A n \in NodeIds \ read : code[n] = Gone
  BY ScanReads
<1>2. PICK order \in [1..Cardinality(read) -> read] :
        /\ \A i \in DOMAIN order, j \in DOMAIN order : i < j => order[i] < order[j]
        /\ tests' = [i \in DOMAIN order |-> Record(order[i])]
  BY <1>1 DEF ReadsInto
<1>3. IsFiniteSet(read) /\ read \subseteq Nat
  BY NamesAreOrdered, BodiesAssumption, FS_Subset
<1>4. /\ \A i \in DOMAIN order, j \in DOMAIN order : order[i] = order[j] => i = j
      /\ \A n \in read : \E i \in DOMAIN order : order[i] = n
  BY <1>2, <1>3, EnumerationIsOnto
<1>5. \A i \in DOMAIN order : tests'[i].nodeid = order[i]
  <2> SUFFICES ASSUME NEW i \in DOMAIN order PROVE Record(order[i]).nodeid = order[i]
    BY <1>2
  <2>1. order[i] \in read
    BY <1>2
  <2>2. order[i] \in NodeIds /\ code[order[i]] \in Bodies /\ mocked[order[i]] \in BOOLEAN
    BY <1>1, <2>1 DEF ReadsInto, ReviewInv, Kept
  <2> QED BY <2>2, RecordType
<1>6. Positions' = DOMAIN order /\ DOMAIN order \subseteq Nat
  BY <1>2 DEF Positions
<1>7. seen' = code
  BY DEF Scan
<1> QED BY <1>1, <1>4, <1>5, <1>6, <1>7 DEF Complete

\* Only a scan changes the inventory and what it was made of.
LEMMA CompleteStep ==
  ASSUME ReviewInv, Complete, [Next]_vars
  PROVE  Complete'
<1>1. CASE Scan
  BY <1>1, ScanIsComplete
<1>2. CASE UNCHANGED <<tests, whole, seen>>
  BY <1>2 DEF Complete, Positions
<1> QED BY <1>1, <1>2 DEF Next, Edit, PatchClass, Accept, Delete, inventory, vars

\* No test bears the name of an unknown entry, so the scan saw none.
LEMMA NobodyBears == ReviewInv /\ Complete => UnknownMeansGone
<1> SUFFICES ASSUME ReviewInv, Complete, whole, NEW e \in applied,
                    Scanned!Status(e) = "unknown_test", seen[e.test] # Gone
             PROVE  FALSE
  BY DEF UnknownMeansGone
<1>1. e.test \in NodeIds
  BY DEF ReviewInv, Kept, Entry
<1>2. PICK i \in Positions : tests[i].nodeid = e.test
  BY <1>1 DEF Complete
<1>3. \A j \in Positions : tests[j].nodeid = e.test => j = i
  BY <1>2 DEF Complete
<1>4. Scanned!Bears(i, e.test)
  BY <1>2, <1>3 DEF Scanned!Bears, Scanned!Positions, Positions, Complete
<1> QED BY <1>4 DEF Scanned!Status, Scanned!Positions, Positions

\* After a project scan that skipped no file, an entry reported as unknown_test
\* names a test that the scanned code does not have: deleting it, as the guide
\* says, loses no review.
THEOREM UnknownMeansGoneCorrect == Spec => []UnknownMeansGone
<1>1. Init => ReviewInv /\ Complete
  BY ReviewInvInit DEF Init, Complete, Positions
<1>2. ReviewInv /\ Complete /\ [Next]_vars => (ReviewInv /\ Complete)'
  BY ReviewInvStep, CompleteStep
<1>3. ReviewInv /\ Complete => UnknownMeansGone
  BY NobodyBears
<1> QED BY <1>1, <1>2, <1>3, PTL DEF Spec
===============================================================================
