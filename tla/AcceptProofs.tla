----------------------------- MODULE AcceptProofs -----------------------------
(***************************************************************************)
(* Theorems about Accept, for every suite, every baseline and every bound:  *)
(* first its own invariants, then that it implements AcceptContract, and    *)
(* that what PrettyView prints is what Accept ranked.                       *)
(***************************************************************************)
EXTENDS AcceptRefines, PrettyView, FiniteSetTheorems, TLAPS

-------------------------------------------------------------------------------
(* Helpers *)

\* The lesser of two numbers is one of them, and at most each.
LEMMA MinOfTwo ==
  ASSUME NEW m \in Nat, NEW n \in Nat
  PROVE  /\ Min({m, n}) \in Nat
         /\ Min({m, n}) =< m
         /\ Min({m, n}) =< n
         /\ Min({m, n}) = m \/ Min({m, n}) = n
<1>1. \E x \in {m, n} : \A y \in {m, n} : x =< y
  <2>1. CASE m =< n
    BY <2>1
  <2>2. CASE n =< m
    BY <2>2
  <2> QED
    BY <2>1, <2>2
<1> QED
  BY <1>1 DEF Min

\* Bounded sequences are sequences.
LEMMA SeqUpToIsSeq ==
  ASSUME NEW S, NEW n \in Nat, NEW q \in SeqUpTo(S, n)
  PROVE  q \in Seq(S)
BY DEF SeqUpTo

\* Appending keeps every element in its place and adds one.
LEMMA AppendElements ==
  ASSUME NEW S, NEW q \in Seq(S), NEW x \in S
  PROVE  /\ Append(q, x) \in Seq(S)
         /\ Len(Append(q, x)) = Len(q) + 1
         /\ \A a \in DOMAIN q : a \in DOMAIN Append(q, x) /\ Append(q, x)[a] = q[a]
         /\ \E a \in DOMAIN Append(q, x) : Append(q, x)[a] = x
         /\ \A a \in DOMAIN Append(q, x) :
              \/ a \in DOMAIN q /\ Append(q, x)[a] = q[a]
              \/ a \notin DOMAIN q /\ a = Len(q) + 1 /\ Append(q, x)[a] = x
<1>1. /\ Len(q) \in Nat
      /\ DOMAIN Append(q, x) = 1..Len(q) + 1
      /\ DOMAIN q = 1..Len(q)
  OBVIOUS
<1>2. /\ \A a \in 1..Len(q) : Append(q, x)[a] = q[a]
      /\ Append(q, x)[Len(q) + 1] = x
  OBVIOUS
<1>3. Append(q, x) \in Seq(S) /\ Len(Append(q, x)) = Len(q) + 1
  OBVIOUS
<1> QED
  BY <1>1, <1>2, <1>3

\* A ranking of a finite set is a sequence over it.
LEMMA RankingIsSeq ==
  ASSUME NEW C, IsFiniteSet(C), NEW name, NEW value, NEW n \in Nat,
         NEW r \in Ranking(C, name, value, n)
  PROVE  r \in Seq(C) /\ DOMAIN r = 1..Min({n, Cardinality(C)})
<1> DEFINE k == Min({n, Cardinality(C)})
<1>1. Cardinality(C) \in Nat
  BY FS_CardinalityType
<1>2. k \in Nat
  BY <1>1, MinOfTwo
<1>3. r \in [1..k -> C]
  BY DEF Ranking
<1> HIDE DEF k
<1>4. r \in Seq(C) /\ DOMAIN r = 1..k
  BY <1>2, <1>3
<1> QED
  BY <1>4 DEF k

\* A ranking that is not cut short names every member of the set.
LEMMA RankingIsComplete ==
  ASSUME NEW C, IsFiniteSet(C), NEW name, NEW value, NEW n \in Nat,
         NEW r \in Ranking(C, name, value, n), Len(r) < n,
         NEW c \in C
  PROVE  \E a \in DOMAIN r : r[a] = c
<1> DEFINE k == Min({n, Cardinality(C)})
<1>1. Cardinality(C) \in Nat
  BY FS_CardinalityType
<1>2. k \in Nat /\ (k = n \/ k = Cardinality(C))
  BY <1>1, MinOfTwo
<1>3. r \in [1..k -> C] /\ Len(r) = k
  BY DEF Ranking, IsTopN
<1>4. k = Cardinality(C)
  BY <1>2, <1>3
<1>5. \A a \in 1..k, b \in 1..k : a < b => r[a] # r[b]
  BY <1>3 DEF Ranking, IsTopN
<1> HIDE DEF k
<1>6. \A a \in 1..k, b \in 1..k : r[a] = r[b] => a = b
  BY <1>5, <1>2
<1>7. r \in Injection(1..k, C)
  BY <1>3, <1>6 DEF Injection, IsInjective
<1>8. IsFiniteSet(1..k) /\ Cardinality(1..k) = k
  <2>0. 1 \in Int /\ k \in Int
    BY <1>2
  <2>1. /\ IsFiniteSet(1..k)
        /\ Cardinality(1..k) = IF 1 > k THEN 0 ELSE k - 1 + 1
    BY ONLY <2>0, FS_Interval
  <2> QED
    BY <2>1, <1>2
<1>9. r \in Surjection(1..k, C)
  BY <1>7, <1>8, <1>4, FS_Injection
<1>10. \A d \in C : \E a \in 1..k : r[a] = d
  BY <1>9 DEF Surjection
<1> QED
  BY <1>10, <1>3

\* The suite of a scan is finite, and so is every set of its positions.
LEMMA PositionsFinite ==
  ASSUME tests \in Seq(TestRecord)
  PROVE  /\ Len(tests) \in Nat
         /\ Positions = 1..Len(tests)
         /\ IsFiniteSet(candidates)
<1>1. Len(tests) \in Nat /\ Positions = 1..Len(tests)
  BY DEF Positions
<1>2. IsFiniteSet(Positions)
  BY <1>1, FS_Interval
<1>3. candidates \in SUBSET Positions
  BY DEF candidates
<1> QED
  BY <1>1, <1>2, <1>3, FS_Subset

-------------------------------------------------------------------------------
(* Type correctness *)

\* The inputs of a scan stay what they were.
Inputs ==
  /\ tests \in Seq(TestRecord)
  /\ baseline \in [present : BOOLEAN, entries : Seq(Entry)]
  /\ include \in BOOLEAN
  /\ topN \in Nat
  /\ NoRepeat(Entries)

\* The inputs of a scan are well formed.
LEMMA InitInputs == Init => Inputs
<1> SUFFICES ASSUME Init PROVE Inputs
  OBVIOUS
<1>1. tests \in Seq(TestRecord)
  <2>1. tests \in Seq(Records)
    BY SeqUpToIsSeq, RecordsAssumption DEF Init
  <2> QED
    BY <2>1, RecordsAssumption
<1>2. /\ baseline \in [present : BOOLEAN, entries : Seq(Entry)]
      /\ NoRepeat(Entries)
  <2>1. PICK present \in BOOLEAN :
          \E entries \in SeqUpTo(EntrySpace, IF present THEN MaxEntries ELSE 0) :
            /\ NoRepeat(entries)
            /\ baseline = [present |-> present, entries |-> entries]
    BY DEF Init
  <2>2. PICK entries \in SeqUpTo(EntrySpace, IF present THEN MaxEntries ELSE 0) :
            /\ NoRepeat(entries)
            /\ baseline = [present |-> present, entries |-> entries]
    BY <2>1
  <2>3. entries \in Seq(EntrySpace)
    BY SeqUpToIsSeq, EntriesAssumption
  <2>4. entries \in Seq(Entry)
    BY <2>3, EntriesAssumption
  <2> QED
    BY <2>2, <2>4 DEF Entries
<1> QED
  BY <1>1, <1>2, OptionsAssumption DEF Init, Inputs

\* A scan starts with every variable of its type.
LEMMA InitType == Init => TypeOK
<1> SUFFICES ASSUME Init PROVE TypeOK
  OBVIOUS
<1>1. Inputs
  BY InitInputs
<1>2. Len(Entries) \in Nat
  BY <1>1 DEF Inputs, Entries
<1> QED
  BY <1>1, <1>2 DEF Init, Inputs, TypeOK, Positions

\* No step touches the inputs.
LEMMA NextInputs ==
  ASSUME Inputs, [Next]_vars
  PROVE  Inputs' /\ UNCHANGED <<inputs, Entries>>
<1>1. UNCHANGED inputs
  BY DEF Next, vars, Score, Index, MatchNext, UnknownTest, ContentChanged,
         SignalNotActive, Accepted, SortTouched, Applied, Rank, Done
<1> QED
  BY <1>1 DEF Inputs, inputs, Entries, NoRepeat

\* The entry the loop is at, and the position it resolved to.
LEMMA EntryAtHand ==
  ASSUME TypeOK, MatchNext
  PROVE  /\ entry \in Entry
         /\ next \in DOMAIN Entries
         /\ position \in 0..Len(tests)
         /\ next' \in 1..Len(Entries) + 1
<1>1. Entries \in Seq(Entry) /\ Len(Entries) \in Nat
  BY DEF TypeOK, Entries
<1>2. next \in 1..Len(Entries)
  BY <1>1 DEF TypeOK, MatchNext
<1> QED
  BY <1>1, <1>2 DEF TypeOK, MatchNext, entry, position

\* Every step keeps the types.
LEMMA NextType ==
  ASSUME TypeOK, Inputs, [Next]_vars
  PROVE  TypeOK'
<1> USE DEF inputs, scores, report, shortlists, Positions
<1>0. /\ UNCHANGED <<inputs, Entries>>
      /\ Len(tests) \in Nat /\ Positions = 1..Len(tests)
      /\ IsFiniteSet(candidates)
      /\ Len(Entries) \in Nat
  BY NextInputs, PositionsFinite DEF TypeOK, Entries
<1>1. CASE Score
  BY <1>0, <1>1 DEF Score, TypeOK
<1>2. CASE Index
  BY <1>0, <1>2 DEF Index, TypeOK
<1>3. ASSUME MatchNext, NEW status \in Statuses, StaleEntry(status)
      PROVE  TypeOK'
  <2>1. [entry |-> entry, status |-> status] \in [entry : Entry, status : Statuses]
    BY <1>3, EntryAtHand
  <2>2. stale' \in Seq([entry : Entry, status : Statuses])
    BY <1>3, <2>1 DEF StaleEntry, TypeOK
  <2> QED
    BY <1>0, <1>3, <2>2, EntryAtHand DEF StaleEntry, MatchNext, TypeOK
<1>4. CASE UnknownTest
  BY <1>3, <1>4 DEF UnknownTest, Statuses
<1>5. CASE ContentChanged
  BY <1>3, <1>5 DEF ContentChanged, Statuses
<1>6. CASE SignalNotActive
  BY <1>3, <1>6 DEF SignalNotActive, Statuses
<1>7. CASE Accepted
  <2>1. entry \in Entry /\ entry.signal \in Signals /\ position \in Positions
    BY <1>0, <1>7, EntryAtHand DEF Accepted, Entry
  <2>2. Append(accepted[position], entry.signal) \in Seq(Signals)
    BY <2>1, AppendElements DEF TypeOK
  <2>3. accepted' \in [Positions -> Seq(Signals)]
    BY <1>7, <2>1, <2>2 DEF Accepted, TypeOK
  <2>4. findings' \in Seq(Entry)
    BY <1>7, <2>1 DEF Accepted, TypeOK
  <2> QED
    BY <1>0, <1>7, <2>1, <2>3, <2>4, EntryAtHand DEF Accepted, MatchNext, TypeOK
<1>8. CASE SortTouched
  <2>1. PICK i \in touched : \E t \in [DOMAIN accepted[i] -> Signals] :
          /\ accepted' = [accepted EXCEPT ![i] = t]
          /\ touched' = touched \ {i}
    BY <1>8 DEF SortTouched
  <2> PICK t \in [DOMAIN accepted[i] -> Signals] :
          /\ accepted' = [accepted EXCEPT ![i] = t]
          /\ touched' = touched \ {i}
    BY <2>1
  <2>2. t \in Seq(Signals)
    BY <2>1 DEF TypeOK
  <2>3. accepted' \in [Positions -> Seq(Signals)]
    BY <2>1, <2>2 DEF TypeOK
  <2> QED
    BY <1>0, <1>8, <2>1, <2>3 DEF SortTouched, TypeOK
<1>9. CASE Applied
  BY <1>0, <1>9 DEF Applied, TypeOK
<1>10. CASE Rank
  <2>1. topTests' \in Seq(candidates)
    BY <1>0, <1>10, RankingIsSeq DEF Rank, TypeOK
  <2>2. candidates \subseteq Positions
    BY DEF candidates
  <2>3. topTests' \in Seq(Positions)
    BY <2>1, <2>2
  <2>4. topFiles' \in Seq(Files)
    BY <1>10, RankingIsSeq, NamesAreOrdered DEF Rank, TypeOK
  <2> QED
    BY <1>0, <1>10, <2>3, <2>4 DEF Rank, TypeOK
<1>11. CASE Done \/ UNCHANGED vars
  BY <1>0, <1>11 DEF Done, vars, TypeOK
<1> QED
  BY <1>1, <1>2, <1>4, <1>5, <1>6, <1>7, <1>8, <1>9, <1>10, <1>11 DEF Next

\* The inputs of a scan never change, and the baseline holds each pair once.
THEOREM InputsInvariant == Spec => []Inputs
<1>1. Inputs /\ [Next]_vars => Inputs'
  BY NextInputs
<1> QED
  BY InitInputs, <1>1, PTL DEF Spec

\* Every variable of a scan keeps its type.
THEOREM TypeCorrect == Spec => []TypeOK
<1>1. TypeOK /\ Inputs /\ [Next]_vars => TypeOK'
  BY NextType
<1> QED
  BY InitType, <1>1, InputsInvariant, PTL DEF Spec

-------------------------------------------------------------------------------
(* Every entry is reported once *)

\* What a turn of the loop does to the two reports, whichever of its outcomes
\* it takes: the entry at hand joins exactly one of them.
LEMMA TurnOfLoop ==
  ASSUME TypeOK, Inputs,
         UnknownTest \/ ContentChanged \/ SignalNotActive \/ Accepted
  PROVE  /\ next \in DOMAIN Entries
         /\ next' = next + 1
         /\ Len(findings') + Len(stale') = Len(findings) + Len(stale) + 1
         /\ \/ /\ \A e : Found(e)' <=> Found(e)
               /\ \A e : WentStale(e)' <=> WentStale(e) \/ e = Entries[next]
            \/ /\ \A e : Found(e)' <=> Found(e) \/ e = Entries[next]
               /\ \A e : WentStale(e)' <=> WentStale(e)
<1>0. MatchNext
  BY DEF UnknownTest, ContentChanged, SignalNotActive, Accepted
<1>1. entry \in Entry /\ next \in DOMAIN Entries /\ entry = Entries[next]
  BY <1>0, EntryAtHand DEF entry
<1>2. Len(findings) \in Nat /\ Len(stale) \in Nat
  BY DEF TypeOK
<1>3. ASSUME NEW status \in Statuses, StaleEntry(status)
      PROVE  /\ Len(findings') + Len(stale') = Len(findings) + Len(stale) + 1
             /\ \A e : Found(e)' <=> Found(e)
             /\ \A e : WentStale(e)' <=> WentStale(e) \/ e = Entries[next]
  <2> DEFINE x == [entry |-> entry, status |-> status]
  <2>1. x \in [entry : Entry, status : Statuses]
    BY <1>1
  <2>2. stale \in Seq([entry : Entry, status : Statuses])
    BY DEF TypeOK
  <2>3. stale' = Append(stale, x) /\ findings' = findings
    BY <1>3 DEF StaleEntry
  <2>4. x.entry = Entries[next]
    BY <1>1
  <2> HIDE DEF x
  <2>5. /\ Len(stale') = Len(stale) + 1
        /\ \A a \in DOMAIN stale : a \in DOMAIN stale' /\ stale'[a] = stale[a]
        /\ \E a \in DOMAIN stale' : stale'[a] = x
        /\ \A a \in DOMAIN stale' :
             (a \in DOMAIN stale /\ stale'[a] = stale[a]) \/ stale'[a] = x
    BY <2>1, <2>2, <2>3, AppendElements
  <2>6. \A e : WentStale(e)' <=> WentStale(e) \/ e = Entries[next]
    BY <2>4, <2>5 DEF WentStale
  <2> QED
    BY <1>2, <2>3, <2>5, <2>6 DEF Found
<1>4. CASE UnknownTest \/ ContentChanged \/ SignalNotActive
  <2>1. \E status \in Statuses : StaleEntry(status)
    BY <1>4 DEF UnknownTest, ContentChanged, SignalNotActive, Statuses
  <2> QED
    BY <1>0, <1>1, <1>3, <2>1 DEF MatchNext
<1>5. CASE Accepted
  <2>1. findings \in Seq(Entry)
    BY DEF TypeOK
  <2>2. findings' = Append(findings, entry) /\ stale' = stale
    BY <1>5 DEF Accepted
  <2>3. /\ Len(findings') = Len(findings) + 1
        /\ \A a \in DOMAIN findings :
             a \in DOMAIN findings' /\ findings'[a] = findings[a]
        /\ \E a \in DOMAIN findings' : findings'[a] = entry
        /\ \A a \in DOMAIN findings' :
             (a \in DOMAIN findings /\ findings'[a] = findings[a])
             \/ findings'[a] = entry
    BY <1>1, <2>1, <2>2, AppendElements
  <2>4. \A e : Found(e)' <=> Found(e) \/ e = Entries[next]
    BY <1>1, <2>3 DEF Found
  <2> QED
    BY <1>0, <1>1, <1>2, <2>2, <2>3, <2>4 DEF MatchNext, WentStale
<1> QED
  BY <1>4, <1>5

\* The steps that are not a turn of the loop leave the reports alone.
LEMMA ReportsKept ==
  ASSUME Score \/ Index \/ SortTouched \/ Applied \/ Rank \/ Done \/ UNCHANGED vars
  PROVE  UNCHANGED <<next, findings, stale>>
BY DEF Score, Index, SortTouched, Applied, Rank, Done, vars, report

\* apply() reports every entry it has taken exactly once, at every moment.
THEOREM EntriesAccountedFor == Spec => []EveryEntryAccountedForOnce
<1>1. Init => EveryEntryAccountedForOnce
  <2> SUFFICES ASSUME Init PROVE EveryEntryAccountedForOnce
    OBVIOUS
  <2>1. Inputs
    BY InitInputs
  <2>2. DOMAIN Entries = 1..Len(Entries) /\ Len(Entries) \in Nat
    BY <2>1 DEF Inputs, Entries
  <2> QED
    BY <2>2 DEF Init, EveryEntryAccountedForOnce, Found, WentStale
<1>2. ASSUME EveryEntryAccountedForOnce, TypeOK, Inputs, [Next]_vars
      PROVE  EveryEntryAccountedForOnce'
  <2>1. Entries' = Entries /\ NoRepeat(Entries) /\ DOMAIN Entries \subseteq Nat
        /\ next \in Nat /\ Len(findings) \in Nat /\ Len(stale) \in Nat
    BY <1>2, NextInputs DEF Inputs, Entries, TypeOK
  <2>2. CASE UnknownTest \/ ContentChanged \/ SignalNotActive \/ Accepted
    <3>1. \A k \in DOMAIN Entries : Entries[k] = Entries[next] => k = next
      BY <1>2, <2>1, <2>2, TurnOfLoop DEF NoRepeat
    <3>2. next' = next + 1
          /\ Len(findings') + Len(stale') = Len(findings) + Len(stale) + 1
      BY <1>2, <2>2, TurnOfLoop
    <3>3. ASSUME NEW k \in DOMAIN Entries
          PROVE  /\ k < next' => (Found(Entries[k])' <=> ~WentStale(Entries[k])')
                 /\ k >= next' => ~Found(Entries[k])' /\ ~WentStale(Entries[k])'
      <4>1. CASE k = next
        BY <1>2, <2>1, <2>2, <3>2, <4>1, TurnOfLoop DEF EveryEntryAccountedForOnce
      <4>2. CASE k # next
        <5>1. Entries[k] # Entries[next]
          BY <3>1, <4>2
        <5>2. (Found(Entries[k])' <=> Found(Entries[k]))
              /\ (WentStale(Entries[k])' <=> WentStale(Entries[k]))
          BY <1>2, <2>1, <2>2, <5>1, TurnOfLoop
        <5>3. (k < next' <=> k < next) /\ (k >= next' => k >= next)
          BY <2>1, <3>2, <4>2
        <5> QED
          BY <1>2, <5>2, <5>3 DEF EveryEntryAccountedForOnce
      <4> QED
        BY <4>1, <4>2
    <3> QED
      BY <1>2, <2>1, <3>2, <3>3 DEF EveryEntryAccountedForOnce
  <2>3. CASE Score \/ Index \/ SortTouched \/ Applied \/ Rank \/ Done \/ UNCHANGED vars
    BY <1>2, <2>1, <2>3, ReportsKept
       DEF EveryEntryAccountedForOnce, Found, WentStale
  <2> QED
    BY <1>2, <2>2, <2>3 DEF Next
<1> QED
  BY <1>1, <1>2, TypeCorrect, InputsInvariant, PTL DEF Spec

-------------------------------------------------------------------------------
(* Nothing is held back that was not reviewed *)

\* The index sends an entry to a test of its nodeid or nowhere.
ResolvedRight ==
  pc = "match" => \A k \in DOMAIN Entries : resolved[k] # 0 =>
    resolved[k] \in Positions /\ tests[resolved[k]].nodeid = Entries[k].test

\* Every signal in accepted_signals was reviewed on that very test.
AcceptedBacked ==
  \A i \in Positions : \A a \in DOMAIN accepted[i] :
    Reviewed(tests[i], accepted[i][a])

\* A shortlist shorter than the cap names every candidate.
ShortlistComplete ==
  pc = "done" /\ Len(topTests) < topN => \A i \in candidates : Listed(i)

HeldBackInv == ResolvedRight /\ AcceptedBacked /\ ShortlistComplete

\* An accepted entry was reviewed on the test it resolved to.
LEMMA AcceptedIsReviewed ==
  ASSUME TypeOK, ResolvedRight, Accepted
  PROVE  /\ position \in Positions
         /\ tests[position].nodeid = entry.test
         /\ Reviewed(tests[position], entry.signal)
<1>1. MatchNext /\ position # 0
  BY DEF Accepted
<1>2. next \in DOMAIN Entries /\ entry = Entries[next] /\ position = resolved[next]
  BY <1>1, EntryAtHand DEF entry, position
<1>3. position \in Positions /\ tests[position].nodeid = entry.test
  BY <1>1, <1>2 DEF ResolvedRight, MatchNext
<1>4. entry.fingerprint \in {NoFingerprint, tests[position].fingerprint}
  BY DEF Accepted, ContentDiffers
<1> QED
  BY <1>2, <1>3, <1>4 DEF Reviewed

\* Only a turn that accepts adds to accepted_signals, and what it adds was reviewed.
LEMMA AcceptedBackedStep ==
  ASSUME TypeOK, Inputs, ResolvedRight, AcceptedBacked, [Next]_vars
  PROVE  AcceptedBacked'
<1>0. /\ UNCHANGED <<tests, Entries>> /\ Positions' = Positions
      /\ \A t, s : Reviewed(t, s)' <=> Reviewed(t, s)
  <2>1. UNCHANGED <<tests, Entries>>
    BY NextInputs DEF inputs
  <2> QED
    BY <2>1 DEF Positions, Reviewed
<1>1. CASE Accepted
  <2>1. /\ position \in Positions
        /\ Reviewed(tests[position], entry.signal)
        /\ entry.signal \in Signals
    BY <1>1, AcceptedIsReviewed DEF Accepted, active_signals
  <2>2. accepted[position] \in Seq(Signals)
    BY <2>1 DEF TypeOK
  <2>3. \A a \in DOMAIN Append(accepted[position], entry.signal) :
          \/ /\ a \in DOMAIN accepted[position]
             /\ Append(accepted[position], entry.signal)[a] = accepted[position][a]
          \/ Append(accepted[position], entry.signal)[a] = entry.signal
    BY <2>1, <2>2, AppendElements
  <2>4. /\ accepted'[position] = Append(accepted[position], entry.signal)
        /\ \A i \in Positions : i # position => accepted'[i] = accepted[i]
    BY <1>1, <2>1 DEF Accepted, TypeOK
  <2>5. ASSUME NEW i \in Positions, NEW a \in DOMAIN accepted'[i]
        PROVE  Reviewed(tests[i], accepted'[i][a])
    BY <2>1, <2>3, <2>4, <2>5 DEF AcceptedBacked
  <2> QED
    BY <1>0, <2>5 DEF AcceptedBacked
<1>2. CASE SortTouched
  <2>1. PICK i \in touched : \E t \in [DOMAIN accepted[i] -> Signals] :
          IsSorted(accepted[i], t) /\ accepted' = [accepted EXCEPT ![i] = t]
    BY <1>2 DEF SortTouched
  <2>2. PICK t \in [DOMAIN accepted[i] -> Signals] :
          IsSorted(accepted[i], t) /\ accepted' = [accepted EXCEPT ![i] = t]
    BY <2>1
  <2>3. \A a \in DOMAIN t : \E b \in DOMAIN accepted[i] : t[a] = accepted[i][b]
    BY <2>2 DEF IsSorted
  <2>4. /\ accepted'[i] = t
        /\ \A j \in Positions : j # i => accepted'[j] = accepted[j]
        /\ i \in Positions
    BY <2>1, <2>2 DEF TypeOK
  <2>5. ASSUME NEW j \in Positions, NEW a \in DOMAIN accepted'[j]
        PROVE  Reviewed(tests[j], accepted'[j][a])
    BY <2>3, <2>4 DEF AcceptedBacked
  <2> QED
    BY <1>0, <2>5 DEF AcceptedBacked
<1>3. CASE UNCHANGED accepted
  BY <1>0, <1>3 DEF AcceptedBacked
<1>4. Next /\ ~Accepted /\ ~SortTouched => UNCHANGED accepted
  BY DEF Next, Score, Index, UnknownTest, ContentChanged, SignalNotActive, StaleEntry,
         Applied, Rank, Done, vars, report
<1> QED
  BY <1>1, <1>2, <1>3, <1>4 DEF vars, report

\* Only the index says where an entry leads.
LEMMA ResolvedRightStep ==
  ASSUME TypeOK, Inputs, ResolvedRight, [Next]_vars
  PROVE  ResolvedRight'
<1>0. UNCHANGED <<tests, Entries>> /\ Positions' = Positions
  BY NextInputs DEF inputs, Positions
<1>1. CASE Index
  <2>1. PICK r \in [DOMAIN Entries -> 0..Len(tests)] :
          (\A k \in DOMAIN Entries : IsPosition(Entries[k].test, r[k])) /\ resolved' = r
    BY <1>1 DEF Index
  <2>2. ASSUME NEW k \in DOMAIN Entries, r[k] # 0
        PROVE  r[k] \in Positions /\ tests[r[k]].nodeid = Entries[k].test
    BY <2>1, <2>2 DEF IsPosition
  <2> QED
    BY <1>0, <2>1, <2>2 DEF ResolvedRight
<1>2. CASE UNCHANGED <<pc, resolved>> \/ pc' # "match"
  BY <1>0, <1>2 DEF ResolvedRight
<1>3. Next /\ ~Index => UNCHANGED <<pc, resolved>> \/ pc' # "match"
  BY DEF Next, Score, MatchNext, UnknownTest, ContentChanged, SignalNotActive, Accepted,
         SortTouched, Applied, Rank, Done, vars
<1> QED
  BY <1>1, <1>2, <1>3 DEF vars

\* Ranking lists every candidate when the shortlist has room.
LEMMA ShortlistCompleteStep ==
  ASSUME TypeOK, Inputs, ShortlistComplete, [Next]_vars
  PROVE  ShortlistComplete'
<1>1. CASE Rank
  <2>1. UNCHANGED <<inputs, accepted>>
    BY <1>1 DEF Rank, report
  <2>2. candidates' = candidates /\ topN' = topN
    BY <2>1 DEF candidates, accepted_in_full, Positions, inputs
  <2>3. ASSUME Len(topTests') < topN, NEW i \in candidates
        PROVE  \E a \in DOMAIN topTests' : topTests'[a] = i
    BY <1>1, <2>3, PositionsFinite, RankingIsComplete DEF Rank, TypeOK
  <2> QED
    BY <2>2, <2>3 DEF ShortlistComplete, Listed
<1>2. CASE pc' # "done"
  BY <1>2 DEF ShortlistComplete
<1>3. CASE UNCHANGED vars
  BY <1>3 DEF ShortlistComplete, Listed, candidates, accepted_in_full, Positions,
              vars, inputs, report, shortlists
<1>4. Next /\ ~Rank /\ pc' = "done" => UNCHANGED vars
  BY DEF Next, Score, Index, MatchNext, UnknownTest, ContentChanged, SignalNotActive,
         Accepted, SortTouched, Applied, Done, vars
<1> QED
  BY <1>1, <1>2, <1>3, <1>4

\* A test missing from an uncut shortlist had every firing signal reviewed as
\* it stands.
THEOREM NothingHeldBackUnreviewed == Spec => []HeldBackMeansReviewed
<1>1. Init => HeldBackInv
  BY DEF Init, HeldBackInv, ResolvedRight, AcceptedBacked, ShortlistComplete
<1>2. HeldBackInv /\ TypeOK /\ Inputs /\ [Next]_vars => HeldBackInv'
  BY AcceptedBackedStep, ResolvedRightStep, ShortlistCompleteStep DEF HeldBackInv
<1>3. HeldBackInv => HeldBackMeansReviewed
  <2> SUFFICES ASSUME HeldBackInv, pc = "done", Len(topTests) < topN,
                      NEW i \in Positions, ~Listed(i)
               PROVE  /\ ~include
                      /\ active_signals(tests[i]) # {}
                      /\ \A s \in active_signals(tests[i]) : Reviewed(tests[i], s)
    BY DEF HeldBackMeansReviewed
  <2>1. ~include /\ accepted_in_full(i)
    BY DEF HeldBackInv, ShortlistComplete, candidates
  <2> QED
    BY <2>1 DEF accepted_in_full, HeldBackInv, AcceptedBacked
<1> QED
  BY <1>1, <1>2, <1>3, TypeCorrect, InputsInvariant, PTL DEF Spec

-------------------------------------------------------------------------------
(* accepted_signals is canonical *)

StrictlyAlphabetical(q) ==
  \A a \in DOMAIN q, b \in DOMAIN q :
    a < b => Alphabetical(q[a]) < Alphabetical(q[b])

\* A list that still has to be sorted is marked, and only the loop marks one.
UntouchedSorted ==
  /\ pc # "match" => touched = {}
  /\ \A i \in Positions : i \notin touched => StrictlyAlphabetical(accepted[i])

\* Signal s of test i was accepted by an entry the loop has taken.
Taken(i, s) ==
  \E k \in DOMAIN Entries :
    /\ k < next
    /\ Entries[k].test = tests[i].nodeid
    /\ Entries[k].signal = s
    /\ Found(Entries[k])

AllTaken ==
  \A i \in Positions : \A a \in DOMAIN accepted[i] : Taken(i, accepted[i][a])

NoneTwice ==
  \A i \in Positions : \A a \in DOMAIN accepted[i], b \in DOMAIN accepted[i] :
    accepted[i][a] = accepted[i][b] => a = b

NoneMissing ==
  DistinctNodeIds(tests) =>
    \A i \in Positions : \A f \in DOMAIN findings :
      findings[f].test = tests[i].nodeid =>
        \E a \in DOMAIN accepted[i] : accepted[i][a] = findings[f].signal

CanonicalInv == UntouchedSorted /\ AllTaken /\ NoneTwice /\ NoneMissing

\* A sorted rearrangement of a list without repetition has the same members,
\* in strictly alphabetical order.
LEMMA SortedRearrangement ==
  ASSUME NEW s \in Seq(Signals), NEW t \in [DOMAIN s -> Signals], IsSorted(s, t),
         \A a \in DOMAIN s, b \in DOMAIN s : s[a] = s[b] => a = b
  PROVE  /\ StrictlyAlphabetical(t)
         /\ DOMAIN t = DOMAIN s
         /\ \A a \in DOMAIN s : \E b \in DOMAIN s : t[a] = s[b]
         /\ \A a \in DOMAIN s : \E b \in DOMAIN s : s[a] = t[b]
         /\ \A a \in DOMAIN t, b \in DOMAIN t : t[a] = t[b] => a = b
<1>1. DOMAIN s = 1..Len(s) /\ Len(s) \in Nat /\ DOMAIN t = DOMAIN s
  OBVIOUS
<1>2. PICK p \in [DOMAIN s -> DOMAIN s] :
        /\ \A a \in DOMAIN s, b \in DOMAIN s : p[a] = p[b] => a = b
        /\ \A a \in DOMAIN s : t[a] = s[p[a]]
  BY DEF IsSorted
<1>3. p \in Injection(DOMAIN s, DOMAIN s)
  BY <1>2 DEF Injection, IsInjective
<1>4. IsFiniteSet(DOMAIN s)
  <2>1. 1 \in Int /\ Len(s) \in Int
    BY <1>1
  <2> QED
    BY ONLY <1>1, <2>1, FS_Interval
<1>5. p \in Surjection(DOMAIN s, DOMAIN s)
  BY <1>3, <1>4, FS_Injection
<1>6. \A a \in DOMAIN s : \E b \in DOMAIN s : p[b] = a
  BY <1>5 DEF Surjection
<1>7. \A a \in DOMAIN s, b \in DOMAIN s : t[a] = t[b] => a = b
  BY <1>2
<1>8. ASSUME NEW a \in DOMAIN t, NEW b \in DOMAIN t, a < b
      PROVE  Alphabetical(t[a]) < Alphabetical(t[b])
  <2>1. t[a] \in Signals /\ t[b] \in Signals /\ t[a] # t[b]
    BY <1>1, <1>7, <1>8
  <2>2. Alphabetical(t[a]) =< Alphabetical(t[b])
    BY <1>1, <1>8 DEF IsSorted
  <2>3. \A u \in Signals : Alphabetical(u) \in Nat
    BY DEF Signals, SmellCategories, Alphabetical
  <2>4. \A u \in Signals, v \in Signals : Alphabetical(u) = Alphabetical(v) => u = v
    BY DEF Signals, SmellCategories, Alphabetical
  <2> QED
    BY <2>1, <2>2, <2>3, <2>4
<1>9. StrictlyAlphabetical(t)
  BY <1>8 DEF StrictlyAlphabetical
<1>10. \A a \in DOMAIN s : \E b \in DOMAIN s : s[a] = t[b]
  BY <1>2, <1>6
<1> QED
  BY <1>1, <1>2, <1>7, <1>9, <1>10

\* The turn that accepts an entry keeps the lists right, if not sorted.
LEMMA CanonicalAccepted ==
  ASSUME TypeOK, Inputs, ResolvedRight, CanonicalInv, EveryEntryAccountedForOnce, Accepted
  PROVE  CanonicalInv'
<1>0. /\ UNCHANGED <<tests, Entries>> /\ Positions' = Positions
      /\ DistinctNodeIds(tests)' <=> DistinctNodeIds(tests)
  <2>1. [Next]_vars
    BY DEF Next
  <2> QED
    BY <2>1, NextInputs DEF inputs, Positions, DistinctNodeIds
<1>1. /\ position \in Positions
      /\ tests[position].nodeid = entry.test
      /\ entry.signal \in Signals
      /\ MatchNext
      /\ entry = Entries[next]
  BY AcceptedIsReviewed DEF Accepted, active_signals, entry
<1>2. /\ next \in DOMAIN Entries /\ next' = next + 1 /\ next \in Nat
      /\ \A e : Found(e) \/ e = Entries[next] => Found(e)'
      /\ DOMAIN Entries \subseteq Nat
      /\ pc = "match" /\ pc' = "match"
  <2>1. \A e : Found(e)' <=> Found(e) \/ e = Entries[next]
    <3>1. findings \in Seq(Entry) /\ entry \in Entry
      BY <1>1, EntryAtHand DEF TypeOK
    <3> findings' = Append(findings, entry)
      BY DEF Accepted
    <3>2. /\ \A a \in DOMAIN findings :
               a \in DOMAIN findings' /\ findings'[a] = findings[a]
          /\ \E a \in DOMAIN findings' : findings'[a] = entry
          /\ \A a \in DOMAIN findings' :
               (a \in DOMAIN findings /\ findings'[a] = findings[a])
               \/ findings'[a] = entry
      BY <3>1, AppendElements
    <3> QED
      BY <1>1, <3>2 DEF Found
  <2> QED
    BY <1>1, <2>1, EntryAtHand DEF MatchNext, TypeOK, Entries
<1> DEFINE q == accepted[position]
           r == Append(q, entry.signal)
<1>3. q \in Seq(Signals)
  BY <1>1 DEF TypeOK
<1>4. /\ accepted'[position] = r
      /\ \A i \in Positions : i # position => accepted'[i] = accepted[i]
      /\ touched' = touched \cup {position}
  <2>1. /\ accepted' = [accepted EXCEPT ![position] = r]
        /\ touched' = touched \cup {position}
    BY DEF Accepted
  <2>2. DOMAIN accepted = Positions
    BY DEF TypeOK
  <2> HIDE DEF r
  <2> QED
    BY <1>1, <2>1, <2>2
<1>5. /\ \A a \in DOMAIN q : a \in DOMAIN r /\ r[a] = q[a]
      /\ \E a \in DOMAIN r : r[a] = entry.signal
      /\ \A a \in DOMAIN r :
           \/ a \in DOMAIN q /\ r[a] = q[a]
           \/ a \notin DOMAIN q /\ a = Len(q) + 1 /\ r[a] = entry.signal
  <2>1. entry.signal \in Signals
    BY <1>1
  <2> HIDE DEF q
  <2> QED
    BY <1>3, <2>1, AppendElements
<1> HIDE DEF q, r
<1>6. UntouchedSorted'
  BY <1>0, <1>2, <1>4 DEF CanonicalInv, UntouchedSorted, StrictlyAlphabetical
<1>7. AllTaken'
  <2>1. \A s : \A i \in Positions : Taken(i, s) => Taken(i, s)'
    BY <1>0, <1>2 DEF Taken
  <2>2. \A s : \A i \in Positions :
          i = position /\ s = entry.signal => Taken(i, s)'
    BY <1>0, <1>1, <1>2 DEF Taken
  <2>3. ASSUME NEW i \in Positions, NEW a \in DOMAIN accepted'[i],
               NEW s, s = accepted'[i][a]
        PROVE  Taken(i, s)'
    <3>1. CASE i # position
      BY <1>4, <2>1, <2>3, <3>1 DEF CanonicalInv, AllTaken
    <3>2. CASE i = position
      <4>1. CASE a \in DOMAIN q /\ r[a] = q[a]
        BY <1>4, <2>1, <2>3, <3>2, <4>1 DEF CanonicalInv, AllTaken, q
      <4>2. CASE r[a] = entry.signal
        BY <1>4, <2>2, <2>3, <3>2, <4>2
      <4> QED
        BY <1>4, <1>5, <2>3, <3>2, <4>1, <4>2
    <3> QED
      BY <3>1, <3>2
  <2> QED
    BY <1>0, <2>3 DEF AllTaken, Taken
<1>8. NoneTwice'
  <2>1. \A a \in DOMAIN q : q[a] # entry.signal
    <3>1. SUFFICES ASSUME NEW a \in DOMAIN q, q[a] = entry.signal PROVE FALSE
      OBVIOUS
    <3>2. PICK k \in DOMAIN Entries :
            /\ k < next
            /\ Entries[k].test = tests[position].nodeid
            /\ Entries[k].signal = entry.signal
      BY <1>1, <3>1 DEF CanonicalInv, AllTaken, Taken, q
    <3> QED
      BY <1>1, <1>2, <3>2 DEF Inputs, NoRepeat
  <2>2. ASSUME NEW a \in DOMAIN r, NEW b \in DOMAIN r, r[a] = r[b]
        PROVE  a = b
    <3>1. \A c \in DOMAIN q, d \in DOMAIN q : q[c] = q[d] => c = d
      BY <1>1 DEF CanonicalInv, NoneTwice, q
    <3> QED
      BY <1>5, <2>1, <2>2, <3>1
  <2> QED
    BY <1>0, <1>4, <2>2 DEF CanonicalInv, NoneTwice
<1>9. NoneMissing'
  <2>1. findings \in Seq(Entry) /\ entry \in Entry
    BY <1>1, EntryAtHand DEF TypeOK
  <2>2. \A f \in DOMAIN findings' :
          \/ f \in DOMAIN findings /\ findings'[f] = findings[f]
          \/ findings'[f] = entry
    BY <2>1, AppendElements DEF Accepted
  <2>3. ASSUME DistinctNodeIds(tests), NEW i \in Positions, NEW f \in DOMAIN findings',
               findings'[f].test = tests[i].nodeid
        PROVE  \E a \in DOMAIN accepted'[i] : accepted'[i][a] = findings'[f].signal
    <3>1. CASE findings'[f] = entry
      <4>1. i = position
        BY <1>1, <2>3, <3>1 DEF DistinctNodeIds, Positions
      <4> QED
        BY <1>4, <1>5, <3>1, <4>1
    <3>2. CASE f \in DOMAIN findings /\ findings'[f] = findings[f]
      <4>1. PICK a \in DOMAIN accepted[i] : accepted[i][a] = findings[f].signal
        BY <2>3, <3>2 DEF CanonicalInv, NoneMissing
      <4> QED
        BY <1>4, <1>5, <3>2, <4>1 DEF q
    <3> QED
      BY <2>2, <3>1, <3>2
  <2> QED
    BY <1>0, <2>3 DEF NoneMissing
<1> QED
  BY <1>6, <1>7, <1>8, <1>9 DEF CanonicalInv

\* Sorting a touched list makes it alphabetical and loses nothing.
LEMMA CanonicalSort ==
  ASSUME TypeOK, Inputs, CanonicalInv, SortTouched
  PROVE  CanonicalInv'
<1>0. /\ UNCHANGED <<tests, Entries, findings, next, pc>> /\ Positions' = Positions
  <2>1. [Next]_vars
    BY DEF Next
  <2> QED
    BY <2>1, NextInputs DEF inputs, Positions, SortTouched
<1>1. PICK i \in touched : \E t \in [DOMAIN accepted[i] -> Signals] :
        /\ IsSorted(accepted[i], t)
        /\ accepted' = [accepted EXCEPT ![i] = t]
        /\ touched' = touched \ {i}
  BY DEF SortTouched
<1>2. PICK t \in [DOMAIN accepted[i] -> Signals] :
        /\ IsSorted(accepted[i], t)
        /\ accepted' = [accepted EXCEPT ![i] = t]
        /\ touched' = touched \ {i}
  BY <1>1
<1>3. i \in Positions /\ accepted[i] \in Seq(Signals)
  BY DEF TypeOK
<1>4. /\ accepted'[i] = t
      /\ \A j \in Positions : j # i => accepted'[j] = accepted[j]
  BY <1>2, <1>3 DEF TypeOK
<1>5. /\ StrictlyAlphabetical(t)
      /\ DOMAIN t = DOMAIN accepted[i]
      /\ \A a \in DOMAIN accepted[i] : \E b \in DOMAIN accepted[i] : t[a] = accepted[i][b]
      /\ \A a \in DOMAIN accepted[i] : \E b \in DOMAIN accepted[i] : accepted[i][a] = t[b]
      /\ \A a \in DOMAIN t, b \in DOMAIN t : t[a] = t[b] => a = b
  BY <1>2, <1>3, SortedRearrangement DEF CanonicalInv, NoneTwice
<1>6. UntouchedSorted'
  BY <1>0, <1>2, <1>4, <1>5
     DEF CanonicalInv, UntouchedSorted, StrictlyAlphabetical, SortTouched
<1>7. AllTaken'
  <2>1. \A s : \A j \in Positions : Taken(j, s)' <=> Taken(j, s)
    BY <1>0 DEF Taken, Found
  <2>2. \A j \in Positions : \A a \in DOMAIN accepted'[j] : Taken(j, accepted'[j][a])
    BY <1>3, <1>4, <1>5 DEF CanonicalInv, AllTaken
  <2> QED
    BY <1>0, <2>1, <2>2 DEF AllTaken
<1>8. NoneTwice'
  BY <1>0, <1>4, <1>5 DEF CanonicalInv, NoneTwice
<1>9. NoneMissing'
  <2>1. ASSUME DistinctNodeIds(tests), NEW j \in Positions, NEW f \in DOMAIN findings,
               findings[f].test = tests[j].nodeid
        PROVE  \E a \in DOMAIN accepted'[j] : accepted'[j][a] = findings[f].signal
    <3>1. PICK a \in DOMAIN accepted[j] : accepted[j][a] = findings[f].signal
      BY <2>1 DEF CanonicalInv, NoneMissing
    <3> QED
      BY <1>4, <1>5, <3>1
  <2> QED
    BY <1>0, <2>1 DEF NoneMissing, DistinctNodeIds
<1> QED
  BY <1>6, <1>7, <1>8, <1>9 DEF CanonicalInv

\* Any other step leaves the lists and the findings alone.
LEMMA CanonicalOther ==
  ASSUME TypeOK, Inputs, CanonicalInv, [Next]_vars, ~Accepted, ~SortTouched,
         EveryEntryAccountedForOnce
  PROVE  CanonicalInv'
<1>0. UNCHANGED <<tests, Entries>> /\ Positions' = Positions
  BY NextInputs DEF inputs, Positions
<1>1. /\ UNCHANGED <<findings, accepted, touched>>
      /\ next' = next \/ next' = next + 1
      /\ pc' # "match" => touched = {} \/ pc' = pc
  BY DEF Next, Score, Index, MatchNext, UnknownTest, ContentChanged, SignalNotActive,
         StaleEntry, Applied, Rank, Done, vars, report, CanonicalInv, UntouchedSorted
<1>2. next \in Nat /\ DOMAIN Entries \subseteq Nat
  BY DEF TypeOK, Entries
<1>3. UntouchedSorted'
  BY <1>0, <1>1 DEF CanonicalInv, UntouchedSorted, StrictlyAlphabetical
<1>4. AllTaken'
  <2>1. \A s : \A i \in Positions : Taken(i, s) => Taken(i, s)'
    BY <1>0, <1>1, <1>2 DEF Taken, Found
  <2> QED
    BY <1>0, <1>1, <2>1 DEF CanonicalInv, AllTaken
<1>5. NoneTwice' /\ NoneMissing'
  BY <1>0, <1>1 DEF CanonicalInv, NoneTwice, NoneMissing, DistinctNodeIds
<1> QED
  BY <1>3, <1>4, <1>5 DEF CanonicalInv

\* The lists of a scan stay right at every step.
LEMMA CanonicalInvariant == Spec => []CanonicalInv
<1>1. Init => CanonicalInv /\ ResolvedRight
  BY DEF Init, CanonicalInv, UntouchedSorted, StrictlyAlphabetical, AllTaken, NoneTwice,
         NoneMissing, ResolvedRight
<1>2. /\ CanonicalInv /\ ResolvedRight
      /\ EveryEntryAccountedForOnce /\ TypeOK /\ Inputs /\ [Next]_vars
      => CanonicalInv' /\ ResolvedRight'
  BY ResolvedRightStep, CanonicalAccepted, CanonicalSort, CanonicalOther
<1> QED
  BY <1>1, <1>2, TypeCorrect, InputsInvariant, EntriesAccountedFor, PTL DEF Spec

\* The reported accepted_signals do not depend on the order of the file.
THEOREM AcceptedSignalsAreCanonical == Spec => []AcceptedSignalsCanonical
<1>1. CanonicalInv => AcceptedSignalsCanonical
  <2> SUFFICES ASSUME CanonicalInv, pc \in {"rank", "done"}, NEW i \in Positions
               PROVE  /\ StrictlyAlphabetical(accepted[i])
                      /\ \A a \in DOMAIN accepted[i] : \E f \in DOMAIN findings :
                           /\ findings[f].test = tests[i].nodeid
                           /\ findings[f].signal = accepted[i][a]
                      /\ DistinctNodeIds(tests) =>
                           \A f \in DOMAIN findings :
                             findings[f].test = tests[i].nodeid =>
                               \E a \in DOMAIN accepted[i] :
                                 accepted[i][a] = findings[f].signal
    BY DEF AcceptedSignalsCanonical, StrictlyAlphabetical
  <2> QED
    BY DEF CanonicalInv, UntouchedSorted, AllTaken, Taken, Found, NoneMissing
<1> QED
  BY <1>1, CanonicalInvariant, PTL

-------------------------------------------------------------------------------
(* The contract's terms are those of Evidence *)

\* The contract reads the same signals off a test.
LEMMA SameSignals == \A t : Contract!active_signals(t) = active_signals(t)
BY DEF Contract!active_signals, active_signals, Contract!Signals, Signals,
       Contract!derive_test_smells, derive_test_smells,
       Contract!verifies_nothing, verifies_nothing,
       Contract!SmellCategories, SmellCategories,
       Contract!HighSetupRatio, HighSetupRatio,
       Contract!mock_overuse_fires, mock_overuse_fires, Contract!Max, Max

\* The contract ranks by the same score.
LEMMA SameScore == \A t : Contract!score_test(t) = score_test(t)
BY DEF Contract!score_test, score_test, Contract!Weight, Weight,
       Contract!derive_test_smells, derive_test_smells,
       Contract!verifies_nothing, verifies_nothing,
       Contract!SmellCategories, SmellCategories,
       Contract!mock_overuse_fires, mock_overuse_fires, Contract!Max, Max,
       Contract!Min, Min, Contract!Cardinality, Cardinality

\* The contract counts and compares alike.
LEMMA SameCounts ==
  /\ \A S : Contract!Cardinality(S) = Cardinality(S)
  /\ \A S : Contract!Min(S) = Min(S)
  /\ \A i, j, value, name :
       Contract!Outranks(i, j, value, name) <=> Outranks(i, j, value, name)
BY DEF Contract!Cardinality, Cardinality, Contract!Min, Min, Contract!Outranks,
       Outranks

\* A nodeid is borne by one position at most.
LEMMA BornOnce ==
  ASSUME tests \in Seq(TestRecord), NEW id, NEW i \in Positions, NEW j \in Positions,
         Contract!Bears(i, id), Contract!Bears(j, id)
  PROVE  i = j
<1>1. i \in Nat /\ j \in Nat
  BY DEF Positions
<1>2. i =< j /\ j =< i
  BY DEF Contract!Bears, Contract!Positions, Positions
<1> QED BY <1>1, <1>2

-------------------------------------------------------------------------------
(* The ranking *)

\* Scores are numbers.
LEMMA ScoreType == \A t \in TestRecord : score_test(t) \in Nat
<1> SUFFICES ASSUME NEW t \in TestRecord PROVE score_test(t) \in Nat
  OBVIOUS
<1>1. /\ t.patch_decorator_count \in Nat
      /\ SetupTerm[t.setup_to_assertion_ratio] \in Nat
  <2>1. /\ t.patch_decorator_count \in Nat
        /\ t.setup_to_assertion_ratio \in 0..MaxRatio
    BY DEF TestRecord
  <2>2. SetupTerm[t.setup_to_assertion_ratio] \in 0..SetupWeight
    BY <2>1, SetupTermShape
  <2> QED BY <2>1, <2>2
<1>2. Min({t.patch_decorator_count, 5}) \in Nat
  BY <1>1, MinOfTwo
<1>3. Min({Cardinality(derive_test_smells(t)), 3}) \in Nat
  <2>1. IsFiniteSet({"mock_only_assertions", "mock_overuse"})
    <3>1. IsFiniteSet({"mock_only_assertions"} \cup {"mock_overuse"})
      BY FS_Singleton, FS_AddElement
    <3> QED BY <3>1
  <2>2. derive_test_smells(t) \in SUBSET {"mock_only_assertions", "mock_overuse"}
    BY DEF derive_test_smells, SmellCategories
  <2>3. Cardinality(derive_test_smells(t)) \in Nat
    BY <2>1, <2>2, FS_Subset, FS_CardinalityType
  <2> QED BY <2>3, MinOfTwo
<1>4. /\ Weight(t.only_asserts_on_mock, 10500) \in Nat
      /\ Weight(verifies_nothing(t), 6000) \in Nat
  BY DEF Weight
<1> QED BY <1>1, <1>2, <1>3, <1>4 DEF score_test

\* A shortlist of C: as many as it may name, nobody unnamed who outranks somebody
\* named, and nobody with n members before it.
ShortlistOf(L, C, name, value, n) ==
  /\ L \subseteq C
  /\ Cardinality(L) = Min({n, Cardinality(C)})
  /\ \A i \in L, j \in C : Outranks(j, i, value, name) => j \in L
  /\ \A i \in L : Cardinality({j \in C : Outranks(j, i, value, name)}) < n

\* What a ranking names is a shortlist.
LEMMA RankingNames ==
  ASSUME NEW C, IsFiniteSet(C), NEW name, NEW value, NEW n \in Nat,
         \A c \in C : value[c] \in Int /\ name[c] \in Int,
         NEW r \in Ranking(C, name, value, n)
  PROVE  ShortlistOf({r[a] : a \in DOMAIN r}, C, name, value, n)
<1> DEFINE L == {r[a] : a \in DOMAIN r}
<1> DEFINE k == Min({n, Cardinality(C)})
<1>1. Cardinality(C) \in Nat
  BY FS_CardinalityType
<1>2. k \in Nat /\ k =< n
  BY <1>1, MinOfTwo
<1>3. r \in [1..k -> C] /\ IsTopN(r, C, n, value, name)
  BY DEF Ranking
<1> HIDE DEF k
<1>4. L = {r[a] : a \in 1..k} /\ L \subseteq C
  BY <1>3
<1>5. \A a \in 1..k, b \in 1..k :
        a < b => r[a] # r[b] /\ ~Outranks(r[b], r[a], value, name)
  BY <1>3 DEF IsTopN
<1>6. \A i \in L, j \in C : Outranks(j, i, value, name) => j \in L
  <2> SUFFICES ASSUME NEW a \in 1..k, NEW j \in C, j \notin L
               PROVE  ~Outranks(j, r[a], value, name)
    BY <1>4
  <2> QED BY <1>3, <1>4 DEF IsTopN
<1>7. Cardinality(L) = k
  <2>1. \A a \in 1..k, b \in 1..k : r[a] = r[b] => a = b
    BY <1>2, <1>5
  <2>2. r \in Bijection(1..k, L)
    BY <1>3, <1>4, <2>1 DEF Bijection, Injection, Surjection, IsInjective
  <2>3. ExistsBijection(1..k, L)
    BY <2>2 DEF ExistsBijection
  <2>4. IsFiniteSet(1..k) /\ Cardinality(1..k) = k
    <3>1. 1 \in Int /\ k \in Int
      BY <1>2
    <3>2. /\ IsFiniteSet(1..k)
          /\ Cardinality(1..k) = IF 1 > k THEN 0 ELSE k - 1 + 1
      BY ONLY <3>1, FS_Interval
    <3> QED BY <1>2, <3>2
  <2> QED BY <2>3, <2>4, FS_Bijection
<1>8. ASSUME NEW i \in L
      PROVE  Cardinality({j \in C : Outranks(j, i, value, name)}) < n
  <2> DEFINE J == {j \in C : Outranks(j, i, value, name)}
  <2>1. PICK a \in 1..k : i = r[a]
    BY <1>4
  <2>2. \A j \in J : \E b \in 1..a - 1 : r[b] = j
    <3> SUFFICES ASSUME NEW j \in C, Outranks(j, i, value, name)
                 PROVE  \E b \in 1..a - 1 : r[b] = j
      OBVIOUS
    <3>1. PICK b \in 1..k : j = r[b]
      BY <1>4, <1>6
    <3>2. b # a
      BY <1>3, <2>1, <3>1 DEF Outranks
    <3>3. ~(a < b)
      BY <1>5, <2>1, <3>1
    <3> QED BY <1>2, <3>1, <3>2, <3>3
  <2> DEFINE g == [j \in J |-> CHOOSE b \in 1..a - 1 : r[b] = j]
  <2>3. \A j \in J : g[j] \in 1..a - 1 /\ r[g[j]] = j
    BY <2>2
  <2> HIDE DEF J, g
  <2>4. g \in [J -> 1..a - 1]
    BY <2>3 DEF g
  <2>5. g \in Injection(J, 1..a - 1)
    BY <2>3, <2>4 DEF Injection, IsInjective
  <2>6. IsFiniteSet(1..a - 1) /\ Cardinality(1..a - 1) = a - 1
    <3>1. 1 \in Int /\ a - 1 \in Int /\ a - 1 >= 0
      BY <1>2
    <3>2. /\ IsFiniteSet(1..a - 1)
          /\ Cardinality(1..a - 1) = IF 1 > a - 1 THEN 0 ELSE a - 1 - 1 + 1
      BY ONLY <3>1, FS_Interval
    <3> QED BY <3>1, <3>2
  <2>7. Cardinality(J) =< a - 1 /\ Cardinality(J) \in Nat
    BY <2>5, <2>6, FS_Injection, FS_CardinalityType
  <2> QED BY <1>2, <2>7 DEF J
<1> QED BY <1>4, <1>6, <1>7, <1>8 DEF k, ShortlistOf

-------------------------------------------------------------------------------
(* One entry *)

\* The index gives each entry the test that bears its nodeid.
IndexRight ==
  pc = "match" => \A k \in DOMAIN Entries : IsPosition(Entries[k].test, resolved[k])

\* What the contract says of the entry at hand, given where it resolved to.
LEMMA EntryJudged ==
  ASSUME TypeOK, IndexRight, MatchNext
  PROVE  /\ entry \in Contract!EntrySet
         /\ position = 0 => \A i \in Positions : ~Contract!Bears(i, entry.test)
         /\ position # 0 =>
              /\ position \in Positions
              /\ \A i \in Positions : Contract!Bears(i, entry.test) <=> i = position
              /\ \A i \in Positions : Contract!Stands(entry, i) <=>
                   i = position /\ ~ContentDiffers(entry, tests[position])
              /\ \A i \in Positions : Contract!Applies(entry, i) <=>
                   /\ i = position
                   /\ ~ContentDiffers(entry, tests[position])
                   /\ entry.signal \in active_signals(tests[position])
<1>1. next \in DOMAIN Entries /\ entry = Entries[next] /\ position = resolved[next]
  BY EntryAtHand DEF entry, position
<1>2. IsPosition(entry.test, position)
  BY <1>1 DEF IndexRight, MatchNext
<1>3. entry \in Contract!EntrySet
  BY <1>1 DEF Contract!EntrySet, Entries
<1>4. tests \in Seq(TestRecord) /\ Positions \subseteq Nat \ {0}
  BY DEF TypeOK, Positions
<1>5. ASSUME position = 0, NEW i \in Positions PROVE ~Contract!Bears(i, entry.test)
  BY <1>2, <1>4, <1>5 DEF IsPosition, Contract!Bears
<1>6. ASSUME position # 0
      PROVE  position \in Positions /\ Contract!Bears(position, entry.test)
  BY <1>2, <1>6 DEF IsPosition, Contract!Bears, Contract!Positions, Positions
<1>7. ASSUME position # 0, NEW i \in Positions
      PROVE  Contract!Bears(i, entry.test) <=> i = position
  BY <1>4, <1>6, <1>7, BornOnce
<1>8. ASSUME position # 0, NEW i \in Positions
      PROVE  Contract!Stands(entry, i) <=>
               i = position /\ ~ContentDiffers(entry, tests[position])
  BY <1>7, <1>8 DEF Contract!Stands, ContentDiffers
<1>9. ASSUME position # 0, NEW i \in Positions
      PROVE  Contract!Applies(entry, i) <=>
               /\ i = position
               /\ ~ContentDiffers(entry, tests[position])
               /\ entry.signal \in active_signals(tests[position])
  BY <1>8, <1>9, SameSignals DEF Contract!Applies
<1> QED BY <1>3, <1>5, <1>6, <1>7, <1>8, <1>9

\* The loop sorts the entries into live and stale as the contract does, and
\* states the contract's reason.
LEMMA TurnJudged ==
  ASSUME TypeOK, IndexRight
  PROVE  /\ Accepted => Contract!Applies(entry, position) /\ position \in Positions
         /\ \A status \in Statuses :
              \/ UnknownTest /\ status = "unknown_test"
              \/ ContentChanged /\ status = "content_changed"
              \/ SignalNotActive /\ status = "signal_not_active"
              => /\ entry \in Contract!EntrySet \ Contract!Live
                 /\ status = Contract!Status(entry)
                 /\ StaleEntry(status)
<1>1. Accepted => Contract!Applies(entry, position) /\ position \in Positions
  BY EntryJudged DEF Accepted
<1>2. ASSUME UnknownTest
      PROVE  /\ entry \in Contract!EntrySet \ Contract!Live
             /\ "unknown_test" = Contract!Status(entry)
  <2>1. entry \in Contract!EntrySet
        /\ \A i \in Positions : ~Contract!Bears(i, entry.test)
    BY <1>2, EntryJudged DEF UnknownTest
  <2> QED
    BY <2>1 DEF Contract!Live, Contract!Applies, Contract!Stands, Contract!Status,
                Contract!Positions, Positions
<1>3. ASSUME ContentChanged
      PROVE  /\ entry \in Contract!EntrySet \ Contract!Live
             /\ "content_changed" = Contract!Status(entry)
  <2>1. /\ entry \in Contract!EntrySet
        /\ \E i \in Positions : Contract!Bears(i, entry.test)
        /\ \A i \in Positions : ~Contract!Stands(entry, i)
    BY <1>3, EntryJudged DEF ContentChanged
  <2> QED
    BY <2>1 DEF Contract!Live, Contract!Applies, Contract!Status,
                Contract!Positions, Positions
<1>4. ASSUME SignalNotActive
      PROVE  /\ entry \in Contract!EntrySet \ Contract!Live
             /\ "signal_not_active" = Contract!Status(entry)
  <2>1. /\ entry \in Contract!EntrySet
        /\ \E i \in Positions : Contract!Bears(i, entry.test)
        /\ \E i \in Positions : Contract!Stands(entry, i)
        /\ \A i \in Positions : ~Contract!Applies(entry, i)
    BY <1>4, EntryJudged DEF SignalNotActive
  <2> QED
    BY <2>1 DEF Contract!Live, Contract!Status, Contract!Positions, Positions
<1> QED
  BY <1>1, <1>2, <1>3, <1>4 DEF UnknownTest, ContentChanged, SignalNotActive
-------------------------------------------------------------------------------
(* The invariant *)

\* Each finding stands on a test whose accepted signals name it.
FoundRight ==
  \A f \in DOMAIN findings :
    /\ findings[f] \in Contract!EntrySet
    /\ \E i \in Positions :
         /\ Contract!Applies(findings[f], i)
         /\ \E a \in DOMAIN accepted[i] : accepted[i][a] = findings[f].signal

\* Each accepted signal has an entry that applies.
AcceptedRight ==
  \A i \in Positions : \A a \in DOMAIN accepted[i] : \E e \in Contract!EntrySet :
    e.signal = accepted[i][a] /\ Contract!Applies(e, i)

\* Each stale entry is one the contract refuses, for the contract's reason.
StaleRight ==
  \A a \in DOMAIN stale :
    /\ stale[a].entry \in Contract!EntrySet \ Contract!Live
    /\ stale[a].status = Contract!Status(stale[a].entry)

\* Nothing is ranked before the whole baseline was taken.
BacklogDone ==
  /\ ~baseline.present => Len(Entries) = 0
  /\ pc \in {"rank", "done"} => next > Len(Entries)

ScoresRight == pc # "score" => score = [i \in Positions |-> score_test(tests[i])]

RefinesInv ==
  /\ IndexRight
  /\ FoundRight
  /\ AcceptedRight
  /\ StaleRight
  /\ BacklogDone
  /\ ScoresRight

\* The contract's judgement of an entry depends on the inputs alone.
LEMMA JudgementsKept ==
  ASSUME Inputs, [Next]_vars
  PROVE  /\ UNCHANGED <<tests, baseline, include, topN, Entries, Positions>>
         /\ UNCHANGED <<Contract!EntrySet, Contract!Live>>
         /\ \A e, i : Contract!Applies(e, i)' <=> Contract!Applies(e, i)
         /\ \A e : Contract!Status(e)' = Contract!Status(e)
         /\ \A id, p : IsPosition(id, p)' <=> IsPosition(id, p)
BY NextInputs
   DEF inputs, Positions, IsPosition, Contract!EntrySet, Contract!Live,
       Contract!Applies, Contract!Stands, Contract!Bears, Contract!Status,
       Contract!Positions

\* Only the index decides where an entry leads.
LEMMA IndexRightStep ==
  ASSUME IndexRight, Inputs, [Next]_vars
  PROVE  IndexRight'
<1>1. CASE Index
  BY <1>1, JudgementsKept DEF Index, IndexRight
<1>2. CASE UNCHANGED <<pc, resolved>> \/ pc' # "match"
  BY <1>2, JudgementsKept DEF IndexRight
<1>3. Next /\ ~Index => UNCHANGED <<pc, resolved>> \/ pc' # "match"
  BY DEF Next, Score, MatchNext, UnknownTest, ContentChanged, SignalNotActive, Accepted,
         SortTouched, Applied, Rank, Done, vars
<1> QED
  BY <1>1, <1>2, <1>3 DEF vars

\* A turn of the loop gives the contract's reason for what it calls stale.
LEMMA StaleRightStep ==
  ASSUME TypeOK, IndexRight, StaleRight, Inputs, [Next]_vars
  PROVE  StaleRight'
<1>1. ASSUME MatchNext, NEW status \in Statuses, StaleEntry(status),
             entry \in Contract!EntrySet \ Contract!Live,
             status = Contract!Status(entry)
      PROVE  StaleRight'
  <2> DEFINE x == [entry |-> entry, status |-> status]
  <2>1. x \in [entry : Entry, status : Statuses]
    BY <1>1, EntryAtHand
  <2>2. \A a \in DOMAIN stale' :
          (a \in DOMAIN stale /\ stale'[a] = stale[a]) \/ stale'[a] = x
    <3>1. stale \in Seq([entry : Entry, status : Statuses])
      BY DEF TypeOK
    <3>2. stale' = Append(stale, x)
      BY <1>1 DEF StaleEntry
    <3> HIDE DEF x
    <3> QED BY <2>1, <3>1, <3>2, AppendElements
  <2> QED
    BY <1>1, <2>2, JudgementsKept DEF StaleRight
<1>2. CASE UnknownTest \/ ContentChanged \/ SignalNotActive
  BY <1>1, <1>2, TurnJudged DEF UnknownTest, ContentChanged, SignalNotActive, Statuses
<1>3. CASE UNCHANGED stale
  BY <1>3, JudgementsKept DEF StaleRight
<1> QED
  BY <1>2, <1>3
     DEF Next, Score, Index, Accepted, SortTouched, Applied, Rank, Done, vars, report

\* What a turn accepts the contract lets stand on the same test, and sorting loses
\* nothing of it.
LEMMA FoundRightStep ==
  ASSUME TypeOK, IndexRight, FoundRight, AcceptedRight, CanonicalInv, Inputs, [Next]_vars
  PROVE  FoundRight' /\ AcceptedRight'
<1>1. CASE Accepted
  <2>1. /\ Contract!Applies(entry, position) /\ position \in Positions
        /\ entry \in Contract!EntrySet
        /\ entry \in Entry /\ entry.signal \in Signals
    BY <1>1, TurnJudged, EntryJudged, EntryAtHand DEF Accepted, Entry
  <2> DEFINE q == accepted[position]
             r == Append(q, entry.signal)
  <2>2. q \in Seq(Signals)
    BY <2>1 DEF TypeOK
  <2>3. /\ accepted'[position] = r
        /\ \A i \in Positions : i # position => accepted'[i] = accepted[i]
    BY <1>1, <2>1 DEF Accepted, TypeOK
  <2>4. /\ \A a \in DOMAIN q : a \in DOMAIN r /\ r[a] = q[a]
        /\ \E a \in DOMAIN r : r[a] = entry.signal
        /\ \A a \in DOMAIN r : (a \in DOMAIN q /\ r[a] = q[a]) \/ r[a] = entry.signal
    BY <2>1, <2>2, AppendElements
  <2>5. \A f \in DOMAIN findings' :
          \/ f \in DOMAIN findings /\ findings'[f] = findings[f]
          \/ findings'[f] = entry
    <3>1. findings \in Seq(Entry) /\ findings' = Append(findings, entry)
      BY <1>1 DEF Accepted, TypeOK
    <3> QED BY <2>1, <3>1, AppendElements
  <2> HIDE DEF r
  <2>6. ASSUME NEW i \in Positions, NEW a \in DOMAIN accepted[i]
        PROVE  \E b \in DOMAIN accepted'[i] : accepted'[i][b] = accepted[i][a]
    BY <2>3, <2>4, <2>6
  <2>7. FoundRight'
    <3> SUFFICES ASSUME NEW f \in DOMAIN findings'
                 PROVE  /\ findings'[f] \in Contract!EntrySet
                        /\ \E i \in Positions :
                             /\ Contract!Applies(findings'[f], i)
                             /\ \E a \in DOMAIN accepted'[i] :
                                  accepted'[i][a] = findings'[f].signal
      BY JudgementsKept DEF FoundRight
    <3>1. CASE f \in DOMAIN findings /\ findings'[f] = findings[f]
      BY <2>6, <3>1 DEF FoundRight
    <3>2. CASE findings'[f] = entry
      BY <2>1, <2>3, <2>4, <3>2
    <3> QED BY <2>5, <3>1, <3>2
  <2>8. AcceptedRight'
    <3> SUFFICES ASSUME NEW i \in Positions, NEW a \in DOMAIN accepted'[i]
                 PROVE  \E e \in Contract!EntrySet :
                          e.signal = accepted'[i][a] /\ Contract!Applies(e, i)
      BY JudgementsKept DEF AcceptedRight
    <3>1. CASE i # position
      BY <2>3, <3>1 DEF AcceptedRight
    <3>2. CASE i = position
      BY <2>1, <2>3, <2>4, <3>2 DEF AcceptedRight
    <3> QED BY <3>1, <3>2
  <2> QED BY <2>7, <2>8
<1>2. CASE SortTouched
  <2>1. PICK i \in touched : \E t \in [DOMAIN accepted[i] -> Signals] :
          IsSorted(accepted[i], t) /\ accepted' = [accepted EXCEPT ![i] = t]
    BY <1>2 DEF SortTouched
  <2>2. PICK t \in [DOMAIN accepted[i] -> Signals] :
          IsSorted(accepted[i], t) /\ accepted' = [accepted EXCEPT ![i] = t]
    BY <2>1
  <2>3. i \in Positions /\ accepted[i] \in Seq(Signals)
    BY DEF TypeOK
  <2>4. /\ DOMAIN t = DOMAIN accepted[i]
        /\ \A a \in DOMAIN accepted[i] : \E b \in DOMAIN accepted[i] : t[a] = accepted[i][b]
        /\ \A a \in DOMAIN accepted[i] : \E b \in DOMAIN accepted[i] : accepted[i][a] = t[b]
    BY <2>2, <2>3, SortedRearrangement DEF CanonicalInv, NoneTwice
  <2>5. /\ accepted'[i] = t
        /\ \A j \in Positions : j # i => accepted'[j] = accepted[j]
    BY <2>2, <2>3 DEF TypeOK
  <2>6. ASSUME NEW j \in Positions
        PROVE  /\ \A a \in DOMAIN accepted[j] :
                    \E b \in DOMAIN accepted'[j] : accepted'[j][b] = accepted[j][a]
               /\ \A a \in DOMAIN accepted'[j] :
                    \E b \in DOMAIN accepted[j] : accepted[j][b] = accepted'[j][a]
    BY <2>4, <2>5
  <2>7. UNCHANGED findings
    BY <1>2 DEF SortTouched
  <2>8. FoundRight'
    <3> SUFFICES ASSUME NEW f \in DOMAIN findings
                 PROVE  /\ findings[f] \in Contract!EntrySet
                        /\ \E j \in Positions :
                             /\ Contract!Applies(findings[f], j)
                             /\ \E a \in DOMAIN accepted'[j] :
                                  accepted'[j][a] = findings[f].signal
      BY <2>7, JudgementsKept DEF FoundRight
    <3> QED BY <2>6 DEF FoundRight
  <2>9. AcceptedRight'
    <3> SUFFICES ASSUME NEW j \in Positions, NEW a \in DOMAIN accepted'[j]
                 PROVE  \E e \in Contract!EntrySet :
                          e.signal = accepted'[j][a] /\ Contract!Applies(e, j)
      BY JudgementsKept DEF AcceptedRight
    <3> QED BY <2>6 DEF AcceptedRight
  <2> QED BY <2>8, <2>9
<1>3. CASE UNCHANGED <<findings, accepted>>
  BY <1>3, JudgementsKept DEF FoundRight, AcceptedRight
<1> QED
  BY <1>1, <1>2, <1>3
     DEF Next, Score, Index, UnknownTest, ContentChanged, SignalNotActive, StaleEntry,
         Applied, Rank, Done, vars, report

\* Scores are settled first, and the loop is left after the last entry.
LEMMA ScoresRightStep ==
  ASSUME TypeOK, BacklogDone, ScoresRight, Inputs, [Next]_vars
  PROVE  BacklogDone' /\ ScoresRight'
<1>0. /\ UNCHANGED <<tests, baseline, Entries, Positions>>
      /\ next \in Nat /\ next >= 1 /\ Len(Entries) \in Nat
  BY JudgementsKept DEF TypeOK, Entries
<1>1. CASE Score
  BY <1>0, <1>1 DEF Score, BacklogDone, ScoresRight
<1>2. CASE pc = "match" /\ UNCHANGED score
  BY <1>0, <1>2
     DEF Next, vars, Score, Index, MatchNext, UnknownTest, ContentChanged, SignalNotActive,
         Accepted, SortTouched, Applied, Rank, Done, BacklogDone, ScoresRight
<1>3. CASE UNCHANGED <<next, score>> /\ pc # "score" /\ pc # "match"
  BY <1>0, <1>3
     DEF Next, vars, Score, Index, MatchNext, UnknownTest, ContentChanged, SignalNotActive,
         Accepted, SortTouched, Applied, Rank, Done, BacklogDone, ScoresRight
<1>4. CASE UNCHANGED vars
  BY <1>0, <1>4 DEF vars, scores, BacklogDone, ScoresRight
<1> QED
  BY <1>1, <1>2, <1>3, <1>4
     DEF Next, vars, scores, Score, Index, MatchNext, UnknownTest, ContentChanged,
         SignalNotActive, Accepted, SortTouched, Applied, Rank, Done

\* Every scan agrees with the contract so far, at every step.
LEMMA RefinesInvariant == Spec => []RefinesInv
<1>1. Init => RefinesInv
  <2> SUFFICES ASSUME Init PROVE RefinesInv
    OBVIOUS
  <2>1. ~baseline.present => Len(Entries) = 0
    BY DEF Init, Entries, SeqUpTo
  <2> QED
    BY <2>1 DEF Init, RefinesInv, IndexRight, FoundRight, AcceptedRight, StaleRight,
                BacklogDone, ScoresRight
<1>2. /\ RefinesInv /\ CanonicalInv
      /\ TypeOK /\ Inputs /\ [Next]_vars
      => RefinesInv'
  BY IndexRightStep, StaleRightStep, FoundRightStep, ScoresRightStep DEF RefinesInv
<1> QED
  BY <1>1, <1>2, CanonicalInvariant, TypeCorrect, InputsInvariant, PTL DEF Spec
-------------------------------------------------------------------------------
(* The ranking decides what the contract decides *)

\* At the end of the loop the two reports are the contract's.
LEMMA ReportsAgree ==
  ASSUME TypeOK, Inputs, EveryEntryAccountedForOnce, RefinesInv, pc = "rank"
  PROVE  /\ {findings[a] : a \in DOMAIN findings} = Contract!Live
         /\ {stale[a] : a \in DOMAIN stale} =
              {[entry |-> e, status |-> Contract!Status(e)] :
                 e \in Contract!EntrySet \ Contract!Live}
<1>1. \A e \in Contract!EntrySet : Found(e) <=> ~WentStale(e)
  <2>1. \A k \in DOMAIN Entries : k < next
    BY DEF RefinesInv, BacklogDone, TypeOK, Entries
  <2> QED
    BY <2>1 DEF EveryEntryAccountedForOnce, Contract!EntrySet, Entries
<1>2. \A a \in DOMAIN findings : findings[a] \in Contract!EntrySet
  BY DEF RefinesInv, FoundRight
<1>3. \A e \in Contract!EntrySet : Found(e) => e \in Contract!Live
  BY DEF RefinesInv, FoundRight, Found, Contract!Live, Contract!Positions, Positions
<1>4. \A e : WentStale(e) => e \in Contract!EntrySet \ Contract!Live
  BY DEF RefinesInv, StaleRight, WentStale
<1>5. {findings[a] : a \in DOMAIN findings} = Contract!Live
  <2>1. \A a \in DOMAIN findings : findings[a] \in Contract!Live
    BY <1>2, <1>3 DEF Found
  <2>2. \A e \in Contract!Live : \E a \in DOMAIN findings : findings[a] = e
    BY <1>1, <1>4 DEF Contract!Live, Found
  <2> QED BY <2>1, <2>2
<1>6. ASSUME NEW a \in DOMAIN stale
      PROVE  stale[a] = [entry |-> stale[a].entry, status |-> Contract!Status(stale[a].entry)]
  <2>1. stale[a] \in [entry : Entry, status : Statuses]
    <3>1. stale \in Seq([entry : Entry, status : Statuses])
      BY DEF TypeOK
    <3>2. \A S : \A q \in Seq(S) : \A b \in DOMAIN q : q[b] \in S
      OBVIOUS
    <3> QED BY <3>1, <3>2, Zenon
  <2>2. stale[a].status = Contract!Status(stale[a].entry)
    BY DEF RefinesInv, StaleRight
  <2> QED BY <2>1, <2>2
<1>7. \A e \in Contract!EntrySet \ Contract!Live : \E a \in DOMAIN stale : stale[a].entry = e
  BY <1>1, <1>3 DEF WentStale
<1>8. \A a \in DOMAIN stale : stale[a].entry \in Contract!EntrySet \ Contract!Live
  BY <1>4 DEF WentStale
<1> QED BY <1>5, <1>6, <1>7, <1>8

\* The filter of score_and_rank holds back what the contract holds back.
LEMMA CandidatesAgree ==
  ASSUME TypeOK, Inputs, EveryEntryAccountedForOnce, RefinesInv, pc = "rank"
  PROVE  candidates = Contract!Actionable
<1>1. \A i \in Positions : Contract!active_signals(tests[i]) = active_signals(tests[i])
  BY SameSignals
<1>2. ASSUME NEW i \in Positions, NEW e \in Contract!EntrySet, Contract!Applies(e, i)
      PROVE  \E a \in DOMAIN accepted[i] : accepted[i][a] = e.signal
  <2>1. e \in Contract!Live
    BY <1>2 DEF Contract!Live, Contract!Positions, Positions
  <2>2. PICK f \in DOMAIN findings : findings[f] = e
    BY <2>1, ReportsAgree
  <2>3. PICK j \in Positions :
          /\ Contract!Applies(e, j)
          /\ \E a \in DOMAIN accepted[j] : accepted[j][a] = e.signal
    BY <2>2 DEF RefinesInv, FoundRight
  <2>4. i = j
    <3>1. Contract!Bears(i, e.test) /\ Contract!Bears(j, e.test)
      BY <1>2, <2>3 DEF Contract!Applies, Contract!Stands
    <3> QED BY <3>1, BornOnce DEF TypeOK
  <2> QED BY <2>3, <2>4
<1>3. ASSUME NEW i \in Positions, NEW a \in DOMAIN accepted[i]
      PROVE  \E e \in Contract!EntrySet : e.signal = accepted[i][a] /\ Contract!Applies(e, i)
  BY DEF RefinesInv, AcceptedRight
<1>4. ASSUME NEW i \in Positions
      PROVE  accepted_in_full(i) <=> Contract!HeldBack(i)
  BY <1>1, <1>2, <1>3 DEF accepted_in_full, Contract!HeldBack
<1> QED
  BY <1>4 DEF candidates, Contract!Actionable, Contract!Positions, Positions

\* The step that ranks is the step of the contract.
LEMMA RankDecides ==
  ASSUME TypeOK, Inputs, EveryEntryAccountedForOnce, RefinesInv, Rank
  PROVE  Contract!Decide
<1>1. UNCHANGED <<tests, baseline, include, topN, findings, stale>>
      /\ pc = "rank" /\ pc' = "done"
  BY DEF Rank, inputs, report
<1> DEFINE C == candidates
           L == {topTests'[a] : a \in DOMAIN topTests'}
<1>2. C = Contract!Actionable
  BY <1>1, CandidatesAgree
<1>3. score = Contract!Scores /\ nodeid = Contract!Name
  BY <1>1, SameScore
     DEF RefinesInv, ScoresRight, Contract!Scores, Contract!Name, nodeid,
         Contract!Positions, Positions
<1>4. topTests' \in Ranking(C, nodeid, score, topN)
  BY DEF Rank
<1>5. IsFiniteSet(C) /\ topN \in Nat /\ C \subseteq Positions
  BY PositionsFinite DEF TypeOK, candidates
<1>6. \A c \in C : score[c] \in Int /\ nodeid[c] \in Int
  <2>1. \A c \in Positions : tests[c] \in TestRecord
    BY DEF TypeOK, Positions
  <2>2. \A c \in Positions : score[c] \in Nat
    BY <1>1, <2>1, ScoreType DEF RefinesInv, ScoresRight
  <2>3. \A c \in Positions : nodeid[c] \in Nat
    BY <2>1, NamesAreOrdered DEF nodeid, TestRecord
  <2> QED BY <1>5, <2>2, <2>3
<1> HIDE DEF C
<1>7. ShortlistOf(L, C, nodeid, score, topN)
  BY <1>4, <1>5, <1>6, RankingNames
<1> HIDE DEF L
<1>8. \A i \in L : Contract!Shortlisted(i)
  <2> SUFFICES ASSUME NEW i \in L PROVE Contract!Shortlisted(i)
    OBVIOUS
  <2>1. {j \in Contract!Actionable :
           Contract!Outranks(j, i, Contract!Scores, Contract!Name)}
          = {j \in C : Outranks(j, i, score, nodeid)}
    BY <1>2, <1>3, SameCounts
  <2> QED BY <1>2, <1>7, <2>1, SameCounts DEF Contract!Shortlisted, ShortlistOf
<1>9. /\ Contract!Cardinality(L) = Contract!Min({topN, Contract!Cardinality(Contract!Actionable)})
      /\ \A i \in L, j \in Contract!Actionable :
           Contract!Outranks(j, i, Contract!Scores, Contract!Name) => j \in L
  BY <1>2, <1>3, <1>7, SameCounts DEF ShortlistOf
<1>10. /\ Decision = Undecided
       /\ Decision' =
            [findings |-> Contract!Live,
             stale |-> {[entry |-> e, status |-> Contract!Status(e)] :
                          e \in Contract!EntrySet \ Contract!Live},
             listed |-> L]
  <2>1. Decision' = [findings |-> {findings[a] : a \in DOMAIN findings},
                     stale |-> {stale[a] : a \in DOMAIN stale},
                     listed |-> L]
    BY <1>1 DEF Decision, L
  <2>2. Decision = Undecided
    BY <1>1 DEF Decision
  <2> QED BY <1>1, <2>1, <2>2, ReportsAgree
<1>11. L \in SUBSET {i \in Contract!Positions : Contract!Shortlisted(i)}
  BY <1>5, <1>7, <1>8 DEF Contract!Positions, Positions, ShortlistOf
<1> QED
  BY <1>1, <1>9, <1>10, <1>11 DEF Contract!Decide

\* No other step tells the contract anything.
LEMMA OthersStutter ==
  ASSUME Inputs, [Next]_vars, ~Rank
  PROVE  UNCHANGED Contract!vars
<1>1. UNCHANGED <<tests, baseline, include, topN>>
  BY NextInputs DEF inputs
<1>2. UNCHANGED Decision
  <2>1. CASE UNCHANGED vars
    BY <2>1 DEF Decision, vars, report, shortlists
  <2>2. CASE pc # "done" /\ pc' # "done"
    BY <2>2 DEF Decision
  <2> QED
    BY <2>1, <2>2 DEF Next, Score, Index, MatchNext, UnknownTest, ContentChanged,
       SignalNotActive, Accepted, SortTouched, Applied, Done
<1> QED BY <1>1, <1>2 DEF Contract!vars

\* Every scan decides in its steps what the contract decides in one.
THEOREM AcceptImplements == Spec => ImplementsContract
<1>1. Init => Contract!Init
  BY DEF Init, Contract!Init, Decision
<1>2. /\ TypeOK /\ Inputs /\ EveryEntryAccountedForOnce /\ RefinesInv /\ [Next]_vars
      => [Contract!Decide]_(Contract!vars)
  BY RankDecides, OthersStutter
<1> QED
  BY <1>1, <1>2, TypeCorrect, InputsInvariant, EntriesAccountedFor, RefinesInvariant, PTL
     DEF Spec, ImplementsContract, Contract!Spec
-------------------------------------------------------------------------------
(* What the reasons mean *)

\* With unique nodeids only content_changed can hide a finding that fires.
THEOREM StaleReasons == Spec => []OnlyContentChangedHidesAFiringFinding
<1>1. ASSUME RefinesInv, Inputs PROVE OnlyContentChangedHidesAFiringFinding
  <2> SUFFICES ASSUME DistinctNodeIds(tests), NEW a \in DOMAIN stale,
                      stale[a].status # "content_changed",
                      NEW i \in Positions, tests[i].nodeid = stale[a].entry.test
               PROVE  stale[a].entry.signal \notin active_signals(tests[i])
    BY DEF OnlyContentChangedHidesAFiringFinding
  <2> DEFINE e == stale[a].entry
  <2>1. /\ e \in Contract!EntrySet \ Contract!Live
        /\ Contract!Status(e) # "content_changed"
    BY <1>1 DEF RefinesInv, StaleRight
  <2> HIDE DEF e
  <2>2. \A j \in Positions : tests[j].nodeid = e.test => j = i
    BY DEF DistinctNodeIds, Positions, e
  <2>3. i \in Nat
    BY <1>1 DEF Inputs, Positions
  <2>4. Contract!Bears(i, e.test)
    BY <2>2, <2>3 DEF Contract!Bears, Contract!Positions, Positions, e
  <2>5. \E j \in Positions : Contract!Stands(e, j)
    BY <2>1, <2>4 DEF Contract!Status, Contract!Positions, Positions
  <2>6. Contract!Stands(e, i)
    BY <2>2, <2>5 DEF Contract!Stands, Contract!Bears
  <2>7. ~Contract!Applies(e, i)
    BY <2>1 DEF Contract!Live, Contract!Positions, Positions
  <2> QED
    BY <2>6, <2>7, SameSignals DEF Contract!Applies, e
<1> QED
  BY <1>1, RefinesInvariant, InputsInvariant, PTL
-------------------------------------------------------------------------------
(* Adding up *)

\* Whoever counts on from 0 reaches every number.
LEMMA Counting ==
  ASSUME NEW S \in SUBSET Nat, 0 \in S, \A m \in S : m + 1 \in S
  PROVE  Nat \subseteq S
<1> SUFFICES ASSUME NEW k \in Nat, k \notin S PROVE FALSE
  OBVIOUS
<1> DEFINE T == {m \in S : m =< k}
           f == [m \in T |-> m + 1]
<1>1. T \in SUBSET Nat /\ 0 \in T
  <2>1. 0 =< k
    OBVIOUS
  <2> QED BY <2>1
<1>2. \A m \in T : m + 1 \in T
  <2> SUFFICES ASSUME NEW m \in T PROVE m + 1 =< k
    OBVIOUS
  <2>1. m \in Nat /\ m =< k /\ m # k
    OBVIOUS
  <2> QED BY <2>1
<1>3. \A m \in T : m =< k
  OBVIOUS
<1> HIDE DEF T
<1>4. IsFiniteSet(T)
  BY <1>1, <1>3, FS_BoundedSetOfNaturals
<1>5. f \in Injection(T, T)
  <2>1. \A a \in T, b \in T : f[a] = f[b] => a = b
    BY <1>1
  <2> QED BY <1>2, <2>1 DEF Injection, IsInjective
<1>6. f \in Surjection(T, T)
  BY <1>4, <1>5, FS_Injection
<1>7. PICK m \in T : f[m] = 0
  BY <1>1, <1>6 DEF Surjection
<1> QED BY <1>1, <1>7

\* A set of numbers that is not empty has a least element.
LEMMA LeastNumber ==
  ASSUME NEW S \in SUBSET Nat, S # {}
  PROVE  \E n \in S : \A m \in S : n =< m
<1> DEFINE U == {n \in Nat : \A m \in S : n =< m}
<1> SUFFICES ASSUME \A n \in S : n \notin U PROVE FALSE
  OBVIOUS
<1>1. U \in SUBSET Nat /\ 0 \in U
  OBVIOUS
<1>2. \A n \in U : n + 1 \in U
  <2> SUFFICES ASSUME NEW n \in U, NEW m \in S PROVE n + 1 =< m
    OBVIOUS
  <2>1. n \in Nat /\ m \in Nat /\ n =< m /\ n # m
    OBVIOUS
  <2> QED BY <2>1
<1>3. PICK k \in S : TRUE
  OBVIOUS
<1>4. k + 1 =< k
  <2>1. k + 1 \in Nat
    OBVIOUS
  <2>2. k + 1 \in U
    <3> HIDE DEF U
    <3> QED BY <1>1, <1>2, <2>1, Counting
  <2> QED BY <2>2
<1> QED BY <1>4

LEMMA FirstNumbers ==
  ASSUME NEW k \in Nat
  PROVE  IsFiniteSet(1..k) /\ Cardinality(1..k) = k
<1>1. 1 \in Int /\ k \in Int
  OBVIOUS
<1>2. IsFiniteSet(1..k) /\ Cardinality(1..k) = IF 1 > k THEN 0 ELSE k - 1 + 1
  BY ONLY <1>1, FS_Interval
<1> QED BY <1>2

\* A total can be counted: so many units of each member.
Units(f, T) == UNION {{i} \X (1..f[i]) : i \in T}

LEMMA UnitsOfOne ==
  ASSUME NEW f, NEW x, f[x] \in Nat
  PROVE  IsFiniteSet({x} \X (1..f[x])) /\ Cardinality({x} \X (1..f[x])) = f[x]
<1>1. IsFiniteSet({x}) /\ Cardinality({x}) = 1
  BY FS_Singleton
<1>2. IsFiniteSet(1..f[x]) /\ Cardinality(1..f[x]) = f[x]
  BY FirstNumbers
<1>3. IsFiniteSet({x} \X (1..f[x]))
      /\ Cardinality({x} \X (1..f[x])) = Cardinality({x}) * Cardinality(1..f[x])
  BY ONLY <1>1, <1>2, FS_Product
<1> QED BY <1>1, <1>2, <1>3

LEMMA UnitsFinite ==
  ASSUME NEW T, IsFiniteSet(T), NEW f, \A i \in T : f[i] \in Nat
  PROVE  IsFiniteSet(Units(f, T)) /\ Cardinality(Units(f, T)) \in Nat
<1> DEFINE P == {{i} \X (1..f[i]) : i \in T}
           g == [i \in T |-> {i} \X (1..f[i])]
<1>1. g \in Surjection(T, P)
  BY DEF Surjection
<1>2. \A U \in P : IsFiniteSet(U)
  BY UnitsOfOne
<1> HIDE DEF g
<1>3. IsFiniteSet(P)
  BY <1>1, FS_Surjection
<1> HIDE DEF P
<1>4. IsFiniteSet(UNION P)
  BY <1>2, <1>3, FS_UNION
<1> QED BY <1>4, FS_CardinalityType DEF Units, P

\* Taking out a member takes its units.
LEMMA UnitsStep ==
  ASSUME NEW T, IsFiniteSet(T), NEW f, \A i \in T : f[i] \in Nat, NEW x \in T
  PROVE  Cardinality(Units(f, T)) = f[x] + Cardinality(Units(f, T \ {x}))
<1> DEFINE A == {x} \X (1..f[x])
           B == Units(f, T \ {x})
<1>1. Units(f, T) = A \cup B /\ A \cap B = {}
  BY DEF Units
<1>2. IsFiniteSet(A) /\ Cardinality(A) = f[x]
  BY UnitsOfOne
<1>3. IsFiniteSet(T \ {x}) /\ \A i \in T \ {x} : f[i] \in Nat
  BY FS_RemoveElement
<1>4. IsFiniteSet(B) /\ Cardinality(B) \in Nat
  BY <1>3, UnitsFinite
<1> HIDE DEF A, B
<1>5. Cardinality(A \cup B) = Cardinality(A) + Cardinality(B) - Cardinality(A \cap B)
  BY <1>2, <1>4, FS_Union
<1>6. Cardinality(A \cap B) = 0
  BY <1>1, FS_EmptySet
<1> QED BY <1>1, <1>2, <1>4, <1>5, <1>6 DEF B

\* h adds up f over the sets of members of S.
AddsUp(h, f, S) ==
  h = [T \in SUBSET S |->
         IF T = {} THEN 0
         ELSE f[CHOOSE x \in T : TRUE] + h[T \ {CHOOSE x \in T : TRUE}]]

LEMMA TotalIsAddedUp ==
  ASSUME NEW S, NEW f
  PROVE  Total(f, S) = (CHOOSE h : AddsUp(h, f, S))[S]
BY DEF Total, MapThenSumSet, MapThenFoldSet, AddsUp

LEMMA UnitsAddUp ==
  ASSUME NEW S, IsFiniteSet(S), NEW f, \A i \in S : f[i] \in Nat
  PROVE  AddsUp([T \in SUBSET S |-> Cardinality(Units(f, T))], f, S)
<1> DEFINE h == [T \in SUBSET S |-> Cardinality(Units(f, T))]
<1> SUFFICES ASSUME NEW T \in SUBSET S
             PROVE  h[T] = IF T = {} THEN 0
                           ELSE f[CHOOSE x \in T : TRUE] + h[T \ {CHOOSE x \in T : TRUE}]
  BY DEF AddsUp
<1>1. IsFiniteSet(T) /\ \A i \in T : f[i] \in Nat
  BY FS_Subset
<1>2. CASE T = {}
  <2>1. Units(f, T) = {}
    BY <1>2 DEF Units
  <2> QED BY <1>2, <2>1, FS_EmptySet
<1>3. CASE T # {}
  <2> DEFINE x == CHOOSE x \in T : TRUE
  <2>1. x \in T /\ T \ {x} \in SUBSET S
    BY <1>3
  <2> HIDE DEF x
  <2>2. Cardinality(Units(f, T)) = f[x] + Cardinality(Units(f, T \ {x}))
    BY <1>1, <2>1, UnitsStep
  <2> QED BY <1>3, <2>1, <2>2 DEF x
<1> QED BY <1>2, <1>3

\* There is one way to add up.
LEMMA AddsUpOnce ==
  ASSUME NEW S, IsFiniteSet(S), NEW f, NEW g, AddsUp(g, f, S), NEW h, AddsUp(h, f, S)
  PROVE  g[S] = h[S]
<1> DEFINE Bad == {T \in SUBSET S : g[T] # h[T]}
           N == {Cardinality(T) : T \in Bad}
<1>0. \A T \in SUBSET S : IsFiniteSet(T) /\ Cardinality(T) \in Nat
  BY FS_Subset, FS_CardinalityType
<1> SUFFICES ASSUME Bad # {} PROVE FALSE
  OBVIOUS
<1>1. PICK n \in N : \A m \in N : n =< m
  <2>1. N \in SUBSET Nat /\ N # {}
    BY <1>0
  <2> HIDE DEF N
  <2> QED BY <2>1, LeastNumber
<1>2. PICK T \in Bad : Cardinality(T) = n
  BY <1>1
<1>3. /\ g[T] = IF T = {} THEN 0
                ELSE f[CHOOSE x \in T : TRUE] + g[T \ {CHOOSE x \in T : TRUE}]
      /\ h[T] = IF T = {} THEN 0
                ELSE f[CHOOSE x \in T : TRUE] + h[T \ {CHOOSE x \in T : TRUE}]
  BY DEF AddsUp
<1>4. T # {} /\ T \in SUBSET S
  BY <1>3
<1> DEFINE x == CHOOSE x \in T : TRUE
<1>5. x \in T /\ T \ {x} \in SUBSET S
  BY <1>4
<1>6. g[T \ {x}] # h[T \ {x}]
  BY <1>3, <1>4
<1> HIDE DEF x
<1>7. T \ {x} \in Bad
  BY <1>5, <1>6
<1>8. Cardinality(T \ {x}) = n - 1 /\ n \in Nat
  BY <1>0, <1>2, <1>4, <1>5, FS_RemoveElement
<1>9. n =< n - 1
  BY <1>1, <1>7, <1>8
<1> QED BY <1>8, <1>9

LEMMA TotalCounts ==
  ASSUME NEW S, IsFiniteSet(S), NEW f, \A i \in S : f[i] \in Nat
  PROVE  Total(f, S) = Cardinality(Units(f, S)) /\ Total(f, S) \in Nat
<1> DEFINE u == [T \in SUBSET S |-> Cardinality(Units(f, T))]
           h == CHOOSE h : AddsUp(h, f, S)
<1>1. AddsUp(u, f, S)
  BY UnitsAddUp
<1>2. AddsUp(h, f, S)
  BY <1>1
<1>3. u[S] = Cardinality(Units(f, S))
  OBVIOUS
<1>4. Total(f, S) = h[S]
  BY TotalIsAddedUp
<1> HIDE DEF u, h
<1> QED BY <1>1, <1>2, <1>3, <1>4, AddsUpOnce, UnitsFinite

-------------------------------------------------------------------------------
(* What is printed is what was ranked *)

\* The greater of two numbers is one of them, and at least each.
LEMMA MaxOfTwo ==
  ASSUME NEW m \in Nat, NEW n \in Nat
  PROVE  /\ Max({m, n}) \in Nat
         /\ Max({m, n}) >= m
         /\ Max({m, n}) >= n
<1>1. \E x \in {m, n} : \A y \in {m, n} : x >= y
  <2>1. CASE m =< n
    BY <2>1
  <2>2. CASE n =< m
    BY <2>2
  <2> QED
    BY <2>1, <2>2
<1> QED
  BY <1>1 DEF Max

\* A whole share of a number is a number.
LEMMA ShareType ==
  ASSUME NEW m \in Nat, NEW n \in Nat, n # 0
  PROVE  m \div n \in Nat
OBVIOUS

\* The score of a file is a number.
LEMMA FileScoreType ==
  ASSUME NEW S, IsFiniteSet(S), NEW value, \A i \in S : value[i] \in Nat,
         NEW mocks \in Nat, NEW asserts \in Nat
  PROVE  score_file(S, value, mocks, asserts) \in Nat
<1> DEFINE denom == Max({asserts, 1})
           excess == Max({mocks, denom}) - denom
<1>1. denom \in Nat /\ denom # 0
  BY MaxOfTwo
<1>2. Max({mocks, denom}) \in Nat /\ Max({mocks, denom}) >= denom
  <2> HIDE DEF denom
  <2> QED BY <1>1, MaxOfTwo
<1>3. excess \in Nat /\ 1500 * excess \in Nat
  <2> HIDE DEF denom
  <2> QED BY <1>1, <1>2
<1> HIDE DEF denom, excess
<1>4. (1500 * excess) \div denom \in Nat
  <2> HIDE DEF excess
  <2> DEFINE m == 1500 * excess
  <2>1. m \in Nat
    BY <1>3
  <2> HIDE DEF m
  <2>2. m \div denom \in Nat
    BY <1>1, <2>1, ShareType
  <2> QED BY <2>2 DEF m
<1>5. Min({(1500 * excess) \div denom, 3000}) \in Nat
  BY <1>4, MinOfTwo
<1>6. ASSUME S # {}
      PROVE  Total(value, S) \div Cardinality(S) \in Nat
  <2>1. Cardinality(S) \in Nat /\ Cardinality(S) # 0
    BY <1>6, FS_CardinalityType, FS_EmptySet
  <2>2. Total(value, S) \in Nat
    BY TotalCounts
  <2> QED BY <2>1, <2>2, ShareType
<1> QED BY <1>5, <1>6 DEF score_file, denom, excess

\* The score of each file comes from its tests, and the shortlists are rankings.
RankedRight ==
  /\ pc # "score" => \A f \in Files :
       fileScore[f] = score_file(tests_of(f), score, FileMocks[f], assertions(f))
  /\ pc = "done" =>
       /\ topTests \in Ranking(candidates, nodeid, score, topN)
       /\ topFiles \in Ranking(Files, path, fileScore, topN)

\* Every step keeps the scores and the rankings.
LEMMA RankedRightStep ==
  ASSUME RankedRight, Inputs, [Next]_vars
  PROVE  RankedRight'
<1>0. UNCHANGED <<tests, baseline, include, topN, Positions, nodeid>>
  BY NextInputs DEF inputs, Positions, nodeid
<1>01. \A f \in Files : tests_of(f)' = tests_of(f) /\ assertions(f)' = assertions(f)
  BY <1>0 DEF tests_of, assertions
<1>1. CASE Score
  <2>1. /\ pc' # "score" /\ pc' # "done"
        /\ \A f \in Files :
             fileScore'[f] = score_file(tests_of(f), score', FileMocks[f], assertions(f))
    BY <1>1 DEF Score
  <2> QED BY <1>01, <2>1 DEF RankedRight
<1>2. ASSUME UNCHANGED <<score, fileScore>>, pc # "score"
      PROVE  \A f \in Files :
        fileScore'[f] = score_file(tests_of(f), score, FileMocks[f], assertions(f))'
  BY <1>01, <1>2 DEF RankedRight
<1>3. CASE Rank
  <2>1. candidates' = candidates
    BY <1>0, <1>3 DEF Rank, report, candidates, accepted_in_full
  <2> QED BY <1>0, <1>2, <1>3, <2>1 DEF Rank, scores, RankedRight, Ranking, path
<1>4. CASE Done \/ UNCHANGED vars
  <2>1. UNCHANGED <<pc, score, fileScore, accepted, topTests, topFiles>>
    BY <1>4 DEF Done, vars, scores, report, shortlists
  <2>2. candidates' = candidates
    BY <1>0, <2>1 DEF candidates, accepted_in_full
  <2> QED BY <1>0, <1>2, <2>1, <2>2 DEF RankedRight, Ranking, path
<1>5. CASE pc # "score" /\ pc' # "score" /\ pc' # "done" /\ UNCHANGED scores
  BY <1>2, <1>5 DEF scores, RankedRight
<1> QED
  BY <1>1, <1>3, <1>4, <1>5
     DEF Next, Index, MatchNext, UnknownTest, ContentChanged, SignalNotActive,
         Accepted, SortTouched, Applied

\* So they are right at every moment.
LEMMA RankedInvariant == Spec => []RankedRight
<1>1. Init => RankedRight
  BY DEF Init, RankedRight
<1>2. RankedRight /\ Inputs /\ [Next]_vars => RankedRight'
  BY RankedRightStep
<1> QED BY <1>1, <1>2, InputsInvariant, PTL DEF Spec

\* Files are ranked by numbers.
LEMMA FileScoresAreNumbers ==
  ASSUME TypeOK, Inputs, RefinesInv, RankedRight, pc # "score", NEW f \in Files
  PROVE  fileScore[f] \in Nat
<1>1. \A i \in Positions : tests[i] \in TestRecord
  BY DEF Inputs, Positions
<1>2. /\ IsFiniteSet(tests_of(f)) /\ tests_of(f) \subseteq Positions
  <2>1. IsFiniteSet(Positions)
    BY FS_Interval DEF Inputs, Positions
  <2>2. tests_of(f) \in SUBSET Positions
    BY DEF tests_of
  <2> QED BY <2>1, <2>2, FS_Subset
<1>3. \A i \in Positions : score[i] \in Nat
  BY <1>1, ScoreType DEF RefinesInv, ScoresRight
<1>4. assertions(f) \in Nat
  <2> DEFINE g == [i \in Positions |-> tests[i].assertion_count]
  <2>1. \A i \in tests_of(f) : g[i] \in Nat
    BY <1>1, <1>2 DEF TestRecord
  <2> HIDE DEF g
  <2>2. Total(g, tests_of(f)) \in Nat
    BY <1>2, <2>1, TotalCounts
  <2> QED BY <2>2 DEF assertions, g
<1>5. FileMocks[f] \in Nat
  BY OptionsAssumption
<1>6. score_file(tests_of(f), score, FileMocks[f], assertions(f)) \in Nat
  BY <1>2, <1>3, <1>4, <1>5, FileScoreType
<1> QED BY <1>6 DEF RankedRight

\* Neighbours of a ranking go down by value.
LEMMA RankingGoesDown ==
  ASSUME NEW C, IsFiniteSet(C), NEW name, NEW value, NEW n \in Nat,
         \A c \in C : value[c] \in Nat,
         NEW r \in Ranking(C, name, value, n),
         NEW k \in DOMAIN r, k > 1
  PROVE  value[r[k - 1]] >= value[r[k]]
<1>0. r \in Seq(C)
  BY RankingIsSeq
<1>1. r \in Seq(C) /\ DOMAIN r = 1..Len(r)
  BY <1>0
<1>2. k \in Nat /\ k - 1 \in DOMAIN r /\ k - 1 < k
  BY <1>1
<1>3. ~Outranks(r[k], r[k - 1], value, name)
  BY <1>2 DEF Ranking, IsTopN
<1>4. value[r[k]] \in Nat /\ value[r[k - 1]] \in Nat
  BY <1>1, <1>2
<1> QED BY <1>3, <1>4 DEF Outranks

\* Unique nodeids lead back to the test.
LEMMA LookedUpAgain ==
  ASSUME Inputs, DistinctNodeIds(tests), NEW i \in Positions
  PROVE  by_nodeid(nodeid[i]) = i
<1>1. \A p \in Positions : IsPosition(nodeid[i], p) <=> p = i
  <2>0. \A j \in Positions : j \in Nat
    BY DEF Inputs, Positions
  <2>1. {j \in Positions : tests[j].nodeid = nodeid[i]} = {i}
    BY DEF DistinctNodeIds, Positions, nodeid
  <2> QED BY <2>0, <2>1 DEF IsPosition
<1> QED BY <1>1 DEF by_nodeid

\* The rows of the files.
LEMMA FileRowsRight ==
  ASSUME TypeOK, Inputs, RefinesInv, RankedRight, pc = "done",
         NEW k \in DOMAIN render_top_files
  PROVE  /\ render_top_files[k].score = fileScore[topFiles[k]]
         /\ k > 1 => render_top_files[k - 1].score >= render_top_files[k].score
<1>1. /\ topFiles \in Ranking(Files, path, fileScore, topN)
      /\ IsFiniteSet(Files) /\ topN \in Nat
  BY NamesAreOrdered DEF RankedRight, TypeOK
<1>2. topFiles \in Seq(Files) /\ DOMAIN topFiles = 1..Len(topFiles) /\ Len(topFiles) \in Nat
  BY DEF TypeOK
<1> DEFINE n == Min({topN, Len(topFiles)})
<1>3. n \in Nat /\ n =< Len(topFiles)
  BY <1>1, <1>2, MinOfTwo
<1> HIDE DEF n
<1>4. render_top_files = [j \in 1..n |-> build_file_row(topFiles[j])]
  BY DEF render_top_files, n
<1>5. ASSUME NEW f \in Files PROVE build_file_row(f).score = fileScore[f]
  <2> DEFINE v == score_file(tests_of(f), score, FileMocks[f], assertions(f))
  <2>1. fileScore[f] = v
    BY DEF RankedRight
  <2>2. tests_of(f) = {} => v = 0
    BY DEF score_file
  <2> HIDE DEF v
  <2>3. group_test_scores_by_file(f) = tests_of(f)
    BY DEF group_test_scores_by_file, tests_of
  <2>4. build_file_row(f).score = IF tests_of(f) = {} THEN 0 ELSE v
    BY <2>3 DEF build_file_row, v
  <2> QED BY <2>1, <2>2, <2>4
<1>6. \A j \in 1..n : render_top_files[j].score = fileScore[topFiles[j]]
  BY <1>2, <1>3, <1>4, <1>5
<1>7. k \in 1..n /\ k \in DOMAIN topFiles /\ (k > 1 => k - 1 \in 1..n)
  BY <1>2, <1>3, <1>4
<1>8. \A f \in Files : fileScore[f] \in Nat
  BY FileScoresAreNumbers
<1>9. k > 1 => fileScore[topFiles[k - 1]] >= fileScore[topFiles[k]]
  BY <1>1, <1>7, <1>8, RankingGoesDown
<1> QED BY <1>6, <1>7, <1>9

\* The rows of the tests are as many as were ranked.
LEMMA TestRowsRight ==
  ASSUME TypeOK, Inputs, RankedRight, pc = "done", DistinctNodeIds(tests)
  PROVE  /\ Len(render_top_tests) = Len(topTests)
         /\ DOMAIN render_top_tests = DOMAIN topTests
         /\ \A k \in DOMAIN topTests :
              render_top_tests[k] = build_test_row(nodeid[topTests[k]], topTests[k])
<1>1. /\ topTests \in Ranking(candidates, nodeid, score, topN)
      /\ IsFiniteSet(candidates) /\ topN \in Nat
  BY PositionsFinite DEF RankedRight, TypeOK
<1>2. topTests \in Seq(Positions) /\ DOMAIN topTests = 1..Len(topTests) /\ Len(topTests) \in Nat
  BY DEF TypeOK
<1>3. Len(topTests) =< topN
  <2>1. Cardinality(candidates) \in Nat
    BY <1>1, FS_CardinalityType
  <2> QED BY <1>1, <2>1, MinOfTwo DEF Ranking, IsTopN
<1>4. Min({topN, Len(topTests)}) = Len(topTests)
  BY <1>1, <1>2, <1>3, MinOfTwo
<1>5. render_top_tests =
        [k \in 1..Len(topTests) |->
           build_test_row(nodeid[topTests[k]], by_nodeid(nodeid[topTests[k]]))]
  BY <1>4 DEF render_top_tests
<1>6. \A k \in 1..Len(topTests) : by_nodeid(nodeid[topTests[k]]) = topTests[k]
  BY <1>2, LookedUpAgain
<1> QED BY <1>2, <1>5, <1>6

\* Whoever reads the text sees what was ranked, by the scores that ranked it, and
\* nothing that the accepted section says was held back.
THEOREM ReaderSeesTheRankingCorrect == Spec => []ReaderSeesTheRanking
<1>1. ASSUME TypeOK, Inputs, RefinesInv, RankedRight, AcceptedSignalsCanonical, pc = "done",
             DistinctNodeIds(tests), NEW k \in DOMAIN render_top_tests
      PROVE  /\ render_top_tests[k] = build_test_row(nodeid[topTests[k]], topTests[k])
             /\ k > 1 => render_top_tests[k - 1].score >= render_top_tests[k].score
             /\ render_accepted.heading = "held back from the shortlist" =>
                  LET firing == active_signals(tests[topTests[k]])
                  IN  firing = {} \/ \E s \in firing :
                        <<render_top_tests[k].nodeid, s>> \notin render_accepted.findings
  <2>1. /\ topTests \in Ranking(candidates, nodeid, score, topN)
        /\ IsFiniteSet(candidates) /\ topN \in Nat /\ candidates \subseteq Positions
    BY <1>1, PositionsFinite DEF RankedRight, TypeOK, candidates
  <2>2. /\ DOMAIN render_top_tests = DOMAIN topTests
        /\ \A j \in DOMAIN topTests :
             /\ render_top_tests[j] = build_test_row(nodeid[topTests[j]], topTests[j])
             /\ render_top_tests[j].score = score[topTests[j]]
             /\ render_top_tests[j].nodeid = nodeid[topTests[j]]
    BY <1>1, TestRowsRight DEF build_test_row
  <2>3. topTests \in Seq(candidates)
    BY <2>1, RankingIsSeq
  <2>31. DOMAIN topTests = 1..Len(topTests) /\ Len(topTests) \in Nat
    BY <2>3
  <2> DEFINE i == topTests[k]
  <2>4. k \in DOMAIN topTests /\ i \in candidates /\ i \in Positions
    BY <1>1, <2>1, <2>2, <2>3, <2>31
  <2>5. \A c \in candidates : score[c] \in Nat
    <3>1. \A c \in Positions : tests[c] \in TestRecord
      BY <1>1 DEF Inputs, Positions
    <3> QED BY <1>1, <2>1, <3>1, ScoreType DEF RefinesInv, ScoresRight
  <2>6. k > 1 => score[topTests[k - 1]] >= score[topTests[k]]
    BY <2>1, <2>4, <2>5, RankingGoesDown
  <2>7. k > 1 => k - 1 \in DOMAIN topTests
    BY <2>31, <2>4
  <2>8. ASSUME render_accepted.heading = "held back from the shortlist",
               active_signals(tests[i]) # {}
        PROVE  \E s \in active_signals(tests[i]) :
                 <<nodeid[i], s>> \notin render_accepted.findings
    <3>1. ~include
      BY <2>8 DEF render_accepted
    <3>2. PICK s \in active_signals(tests[i]) :
            \A a \in DOMAIN accepted[i] : accepted[i][a] # s
      BY <2>4, <2>8, <3>1 DEF candidates, accepted_in_full
    <3>3. \A f \in DOMAIN findings : findings[f].test = tests[i].nodeid =>
            findings[f].signal # s
      BY <1>1, <2>4, <3>2 DEF AcceptedSignalsCanonical
    <3>4. nodeid[i] = tests[i].nodeid
      BY <2>4 DEF nodeid
    <3>5. render_accepted.findings =
            {<<findings[a].test, findings[a].signal>> : a \in DOMAIN findings}
      BY DEF render_accepted
    <3> QED BY <3>3, <3>4, <3>5
  <2> QED BY <2>2, <2>4, <2>6, <2>7, <2>8
<1>2. TypeOK /\ Inputs /\ RefinesInv /\ RankedRight /\ AcceptedSignalsCanonical
      => ReaderSeesTheRanking
  BY <1>1, FileRowsRight, TestRowsRight DEF ReaderSeesTheRanking
<1> QED
  BY <1>2, TypeCorrect, InputsInvariant, RefinesInvariant, RankedInvariant,
     AcceptedSignalsAreCanonical, PTL
===============================================================================
