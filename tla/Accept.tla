-------------------------------- MODULE Accept --------------------------------
(***************************************************************************)
(* The last stage of one scan: score_and_rank of src/lib.rs with           *)
(* accept::apply inlined where the code calls it.  Every test is scored    *)
(* from the raw evidence, the reviewed baseline is matched against the     *)
(* tests one entry at a time, and what is left is ranked into the          *)
(* shortlist.  One action per step of the loop, one per outcome of an      *)
(* entry.                                                                  *)
(***************************************************************************)
EXTENDS Evidence

CONSTANTS
  Records,      \* the test records a scan may produce
  MaxTests,     \* bound on the tests of one scan
  EntrySpace,   \* the entries a baseline file may hold
  MaxEntries,   \* bound on the entries of one file
  TopNs,        \* values of --top-suspicious
  FileMocks     \* mock constructions per file (FileRecord)

Entry ==
  [test : NodeIds, signal : Signals,
   fingerprint : Fingerprints \cup {NoFingerprint}]

ASSUME RecordsAssumption == Records \subseteq TestRecord /\ MaxTests \in Nat

ASSUME EntriesAssumption == EntrySpace \subseteq Entry /\ MaxEntries \in Nat

ASSUME OptionsAssumption == TopNs \subseteq Nat /\ FileMocks \in [Files -> Nat]

VARIABLES
  tests,        \* inv.test_functions: the records as parsed and smelled
  baseline,     \* Option<Baseline>: is there one, and its entries
  include,      \* --include-accepted
  topN,         \* --top-suspicious
  pc,           \* the step of score_and_rank to run next
  score,        \* suspicion_score per position of tests
  fileScore,    \* file_scores, per file
  resolved,     \* per entry, the position its nodeid names (0: none)
  next,         \* the entry the loop of apply takes next
  touched,      \* positions with an accepted signal, not sorted yet
  accepted,     \* accepted_signals per position of tests
  findings,     \* accepted.findings
  stale,        \* accepted.stale
  topTests,     \* positions behind top_suspicious.test_functions
  topFiles      \* top_suspicious.files

inputs == <<tests, baseline, include, topN>>
scores == <<score, fileScore>>
report == <<accepted, findings, stale>>
shortlists == <<topTests, topFiles>>
vars ==
  <<inputs, pc, scores, resolved, next, touched, report, shortlists>>

Positions == DOMAIN tests
Entries == baseline.entries

\* Sequences over S of at most n elements.
SeqUpTo(S, n) == UNION {[1..m -> S] : m \in 0..n}

\* parse() refuses a second entry for the same test and signal.
NoRepeat(entries) ==
  \A j \in DOMAIN entries, k \in DOMAIN entries :
     j # k => \/ entries[j].test # entries[k].test
              \/ entries[j].signal # entries[k].signal

DistinctNodeIds(ts) ==
  \A i \in DOMAIN ts, j \in DOMAIN ts : ts[i].nodeid = ts[j].nodeid => i = j

Statuses == {"unknown_test", "content_changed", "signal_not_active"}

nodeid == [i \in Positions |-> tests[i].nodeid]
path == [f \in Files |-> f]

tests_of(f) == {i \in Positions : tests[i].file = f}

\* assertion_count of a FileRecord.
assertions(f) == Total([i \in Positions |-> tests[i].assertion_count], tests_of(f))

\* A slip: one accepted signal is enough.
accepted_in_part(i) ==
  \E s \in active_signals(tests[i]) :
    \E a \in DOMAIN accepted[i] : accepted[i][a] = s

accepted_in_full(i) ==
  LET active == active_signals(tests[i])
  IN  /\ active # {}
      /\ \A s \in active : \E a \in DOMAIN accepted[i] : accepted[i][a] = s

-------------------------------------------------------------------------------

Init ==
  /\ tests \in SeqUpTo(Records, MaxTests)
  /\ \E present \in BOOLEAN :
       \E entries \in SeqUpTo(EntrySpace, IF present THEN MaxEntries ELSE 0) :
         /\ NoRepeat(entries)
         /\ baseline = [present |-> present, entries |-> entries]
  /\ include \in BOOLEAN
  /\ topN \in TopNs
  /\ pc = "score"
  /\ score = [i \in Positions |-> 0]
  /\ fileScore = [f \in Files |-> 0]
  /\ resolved = <<>>
  /\ next = 1
  /\ touched = {}
  /\ accepted = [i \in Positions |-> <<>>]
  /\ findings = <<>>
  /\ stale = <<>>
  /\ topTests = <<>>
  /\ topFiles = <<>>

\* Scores come first, from the raw evidence.
Score ==
  /\ pc = "score"
  /\ score' = [i \in Positions |-> score_test(tests[i])]
  /\ fileScore' = [f \in Files |->
       score_file(tests_of(f), score', FileMocks[f], assertions(f))]
  /\ pc' = IF baseline.present THEN "index" ELSE "rank"
  /\ UNCHANGED <<inputs, resolved, next, touched, report, shortlists>>

\* A slip: position 0 of the code is taken for "not there".
IsPositionButFirst(id, p) ==
  LET carriers == {i \in Positions \ {1} : tests[i].nodeid = id}
  IN  IF carriers = {} THEN p = 0
      ELSE p \in carriers /\ \A i \in carriers : i =< p

\* The BTreeMap collected from (nodeid, position) pairs keeps the last one.
IsPosition(id, p) ==
  LET carriers == {i \in Positions : tests[i].nodeid = id}
  IN  IF carriers = {} THEN p = 0
      ELSE p \in carriers /\ \A i \in carriers : i =< p

Index ==
  /\ pc = "index"
  /\ \E r \in [DOMAIN Entries -> 0..Len(tests)] :
       /\ \A k \in DOMAIN Entries : IsPosition(Entries[k].test, r[k])
       /\ resolved' = r
  /\ pc' = "match"
  /\ UNCHANGED <<inputs, scores, next, touched, report, shortlists>>

-------------------------------------------------------------------------------
(* One turn of the loop over the entries *)

entry == Entries[next]
position == resolved[next]

\* A slip: an entry that pins nothing is taken for changed.
ContentNotPinned(e, t) == t.fingerprint # e.fingerprint

\* A recorded fingerprint that is not the current one; no fingerprint in this
\* run counts as a change.
ContentDiffers(e, t) ==
  e.fingerprint # NoFingerprint /\ t.fingerprint # e.fingerprint

\* A slip: every other entry is skipped.
MatchEveryOther ==
  /\ pc = "match"
  /\ next =< Len(Entries)
  /\ next' = next + 2
  /\ UNCHANGED <<inputs, pc, scores, resolved, shortlists>>

MatchNext ==
  /\ pc = "match"
  /\ next =< Len(Entries)
  /\ next' = next + 1
  /\ UNCHANGED <<inputs, pc, scores, resolved, shortlists>>

StaleEntry(status) ==
  /\ stale' = Append(stale, [entry |-> entry, status |-> status])
  /\ UNCHANGED <<accepted, findings, touched>>

\* A slip: an entry for a test that is gone is dropped without a word.
UnknownTestDropped ==
  /\ MatchNext
  /\ position = 0
  /\ UNCHANGED <<accepted, findings, touched, stale>>

UnknownTest ==
  /\ MatchNext
  /\ position = 0
  /\ StaleEntry("unknown_test")

\* Checked before the signal: a changed test is looked at again whatever fires.
ContentChanged ==
  /\ MatchNext
  /\ position # 0
  /\ ContentDiffers(entry, tests[position])
  /\ StaleEntry("content_changed")

SignalNotActive ==
  /\ MatchNext
  /\ position # 0
  /\ ~ContentDiffers(entry, tests[position])
  /\ entry.signal \notin active_signals(tests[position])
  /\ StaleEntry("signal_not_active")

Accepted ==
  /\ MatchNext
  /\ position # 0
  /\ ~ContentDiffers(entry, tests[position])
  /\ entry.signal \in active_signals(tests[position])
  /\ accepted' = [accepted EXCEPT ![position] = Append(@, entry.signal)]
  /\ findings' = Append(findings, entry)
  /\ touched' = touched \cup {position}
  /\ UNCHANGED stale

-------------------------------------------------------------------------------

\* Alphabetical order of the signal names.
Alphabetical(s) ==
  CASE s = "high_setup_ratio" -> 1
    [] s = "mock_only_assertions" -> 2
    [] s = "mock_overuse" -> 3
    [] s = "zero_asserts" -> 4

\* t is s sorted: some rearrangement of it, in alphabetical order.
IsSorted(s, t) ==
  /\ \E p \in [DOMAIN s -> DOMAIN s] :
       /\ \A a \in DOMAIN s, b \in DOMAIN s : p[a] = p[b] => a = b
       /\ \A a \in DOMAIN s : t[a] = s[p[a]]
  /\ \A a \in DOMAIN s, b \in DOMAIN s :
       a < b => Alphabetical(t[a]) =< Alphabetical(t[b])

\* After the last entry each touched list is sorted, in place.
SortTouched ==
  /\ pc = "match"
  /\ next > Len(Entries)
  /\ \E i \in touched : \E t \in [DOMAIN accepted[i] -> Signals] :
       /\ \A j \in touched : i =< j
       /\ IsSorted(accepted[i], t)
       /\ accepted' = [accepted EXCEPT ![i] = t]
       /\ touched' = touched \ {i}
  /\ UNCHANGED <<inputs, pc, scores, resolved, next, findings, stale, shortlists>>

\* A slip: the lists are left in the order of the file.
AppliedUnsorted ==
  /\ pc = "match"
  /\ next > Len(Entries)
  /\ pc' = "rank"
  /\ UNCHANGED <<inputs, scores, resolved, next, touched, report, shortlists>>

Applied ==
  /\ pc = "match"
  /\ next > Len(Entries)
  /\ touched = {}
  /\ pc' = "rank"
  /\ UNCHANGED <<inputs, scores, resolved, next, touched, report, shortlists>>

\* --include-accepted turns the filter off.
candidates == {i \in Positions : include \/ ~accepted_in_full(i)}

Ranking(C, name, value, n) ==
  {r \in [1..Min({n, Cardinality(C)}) -> C] : IsTopN(r, C, n, value, name)}

Rank ==
  /\ pc = "rank"
  /\ topTests' \in Ranking(candidates, nodeid, score, topN)
  /\ topFiles' \in Ranking(Files, path, fileScore, topN)
  /\ pc' = "done"
  /\ UNCHANGED <<inputs, scores, resolved, next, touched, report>>

Done == pc = "done" /\ UNCHANGED vars

Next ==
  \/ Score
  \/ Index
  \/ UnknownTest
  \/ ContentChanged
  \/ SignalNotActive
  \/ Accepted
  \/ SortTouched
  \/ Applied
  \/ Rank
  \/ Done

Spec == Init /\ [][Next]_vars

-------------------------------------------------------------------------------
(* Properties *)

TypeOK ==
  /\ tests \in Seq(TestRecord)
  /\ baseline \in [present : BOOLEAN, entries : Seq(Entry)]
  /\ include \in BOOLEAN
  /\ topN \in Nat
  /\ pc \in {"score", "index", "match", "rank", "done"}
  /\ DOMAIN score = Positions
  /\ DOMAIN fileScore = Files
  /\ pc = "match" => resolved \in [DOMAIN Entries -> 0..Len(tests)]
  /\ next \in 1..Len(Entries) + 1
  /\ touched \subseteq Positions
  /\ accepted \in [Positions -> Seq(Signals)]
  /\ findings \in Seq(Entry)
  /\ stale \in Seq([entry : Entry, status : Statuses])
  /\ topTests \in Seq(Positions)
  /\ topFiles \in Seq(Files)

Found(e) == \E a \in DOMAIN findings : findings[a] = e
WentStale(e) == \E a \in DOMAIN stale : stale[a].entry = e

\* At every turn of the loop each entry already taken is reported exactly once,
\* either as a live finding or as stale, and no other entry is: apply() drops
\* no reviewer's decision silently and reports none twice.
EveryEntryAccountedForOnce ==
  /\ Len(findings) + Len(stale) = next - 1
  /\ \A k \in DOMAIN Entries :
       /\ k < next => (Found(Entries[k]) <=> ~WentStale(Entries[k]))
       /\ k >= next => ~Found(Entries[k]) /\ ~WentStale(Entries[k])

\* Somebody reviewed signal s of this very test: the entry pins no content, or
\* pins the content the test has now.
Reviewed(t, s) ==
  \E k \in DOMAIN Entries :
     /\ Entries[k].test = t.nodeid
     /\ Entries[k].signal = s
     /\ Entries[k].fingerprint \in {NoFingerprint, t.fingerprint}

Listed(i) == \E a \in DOMAIN topTests : topTests[a] = i

\* A test that fires at all and is missing from a shortlist that was not cut
\* short by --top-suspicious had every one of its firing signals reviewed as
\* it stands now.  An entry that went stale never suppresses anything, one
\* unreviewed signal brings the test back, and a test that fires nothing is
\* never held back (apply, accepted_in_full and the filter of score_and_rank).
HeldBackMeansReviewed ==
  pc = "done" /\ Len(topTests) < topN =>
    \A i \in Positions : ~Listed(i) =>
      /\ ~include
      /\ active_signals(tests[i]) # {}
      /\ \A s \in active_signals(tests[i]) : Reviewed(tests[i], s)

\* accepted_signals does not depend on the order of the entries in the file:
\* once apply() is over it is strictly alphabetical, so without repetition,
\* and its members are the signals of the findings reported for that test.
AcceptedSignalsCanonical ==
  pc \in {"rank", "done"} =>
    \A i \in Positions :
      /\ \A a \in DOMAIN accepted[i], b \in DOMAIN accepted[i] :
           a < b => Alphabetical(accepted[i][a]) < Alphabetical(accepted[i][b])
      /\ \A a \in DOMAIN accepted[i] : \E f \in DOMAIN findings :
           /\ findings[f].test = tests[i].nodeid
           /\ findings[f].signal = accepted[i][a]
      /\ DistinctNodeIds(tests) =>
           \A f \in DOMAIN findings : findings[f].test = tests[i].nodeid =>
             \E a \in DOMAIN accepted[i] : accepted[i][a] = findings[f].signal

\* docs/guide/analyze.md on accepted.stale[].status: content_changed "is the
\* only status that can hide a real, currently-firing finding".  So an entry
\* reported with another status names a signal that fires on no test of that
\* nodeid.  It holds while nodeids are unique within a scan.
OnlyContentChangedHidesAFiringFinding ==
  DistinctNodeIds(tests) =>
  \A a \in DOMAIN stale : stale[a].status # "content_changed" =>
    \A i \in Positions : tests[i].nodeid = stale[a].entry.test =>
      stale[a].entry.signal \notin active_signals(tests[i])
===============================================================================
