--------------------------- MODULE AcceptContract ---------------------------
(***************************************************************************)
(* What the acceptance baseline promises, in one step and without loops:   *)
(* which entries apply, why the others do not, and which tests the         *)
(* shortlist names.  Accept implements it.                                 *)
(***************************************************************************)
EXTENDS Evidence

CONSTANTS Undecided     \* the outcome before the scan reports

VARIABLES tests, baseline, include, topN, outcome

vars == <<tests, baseline, include, topN, outcome>>

Positions == DOMAIN tests

EntrySet == {baseline.entries[k] : k \in DOMAIN baseline.entries}

\* Python keeps the last definition of a name, and so does the baseline.
Bears(i, id) ==
  /\ tests[i].nodeid = id
  /\ \A j \in Positions : tests[j].nodeid = id => j =< i

\* A slip: an entry that pins nothing never stands.
StandsIfPinned(e, i) ==
  Bears(i, e.test) /\ e.fingerprint = tests[i].fingerprint

\* An entry stands on test i while the content it was pinned to is unchanged.
Stands(e, i) ==
  /\ Bears(i, e.test)
  /\ e.fingerprint \in {NoFingerprint, tests[i].fingerprint}

Applies(e, i) == Stands(e, i) /\ e.signal \in active_signals(tests[i])

\* A slip: whatever does not stand is reported as gone.
StatusGone(e) ==
  IF \A i \in Positions : ~Stands(e, i) THEN "unknown_test"
  ELSE "signal_not_active"

Status(e) ==
  IF \A i \in Positions : ~Bears(i, e.test) THEN "unknown_test"
  ELSE IF \A i \in Positions : ~Stands(e, i) THEN "content_changed"
  ELSE "signal_not_active"

Live == {e \in EntrySet : \E i \in Positions : Applies(e, i)}

\* Held back: something fires, and all of it has been accepted.
HeldBack(i) ==
  /\ active_signals(tests[i]) # {}
  /\ \A s \in active_signals(tests[i]) :
       \E e \in EntrySet : e.signal = s /\ Applies(e, i)

Actionable == {i \in Positions : include \/ ~HeldBack(i)}

Scores == [i \in Positions |-> score_test(tests[i])]

Name == [i \in Positions |-> tests[i].nodeid]

Shortlisted(i) ==
  /\ i \in Actionable
  /\ Cardinality({j \in Actionable : Outranks(j, i, Scores, Name)}) < topN

Init == outcome = Undecided

\* Tests that tie in score and name are interchangeable at the cut.
Decide ==
  /\ outcome = Undecided
  /\ \E listed \in SUBSET {i \in Positions : Shortlisted(i)} :
       /\ Cardinality(listed) = Min({topN, Cardinality(Actionable)})
       /\ \A i \in listed, j \in Actionable :
            Outranks(j, i, Scores, Name) => j \in listed
       /\ outcome' =
            [findings |-> Live,
             stale |-> {[entry |-> e, status |-> Status(e)] : e \in EntrySet \ Live},
             listed |-> listed]
  /\ UNCHANGED <<tests, baseline, include, topN>>

Spec == Init /\ [][Decide]_vars
===============================================================================
