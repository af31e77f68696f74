-------------------------------- MODULE Review --------------------------------
(***************************************************************************)
(* The life of a baseline between scans: developers edit tests, a reviewer *)
(* works from the inventory of some earlier scan and adds, renews and      *)
(* deletes entries the way docs/guide tells them to, and every scan checks *)
(* the entries against the code of that moment.  A scan is one action; what *)
(* it decides is AcceptContract, which Accept implements.  The code base   *)
(* has one test per file, named by it.                                     *)
(***************************************************************************)
EXTENDS Evidence, SequencesExt

CONSTANTS
  Bodies,       \* texts a test may have
  Parsed,       \* per body, and with or without a mocked class around it, the
                \* record the parser makes
  AnyText,      \* what a judgement without a pin covers
  Undecided,    \* outcome of the contract, not used here
  MaxEdits      \* bound on the edits of a behaviour

ASSUME BodiesAssumption ==
  /\ NodeIds = Files
  /\ Parsed \in [Bodies -> [BOOLEAN -> TestRecord]]
  /\ MaxEdits \in Nat

\* "Unreachable today" (parser.rs): a file that was read as text is UTF-8, so
\* every test in it has a fingerprint.
ASSUME ParsedHaveFingerprints ==
  \A b \in Bodies, patched \in BOOLEAN : Parsed[b][patched].fingerprint \in Fingerprints

Gone == "gone"      \* no test of that name

VARIABLES
  code,       \* the text of each test, or Gone
  mocked,     \* does a class-level patch surround the test
  edits,      \* edits made so far
  book,       \* the entries of the baseline file
  tests,      \* the inventory in the reviewer's hands
  whole,      \* was the scan behind it a project scan that skipped no file
  applied,    \* the entries that scan has applied
  seen,       \* the code it was made of: the text under each name, or Gone
  reviewed    \* the judgements made: test, signal, text

source == <<code, mocked, edits>>
inventory == <<tests, whole, applied, seen>>
vars == <<source, book, inventory, reviewed>>

Positions == DOMAIN tests

Entries(es) ==
  [present |-> TRUE, entries |-> SetToSeq(es)]

\* The shortlist is long enough for every test.
Scanned == INSTANCE AcceptContract
  WITH baseline <- Entries(applied), include <- FALSE,
       topN <- Cardinality(NodeIds), outcome <- Undecided

-------------------------------------------------------------------------------

Init ==
  /\ code \in [NodeIds -> Bodies]
  /\ mocked = [n \in NodeIds |-> FALSE]
  /\ edits = 0
  /\ book = {}
  /\ tests = <<>>
  /\ whole = FALSE
  /\ applied = {}
  /\ seen = [n \in NodeIds |-> Gone]
  /\ reviewed = {}

\* A developer rewrites a test, deletes it or brings it back.
Edit ==
  /\ edits < MaxEdits
  /\ edits' = edits + 1
  /\ \E n \in NodeIds, b \in Bodies \cup {Gone} :
       b # code[n] /\ code' = [code EXCEPT ![n] = b]
  /\ UNCHANGED <<mocked, book, inventory, reviewed>>

\* A decorator on the class counts for its tests and is not part of their text.
PatchClass ==
  /\ edits < MaxEdits
  /\ edits' = edits + 1
  /\ \E n \in NodeIds : mocked' = [mocked EXCEPT ![n] = ~@]
  /\ UNCHANGED <<code, book, inventory, reviewed>>

Record(n) ==
  [Parsed[code[n]][mocked[n]] EXCEPT !.nodeid = n, !.file = n]

\* The tests a scan is asked for: all (pycoati DIR), or those of one file
\* (pycoati FILE).
Asked(scope) ==
  IF scope = "project" THEN {NodeIds} ELSE {{n} : n \in NodeIds}

\* A project scan skips with a warning a file it cannot read or decode, a file
\* scan fails on it and reports nothing.  What a scan does not read is missing from its
\* inventory.
Scan ==
  \E scope \in {"project", "file"}, unread \in SUBSET NodeIds :
    /\ unread # {} => scope = "project"
    /\ \E asked \in Asked(scope) :
         LET read == {n \in asked \ unread : code[n] # Gone}
         IN  \E order \in [1..Cardinality(read) -> read] :
               /\ \A i \in DOMAIN order, j \in DOMAIN order : i < j => order[i] < order[j]
               /\ tests' = [i \in DOMAIN order |-> Record(order[i])]
    /\ whole' = (scope = "project" /\ unread = {})
    /\ applied' = book
    /\ seen' = code
    /\ UNCHANGED <<source, book, reviewed>>

-------------------------------------------------------------------------------
(* The reviewer, after docs/guide/setup.md, "Stale entries" and "[[accept]]" *)

Text(i) == tests[i].fingerprint

\* A slip: the pin is taken from the checkout, not from the inventory reviewed.
PinOfCheckout(i, pinned) ==
  IF pinned /\ code[tests[i].nodeid] # Gone
  THEN Record(tests[i].nodeid).fingerprint ELSE NoFingerprint

Pin(i, pinned) == IF pinned THEN Text(i) ELSE NoFingerprint

Judgement(i, s, text) == [test |-> tests[i].nodeid, signal |-> s, text |-> text]

\* A firing signal of a shortlisted test is judged acceptable.  An entry for
\* the same test and signal is replaced: the file would not load with both.
Accept ==
  \E i \in Positions, pinned \in BOOLEAN :
    /\ Scanned!Shortlisted(i)
    /\ \E s \in active_signals(tests[i]) :
         /\ ~\E e \in Scanned!EntrySet : e.signal = s /\ Scanned!Applies(e, i)
         /\ book' = {e \in book : ~(e.test = tests[i].nodeid /\ e.signal = s)}
                    \cup {[test |-> tests[i].nodeid, signal |-> s,
                           fingerprint |-> Pin(i, pinned)]}
         /\ reviewed' = reviewed
              \cup {Judgement(i, s, IF pinned THEN Text(i) ELSE AnyText)}
    /\ UNCHANGED <<source, inventory>>

\* "Delete the entry."
Delete ==
  \E e \in applied \cap book :
    /\ e \notin Scanned!Live
    /\ Scanned!Status(e) \in {"unknown_test", "signal_not_active"}
    /\ book' = book \ {e}
    /\ UNCHANGED <<source, inventory, reviewed>>

Next == Edit \/ PatchClass \/ Scan \/ Accept \/ Delete

\* People go on: they scan the project, judge what the shortlist shows and clear
\* away what is reported stale.  Nobody is obliged to edit.
Spec ==
  /\ Init /\ [][Next]_vars
  /\ WF_vars(Scan /\ whole') /\ SF_vars(Accept) /\ SF_vars(Delete)

-------------------------------------------------------------------------------
(* Properties *)

\* However edits, class patches, scans and reviews interleave, a test is held
\* back only if each signal that fires on it was judged by a reviewer who had
\* this very text before them, or who left the entry unpinned.  A signal that
\* starts firing later, on the same text, brings the test back.
HeldBackWasJudged ==
  \A i \in Positions : Scanned!HeldBack(i) =>
    \A s \in active_signals(tests[i]) :
      \E j \in reviewed : /\ j.test = tests[i].nodeid
                          /\ j.signal = s
                          /\ j.text \in {AnyText, Text(i)}

\* docs/guide/setup.md on unknown_test: "the nodeid is gone. Delete the entry."
\* So, if the whole project was read, its code has no test of that name.
UnknownMeansGone ==
  whole => \A e \in applied \ Scanned!Live :
             Scanned!Status(e) = "unknown_test" => seen[e.test] = Gone

\* Whoever keeps scanning, judging and deleting comes to an end once the code
\* is left alone and each scan reads all of it: every firing test of the
\* inventory is held back by the baseline, and no entry is left for deletion.
ReviewSettles ==
  <>[]whole =>
  <>[](/\ \A i \in Positions :
            active_signals(tests[i]) # {} => Scanned!HeldBack(i)
       /\ \A e \in applied \ Scanned!Live :
            Scanned!Status(e) = "content_changed")
===============================================================================
