----------------------------- MODULE PytestOutput -----------------------------
(***************************************************************************)
(* What the scan makes of the text its pytest children print (src/pytest.rs) *)
(* and of the report coverage.py writes (src/coverage.rs).  The children    *)
(* are external: they print what pytest prints, and between it whatever     *)
(* conftest files, plugins and failing tests print.  A line is a sequence   *)
(* of words, told apart as far as the parsers do.                           *)
(***************************************************************************)
EXTENDS Naturals, Sequences, SequencesExt, FiniteSets

CONSTANTS
  Chatter,      \* lines that are not pytest's own
  MaxChatter,   \* bound on those in one run
  Items,        \* the tests that may be selected
  Durations,    \* seconds a stage of a test may take
  Runtimes,     \* seconds a run may take
  MaxRows,      \* bound on the rows of the durations report
  Cap,          \* SLOWEST_TESTS_CAP
  Null

Word ==
  [is : {"number", "seconds"}, n : Nat] \cup [is : {"nodeid"}, n : Items]
  \cup [is : {"word"}, text : STRING]

Number(n) == [is |-> "number", n |-> n]
Seconds(n) == [is |-> "seconds", n |-> n]
NodeId(i) == [is |-> "nodeid", n |-> i]
W(t) == [is |-> "word", text |-> t]

Line == [indented : BOOLEAN, words : Seq(Word)]

Plain(words) == [indented |-> FALSE, words |-> words]

ASSUME TextAssumption ==
  /\ Chatter \subseteq Line /\ MaxChatter \in Nat
  /\ Items \subseteq Nat /\ Durations \subseteq Nat /\ Runtimes \subseteq Nat
  /\ MaxRows \in Nat /\ Cap \in Nat \ {0}

Stages == {"call", "teardown"}   \* "setup" is read like "teardown"

VARIABLES
  pc,      \* which child runs, and what it prints next
  text,    \* what it has printed
  chatter, \* the lines among them that are not pytest's
  fact,    \* what pytest knows
  suite    \* the fields of the inventory

vars == <<pc, text, chatter, fact, suite>>

-------------------------------------------------------------------------------
(* The parsers *)

Is(word, t) == word.is = "word" /\ word.text = t

\* The words before the first " collected", or all of them.
UpToCollected(words) ==
  LET ends == {k \in 2..Len(words) : Is(words[k], "collected")}
  IN  IF ends = {} THEN words
      ELSE SubSeq(words, 1, (CHOOSE k \in ends : \A j \in ends : k =< j) - 1)

\* "<N> ... collected", or "<N> tests" up to " collected".
ReadsAsCount(l) ==
  /\ l.words # <<>>
  /\ Head(l.words).is = "number"
  /\ \/ Len(l.words) > 1 /\ Is(Last(l.words), "collected")
     \/ LET prefix == UpToCollected(l.words)
        IN  Len(prefix) = 2 /\ (Is(prefix[2], "test") \/ Is(prefix[2], "tests"))

\* A line that the fallback counts.
ReadsAsNodeId(l) ==
  /\ l.words # <<>> /\ ~l.indented
  /\ ~Is(Head(l.words), "=") /\ ~Is(Head(l.words), "_")
  /\ \E k \in DOMAIN l.words : l.words[k].is = "nodeid"

\* A slip: node ids are counted whenever there are some.
NodeIdsFirst(out) ==
  LET ids == SelectSeq(out, ReadsAsNodeId)
      counts == SelectSeq(out, ReadsAsCount)
  IN  IF ids # <<>> THEN Len(ids)
      ELSE IF counts # <<>> THEN Head(Head(counts).words).n ELSE Null

parse_collection_count(out) ==
  LET counts == SelectSeq(out, ReadsAsCount)
      ids == SelectSeq(out, ReadsAsNodeId)
  IN  IF counts # <<>> THEN Head(Head(counts).words).n
      ELSE IF ids # <<>> THEN Len(ids) ELSE Null

OpensDurations(l) ==
  \E k \in 1..Len(l.words) - 1 :
    Is(l.words[k], "slowest") /\ Is(l.words[k + 1], "durations")

ClosesDurations(l) == l.words # <<>> /\ Is(Head(l.words), "=")

\* parse_duration_line: "<N>s call <nodeid>".
ReadsAsRow(l) ==
  /\ Len(l.words) > 2
  /\ l.words[1].is = "seconds"
  /\ Is(l.words[2], "call")

\* A slip: rows are read wherever they stand.
RowsAnywhere(out) == SelectSeq(out, ReadsAsRow)

\* The rows after the first line that opens the section, up to one that closes
\* it.
Rows(out) ==
  LET opened == SelectInSeq(out, OpensDurations)
      after == SubSeq(out, opened + 1, Len(out))
      closed == SelectInSeq(after, ClosesDurations)
  IN  IF opened = 0 THEN <<>>
      ELSE SelectSeq(IF closed = 0 THEN after ELSE SubSeq(after, 1, closed - 1),
                     ReadsAsRow)

\* The node id keeps its spaces.
SlowTest(l) ==
  [nodeid |-> SubSeq(l.words, 3, Len(l.words)), seconds |-> l.words[1].n]

\* A slip: the list is not cut.
NotCut(out, cap) ==
  LET rows == Rows(out)
      order == SetToSortSeq(DOMAIN rows,
                 LAMBDA i, j : \/ rows[i].words[1].n > rows[j].words[1].n
                               \/ rows[i].words[1].n = rows[j].words[1].n /\ i < j)
  IN  [i \in DOMAIN order |-> SlowTest(rows[order[i]])]

\* A stable sort, slowest first, then the cut.
parse_slowest_tests(out, cap) ==
  LET rows == Rows(out)
      order == SetToSortSeq(DOMAIN rows,
                 LAMBDA i, j : \/ rows[i].words[1].n > rows[j].words[1].n
                               \/ /\ rows[i].words[1].n = rows[j].words[1].n
                                  /\ i < j)
      kept == {i \in DOMAIN order : i =< cap}
  IN  [i \in kept |-> SlowTest(rows[order[i]])]

\* The positions of "in <N>s"; a line starts with " in " only when indented.
RuntimeAt(l) ==
  {k \in 1..Len(l.words) - 1 :
     /\ Is(l.words[k], "in")
     /\ k > 1 \/ l.indented
     /\ l.words[k + 1].is = "seconds"}

ReadsAsRuntime(l) == RuntimeAt(l) # {}

\* A slip: the text is read from its start.
FirstRuntime(out) ==
  LET i == SelectInSeq(out, ReadsAsRuntime)
  IN  IF i = 0 THEN Null
      ELSE out[i].words[(CHOOSE k \in RuntimeAt(out[i]) :
                           \A j \in RuntimeAt(out[i]) : k =< j) + 1].n

parse_runtime_seconds(out) ==
  LET i == SelectLastInSeq(out, ReadsAsRuntime)
  IN  IF i = 0 THEN Null
      ELSE out[i].words[(CHOOSE k \in RuntimeAt(out[i]) :
                           \A j \in RuntimeAt(out[i]) : k =< j) + 1].n

TotalSeconds(rows) == FoldSeq(LAMBDA r, sum : sum + r.seconds, 0, rows)

\* All rows are added up, also those the cap cuts off.
Runtime(out) ==
  LET all == parse_slowest_tests(out, Len(out))
  IN  IF parse_runtime_seconds(out) # Null THEN parse_runtime_seconds(out)
      ELSE IF all # <<>> THEN TotalSeconds(all) ELSE Null

\* classify_raw_report and extract_percent_covered.
Percent(report) ==
  IF ~report.parses \/ ~report.totals THEN Null
  ELSE IF report.percent_covered # Null THEN report.percent_covered
  ELSE report.percent_covered_display

-------------------------------------------------------------------------------
(* pytest --collect-only -q *)

\* summary: does pytest end with a summary line; not with -qq.
Init ==
  /\ pc = "collecting"
  /\ text = <<>>
  /\ chatter = {}
  /\ fact \in [selected : {0}, deselected : 0..1, errors : BOOLEAN,
               summary : BOOLEAN, rows : {<<>>}, seconds : Runtimes]
  /\ suite = [test_count |-> Null, runtime_seconds |-> Null,
              slowest_tests |-> <<>>, line_coverage_pct |-> Null]

Printed(l) == text' = Append(text, l)

\* Prints of conftest files and plugins; in a run also what failing tests
\* printed, which pytest shows before the durations and never within them, and
\* the messages of their failures, which come after them.
Chat ==
  /\ pc \in {"collecting", "running", "failures"}
  /\ Cardinality(chatter) < MaxChatter
  /\ \E l \in Chatter \ chatter : Printed(l) /\ chatter' = chatter \cup {l}
  /\ UNCHANGED <<pc, fact, suite>>

\* -qq names files and not tests.
SelectItem ==
  /\ pc = "collecting"
  /\ fact.selected + 1 \in Items
  /\ fact' = [fact EXCEPT !.selected = @ + 1]
  /\ IF fact.summary THEN Printed(Plain(<<NodeId(fact.selected + 1)>>))
     ELSE UNCHANGED text
  /\ UNCHANGED <<pc, chatter, suite>>

\* "no tests", "2/3 tests", "1 test", "2 tests"; "..., 1 error" after errors.
CollectionSummary ==
  Plain((CASE fact.selected = 0 -> <<W("no"), W("tests")>>
           [] fact.selected # 0 /\ fact.deselected # 0 ->
                <<W("part of all"), W("tests")>>
           [] fact.selected = 1 /\ fact.deselected = 0 -> <<Number(1), W("test")>>
           [] OTHER -> <<Number(fact.selected), W("tests")>>)
        \o <<W("collected")>>
        \o (IF fact.errors THEN <<W(", 1 error")>> ELSE <<>>)
        \o <<W("in"), Seconds(fact.seconds)>>)

EndCollection ==
  /\ pc = "collecting"
  /\ IF fact.summary THEN Printed(CollectionSummary) ELSE UNCHANGED text
  /\ pc' = "collected"
  /\ UNCHANGED <<chatter, fact, suite>>

\* What only the first child knew.
Forgotten == fact' = [fact EXCEPT !.deselected = 0, !.errors = FALSE]

\* run_collection; the exit code does not matter.
CollectionRead ==
  /\ pc = "collected"
  /\ suite' = [suite EXCEPT !.test_count = parse_collection_count(text)]
  /\ pc' = "running"
  /\ text' = <<>>
  /\ chatter' = {}
  /\ Forgotten

\* run_pytest: a child that did not start, or output that is not UTF-8.
CollectionUnusable ==
  /\ pc = "collected"
  /\ pc' = "running"
  /\ text' = <<>>
  /\ chatter' = {}
  /\ Forgotten
  /\ UNCHANGED suite

-------------------------------------------------------------------------------
(* pytest --durations=0 --durations-min=0 -q *)

Fence(words) == Plain(<<W("=")>> \o words)

StartDurations ==
  /\ pc = "running"
  /\ Printed(Fence(<<W("slowest"), W("durations")>>))
  /\ pc' = "durations"
  /\ UNCHANGED <<chatter, fact, suite>>

\* One row for each stage of each test, in whatever order.
DurationRow ==
  /\ pc = "durations"
  /\ Len(fact.rows) < MaxRows
  /\ \E i \in 1..fact.selected, s \in Stages, n \in Durations :
       LET l == Plain(<<Seconds(n), W(s), NodeId(i)>>)
       IN  /\ \A r \in Range(fact.rows) : Tail(r.words) # Tail(l.words)
           /\ Printed(l)
           /\ fact' = [fact EXCEPT !.rows = Append(@, l)]
  /\ UNCHANGED <<pc, chatter, suite>>

\* With or without the short summary of failures.
EndDurations ==
  /\ pc \in {"running", "durations"}
  /\ \/ UNCHANGED text
     \/ Printed(Fence(<<W("short"), W("test"), W("summary"), W("info")>>))
  /\ pc' = IF text' = text THEN "ending" ELSE "failures"
  /\ UNCHANGED <<chatter, fact, suite>>

EndRun ==
  /\ pc \in {"failures", "ending"}
  /\ IF fact.summary
     THEN Printed(Plain(<<Number(1), W("passed"), W("in"), Seconds(fact.seconds)>>))
     ELSE UNCHANGED text
  /\ pc' = "ran"
  /\ UNCHANGED <<chatter, fact, suite>>

\* run_durations
DurationsRead ==
  /\ pc = "ran"
  /\ suite' = [suite EXCEPT !.slowest_tests = parse_slowest_tests(text, Cap),
                            !.runtime_seconds = Runtime(text)]
  /\ pc' = "read"
  /\ UNCHANGED <<text, chatter, fact>>

DurationsUnusable ==
  /\ pc = "ran"
  /\ pc' = "read"
  /\ text' = <<>>
  /\ UNCHANGED <<chatter, fact, suite>>

\* run_coverage: a temporary file that pytest may leave empty.
CoverageRead ==
  /\ pc = "read"
  /\ \E report \in [parses : BOOLEAN, totals : BOOLEAN,
                    percent_covered : {Null, 1},
                    percent_covered_display : {Null, 0}] :
       suite' = [suite EXCEPT !.line_coverage_pct = Percent(report)]
  /\ pc' = "done"
  /\ UNCHANGED <<text, chatter, fact>>

Exit == pc = "done" /\ UNCHANGED vars

Next ==
  \/ Chat
  \/ SelectItem \/ EndCollection \/ CollectionRead \/ CollectionUnusable
  \/ StartDurations \/ DurationRow \/ EndDurations \/ EndRun
  \/ DurationsRead \/ DurationsUnusable
  \/ CoverageRead \/ Exit

Spec == Init /\ [][Next]_vars

-------------------------------------------------------------------------------
(* Properties *)

\* Every field is a number or null, and the list of slow tests is never longer
\* than SLOWEST_TESTS_CAP (pytest.rs:113).
TypeOK ==
  /\ pc \in {"collecting", "collected", "running", "durations", "failures",
             "ending", "ran", "read", "done"}
  /\ text \in Seq(Line)
  /\ chatter \subseteq Chatter
  /\ suite.test_count \in Nat \cup {Null}
  /\ suite.runtime_seconds \in Nat \cup {Null}
  /\ Len(suite.slowest_tests) =< Cap
  /\ suite.line_coverage_pct \in {Null, 0, 1}

\* What pytest collected is what the inventory says (pytest.rs:217), with or
\* without deselected tests, errors or a summary line, unless a line of someone
\* else looks like a count; one that looks like a node id does harm only when
\* there is no count to read.
CountIsTheCollections ==
  [][(/\ CollectionRead
      /\ \A l \in chatter : ~ReadsAsCount(l)
      /\ \/ \A l \in chatter : ~ReadsAsNodeId(l)
         \/ fact.summary /\ fact.selected # 0 /\ fact.deselected = 0)
     => suite'.test_count = IF fact.selected = 0 \/ ~fact.summary THEN Null
                            ELSE fact.selected]_vars

CallRows == SelectSeq(fact.rows, ReadsAsRow)

\* The slowest of what pytest timed, slowest first.
IsSlowest(slow, rows) ==
  /\ Len(slow) = IF Len(rows) < Cap THEN Len(rows) ELSE Cap
  /\ \E at \in [DOMAIN slow -> DOMAIN rows] :
       /\ \A i \in DOMAIN slow : slow[i] = SlowTest(rows[at[i]])
       /\ \A i, j \in DOMAIN slow :
            i < j => at[i] # at[j] /\ slow[i].seconds >= slow[j].seconds
       /\ \A k \in DOMAIN rows \ {at[i] : i \in DOMAIN slow}, i \in DOMAIN slow :
            slow[i].seconds >= SlowTest(rows[k]).seconds

\* The slow tests and the run time are those of pytest's own report (pytest.rs:113,
\* 268, 344), whatever the tests print that looks like a row of it or like a
\* summary line: the rows as long as nothing else opens the section, the run time
\* as long as pytest prints it.  When it does not, the calls are added up, also
\* those the cap cuts off.
NumbersAreOfTheRun ==
  [][DurationsRead =>
       /\ (\A l \in chatter : ~OpensDurations(l))
            => IsSlowest(suite'.slowest_tests, CallRows)
       /\ fact.summary => suite'.runtime_seconds = fact.seconds
       /\ (~fact.summary /\ \A l \in chatter : ~ReadsAsRuntime(l) /\ ~OpensDurations(l))
            => suite'.runtime_seconds =
                 IF CallRows = <<>> THEN Null
                 ELSE FoldSeq(LAMBDA l, sum : sum + l.words[1].n, 0, CallRows)]_vars
===============================================================================
