------------------------------ MODULE PrettyView ------------------------------
(***************************************************************************)
(* What `--format pretty` prints of a finished scan (src/pretty.rs): the     *)
(* two tables and the accepted-findings sections, as functions of the state *)
(* of Accept.  Layout and rounding are left out.  The renderer finds records *)
(* again by name, and computes file scores again.                            *)
(***************************************************************************)
EXTENDS Accept

\* The map collected from (nodeid, record) pairs keeps the last record.
by_nodeid(id) == CHOOSE i \in Positions : IsPosition(id, i)

build_test_row(id, i) ==
  [nodeid |-> id, score |-> score[i],
   asserts |-> tests[i].assertion_count,
   external |-> tests[i].external_verification_count,
   mocks |-> tests[i].patch_decorator_count, stubs |-> tests[i].stubs_count,
   smells |-> derive_test_smells(tests[i])]

\* top_suspicious holds names only.
render_top_tests ==
  [k \in 1..Min({topN, Len(topTests)}) |->
     build_test_row(nodeid[topTests[k]], by_nodeid(nodeid[topTests[k]]))]

\* Nothing at all is printed when nothing was accepted and nothing is stale.
render_accepted ==
  [heading |-> IF findings = <<>> THEN "none"
               ELSE IF include THEN "kept in the shortlist"
               ELSE "held back from the shortlist",
   findings |-> {<<findings[a].test, findings[a].signal>> : a \in DOMAIN findings},
   stale |-> {<<stale[a].entry.test, stale[a].entry.signal, stale[a].status>> :
                a \in DOMAIN stale}]

\* A slip: only the tests of the first table are counted.
scores_of_listed(f) ==
  {i \in Positions : tests[i].file = f /\ \E k \in DOMAIN topTests : topTests[k] = i}

group_test_scores_by_file(f) == {i \in Positions : tests[i].file = f}

build_file_row(f) ==
  LET grouped == group_test_scores_by_file(f)
  IN  [path |-> f,
       score |-> IF grouped = {} THEN 0
                 ELSE score_file(grouped, score, FileMocks[f], assertions(f))]

render_top_files ==
  [k \in 1..Min({topN, Len(topFiles)}) |-> build_file_row(topFiles[k])]

-------------------------------------------------------------------------------

\* Whoever reads the text sees what was ranked (pretty.rs:163, 307): the rows of
\* both tables go down by the score they show, each file row shows the score
\* that ranked it, and, nodeids being unique, each test row shows the evidence
\* of the test that was ranked, never that of a test whose every firing signal
\* is among the findings printed under "held back".
ReaderSeesTheRanking ==
  pc = "done" =>
    /\ \A k \in DOMAIN render_top_files :
         /\ render_top_files[k].score = fileScore[topFiles[k]]
         /\ k > 1 => render_top_files[k - 1].score >= render_top_files[k].score
    /\ DistinctNodeIds(tests) =>
         LET rows == render_top_tests
             told == render_accepted
         IN  /\ Len(rows) = Len(topTests)
             /\ \A k \in DOMAIN rows :
                  /\ rows[k] = build_test_row(nodeid[topTests[k]], topTests[k])
                  /\ k > 1 => rows[k - 1].score >= rows[k].score
                  /\ told.heading = "held back from the shortlist" =>
                       LET firing == active_signals(tests[topTests[k]])
                       IN  firing = {} \/ \E s \in firing :
                             <<rows[k].nodeid, s>> \notin told.findings
===============================================================================
