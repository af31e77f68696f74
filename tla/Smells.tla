-------------------------------- MODULE Smells --------------------------------
(***************************************************************************)
(* The mock smells that tests and files share (src/smells.rs).             *)
(***************************************************************************)
EXTENDS Lists

SmellCategories == {"mock_only_assertions", "mock_overuse"}

mock_overuse_fires(mocks, asserts) ==
  /\ mocks > Max({asserts, 2})
  /\ mocks > 2 * Max({asserts, 1})

\* mocks and asserts are the totals of the file; tests are those found in it.
derive_file_smells(mocks, asserts, tests) ==
  LET asserting == {t \in tests : t.assertion_count > 0}
  IN  {c \in SmellCategories :
         \/ /\ c = "mock_only_assertions"
            /\ asserting # {}
            /\ \A t \in asserting : t.only_asserts_on_mock
         \/ c = "mock_overuse" /\ mock_overuse_fires(mocks, asserts)}
===============================================================================
