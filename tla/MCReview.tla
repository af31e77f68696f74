------------------------------ MODULE MCReview ------------------------------
(***************************************************************************)
(* Small instances of Review for TLC.                                      *)
(***************************************************************************)
EXTENDS Review

CONSTANTS fine, hollow

MCOneTest == 1..1
MCFingerprints == {fine, hollow}
MCMaxRatio == 2
MCSetupTerm == [r \in 0..MCMaxRatio |-> 250 * r]
MCBodies == {"fine", "hollow"}

\* A text on which no signal fires and one on which verifies_nothing does; three
\* patches around either are enough for mock_overuse.
MCParsed ==
  [b \in MCBodies |-> [m \in BOOLEAN |->
     [nodeid |-> 1, file |-> 1,
      assertion_count |-> IF b = "fine" THEN 1 ELSE 0,
      external_verification_count |-> 0,
      only_asserts_on_mock |-> FALSE,
      patch_decorator_count |-> IF m THEN 3 ELSE 0, stubs_count |-> 0,
      setup_to_assertion_ratio |-> 2,
      fingerprint |-> IF b = "fine" THEN fine ELSE hollow]]]
===============================================================================
