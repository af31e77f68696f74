------------------------------ MODULE MCAccept ------------------------------
(***************************************************************************)
(* Small instances of Accept for TLC.                                      *)
(***************************************************************************)
EXTENDS PrettyView, AcceptRefines

CONSTANTS clean, long, short, mocked, checked, other, bare

MCNodeIds == 1..3
MCFiles == 1..2
MCFingerprints == {clean, long, short, mocked, checked, other, bare}
MCMaxRatio == 9

\* 4500 * sigmoid((r - 8) / 4), rounded
MCSetupTerm ==
  [r \in 0..MCMaxRatio |->
     CASE r = 0 -> 536 [] r = 1 -> 666 [] r = 2 -> 821 [] r = 3 -> 1003
       [] r = 4 -> 1210 [] r = 5 -> 1443 [] r = 6 -> 1699 [] r = 7 -> 1970
       [] r = 8 -> 2250 [] r = 9 -> 2530]

MCFileMocks == [f \in MCFiles |-> IF f = 1 THEN 3 ELSE 0]

\* One test as its source may read: the counts the parser takes from it.
Test(id, asserts, external, mockOnly, stubs, ratio, fp) ==
  [nodeid |-> id, file |-> IF id = 3 THEN 2 ELSE 1,
   assertion_count |-> asserts, external_verification_count |-> external,
   only_asserts_on_mock |-> mockOnly,
   patch_decorator_count |-> 0, stubs_count |-> stubs,
   setup_to_assertion_ratio |-> ratio, fingerprint |-> fp]

\* The bodies test 1 may have: clean; nothing verified in a long one; nothing
\* verified in a short one; only mocks asserted on, and too many of them; a
\* child process checked.  Test 2 competes for a place and has its own entry.
MCRecords ==
  { Test(1, 1, 0, FALSE, 0, 1, clean),
    Test(1, 0, 0, FALSE, 0, 9, long),
    Test(1, 0, 0, FALSE, 0, 2, short),
    Test(1, 1, 0, TRUE, 3, 3, mocked),
    Test(1, 0, 1, FALSE, 0, 4, checked),
    Test(2, 1, 0, FALSE, 0, 1, other),
    Test(2, 0, 0, FALSE, 0, 2, bare) }

MCEntrySpace ==
  [test : {1}, signal : {"zero_asserts"}, fingerprint : {NoFingerprint, long}]
  \cup [test : {1}, signal : {"high_setup_ratio"}, fingerprint : {long}]
  \cup [test : {1}, signal : SmellCategories, fingerprint : {NoFingerprint}]
  \cup [test : {2, 3}, signal : {"zero_asserts"}, fingerprint : {NoFingerprint}]

MCTopNs == {1, 5}
===============================================================================
