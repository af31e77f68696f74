---------------------------- MODULE AcceptRefines ----------------------------
(***************************************************************************)
(* Accept implements AcceptContract: what a finished scan reports is what   *)
(* the contract decides in one step.                                        *)
(***************************************************************************)
EXTENDS Accept

CONSTANTS Undecided     \* the outcome before the scan reports

\* What a finished scan has decided, for the contract.
Decision ==
  IF pc = "done"
  THEN [findings |-> {findings[a] : a \in DOMAIN findings},
        stale |-> {stale[a] : a \in DOMAIN stale},
        listed |-> {topTests[a] : a \in DOMAIN topTests}]
  ELSE Undecided

Contract == INSTANCE AcceptContract WITH outcome <- Decision

\* The loop over the entries and the ranking decide what the one-step contract
\* says: which entries live, why the others are stale, who is listed.
ImplementsContract == Contract!Spec
===============================================================================
