------------------------------- MODULE Workflow -------------------------------
(***************************************************************************)
(* The workflow that docs/guide teaches: `pycoati ... --output              *)
(* inventory.json`, again after each round of changes, and between the runs *)
(* a bare `pycoati guide`, which goes by what inventory.json holds          *)
(* (src/guide.rs).  A run may be killed at any point.                        *)
(***************************************************************************)
EXTENDS Audit

CONSTANTS
  MaxRuns,   \* bound on the runs
  Files      \* what inventory.json may hold before the first run

\* of: "none", "json", "text".  whole: is it all that was to be written.
\* names_schema: does its text hold "schema_version", as a key if it is JSON.
File ==
  [of : {"none", "json", "text"}, whole : BOOLEAN, names_schema : BOOLEAN]

ASSUME WorkflowAssumption == MaxRuns \in Nat \ {0} /\ Files \subseteq File

VARIABLES
  runs,   \* runs so far
  file    \* inventory.json

workflow_vars == <<vars, runs, file>>

-------------------------------------------------------------------------------

\* A slip: the text is searched for the key.
Mentions(f) == f.names_schema

\* A torn object does not parse.
is_inventory(f) == f.of = "json" /\ f.whole /\ f.names_schema

\* The page a bare `guide` prints now.
detect_page == IF is_inventory(file) THEN "analyze" ELSE "setup"

Payload == [of |-> IF opts.json THEN "json" ELSE "text",
            whole |-> TRUE, names_schema |-> opts.json]

\* What may be there of the payload when a write stops short: less than all,
\* with or without the key.
Torn ==
  {[Payload EXCEPT !.whole = FALSE, !.names_schema = n] :
     n \in {FALSE, opts.json}}

\* A slip: the output is opened before anything is scanned.
TruncateFirst ==
  IF pc = "dispatch" /\ opts.output
  THEN file' = [Payload EXCEPT !.whole = FALSE, !.names_schema = FALSE]
  ELSE IF pc = "writing" /\ opts.output /\ out' = "report"
  THEN file' = Payload
  ELSE UNCHANGED file

\* What a step of the audit does to the file.
FileStep ==
  IF pc = "write" /\ out' = "partial"
  THEN file' = [Payload EXCEPT !.whole = FALSE, !.names_schema = FALSE]
  ELSE IF pc = "writing" /\ opts.output
  THEN file' \in (IF out' = "report" THEN {Payload} ELSE Torn)
  ELSE UNCHANGED file

Init ==
  /\ AuditInit
  /\ runs = 1
  /\ file \in Files

Step == Own /\ FileStep /\ UNCHANGED runs

Return == ChildReturns /\ UNCHANGED <<runs, file>>

\* While it writes, a kill may leave any part of the payload, or all of it.
Kill ==
  /\ pc \notin Ended
  /\ pc' = "killed"
  /\ IF pc = "writing" /\ opts.output THEN file' \in Torn \cup {Payload}
     ELSE UNCHANGED file
  /\ UNCHANGED <<inputs, unit, inv, members, any, python, launched, out, runs>>

\* The next run, with other options.
RunAgain ==
  /\ pc \in Ended
  /\ runs < MaxRuns
  /\ runs' = runs + 1
  /\ opts' \in OptionSpace
  /\ pc' = "dispatch"
  /\ unit' = 1
  /\ inv' = StaticInventory
  /\ members' = <<>>
  /\ any' = [f \in Flags |-> FALSE]
  /\ python' = "unresolved"
  /\ launched' = <<>>
  /\ out' = "untouched"
  /\ UNCHANGED <<target, units, file>>

Exit == pc \in Ended /\ runs = MaxRuns /\ UNCHANGED workflow_vars

Next == Step \/ Return \/ Kill \/ RunAgain \/ Exit

\* The program runs on by itself; that a child ever returns is up to the tests
\* of the audited project.
Spec == Init /\ [][Next]_workflow_vars /\ WF_workflow_vars(Step)

-------------------------------------------------------------------------------
(* Properties *)

\* An earlier report is gone only when a run that was auditable, and that has
\* all its inventories, writes the next one over it: a refused run, a bad
\* baseline, a path that JSON cannot hold, a kill while pytest runs leave it
\* as it was (main.rs:315-341).
ReportIsKeptUntilTheNext ==
  [][file' # file => Auditable /\ opts.output /\ Len(members) = Len(units)]_workflow_vars

\* The guide sends its reader on to `analyze` after a run that reported to
\* inventory.json as JSON, not after one that reported as text, and never on a
\* file that some run was writing when it failed or was killed (guide.rs:84,
\* main.rs:338).
GuideGoesByWholeReports ==
  /\ pc = "reported" /\ opts.output => (detect_page = "analyze" <=> opts.json)
  /\ ~file.whole => detect_page = "setup"

\* Every run ends, unless a child hangs: then it waits for it for ever.
EndsUnlessAChildHangs == []<>(pc \in Ended) \/ <>[](pc \in Stages)
===============================================================================
