-------------------------------- MODULE Audit --------------------------------
(***************************************************************************)
(* One run of `pycoati PATH`: run_audit of src/main.rs, the entry points   *)
(* and the pytest orchestration of src/lib.rs.  A unit is what              *)
(* run_static_dir_with_options scans: the project, or one member of a uv   *)
(* workspace (a single file counts as unit 1).  Subprocesses are launched  *)
(* in one step and return in another, with any outcome they may have; the  *)
(* code gives them no time limit.                                          *)
(***************************************************************************)
EXTENDS Naturals, Sequences

CONSTANTS
  UnitSpace,    \* the units a run may meet
  MaxMembers,   \* bound on the members of a workspace
  OptionSpace   \* command lines

\* baseline: "bad" when resolve() fails for the unit; --no-accept makes every
\* unit's "none".  tests: the tests path is
\* missing, cannot be walked ("fails": it is not a directory), or is scanned;
\* for a single file, "fails" means that it cannot be read.
\* there: is the tests directory of a member there when the code looks again,
\* after the static pass; most often as it was then.
\* package: is there a name for --cov.
Unit ==
  [baseline : {"none", "good", "bad"}, tests : {"missing", "fails", "ok"},
   there : BOOLEAN, package : BOOLEAN]

\* encodable: every path is UTF-8, which JSON output needs.  output: is the
\* report written to a file, or to stdout.
Option ==
  [static_only : BOOLEAN, no_coverage : BOOLEAN, tests_dir : BOOLEAN,
   project_package : BOOLEAN, accept_file : BOOLEAN, python : BOOLEAN,
   json : BOOLEAN, encodable : BOOLEAN, output : BOOLEAN]

ASSUME UnitsAssumption == UnitSpace \subseteq Unit /\ MaxMembers \in Nat

ASSUME OptionsAssumption == OptionSpace \subseteq Option

Targets == {"absent", "file", "project", "workspace", "bad_workspace"}

VARIABLES
  opts,      \* the command line
  target,    \* what PATH is; "bad_workspace": detect() fails
  units,     \* the project, or the members in the order of detect()
  pc,        \* the step to run next, or how the run ended
  unit,      \* the unit at hand
  inv,       \* its inventory
  members,   \* the inventories finished
  any,       \* any_ran_pytest, any_ran_coverage
  python,    \* how the interpreter was resolved, if it was
  launched,  \* subprocesses so far: <<unit, stage>>
  out        \* the output of the run: "untouched", "partial", "report"

inputs == <<opts, target, units>>
vars == <<inputs, pc, unit, inv, members, any, python, launched, out>>

\* An inventory: which fields are not null, and the tool flags.
StaticInventory ==
  [scanned |-> FALSE, test_count |-> FALSE, runtime_seconds |-> FALSE,
   slowest_tests |-> FALSE, line_coverage_pct |-> FALSE,
   ran_pytest |-> FALSE, ran_coverage |-> FALSE]

Stages == {"preflight", "collection", "durations", "coverage"}

Flags == {"ran_pytest", "ran_coverage"}

Ended == {"reported", "failed", "killed"}

-------------------------------------------------------------------------------

AuditInit ==
  /\ opts \in OptionSpace
  /\ target \in Targets
  /\ units \in (IF target = "workspace"
                THEN UNION {[1..n -> UnitSpace] : n \in 0..MaxMembers}
                ELSE [1..1 -> UnitSpace])
  /\ target = "file" => units[1].tests # "missing"
  /\ pc = "dispatch"
  /\ unit = 1
  /\ inv = StaticInventory
  /\ members = <<>>
  /\ any = [f \in Flags |-> FALSE]
  /\ python = "unresolved"
  /\ launched = <<>>
  /\ out = "untouched"

Goto(step) ==
  /\ pc' = step
  /\ UNCHANGED <<inputs, unit, inv, members, any, python, launched, out>>

Fail == Goto("failed")

\* run_audit_static and run_audit_with_pytest: what they refuse up front.
Refused ==
  \/ target \in {"absent", "bad_workspace"}
  \/ target = "file" /\ opts.tests_dir
  \/ target = "workspace" /\ (opts.tests_dir \/ opts.project_package
                              \/ opts.accept_file)

Reject == pc = "dispatch" /\ Refused /\ Fail

\* How the interpreter is chosen: --python, else detection at the root.
Interpreter == IF opts.python THEN "given" ELSE "root"

\* For a workspace it is resolved before the members, once.
Dispatch ==
  /\ pc = "dispatch"
  /\ ~Refused
  /\ python' = IF target = "workspace" /\ ~opts.static_only
               THEN Interpreter ELSE python
  /\ pc' = [workspace |-> "member", file |-> "walk", project |-> "resolve"][target]
  /\ UNCHANGED <<inputs, unit, inv, members, any, launched, out>>

-------------------------------------------------------------------------------
(* The static pass over one unit *)

NextMember ==
  /\ pc = "member"
  /\ unit =< Len(units)
  /\ Goto("resolve")

\* A slip: a workspace goes on without a baseline that does not load.
ResolveLeniently ==
  /\ pc = "resolve"
  /\ units[unit].baseline = "bad"
  /\ Goto(IF target = "workspace" THEN "walk" ELSE "failed")

\* In a project the baseline is read first; a single file is parsed first.
ResolveFails ==
  /\ pc = "resolve"
  /\ units[unit].baseline = "bad"
  /\ Fail

Resolve ==
  /\ pc = "resolve"
  /\ units[unit].baseline # "bad"
  /\ Goto(IF target = "file" THEN "rank" ELSE "walk")

\* strict_missing_tests: only a workspace member may have no tests.
WalkFails ==
  /\ pc = "walk"
  /\ \/ units[unit].tests = "fails"
     \/ units[unit].tests = "missing" /\ target # "workspace"
  /\ Fail

\* A slip: a member without tests is left out.
LeaveOut ==
  /\ pc = "walk"
  /\ units[unit].tests = "missing"
  /\ target = "workspace"
  /\ unit' = unit + 1
  /\ pc' = "member"
  /\ UNCHANGED <<inputs, inv, members, any, python, launched, out>>

EmptyInventory ==
  /\ pc = "walk"
  /\ units[unit].tests = "missing"
  /\ target = "workspace"
  /\ Goto("static_done")

Walk ==
  /\ pc = "walk"
  /\ units[unit].tests = "ok"
  /\ inv' = [inv EXCEPT !.scanned = TRUE]
  /\ pc' = IF target = "file" THEN "resolve" ELSE "rank"
  /\ UNCHANGED <<inputs, unit, members, any, python, launched, out>>

Rank == pc = "rank" /\ Goto("static_done")

\* A slip: pytest runs at a member that has nothing to run.
WithoutPytestByOption == opts.static_only \/ target = "file"

\* No pytest: a static run, a single file, a member that has no tests.
WithoutPytest ==
  \/ opts.static_only
  \/ target = "file"
  \/ target = "workspace" /\ ~units[unit].there

-------------------------------------------------------------------------------
(* The pytest trio *)

Launch(stage) ==
  /\ launched' = Append(launched, <<unit, stage>>)
  /\ pc' = stage

\* A project resolves its interpreter here, when the static pass has succeeded.
Preflight ==
  /\ pc = "static_done"
  /\ ~WithoutPytest
  /\ python' = IF target = "workspace" THEN python ELSE Interpreter
  /\ Launch("preflight")
  /\ UNCHANGED <<inputs, unit, inv, members, any, out>>

\* Its answer is only logged.
PreflightReturns ==
  /\ pc = "preflight"
  /\ Launch("collection")
  /\ UNCHANGED <<inputs, unit, inv, members, any, python, out>>

CollectionReturns ==
  /\ pc = "collection"
  /\ \E count \in BOOLEAN : inv' = [inv EXCEPT !.test_count = count]
  /\ Launch("durations")
  /\ UNCHANGED <<inputs, unit, members, any, python, out>>

CoverageWanted ==
  ~opts.no_coverage /\ (opts.project_package \/ units[unit].package)

\* A slip: collection does not count for ran_pytest.
DurationsDecide ==
  /\ pc = "durations"
  /\ \E summary \in BOOLEAN, rows \in BOOLEAN :
       inv' = [inv EXCEPT !.runtime_seconds = summary \/ rows,
                          !.slowest_tests = rows,
                          !.ran_pytest = rows \/ summary]
  /\ IF CoverageWanted THEN Launch("coverage")
     ELSE pc' = "unit_done" /\ UNCHANGED launched
  /\ UNCHANGED <<inputs, unit, members, any, python, out>>

\* The runtime comes from the summary line, else from adding up the rows.
DurationsReturns ==
  /\ pc = "durations"
  /\ \E summary \in BOOLEAN, rows \in BOOLEAN :
       inv' = [inv EXCEPT !.runtime_seconds = summary \/ rows,
                          !.slowest_tests = rows,
                          !.ran_pytest = inv.test_count \/ rows \/ summary]
  /\ IF CoverageWanted THEN Launch("coverage")
     ELSE pc' = "unit_done" /\ UNCHANGED launched
  /\ UNCHANGED <<inputs, unit, members, any, python, out>>

CoverageReturns ==
  /\ pc = "coverage"
  /\ \E pct \in BOOLEAN :
       inv' = [inv EXCEPT !.line_coverage_pct = pct, !.ran_coverage = pct]
  /\ pc' = "unit_done"
  /\ UNCHANGED <<inputs, unit, members, any, python, launched, out>>

\* A slip: the index moves on twice past a unit.
FinishTwoUnits ==
  /\ \/ pc = "static_done" /\ WithoutPytest
     \/ pc = "unit_done"
  /\ members' = Append(members, inv)
  /\ any' = [f \in Flags |-> any[f] \/ inv[f]]
  /\ inv' = StaticInventory
  /\ unit' = unit + 2
  /\ pc' = IF target = "workspace" THEN "member" ELSE "write"
  /\ UNCHANGED <<inputs, python, launched, out>>

FinishUnit ==
  /\ \/ pc = "static_done" /\ WithoutPytest
     \/ pc = "unit_done"
  /\ members' = Append(members, inv)
  /\ any' = [f \in Flags |-> any[f] \/ inv[f]]
  /\ inv' = StaticInventory
  /\ unit' = unit + 1
  /\ pc' = IF target = "workspace" THEN "member" ELSE "write"
  /\ UNCHANGED <<inputs, python, launched, out>>

\* A slip: a workspace without members never gets to its report.
AllOfSomeMembers ==
  /\ pc = "member"
  /\ unit > Len(units)
  /\ members # <<>>
  /\ Goto("write")

AllMembers ==
  /\ pc = "member"
  /\ unit > Len(units)
  /\ Goto("write")

-------------------------------------------------------------------------------
(* The payload *)

RenderFails ==
  /\ pc = "write"
  /\ opts.json /\ ~opts.encodable
  /\ Fail

Rendered == pc = "write" /\ (opts.json => opts.encodable)

\* fs::write creates or truncates the file before it writes.
Open ==
  /\ Rendered
  /\ out' = IF opts.output THEN "partial" ELSE out
  /\ pc' = "writing"
  /\ UNCHANGED <<inputs, unit, inv, members, any, python, launched>>

OpenFails == Rendered /\ opts.output /\ Fail

Write ==
  /\ pc = "writing"
  /\ out' = "report"
  /\ pc' = "reported"
  /\ UNCHANGED <<inputs, unit, inv, members, any, python, launched>>

\* The disk is full, or stdout closes.
WriteFails ==
  /\ pc = "writing"
  /\ out' \in {out, "partial"}
  /\ pc' = "failed"
  /\ UNCHANGED <<inputs, unit, inv, members, any, python, launched>>

ChildReturns ==
  \/ PreflightReturns \/ CollectionReturns
  \/ DurationsReturns \/ CoverageReturns

Own ==
  \/ Reject \/ Dispatch \/ NextMember
  \/ ResolveFails \/ Resolve
  \/ WalkFails \/ EmptyInventory \/ Walk \/ Rank
  \/ Preflight \/ FinishUnit \/ AllMembers
  \/ RenderFails \/ Open \/ OpenFails \/ Write \/ WriteFails

-------------------------------------------------------------------------------
(* Properties *)

Inventory == [DOMAIN StaticInventory -> BOOLEAN]

TypeOK ==
  /\ opts \in Option
  /\ target \in Targets
  /\ units \in Seq(Unit)
  /\ pc \in {"dispatch", "member", "resolve", "walk", "rank", "static_done",
             "unit_done", "write", "writing"} \cup Stages \cup Ended
  /\ unit \in 1..Len(units) + 1
  /\ inv \in Inventory
  /\ members \in Seq(Inventory)
  /\ any \in [Flags -> BOOLEAN]
  /\ python \in {"unresolved", "given", "root"}
  /\ launched \in Seq((1..Len(units)) \X Stages)
  /\ out \in {"untouched", "report", "partial"}

\* Whether a run reports, read off the command line and the disk alone.  What
\* pytest does never decides it: "a failed pytest subprocess is not a failed
\* scan" (docs/guide/setup.md).
Auditable ==
  /\ opts.json => opts.encodable
  /\ \A u \in DOMAIN units : units[u].baseline # "bad" /\ units[u].tests # "fails"
  /\ \/ target = "file" /\ ~opts.tests_dir
     \/ target = "project" /\ units[1].tests = "ok"
     \/ target = "workspace" /\ ~opts.tests_dir /\ ~opts.project_package
                             /\ ~opts.accept_file

\* A run that ends without a write error has reported iff it was auditable:
\* one bad member, and its siblings' finished inventories, whatever they cost,
\* are not reported either; a good project is never refused.
ReportsIffAuditable ==
  /\ pc = "reported" => Auditable
  /\ pc = "failed" => ~Auditable \/ Len(members) = Len(units)
  /\ out = "untouched" \/ (Auditable /\ Len(members) = Len(units))

\* A report tells of every member, in the order of detect(), whether it has
\* tests or not, and of none twice.
EveryMemberListed ==
  /\ pc \in {"write", "reported"} => Len(members) = Len(units)
  /\ \A m \in DOMAIN members : members[m].scanned <=> units[m].tests = "ok"

\* What guide/analyze.md tells its reader to check first: without ran_coverage
\* there is no coverage, without ran_pytest no count and no timing, and the
\* flags of a workspace say that some member has the data.
FlagsTellWhatIsThere ==
  /\ \A m \in DOMAIN members :
       /\ members[m].ran_coverage <=> members[m].line_coverage_pct
       /\ members[m].ran_pytest <=>
            \/ members[m].test_count
            \/ members[m].runtime_seconds
            \/ members[m].slowest_tests
       /\ members[m].slowest_tests => members[m].runtime_seconds
  /\ \A f \in Flags : any[f] <=> \E m \in DOMAIN members : members[m][f]

\* Had the a-th child a reason to run, and did it follow the one before it.
InTurn(a) ==
  LET u == launched[a][1]
  IN  /\ units[u].baseline # "bad" /\ ~opts.static_only
      /\ IF target = "workspace" THEN units[u].there
         ELSE target = "project" /\ units[u].tests = "ok"
      /\ python # "unresolved"
      /\ launched[a][2] = "coverage" => ~opts.no_coverage
      /\ launched[a][2] # "preflight" =>
           /\ a > 1
           /\ launched[a - 1][1] = u
           /\ <<launched[a - 1][2], launched[a][2]>> \in
                {<<"preflight", "collection">>, <<"collection", "durations">>,
                 <<"durations", "coverage">>}

\* A unit's children run one at a time and in order, after the static pass of
\* that unit, never before an interpreter is resolved, and never for a unit
\* with nothing to run; no child of an earlier member runs after a later one.
ChildrenInOrder ==
  /\ \A a \in DOMAIN launched : InTurn(a)
  /\ \A a \in DOMAIN launched, b \in DOMAIN launched :
       a < b => /\ launched[a] # launched[b]
                /\ launched[a][1] =< launched[b][1]
===============================================================================
