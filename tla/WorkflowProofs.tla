---------------------------- MODULE WorkflowProofs ----------------------------
(***************************************************************************)
(* Theorems about Workflow, for any command lines, units, files, and any     *)
(* number of members and of runs.                                            *)
(***************************************************************************)
EXTENDS Workflow, TLAPS

-------------------------------------------------------------------------------
(* The inductive invariant *)

\* Where a run stands.
AtUnit == {"resolve", "walk", "rank", "static_done", "unit_done"} \cup Stages
Scanned == {"rank", "static_done", "unit_done"} \cup Stages
AllDone == {"write", "writing", "reported"}
Working == {"member"} \cup AtUnit \cup AllDone

Good(u) ==
  /\ units[u].baseline # "bad" /\ units[u].tests # "fails"
  /\ target # "workspace" => units[u].tests = "ok"

Shape ==
  /\ target # "workspace" => Len(units) = 1
  /\ target = "file" => units[1].tests # "missing"

\* One inventory for each unit behind, and all of those good.
Control ==
  /\ Len(members) = unit - 1
  /\ pc \in Working => ~Refused /\ \A u \in 1..unit - 1 : Good(u)
  /\ pc = "member" => target = "workspace"
  /\ pc = "dispatch" => unit = 1
  /\ pc \in AtUnit => unit \in 1..Len(units)
  /\ pc \in Scanned => Good(unit)
  /\ pc = "resolve" /\ target = "file" => units[unit].tests = "ok"
  /\ pc = "walk" /\ target # "file" => units[unit].baseline # "bad"
  /\ pc \in AllDone => unit = Len(units) + 1
  /\ pc \in {"writing", "reported"} => (opts.json => opts.encodable)
  /\ out # "untouched" => pc \in {"writing"} \cup Ended

\* What the inventory at hand holds by now.
Progress ==
  /\ pc \in Scanned => (inv.scanned <=> units[unit].tests = "ok")
  /\ pc = "resolve" /\ target = "file" => inv.scanned
  /\ pc \in {"dispatch", "member", "walk"} => ~inv.scanned
  /\ pc = "resolve" /\ target # "file" => ~inv.scanned
  /\ pc \notin {"durations", "coverage", "unit_done"} \cup Ended => ~inv.test_count
  /\ pc \notin {"coverage", "unit_done"} \cup Ended =>
       ~inv.runtime_seconds /\ ~inv.slowest_tests /\ ~inv.ran_pytest
  /\ pc \notin {"unit_done"} \cup Ended =>
       ~inv.line_coverage_pct /\ ~inv.ran_coverage

FlagsOf(i) ==
  /\ i.ran_coverage <=> i.line_coverage_pct
  /\ i.ran_pytest <=> i.test_count \/ i.runtime_seconds \/ i.slowest_tests
  /\ i.slowest_tests => i.runtime_seconds

IInv ==
  /\ TypeOK /\ Shape /\ Control /\ Progress
  /\ pc \in {"coverage", "unit_done"} => FlagsOf(inv)
  /\ ReportsIffAuditable /\ EveryMemberListed /\ FlagsTellWhatIsThere

-------------------------------------------------------------------------------
(* Steps *)

\* A new inventory holds nothing.
LEMMA NewInventory ==
  /\ StaticInventory \in Inventory
  /\ StaticInventory.scanned = FALSE /\ StaticInventory.test_count = FALSE
  /\ StaticInventory.runtime_seconds = FALSE
  /\ StaticInventory.slowest_tests = FALSE
  /\ StaticInventory.ran_pytest = FALSE
  /\ StaticInventory.line_coverage_pct = FALSE
  /\ StaticInventory.ran_coverage = FALSE
<1>1. DOMAIN StaticInventory =
        {"scanned", "test_count", "runtime_seconds", "slowest_tests",
         "line_coverage_pct", "ran_pytest", "ran_coverage"}
  BY DEF StaticInventory
<1>2. \A f \in DOMAIN StaticInventory : StaticInventory[f] = FALSE
  BY <1>1 DEF StaticInventory
<1>3. StaticInventory = [f \in DOMAIN StaticInventory |-> FALSE]
  BY <1>1, <1>2 DEF StaticInventory
<1> QED BY <1>1, <1>2, <1>3 DEF Inventory

\* One more element leaves a sequence a sequence over the same set.
LEMMA AppendTyped ==
  ASSUME NEW S, NEW s \in Seq(S), NEW e \in S
  PROVE  Append(s, e) \in Seq(S)
OBVIOUS

\* What every leaf of this section needs; each adds the definitions of its
\* action.
USE OptionsAssumption
USE DEF IInv, TypeOK, Shape, Control, Progress, FlagsOf, Good, Refused,
        AtUnit, Scanned, AllDone, Working, Stages, Ended, Flags, Targets,
        inputs, ReportsIffAuditable, Auditable, EveryMemberListed,
        FlagsTellWhatIsThere

\* Scanning a unit turns one field of its inventory.
LEMMA WalkKeeps == ASSUME IInv, Walk PROVE IInv'
<1>1. /\ inv' \in Inventory
      /\ inv'.scanned = TRUE
      /\ inv'.test_count = inv.test_count
      /\ inv'.runtime_seconds = inv.runtime_seconds
      /\ inv'.slowest_tests = inv.slowest_tests
      /\ inv'.ran_pytest = inv.ran_pytest
      /\ inv'.line_coverage_pct = inv.line_coverage_pct
      /\ inv'.ran_coverage = inv.ran_coverage
  BY DEF Walk, Inventory, StaticInventory
<1>2. TypeOK'
  BY <1>1 DEF Walk
<1>3. Shape' /\ Control'
  BY DEF Walk, Unit
<1>4. Progress' /\ (pc' \in {"coverage", "unit_done"} => FlagsOf(inv)')
  BY <1>1 DEF Walk, Unit
<1>5. ReportsIffAuditable' /\ EveryMemberListed' /\ FlagsTellWhatIsThere'
  BY DEF Walk
<1> QED BY <1>2, <1>3, <1>4, <1>5

\* Collection finds a count or none.
LEMMA CollectionReturnsKeeps == ASSUME IInv, CollectionReturns PROVE IInv'
<1>1. /\ inv' \in Inventory
      /\ inv'.scanned = inv.scanned
      /\ inv'.runtime_seconds = inv.runtime_seconds
      /\ inv'.slowest_tests = inv.slowest_tests
      /\ inv'.ran_pytest = inv.ran_pytest
      /\ inv'.line_coverage_pct = inv.line_coverage_pct
      /\ inv'.ran_coverage = inv.ran_coverage
  <2>1. PICK count \in BOOLEAN : inv' = [inv EXCEPT !.test_count = count]
    BY DEF CollectionReturns
  <2> QED BY <2>1 DEF Inventory, StaticInventory
<1>2. launched' \in Seq((1..Len(units)) \X Stages)
  <2> DEFINE Child == (1..Len(units)) \X Stages
  <2>1. launched \in Seq(Child) /\ <<unit, "durations">> \in Child
    BY DEF CollectionReturns
  <2>2. launched' = launched \/ launched' = Append(launched, <<unit, "durations">>)
    BY DEF CollectionReturns, Launch
  <2> HIDE DEF Child
  <2>3. launched' \in Seq(Child)
    BY ONLY <2>1, <2>2, AppendTyped
  <2> QED BY <2>3 DEF Child
<1>3. TypeOK'
  BY <1>1, <1>2 DEF CollectionReturns, Launch
<1>4. Shape' /\ Control'
  BY DEF CollectionReturns, Launch, Unit
<1>5. Progress' /\ (pc' \in {"coverage", "unit_done"} => FlagsOf(inv)')
  BY <1>1 DEF CollectionReturns, Launch, Unit
<1>6. ReportsIffAuditable' /\ EveryMemberListed' /\ FlagsTellWhatIsThere'
  BY DEF CollectionReturns, Launch
<1> QED BY <1>3, <1>4, <1>5, <1>6

\* The timed run settles the flag ran_pytest.
LEMMA DurationsReturnsKeeps == ASSUME IInv, DurationsReturns PROVE IInv'
<1>1. /\ inv' \in Inventory
      /\ inv'.ran_pytest = (inv'.test_count \/ inv'.runtime_seconds
                              \/ inv'.slowest_tests)
      /\ inv'.slowest_tests = TRUE => inv'.runtime_seconds = TRUE
      /\ inv'.scanned = inv.scanned
      /\ inv'.test_count = inv.test_count
      /\ inv'.line_coverage_pct = inv.line_coverage_pct
      /\ inv'.ran_coverage = inv.ran_coverage
  <2>1. PICK summary \in BOOLEAN, rows \in BOOLEAN :
          inv' = [inv EXCEPT !.runtime_seconds = summary \/ rows,
                             !.slowest_tests = rows,
                             !.ran_pytest = inv.test_count \/ rows \/ summary]
    BY DEF DurationsReturns
  <2>2. /\ inv'.runtime_seconds = (summary \/ rows)
        /\ inv'.slowest_tests = rows
        /\ inv'.ran_pytest = (inv.test_count \/ rows \/ summary)
        /\ inv'.scanned = inv.scanned
        /\ inv'.test_count = inv.test_count
        /\ inv'.line_coverage_pct = inv.line_coverage_pct
        /\ inv'.ran_coverage = inv.ran_coverage
    BY <2>1 DEF Inventory, StaticInventory
  <2>3. inv' \in Inventory
    BY <2>1 DEF Inventory, StaticInventory
  <2> QED BY <2>2, <2>3
<1>2. launched' \in Seq((1..Len(units)) \X Stages)
  <2> DEFINE Child == (1..Len(units)) \X Stages
  <2>1. launched \in Seq(Child) /\ <<unit, "coverage">> \in Child
    BY DEF DurationsReturns
  <2>2. launched' = launched \/ launched' = Append(launched, <<unit, "coverage">>)
    BY DEF DurationsReturns, Launch
  <2> HIDE DEF Child
  <2>3. launched' \in Seq(Child)
    BY ONLY <2>1, <2>2, AppendTyped
  <2> QED BY <2>3 DEF Child
<1>3. TypeOK'
  BY <1>1, <1>2 DEF DurationsReturns, Launch
<1>4. Shape' /\ Control'
  BY DEF DurationsReturns, Launch, Unit
<1>5. Progress' /\ (pc' \in {"coverage", "unit_done"} => FlagsOf(inv)')
  BY <1>1 DEF DurationsReturns, Launch, Unit
<1>6. ReportsIffAuditable' /\ EveryMemberListed' /\ FlagsTellWhatIsThere'
  BY DEF DurationsReturns, Launch
<1> QED BY <1>3, <1>4, <1>5, <1>6

\* The coverage run settles the flag ran_coverage.
LEMMA CoverageReturnsKeeps == ASSUME IInv, CoverageReturns PROVE IInv'
<1>1. /\ inv' \in Inventory
      /\ inv'.ran_coverage = inv'.line_coverage_pct
      /\ inv'.scanned = inv.scanned
      /\ inv'.test_count = inv.test_count
      /\ inv'.runtime_seconds = inv.runtime_seconds
      /\ inv'.slowest_tests = inv.slowest_tests
      /\ inv'.ran_pytest = inv.ran_pytest
  BY DEF CoverageReturns, Inventory, StaticInventory
<1>2. TypeOK'
  BY <1>1 DEF CoverageReturns
<1>3. Shape' /\ Control'
  BY DEF CoverageReturns, Unit
<1>4. Progress' /\ (pc' \in {"coverage", "unit_done"} => FlagsOf(inv)')
  BY <1>1 DEF CoverageReturns, Unit
<1>5. ReportsIffAuditable' /\ EveryMemberListed' /\ FlagsTellWhatIsThere'
  BY DEF CoverageReturns
<1> QED BY <1>2, <1>3, <1>4, <1>5

\* An inventory joins those of the units behind.
LEMMA FinishUnitKeeps == ASSUME IInv, FinishUnit PROVE IInv'
<1> USE DEF FinishUnit
<1>1. /\ inv \in Inventory /\ inv' \in Inventory
      /\ inv'.scanned = FALSE /\ inv'.test_count = FALSE
      /\ inv'.runtime_seconds = FALSE /\ inv'.slowest_tests = FALSE
      /\ inv'.ran_pytest = FALSE /\ inv'.line_coverage_pct = FALSE
      /\ inv'.ran_coverage = FALSE
  BY NewInventory
<1>2. /\ pc \in Scanned
      /\ unit \in 1..Len(units) /\ unit' = unit + 1
      /\ Len(members) = unit - 1
      /\ Good(unit)
      /\ inv.scanned <=> units[unit].tests = "ok"
  OBVIOUS
<1>3. FlagsOf(inv)
  <2>1. CASE pc = "unit_done" BY <2>1
  <2>2. CASE pc = "static_done" BY <2>2
  <2> QED BY <2>1, <2>2
<1>4. /\ members' \in Seq(Inventory) /\ Len(members') = unit
      /\ \A m \in 1..unit - 1 : members'[m] = members[m]
      /\ members'[unit] = inv
      /\ DOMAIN members = 1..unit - 1 /\ DOMAIN members' = 1..unit
  BY <1>1, <1>2
<1>5. /\ any' \in [Flags -> BOOLEAN]
      /\ \A f \in Flags : any'[f] <=> any[f] \/ inv[f]
  BY <1>1 DEF Inventory, StaticInventory
<1>6. TypeOK'
  BY <1>1, <1>2, <1>4, <1>5
<1>7. Shape'
  OBVIOUS
<1>8. Control'
  <2>1. ~Refused /\ \A u \in 1..unit - 1 : Good(u)
    BY <1>2
  <2>2. (~Refused)' /\ \A u \in 1..unit : Good(u)'
    BY <1>2, <2>1
  <2>3. pc' = "write" => target # "workspace" /\ Len(units) = 1
    OBVIOUS
  <2>4. pc' = "write" => unit' = Len(units) + 1
    BY <1>2, <2>3
  <2> QED BY <1>2, <1>4, <2>2, <2>4
<1>9. Progress' /\ pc' \notin {"coverage", "unit_done"}
  BY <1>1
<1>10. ReportsIffAuditable'
  BY <1>2
<1>11. EveryMemberListed'
  <2>1. pc' \in {"write", "reported"} => Len(members') = Len(units')
    BY <1>2, <1>4
  <2>2. \A m \in 1..unit - 1 : members'[m].scanned <=> units[m].tests = "ok"
    BY <1>4
  <2>3. members'[unit].scanned <=> units[unit].tests = "ok"
    BY <1>2, <1>4
  <2> QED BY <1>2, <1>4, <2>1, <2>2, <2>3
<1>12. FlagsTellWhatIsThere'
  <2>1. \A m \in 1..unit - 1 : FlagsOf(members[m])
    BY <1>4
  <2>2. \A m \in 1..unit : FlagsOf(members'[m])
    BY <1>3, <1>4, <2>1
  <2>3. ASSUME NEW f \in Flags
        PROVE  any'[f] <=> \E m \in 1..unit : members'[m][f]
    <3>1. any[f] <=> \E m \in 1..unit - 1 : members[m][f]
      BY <1>4
    <3> QED BY ONLY <1>2, <1>4, <1>5, <3>1
  <2> QED BY <1>4, <2>2, <2>3
<1> QED BY <1>6, <1>7, <1>8, <1>9, <1>10, <1>11, <1>12

\* A run starts over, whatever its options.
LEMMA RunAgainKeeps == ASSUME IInv, RunAgain PROVE IInv'
<1>1. /\ inv' \in Inventory
      /\ inv'.scanned = FALSE /\ inv'.test_count = FALSE
      /\ inv'.runtime_seconds = FALSE /\ inv'.slowest_tests = FALSE
      /\ inv'.ran_pytest = FALSE /\ inv'.line_coverage_pct = FALSE
      /\ inv'.ran_coverage = FALSE
  BY NewInventory DEF RunAgain
<1>2. TypeOK'
  BY <1>1 DEF RunAgain
<1>3. Shape' /\ Control'
  BY DEF RunAgain
<1>4. Progress'
  BY <1>1 DEF RunAgain
<1>5. ReportsIffAuditable' /\ EveryMemberListed' /\ FlagsTellWhatIsThere'
  BY DEF RunAgain
<1> QED BY <1>2, <1>3, <1>4, <1>5 DEF RunAgain

\* The first run starts so.
LEMMA InitHolds == Init => IInv
<1> SUFFICES ASSUME Init PROVE IInv
  OBVIOUS
<1>1. TypeOK
  <2>1. units \in Seq(Unit)
    <3>1. PICK n \in Nat : units \in [1..n -> UnitSpace]
      <4>1. CASE target = "workspace"
        BY <4>1, UnitsAssumption DEF Init, AuditInit
      <4>2. CASE target # "workspace"
        BY <4>2 DEF Init, AuditInit
      <4> QED BY <4>1, <4>2
    <3> QED BY <3>1, UnitsAssumption
  <2>2. any \in [Flags -> BOOLEAN]
    BY DEF Init, AuditInit
  <2>3. /\ members \in Seq(Inventory) /\ inv \in Inventory
        /\ launched \in Seq((1..Len(units)) \X Stages)
    BY NewInventory DEF Init, AuditInit
  <2> QED BY <2>1, <2>2, <2>3 DEF Init, AuditInit
<1>2. Shape /\ Control
  BY DEF Init, AuditInit
<1>3. Progress
  BY NewInventory DEF Init, AuditInit
<1>4. ReportsIffAuditable /\ EveryMemberListed /\ FlagsTellWhatIsThere
  BY DEF Init, AuditInit
<1> QED BY <1>1, <1>2, <1>3, <1>4 DEF Init, AuditInit

\* Every step of every run, whatever it does to the file.
LEMMA StepsKeep == IInv /\ [Next]_workflow_vars => IInv'
<1> SUFFICES ASSUME IInv, [Next]_workflow_vars PROVE IInv'
  OBVIOUS
<1>1. CASE Reject
  BY <1>1, SMTT(30) DEF Reject, Goto, Fail
<1>2. CASE Dispatch
  BY <1>2, SMTT(30) DEF Dispatch, Interpreter
<1>3. CASE NextMember
  BY <1>3, SMTT(30) DEF NextMember, Goto
<1>4. CASE ResolveFails
  BY <1>4, SMTT(30) DEF ResolveFails, Goto, Fail
<1>5. CASE Resolve
  BY <1>5, SMTT(30) DEF Resolve, Goto, Unit
<1>6. CASE WalkFails
  BY <1>6, SMTT(30) DEF WalkFails, Goto, Fail, Unit
<1>7. CASE EmptyInventory
  BY <1>7, SMTT(30) DEF EmptyInventory, Goto, Unit
<1>8. CASE Walk BY <1>8, WalkKeeps
<1>9. CASE Rank
  BY <1>9, SMTT(30) DEF Rank, Goto
<1>10. CASE Preflight
  BY <1>10, SMTT(30) DEF Preflight, WithoutPytest, Launch, Interpreter
<1>11. CASE FinishUnit BY <1>11, FinishUnitKeeps
<1>12. CASE AllMembers
  BY <1>12, SMTT(30) DEF AllMembers, Goto
<1>13. CASE RenderFails
  BY <1>13, SMTT(30) DEF RenderFails, Goto, Fail
<1>14. CASE Open
  BY <1>14, SMTT(30) DEF Open, Rendered
<1>15. CASE OpenFails
  BY <1>15, SMTT(30) DEF OpenFails, Goto, Fail, Rendered
<1>16. CASE Write
  BY <1>16, SMTT(30) DEF Write
<1>17. CASE WriteFails
  BY <1>17, SMTT(30) DEF WriteFails
<1>18. CASE PreflightReturns
  BY <1>18, SMTT(30) DEF PreflightReturns, Launch
<1>19. CASE CollectionReturns BY <1>19, CollectionReturnsKeeps
<1>20. CASE DurationsReturns BY <1>20, DurationsReturnsKeeps
<1>21. CASE CoverageReturns BY <1>21, CoverageReturnsKeeps
<1>22. CASE Kill
  BY <1>22, SMTT(30) DEF Kill
<1>23. CASE RunAgain BY <1>23, RunAgainKeeps
<1>24. CASE UNCHANGED workflow_vars
  BY <1>24 DEF workflow_vars, vars
<1> HIDE DEF IInv
<1> QED
  BY <1>1, <1>2, <1>3, <1>4, <1>5, <1>6, <1>7, <1>8, <1>9, <1>10, <1>11, <1>12,
     <1>13, <1>14, <1>15, <1>16, <1>17, <1>18, <1>19, <1>20, <1>21, <1>22,
     <1>23, <1>24
     DEF Next, Step, Own, Return, ChildReturns, Exit

-------------------------------------------------------------------------------
(* The children *)

\* Only the types and where a run stands matter to the children.
HIDE DEF IInv, Progress, FlagsOf, ReportsIffAuditable, EveryMemberListed,
         FlagsTellWhatIsThere, Auditable, Control, Shape, TypeOK, Refused, Good

\* Where no child of the unit at hand has run yet.
Before == {"dispatch", "member", "resolve", "walk", "rank", "static_done"}

\* The stages that come after one.
Later ==
  [preflight |-> {"collection", "durations", "coverage"},
   collection |-> {"durations", "coverage"},
   durations |-> {"coverage"},
   coverage |-> {}]

\* The last child is the one that runs.
Children ==
  /\ \A a \in DOMAIN launched : launched[a][1] =< unit
  /\ pc \in Before => \A a \in DOMAIN launched : launched[a][1] < unit
  /\ pc \in Stages =>
       /\ ~WithoutPytest /\ python # "unresolved"
       /\ launched # <<>> /\ launched[Len(launched)] = <<unit, pc>>
       /\ \A a \in DOMAIN launched :
            launched[a][1] = unit => launched[a][2] \notin Later[pc]
  /\ target = "workspace" /\ ~opts.static_only /\ pc \in Working =>
       python # "unresolved"

CInv == IInv /\ Children /\ ChildrenInOrder

\* The types the lemmas below need.
Types ==
  /\ unit \in Nat
  /\ launched \in Seq((1..Len(units)) \X Stages)

\* A step that launches nothing may resolve the interpreter, and go on to the
\* next unit.
LEMMA NoneLaunched ==
  ASSUME Types, Children, ChildrenInOrder, UNCHANGED <<inputs, launched>>,
         pc' \notin Stages, unit' \in {unit, unit + 1},
         pc' \in Before => pc \in Before \/ unit' = unit + 1,
         pc' \in Working => pc \in Working \/ python' # "unresolved"
                            \/ ~(target = "workspace" /\ ~opts.static_only),
         python' = python \/ python' # "unresolved"
  PROVE  ChildrenInOrder' /\ Children'
<1>1. ChildrenInOrder'
  BY DEF ChildrenInOrder, InTurn
<1>2. \A a \in DOMAIN launched : launched[a][1] \in Nat
  BY DEF Types
<1>3. Children'
  BY <1>2 DEF Children, Types
<1> QED BY <1>1, <1>3

\* What a child must be to go on in order.
Fits(stage) ==
  /\ units[unit].baseline # "bad" /\ ~opts.static_only
  /\ IF target = "workspace" THEN units[unit].there
     ELSE target = "project" /\ units[unit].tests = "ok"
  /\ stage = "coverage" => ~opts.no_coverage
  /\ stage # "preflight" =>
       /\ launched # <<>>
       /\ launched[Len(launched)][1] = unit
       /\ <<launched[Len(launched)][2], stage>> \in
            {<<"preflight", "collection">>, <<"collection", "durations">>,
             <<"durations", "coverage">>}
  /\ \A a \in DOMAIN launched :
       /\ launched[a][1] =< unit /\ launched[a] # <<unit, stage>>
       /\ launched[a][1] = unit => launched[a][2] \notin Later[stage]

\* A step that launches a child that fits.
LEMMA OneLaunched ==
  ASSUME Types, ChildrenInOrder, NEW stage \in Stages, Fits(stage),
         UNCHANGED <<inputs, unit>>, python' # "unresolved", ~WithoutPytest,
         pc' = stage, launched' = Append(launched, <<unit, stage>>)
  PROVE  ChildrenInOrder' /\ Children'
<1> DEFINE n == Len(launched)
<1>1. /\ n \in Nat /\ DOMAIN launched = 1..n /\ DOMAIN launched' = 1..n + 1
      /\ \A a \in 1..n : launched'[a] = launched[a]
      /\ launched'[n + 1] = <<unit, stage>>
      /\ launched # <<>> => n > 0
  BY DEF Types
<1> HIDE DEF n
<1>2. ASSUME NEW a \in 1..n + 1
      PROVE  InTurn(a)'
  <2>1. CASE a \in 1..n
    <3>1. /\ launched'[a] = launched[a]
          /\ a > 1 => launched'[a - 1] = launched[a - 1]
      BY <1>1, <2>1
    <3>2. InTurn(a)
      BY <1>1, <2>1 DEF ChildrenInOrder
    <3> QED BY <3>1, <3>2 DEF InTurn
  <2>2. CASE a = n + 1
    <3>1. a - 1 = n /\ (n > 0 => a > 1 /\ n \in 1..n)
      BY <1>1, <2>2
    <3>2. launched # <<>> => a > 1 /\ launched'[a - 1] = launched[Len(launched)]
      BY <1>1, <3>1 DEF n
    <3> QED BY <1>1, <2>2, <3>2 DEF Fits, InTurn
  <2> QED BY <1>1, <2>1, <2>2
<1>3. ASSUME NEW a \in 1..n + 1, NEW b \in 1..n + 1, a < b
      PROVE  launched'[a] # launched'[b] /\ launched'[a][1] =< launched'[b][1]
  <2>1. CASE b \in 1..n
    <3>1. a \in 1..n
      BY <1>1, <1>3, <2>1
    <3> QED BY <1>1, <1>3, <2>1, <3>1 DEF ChildrenInOrder
  <2>2. CASE b = n + 1
    <3>1. a \in 1..n
      BY <1>1, <1>3, <2>2
    <3>2. /\ a \in DOMAIN launched
          /\ launched'[a] = launched[a] /\ launched'[b] = <<unit, stage>>
      BY <1>1, <2>2, <3>1
    <3>3. launched[a][1] =< unit /\ launched[a] # <<unit, stage>>
      BY <3>2 DEF Fits
    <3>4. <<unit, stage>>[1] = unit
      OBVIOUS
    <3> QED BY <3>2, <3>3, <3>4
  <2> QED BY <1>1, <2>1, <2>2
<1>4. ChildrenInOrder'
  BY <1>1, <1>2, <1>3 DEF ChildrenInOrder
<1>5. ASSUME NEW a \in 1..n + 1
      PROVE  /\ launched'[a][1] =< unit
             /\ launched'[a][1] = unit => launched'[a][2] \notin Later[stage]
  <2>1. CASE a \in 1..n
    BY <1>1, <2>1 DEF Fits
  <2>2. CASE a = n + 1
    <3>1. stage \notin Later[stage]
      BY DEF Later
    <3>2. <<unit, stage>>[1] = unit /\ <<unit, stage>>[2] = stage
      OBVIOUS
    <3> QED BY <1>1, <2>2, <3>1, <3>2 DEF Types
  <2> QED BY <1>1, <2>1, <2>2
<1>6. launched' # <<>> /\ launched'[Len(launched')] = <<unit, stage>>
  BY DEF Types
<1>7. pc' \notin Before /\ (~WithoutPytest)'
  BY DEF Before, WithoutPytest
<1>8. Children'
  BY <1>1, <1>5, <1>6, <1>7 DEF Children
<1> QED BY <1>4, <1>8

\* At first nothing was launched.
LEMMA InitChildren == Init => CInv
<1> SUFFICES ASSUME Init PROVE CInv
  OBVIOUS
<1>1. IInv
  BY InitHolds
<1>2. Children /\ ChildrenInOrder
  BY DEF Init, AuditInit, Children, ChildrenInOrder
<1> QED BY <1>1, <1>2 DEF CInv

\* Every step of every run launches in order, or not at all.
LEMMA StepsKeepOrder == CInv /\ [Next]_workflow_vars => CInv'
<1> SUFFICES ASSUME CInv, [Next]_workflow_vars PROVE CInv'
  OBVIOUS
<1>0. /\ IInv /\ IInv' /\ Children /\ ChildrenInOrder
      /\ TypeOK /\ Shape /\ Control /\ Types
      /\ pc \in AtUnit => unit \in 1..Len(units)
  <2>1. IInv /\ Children /\ ChildrenInOrder
    BY DEF CInv
  <2>2. IInv'
    BY <2>1, StepsKeep
  <2>3. TypeOK /\ Shape /\ Control
    BY <2>1 DEF IInv
  <2>4. Types /\ (pc \in AtUnit => unit \in 1..Len(units))
    BY <2>3 DEF TypeOK, Types, Control
  <2> QED BY <2>1, <2>2, <2>3, <2>4
<1>1. CASE Reject
  BY <1>0, <1>1, NoneLaunched DEF CInv, Before, Reject, Goto, Fail
<1>2. CASE NextMember
  BY <1>0, <1>2, NoneLaunched DEF CInv, Before, NextMember, Goto
<1>3. CASE ResolveFails
  BY <1>0, <1>3, NoneLaunched DEF CInv, Before, ResolveFails, Goto, Fail
<1>4. CASE Resolve
  BY <1>0, <1>4, NoneLaunched DEF CInv, Before, Resolve, Goto
<1>5. CASE WalkFails
  BY <1>0, <1>5, NoneLaunched DEF CInv, Before, WalkFails, Goto, Fail
<1>6. CASE EmptyInventory
  BY <1>0, <1>6, NoneLaunched DEF CInv, Before, EmptyInventory, Goto
<1>7. CASE Walk
  BY <1>0, <1>7, NoneLaunched DEF CInv, Before, Walk
<1>8. CASE Rank
  BY <1>0, <1>8, NoneLaunched DEF CInv, Before, Rank, Goto
<1>9. CASE AllMembers
  BY <1>0, <1>9, NoneLaunched DEF CInv, Before, AllMembers, Goto
<1>10. CASE RenderFails
  BY <1>0, <1>10, NoneLaunched DEF CInv, Before, RenderFails, Goto, Fail
<1>11. CASE Open
  BY <1>0, <1>11, NoneLaunched DEF CInv, Before, Open, Rendered
<1>12. CASE OpenFails
  BY <1>0, <1>12, NoneLaunched DEF CInv, Before, OpenFails, Goto, Fail, Rendered
<1>13. CASE Write
  BY <1>0, <1>13, NoneLaunched DEF CInv, Before, Write
<1>14. CASE WriteFails
  BY <1>0, <1>14, NoneLaunched DEF CInv, Before, WriteFails
<1>15. CASE CoverageReturns
  BY <1>0, <1>15, NoneLaunched DEF CInv, Before, CoverageReturns
<1>16. CASE Kill
  BY <1>0, <1>16, NoneLaunched DEF CInv, Before, Kill
<1>17. CASE FinishUnit
  BY <1>0, <1>17, NoneLaunched DEF CInv, Before, FinishUnit
<1>18. CASE Dispatch
  BY <1>0, <1>18, NoneLaunched DEF CInv, Before, Dispatch, Interpreter, Refused,
     TypeOK
<1>19. CASE Preflight
  <2>1. Fits("preflight")
    BY <1>0, <1>19 DEF Preflight, Children, Before, WithoutPytest, Later, Fits,
       Control, Good, Refused, TypeOK
  <2>2. ChildrenInOrder' /\ Children'
    BY <1>0, <1>19, <2>1, OneLaunched
       DEF Preflight, Launch, Children, WithoutPytest, Interpreter
  <2> QED BY <1>0, <2>2 DEF CInv
<1>20. CASE PreflightReturns
  <2>1. Fits("collection")
    BY <1>0, <1>20 DEF PreflightReturns, Children, Before, WithoutPytest, Later,
       Fits, Control, Good, Refused, TypeOK
  <2>2. ChildrenInOrder' /\ Children'
    BY <1>0, <1>20, <2>1, OneLaunched
       DEF PreflightReturns, Launch, Children, WithoutPytest
  <2> QED BY <1>0, <2>2 DEF CInv
<1>21. CASE CollectionReturns
  <2>1. Fits("durations")
    BY <1>0, <1>21 DEF CollectionReturns, Children, Before, WithoutPytest,
       Later, Fits, Control, Good, Refused, TypeOK
  <2>2. ChildrenInOrder' /\ Children'
    BY <1>0, <1>21, <2>1, OneLaunched
       DEF CollectionReturns, Launch, Children, WithoutPytest
  <2> QED BY <1>0, <2>2 DEF CInv
<1>22. CASE DurationsReturns
  <2>1. CASE CoverageWanted
    <3>0. /\ pc = "durations" /\ pc' = "coverage" /\ python' = python
          /\ launched' = Append(launched, <<unit, "coverage">>)
          /\ unit' = unit /\ UNCHANGED inputs
      BY <1>22, <2>1 DEF DurationsReturns, Launch
    <3>1. Fits("coverage")
      BY <1>0, <1>22, <2>1 DEF DurationsReturns, CoverageWanted, Children,
         Before, WithoutPytest, Later, Fits, Control, Good, Refused, TypeOK
    <3>2. ChildrenInOrder' /\ Children'
      BY <1>0, <3>0, <3>1, OneLaunched DEF Children
    <3> QED BY <1>0, <3>2 DEF CInv
  <2>2. CASE ~CoverageWanted
    BY <1>0, <1>22, <2>2, NoneLaunched DEF CInv, Before, DurationsReturns
  <2> QED BY <2>1, <2>2
<1>23. CASE RunAgain
  BY <1>0, <1>23 DEF CInv, RunAgain, Children, ChildrenInOrder
<1>24. CASE UNCHANGED workflow_vars
  BY <1>0, <1>24 DEF CInv, workflow_vars, vars, Children, ChildrenInOrder,
     InTurn, WithoutPytest
<1> QED
  BY <1>1, <1>2, <1>3, <1>4, <1>5, <1>6, <1>7, <1>8, <1>9, <1>10, <1>11, <1>12,
     <1>13, <1>14, <1>15, <1>16, <1>17, <1>18, <1>19, <1>20, <1>21, <1>22,
     <1>23, <1>24
     DEF Next, Step, Own, Return, ChildReturns, Exit

-------------------------------------------------------------------------------
(* The output file *)

\* A run gets to its payload only when it was auditable, with all of its
\* inventories.
LEMMA PayloadOfAnAuditable ==
  ASSUME IInv, pc \in {"write", "writing"}, opts.json => opts.encodable
  PROVE  Auditable /\ Len(members) = Len(units)
BY DEF IInv, TypeOK, Shape, Control, Good, Refused, Auditable

\* A report leaves the payload of its run in the output file.
FileInv == pc = "reported" /\ opts.output => file = Payload

\* Nothing but a write takes a run to its report.
LEMMA FileKept ==
  ASSUME TypeOK, FileInv, [Next]_workflow_vars
  PROVE  FileInv'
<1>1. CASE Step
  <2>1. CASE Write
    BY <1>1, <2>1 DEF Step, Write, FileStep, FileInv, Payload
  <2>2. CASE Own /\ ~Write
    <3>1. pc' # "reported"
      BY <2>2 DEF Own, Reject, Dispatch, NextMember, ResolveFails, Resolve,
                  WalkFails, EmptyInventory, Walk, Rank, Preflight, FinishUnit,
                  AllMembers, RenderFails, Open, OpenFails, WriteFails,
                  Goto, Fail, Launch, Refused, TypeOK
    <3> QED BY <3>1 DEF FileInv
  <2> QED BY <1>1, <2>1, <2>2 DEF Step
<1>2. CASE Return
  BY <1>2 DEF Return, ChildReturns, PreflightReturns, CollectionReturns,
              DurationsReturns, CoverageReturns, Launch, FileInv
<1>3. CASE Kill \/ RunAgain
  BY <1>3 DEF Kill, RunAgain, FileInv
<1>4. CASE Exit \/ UNCHANGED workflow_vars
  BY <1>4 DEF Exit, workflow_vars, vars, FileInv, Payload
<1> QED BY <1>1, <1>2, <1>3, <1>4 DEF Next

\* Only a run that is auditable, and that has all its inventories, changes the
\* file.
LEMMA ChangesTheFile ==
  ASSUME IInv, [Next]_workflow_vars, file' # file
  PROVE  Auditable /\ opts.output /\ Len(members) = Len(units)
<1>1. out = "partial" => pc \in {"writing"} \cup Ended
  BY DEF IInv, Control
<1>2. CASE Step
  <2>1. CASE pc = "write" /\ out' = "partial"
    <3>1. out # "partial"
      BY <1>1, <2>1
    <3>2. Open
      BY <1>2, <2>1, <3>1 DEF Step, Own, Reject, Dispatch, NextMember,
           ResolveFails, Resolve, WalkFails, EmptyInventory, Walk, Rank,
           Preflight, FinishUnit, AllMembers, RenderFails, OpenFails, Write,
           WriteFails, Goto, Fail, Rendered
    <3>3. opts.output /\ (opts.json => opts.encodable)
      BY <2>1, <3>1, <3>2 DEF Open, Rendered
    <3> QED BY <2>1, <3>3, PayloadOfAnAuditable
  <2>2. CASE pc = "writing" /\ opts.output
    BY <2>2, PayloadOfAnAuditable DEF IInv, Control
  <2> QED BY <1>2, <2>1, <2>2 DEF Step, FileStep
<1>3. CASE Kill
  <2>1. pc = "writing" /\ opts.output
    BY <1>3 DEF Kill
  <2> QED BY <2>1, PayloadOfAnAuditable DEF IInv, Control
<1>4. CASE Return \/ RunAgain \/ Exit \/ UNCHANGED workflow_vars
  BY <1>4 DEF Return, RunAgain, Exit, workflow_vars
<1> QED BY <1>2, <1>3, <1>4 DEF Next

-------------------------------------------------------------------------------
(* Theorems *)

\* The invariant holds of all runs, one after the other.
THEOREM Invariant == Spec => []CInv
<1>1. Init => CInv
  BY InitChildren
<1>2. CInv /\ [Next]_workflow_vars => CInv'
  BY StepsKeepOrder
<1> QED BY <1>1, <1>2, PTL DEF Spec

\* The model's variables keep their types over any number of runs.
THEOREM TypeCorrect == Spec => []TypeOK
<1>1. CInv => TypeOK
  BY DEF CInv, IInv
<1> QED BY <1>1, Invariant, PTL

\* A run that is not cut short reports iff its command line and the disk allow
\* it: what pytest does never decides it (main.rs:275-346).
THEOREM ReportsWhatIsAuditable == Spec => []ReportsIffAuditable
<1>1. CInv => ReportsIffAuditable
  BY DEF CInv, IInv
<1> QED BY <1>1, Invariant, PTL

\* A report tells of each of any number of members, in order (lib.rs:800-846).
THEOREM ListsEveryMember == Spec => []EveryMemberListed
<1>1. CInv => EveryMemberListed
  BY DEF CInv, IInv
<1> QED BY <1>1, Invariant, PTL

\* The tool flags of each inventory, and those of the workspace, tell which
\* fields are there (lib.rs:621-677, 800-846).
THEOREM FlagsAreRight == Spec => []FlagsTellWhatIsThere
<1>1. CInv => FlagsTellWhatIsThere
  BY DEF CInv, IInv
<1> QED BY <1>1, Invariant, PTL

\* The children of any number of members run in order, each with a reason to
\* (lib.rs:574-677, 789-846).
THEOREM ChildrenRunInOrder == Spec => []ChildrenInOrder
<1>1. CInv => ChildrenInOrder
  BY DEF CInv
<1> QED BY <1>1, Invariant, PTL

\* A bare `guide` goes by whole reports only, whatever was killed or failed
\* before (guide.rs:84).
THEOREM GuideReadsWholeReports == Spec => []GuideGoesByWholeReports
<1>1. Init => FileInv
  BY DEF Init, AuditInit, FileInv
<1>2. TypeOK /\ FileInv /\ [Next]_workflow_vars => FileInv'
  BY FileKept
<1>3. FileInv => GuideGoesByWholeReports
  BY DEF FileInv, GuideGoesByWholeReports, detect_page, is_inventory, Payload
<1> QED BY <1>1, <1>2, <1>3, TypeCorrect, PTL DEF Spec

\* An earlier report is lost only to a run that had its own report ready
\* (main.rs:315-341).
THEOREM KeepsTheEarlierReport == Spec => ReportIsKeptUntilTheNext
<1>1. CInv /\ [Next]_workflow_vars =>
        [file' # file =>
           Auditable /\ opts.output /\ Len(members) = Len(units)]_workflow_vars
  BY ChangesTheFile DEF CInv
<1> QED BY <1>1, Invariant, PTL DEF Spec, ReportIsKeptUntilTheNext
===============================================================================
