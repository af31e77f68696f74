# A TLA+ model of pycoati

pycoati audits Python test suites. It walks a project, parses every test file,
counts what each test asserts and mocks, optionally runs pytest for collection,
durations and coverage, scores every test, and emits an inventory with a
shortlist of suspicious tests. A baseline file, `.pycoati-accept.toml`, holds
findings that somebody has reviewed and accepted; it decides what the shortlist
leaves out, and nothing else. The modules here model the parts of the program
that keep state and make decisions over several steps, check them with TLC on
small instances, and prove some of the results for instances of any size with
TLAPS. Paths below are relative to the repository.

## Inventory

The program is one process and one thread. Its concurrency is with the outside:
pytest children, the file system, and people who edit tests and the baseline
between scans. What is hard is the order of checks over several inputs, partial
failure of one step among many, results that must not depend on an order the
program does not control, and records that outlive the code they are about.

| Component | State | Operations | Interacts with | What makes it correct |
| --- | --- | --- | --- | --- |
| matching (`accept::apply`, src/accept.rs) | the entries, an index by nodeid, `accepted_signals` per test, `findings`, `stale`, the touched positions | index, match an entry, sort | fed by resolution; mutates the records between scoring and ranking | each entry is reported once, with the right reason; nothing is held back unreviewed; the result does not depend on the order of the file |
| resolution (`AcceptOptions`, `load`, `parse`) | the path looked at, the block and name at hand, the entries so far, `seen` | discover in one place or upwards, read, validate block by block | called by the static pass of each unit | the nearest file decides; a file is taken whole or refused at its first fault; no test and signal twice |
| scoring and ranking (src/suspicion.rs), smells (src/smells.rs) | scores per test and file | score, rank | reads records, writes the shortlist | a baseline never changes a score; ties and cuts are deterministic |
| baseline life cycle | the file, and what its reviewer has seen | edit, scan, accept, delete | people, following docs/guide | nothing is held back that nobody judged; advice to delete is right; reviewing ends |
| entry points and pytest orchestration (src/lib.rs, src/main.rs) | the unit at hand, its inventory, the finished members, the interpreter, the output file | dispatch, static pass, four subprocesses per unit, write | calls everything else; blocks on children | a bad member ends the run with no report; flags and fields agree; the report before it is kept until the next is written |
| static pass (src/lib.rs), walker (src/walker.rs) | the canonical project, the entries still to come, the test files, records by file | canonicalize, walk, relativize, parse or skip, file smells | the disk; the directories pycoati and pytest run in | the same project gives the same records under the same names; pytest runs what was scanned |
| uv workspace detection (src/workspace.rs) | the pattern at hand, what it expanded to, the members | expand, check for escapes, sort, merge | reads pyproject.toml and directories | members are determined by the disk and the patterns, inside the root, each once |
| pyproject.toml reading (src/pyproject.rs) | none | four readers | workspace, names of packages | failures fall back, and never change the mode of the run |
| pytest and coverage output (src/pytest.rs, src/coverage.rs) | none | parse counts, rows, runtime, percentage | fills `suite` from text in which tests and plugins print too | the numbers are those pytest reports |
| parser (src/parser.rs), external verification (src/verification.rs), mock tables (src/mock_api.rs) | the class and test at hand, the names replaced so far, the import map, the records so far | walk module and class bodies, collect what a class or test replaces, bind doubles, count verification and assertions | makes the records | a check of a double is not evidence, and what replaces nothing loses none; nothing leaks from one class or test to the next |
| SUT calls (src/sut_calls.rs, the import maps of src/parser.rs, the packages of src/pyproject.rs) | the import map of the file at hand, the maps kept per file, the called names of each record | record an import, resolve, aggregate | overwrites `called_names` in the records | a call is credited to what its own file's imports bind; counts and nodeids agree; the project's own calls are never lost |
| interpreter detection (src/python_detect.rs) | the directory looked at | ancestor walk, uv, plain python | used once per run | the nearest environment wins |
| guide (src/guide.rs) | none | choose a page by inventory.json | the output file of earlier runs | only a whole report is taken for one |
| rendering (src/pretty.rs) | none | look records up again, print | the user | the reader sees what was ranked |

The hazards these parts are exposed to are listed in `PROJECT.json`, each at the
line where it bites, with the properties that would catch it.

## Modules

```
Lists ── Smells ─┬ Evidence ─┬ Accept ─┬ PrettyView ───┐
                 │           │         └ AcceptRefines ┴ AcceptProofs
                 │           ├ AcceptContract   (AcceptRefines implements it)
                 │           └ Review ── ReviewProofs   (a scan is the contract)
                 └ StaticPass ── StaticPassProofs
Names ─┬ SutCalls ── SutCallsProofs
       └ Verification ── VerificationProofs
Baseline ── BaselineProofs
Workspace ── WorkspaceProofs
Audit ── Workflow ── WorkflowProofs
PytestOutput
MC*: instances for TLC
```

**Lists** is what several parts do with lists: add up numbers (`Total`) and sort
stably (`StablySorted`: each element goes to the place with as many before it as
there are elements that belong before it).

**Evidence** has no state: a test record, the smells of a test (those it shares
with files are in **Smells**), the four signals an acceptance can name, the score of a test and of a file, and the ranking, as
operators. Scores are fixed point (1/30000), so that every term but one is exact;
the logistic curve over the setup ratio is a constant of which only the shape is
assumed. A fingerprint is a value, equal for two tests iff their text is equal
up to the blank lines and trailing blanks that `fingerprint()` drops.

**Accept** is `score_and_rank` of src/lib.rs with `apply` inlined: `Score`,
`Index`, one action per outcome of an entry in the loop (`UnknownTest`,
`ContentChanged`, `SignalNotActive`, `Accepted`, in the order of the early
`continue`s), `SortTouched` for each touched list, and `Rank`. Positions of
`tests` stand for `&mut inv.test_functions`; position 0 for `None`.

**AcceptContract** says in one step and without loops what such a scan promises:
which entries live, why the others are stale, who is listed. **AcceptRefines**
states that Accept implements it, with what has been decided when the scan is done
as the refinement mapping.

**PrettyView** is what `--format pretty` says of a finished scan: functions of the
state of Accept, since the renderer looks records up again by name and computes
the scores of files again.

**Baseline** is `AcceptOptions::resolve`, `resolve_from_file`, `discover`,
`load` and `parse`. One action per place looked at, per block and per name; every
`bail!` is an action. The TOML deserializer is a library: a file is unreadable,
garbled, or a document.

**Review** puts scans in the life of a project. Developers edit, remove and
restore tests (`Edit`) or change a decorator on the class around them
(`PatchClass`), which changes signals and not the text. A reviewer accepts
firing signals of the shortlist and deletes stale entries, working from the
inventory of an earlier scan. Those actions are external to src/ and follow
docs/guide/setup.md and analyze.md. A scan is one action: of the project, when it
skips any files it cannot read, or of one file. What it decides is an instance of
AcceptContract. `whole` remembers of an inventory whether it is one of the whole
project with no file skipped.

**Audit** is one run from `run_audit` to the written payload. A unit is what
`run_static_dir_with_options` scans. Each subprocess is launched in one step and
returns in another, with any combination of missing data. The tests directory of
a member may come or go between the two times the code looks at it (`there`).
Writing is two steps, since `fs::write` truncates before it writes.

**Workflow** composes runs: the same command again, with other options, each with
`--output inventory.json` or without, and a bare `pycoati guide` at any time. It
adds the file to Audit's state, what each step does to it (`FileStep`), and a kill
at any point. A torn JSON object does not parse, and that is all `is_inventory`
can tell.

**StaticPass** is a scan seen from its paths: `project_from_root` and
`project_from_file`, the walk entry by entry in any order (`WalkEntry`), the sort,
`parse_single_file` or its warning, the file smells that find a file's tests again
by path, and then the tests directory, working directory and interpreter that the
pytest children get. A path keeps the form it was typed in until the code
canonicalizes it; a relative one means something else to each process, which is
what the module is about. Links, hidden entries and unreadable directories are on
the disk, an input. A link may lead to a place that lies behind another link; after
`MaxLinks` of them the system gives up, and a link that is left leads nowhere. What is in a file is an input, too: Verification and SutCalls
say how it gets there.

**PytestOutput** has the children of Audit print. Actions are what pytest prints
while it collects, runs and reports, and between that (`Chat`) a line of someone
else; then the parsers read the text: `parse_collection_count`,
`parse_slowest_tests`, `parse_runtime_seconds`, the sum that stands in for it, and
the coverage report. Lines are sequences of words, told apart as far as the
parsers do. What pytest knows is kept next to it (`fact`) for comparison.

**Workspace** is `detect` and the functions it calls. Directory entries arrive
one at a time in any order. Where paths lead is a table, so links, files and
directories outside the root, and listings that fail halfway are all inputs.

**SutCalls** follows the calls of a test through a project scan: import statements
are recorded one by one, file by file (files that do not parse are left out), the
packages are read, each record's `called_names` is resolved in place, and the
names are counted; the section `--format pretty` prints of them is
`render_sut_calls`. Only top-level statements are there, as in
`build_import_map`; a list of imports in one statement is the same as a statement
each. A dotted name is a sequence of segments, and segments are numbers in string
order. Which chains a body holds is the parser's result and an input.

**Verification** is src/parser.rs from the syntax tree to the records: the walk
over the children of a module and of a class (`Skip`, `EnterClass`, `LeaveClass`),
and for each test the names it replaced, one binding at a time in the order
`double_bindings` lists them (`StartTest`, `BindDouble`, `PassBinding`; `todo` is
what is left), then its calls one at a time (`CountSite`, `PassCall`), then the
record (`PushRecord`). The
tree is an input: tree-sitter is a library. A body is a sequence of statements,
one to a row, each with the blocks around it; a one-line block starts on the row
of its statement. Next to the code stands what the test does when it runs:
`ReplacedAfter` executes the body statement by statement, and `FailsTheTest` says
which exceptions reach pytest.

**Names** has what both of them do with dotted names: what lies under what, and
`canonicalize_called_name`.

**AcceptProofs**, **BaselineProofs**, **ReviewProofs**, **StaticPassProofs**,
**SutCallsProofs**, **VerificationProofs**, **WorkspaceProofs** and
**WorkflowProofs** hold the theorems.

Definitions whose comment starts with "A slip" are wrong on purpose. Each is the
definition after it with one plausible mistake, and is used by nothing: put in
its place, it breaks the property that `PROJECT.json` names, which shows that the
property can tell.

## Runs

| Run | What it explores | What it shows |
| --- | --- | --- |
| `accept` | up to 2 tests of 7 kinds, which may share one name, every baseline of up to 3 of 7 entries in every order, `--top-suspicious` 1 and 5, both settings of `--include-accepted` | `EveryEntryAccountedForOnce`, `HeldBackMeansReviewed`, `AcceptedSignalsCanonical`, `OnlyContentChangedHidesAFiringFinding`; `ReaderSeesTheRanking`; Accept implements AcceptContract |
| `baseline` | every file of up to 2 of 12 blocks at each of 3 places, the others empty, garbled or bare | which file decides, that it is taken whole or refused at the first fault, no repetition |
| `review` | one test with 2 texts, class patches, up to 4 edits, scans of the project and of one file, files that cannot be read | nothing is held back that nobody judged, the advice to delete is right after a scan of the whole project, and the review comes to an end |
| `workflow` | two runs over every target, up to 2 members of 7 kinds, 16 command lines, 4 files that may be there before, every outcome of every child, every failure of the write, a kill at any step | when a run reports, what a report says of pytest, the order of children, termination; which steps may touch the file of an earlier run; where the guide sends its reader |
| `static_pass` | a project on 114 disks (hidden, unreadable and linked entries, names that nearly qualify, environments at 3 places), scanned from itself, from above, through a link and absolutely, with 5 ways to give `--tests-dir`, as a member, and file by file | records, names and order depend on the disk alone; pytest runs what was scanned; the nearest environment; types |
| `static_pass_paths` | the same | a statement of the guide that does not hold (below) |
| `output` | up to 3 tests selected or deselected, errors, with and without summary lines, up to 3 rows of durations in any order, one of 7 lines of someone else at any place, output that cannot be used, every coverage report | the count, the slow tests and the run time are those of pytest, and when they can be spoilt; the list is never longer than its cap |
| `workspace` | 2 of 10 patterns over 96 trees, every order of listing | members determined, inside the root, each once; errors exactly for bad patterns |
| `sut_calls` | every 2 of 13 imports before a test with 8 kinds of call, a second file that parses or not, 5 ways to declare packages, with and without `--project-package` | `CreditedByItsOwnImports`, `SutCallsAgree` (with what is printed), `OwnCallsAreKept` |
| `sut_calls_cov` | the same | a doc comment that does not hold (below) |
| `verification_patched` | a test of one check, with and without a patch above it | a doc comment that does not hold (below) |
| `verification` | every body of 2 of 25 statements, and of 3 of those that bind, patch or check, alone or with parameters, decorators, hooks, classes and another test after it | `NoTrackedDoubleIsCredited`, `ExactWithoutDoubles` |

Why the bounds are enough. `apply` treats tests only through the position of
their nodeid, so one test with entries and one that competes with it for a place
are all it can tell apart; three entries on one test give every order in which a
list of accepted signals can be filled, and a repetition of a test under two
fingerprints. `parse` relates a block only to those before it, and two blocks,
with up to two names each, contain each pair of faults and each way to repeat a
name; three places are the explicit one, the first and an ancestor. In `review`
one test is enough for what an entry does, since entries of different tests do
not meet, and two texts and four edits go away from a text and come back to it with
the class patched on the way; of the two invariants any number of texts, tests and
edits is proved below. In `workflow` two members have one before and one after,
and two runs have a report to lose and one to write. `static_pass` has an entry on each
side of every test of the walk (shown or not, readable or not, file, directory or
link, a name that qualifies or nearly does), two test files that sort around a
directory, and each pair of a working directory and a spelling that means
something else; the smell of a file differs from that of its tests. In `output`
three rows under a cap of two are cut within ties, and one line of someone else
is enough for what the properties say of one; two such lines are the same as one
for parsers that go line by line, save for the fallback that counts them. In `workspace` two patterns overlap in every
way, exact with star, star with star, and through a link. In `sut_calls` two
imports are enough for one to rebind a name or for a star and a binding to
compete, and `Cap` = 2 cuts the ranking within ties. In `verification` three
statements have one that binds a double, one that binds what it returns and one
that checks that, in any order; six surroundings put the replacement outside the
body, before or after the test; a test that replaces nothing comes last, so that
anything carried over would show. All counters are
bounded by these constants: `MaxTests`, `MaxEntries`, `MaxRatio`, `MaxEdits`,
`MaxMembers`, `MaxRuns`, `MaxPatterns`, `Depth`, `MaxLinks`, `MaxChatter`, `MaxRows`,
`Cap`. On the disks of `static_pass` no way that a scan takes has more than two links, and
`MaxLinks` = 3 is never what stops one.

`review` switches off nothing but counts edits; with `Scan` always enabled it
has no deadlock. The other modules end in a `Done` or `Exit` step that stutters,
so TLC's deadlock check finds every step the code would be missing.

## Fairness

Straight-line code states no fairness: that it runs to its end is what the
deadlock check says of loops that count upwards. In Workflow only the program's own
steps (`Own`) are fair. Children have no time limit in the code and run the
tests of the audited project, so nothing makes one return;
`EndsUnlessAChildHangs` says no more than that. In Review, fairness is about
people and is an assumption, stated in the specification: they go on scanning the
whole project (a fair scan is one that sets `whole`; of just any scan, weak fairness
would be content with one file for ever), they judge what the shortlist keeps showing, and they delete what keeps being
reported for deletion. Strong fairness is needed for the last two, since a scan
in between may disable them for a while. Nobody is obliged to edit.
`ReviewSettles` speaks of behaviours in which, from some time on, all scans are
whole; the scans before that may skip what they like.

## Proofs

All theorems hold for every value of the constants that satisfies the named
assumptions. Those say that the sets have the shape the code gives them
(records are records, names are ordered, a tree is a tree, trimming twice is
trimming once) and that bounds are natural numbers; the bounds themselves do not
matter to a proof, nor does the size of a set. Some say a little more:
`ParsedHaveFingerprints` (Review) that every parsed test has a fingerprint, since the
branch of src/parser.rs without one is "unreachable today" by its own comment;
`CallsAreFinite` (SutCalls) that a body holds finitely many calls;
`SourcesAssumption` (Verification) that a file is a sequence of children and its
aliases map words to names; `ComponentsAssumption` (StaticPass) that `.` is not the
name `tests`.

| Theorem | Says of every run |
| --- | --- |
| `AcceptProofs!TypeCorrect` | `TypeOK` |
| `AcceptProofs!EntriesAccountedFor` | `EveryEntryAccountedForOnce` |
| `AcceptProofs!NothingHeldBackUnreviewed` | `HeldBackMeansReviewed` |
| `AcceptProofs!AcceptedSignalsAreCanonical` | `AcceptedSignalsCanonical` |
| `AcceptProofs!AcceptImplements` | Accept implements AcceptContract |
| `AcceptProofs!StaleReasons` | `OnlyContentChangedHidesAFiringFinding` |
| `AcceptProofs!ReaderSeesTheRankingCorrect` | `ReaderSeesTheRanking` |
| `BaselineProofs!TypeCorrect` | `TypeOK` |
| `BaselineProofs!NoRepeatCorrect` | `NoRepeat` |
| `BaselineProofs!TakenWholeOrNotAtAllCorrect` | `TakenWholeOrNotAtAll` |
| `BaselineProofs!BlameIsTheFirstFaultCorrect` | `BlameIsTheFirstFault` |
| `BaselineProofs!NearestDecidesCorrect` | `NearestDecides` |
| `ReviewProofs!HeldBackWasJudgedCorrect` | `HeldBackWasJudged` |
| `ReviewProofs!UnknownMeansGoneCorrect` | `UnknownMeansGone` |
| `StaticPassProofs!TypeCorrect` | `TypeOK` |
| `StaticPassProofs!ProjectRecordsCorrect` | `ProjectRecordsAreTheDisks` |
| `StaticPassProofs!NearestEnvironmentCorrect` | `NearestEnvironment` |
| `StaticPassProofs!PytestRunsWhatWasScannedCorrect` | `PytestRunsWhatWasScanned` |
| `SutCallsProofs!TypeCorrect` | `TypeOK` |
| `SutCallsProofs!CreditedByItsOwnImportsCorrect` | `CreditedByItsOwnImports` |
| `SutCallsProofs!SutCallsAgreeCorrect` | `SutCallsAgree` |
| `SutCallsProofs!OwnCallsAreKeptCorrect` | `OwnCallsAreKept` |
| `VerificationProofs!NoTrackedDoubleIsCreditedCorrect` | `NoTrackedDoubleIsCredited` |
| `VerificationProofs!ExactWithoutDoublesCorrect` | `ExactWithoutDoubles` |
| `WorkspaceProofs!TypeCorrect` | `TypeOK`, with the members under the root |
| `WorkspaceProofs!NoMemberTwiceCorrect` | `NoMemberTwice` |
| `WorkspaceProofs!FailsIffAPatternIsBadCorrect` | `FailsIffAPatternIsBad` |
| `WorkspaceProofs!MembersAreDeterminedCorrect` | `MembersAreDetermined` |
| `WorkflowProofs!TypeCorrect` | `TypeOK` |
| `WorkflowProofs!ReportsWhatIsAuditable` | `ReportsIffAuditable` |
| `WorkflowProofs!ListsEveryMember` | `EveryMemberListed` |
| `WorkflowProofs!FlagsAreRight` | `FlagsTellWhatIsThere` |
| `WorkflowProofs!ChildrenRunInOrder` | `ChildrenInOrder` |
| `WorkflowProofs!GuideReadsWholeReports` | `GuideGoesByWholeReports` |
| `WorkflowProofs!KeepsTheEarlierReport` | `ReportIsKeptUntilTheNext`, as a step property |

Accept. `Inputs` says that a scan leaves its inputs alone, and that the baseline
has no repetition; with it `TypeOK` is inductive. That the baseline has none is
where Accept starts from (`Init`), and what `NoRepeatCorrect` proves of parsing.
`TurnOfLoop` says what one turn of the loop does whichever way it goes: the entry
at hand gets one report, the others keep theirs. `HeldBackMeansReviewed` speaks
of the end of a scan only and is not inductive; `HeldBackInv` adds that every
accepted signal has an entry with the test's fingerprint behind it
(`AcceptedBacked`), that an entry was resolved to a test of its name
(`ResolvedRight`), and that a shortlist with room to spare lists all candidates
(`ShortlistComplete`, by counting: an injection between finite sets of one size
is onto). `AcceptedSignalsCanonical` holds only once the touched lists were
sorted; `CanonicalInv` carries it through the loop: lists nobody touched are
empty, and a touched list has all the signals taken (`AllTaken`, `NoneMissing`),
each once (`NoneTwice`), until its turn to be sorted comes.

Accept implements AcceptContract. `Rank` is the one step that the contract sees,
and what it decides was prepared before, so `RefinesInv` relates each halfway state
to the contract: an entry leads to the last test of its name (`IndexRight`), every
finding applies to a test whose accepted signals name it (`FoundRight`), every
accepted signal has an entry that applies (`AcceptedRight`), every stale entry is
one the contract refuses for the same reason (`StaleRight`), and the loop is left
after the last entry (`BacklogDone`). `EveryEntryAccountedForOnce` then gives both
reports, and a nodeid borne by one position at most (`BornOnce`) gives the filter.
`RankingNames` compares two ways to say "the first n": places in a sequence, and the number of
those who outrank you. `RefinesInv` was checked by TLC on the instance of `accept`
before it was proved. `StaleReasons` is a consequence of `StaleRight`.

`ReaderSeesTheRanking` compares what is printed with the state at the end.
`RankedRight` carries there what `Rank` has done (both lists are rankings of the
candidates by the scores in the state), and `FileScoresAreNumbers` that these are
numbers, which a ranking that goes down takes (`RankingGoesDown`). A test is looked
up again by a nodeid that, being unique, leads back to it (`LookedUpAgain`). The
score of a file is computed a second time from the scores of a group; the group is
that of the first time, so the sums are too (`FileRowsRight`). A sum is a fold of the
community modules: `TotalCounts` shows that it is the number of units that make it up,
a cardinality, which it inherits its type from without an induction over the fold.

Baseline. The inductive invariant adds to `TypeOK` and `NoRepeat` that the block
whose names are being taken is complete (`AtABlock`), so that both readings of
`signal_names` make sense, and that every place passed on the way up holds no
file (`Searched`), which is what `NearestDecides` amounts to at the end.
`TakenWholeOrNotAtAll` and `BlameIsTheFirstFault` compare the loop over blocks with
the whole file read flat (`Stated`, `WellFormed`), and need `WholeInv`. Between
blocks the entries are what the file states up to the block before; among the names
of a block, the entries begin with that, and together with those the names still to
be taken will make (`Coming`) are what it states up to the block at hand
(`Validated`). A refused document has a version the code does not know or is at
fault in the block at hand and not before it (`Blamed`). The lemmas say how the flat
reading grows: what a block adds (`StatedByBlock`), that more blocks leave the entries
of the first in place (`LaterBlocksFollow`), and that a file is no better than its
first blocks (`FileFailsWithItsBlocks`). `WholeInv` was checked by TLC on the
instance of `baseline` before it was proved.

The flat reading is a `FlattenSeq`, a recursive function of the community modules,
and what such a function computes takes induction. The induction theorems of the library
take an operator as a parameter, which none of the provers here can instantiate.
`Counting` does instead: a set of numbers that has 0, and with m also m + 1, is all of
Nat. It follows from the theorems on finite sets, and as it is about a set and not
an operator, each induction is an application of it. `JoinExists` and `JoinUnique`
use it to show that the recursive function is there and is the only one with its
equations, which is what `FlattenIsJoin` and `FlattenStep` need. The execution of
a test in Verification (`Execution`) is treated the same way.

Workspace. The members returned at the end are compared with what the patterns
lead to, so `IInv` has to say where they stand halfway: what was found is
where the entries already taken lead (`ListedSoFar`), the patterns behind are
good (`GoodSoFar`) and all they lead to has joined (`MergedSoFar`), what joins
next comes after what joined from the same pattern, and each member stands where
the first pattern that leads to it puts it (`InOrder`).
`IInv` was checked by TLC on the instance of `workspace` before it was proved.

Review. `HeldBackWasJudged` follows from `ReviewInv`: each entry of the file, and each
that the scan at hand has applied, goes back to a judgement of its test, signal and
text, or of any text if it is not pinned (`Backed`). Edits cannot disturb that, since
judgements are not forgotten; deleting cannot either. `UnknownMeansGone` adds that a
whole inventory names every test that was there, and none twice (`Complete`).
That a scan lists the tests it read in increasing order, without leaving one out, is
`EnumerationIsOnto`.

StaticPass. The invariant is `Typed /\ Walking /\ Recorded /\ Sent`. `Typed` is stronger
than `TypeOK`: it says of which shape records and names are, and that the project is
a place (`Placed`). `ProjectRecordsAreTheDisks` compares the inventory at the end with a
disk that was read in any order, so the other parts say how far the reading has come.

* `Walking` is about the walk. The test files it has passed are found, each once, under the
  name of their place (`FoundIsSeen`), and after the sort in the order of the paths
  (`FoundAscends`). That a place has one name, and that names compare as places do, is
  `NamesCompareAlike`; that a name leads to its place, however many links are on the way up
  to the tests directory, is `NamesLeadThere`: entries that a walk lists lie behind no
  further link, so following stops at the same one (`FollowBelow`).
* `Recorded` is about what is entered. There are places `ps`, one for each file entered, going
  up, such that the tests of each stand together, in the order of their lines (`Entered`), with
  its record as it was parsed (`Plain`) or with its smells added (`Judged`). While files are
  parsed, `ps` are the readable ones before the file at hand (`SoFar`), and after the last one
  all of them (`Complete`). The places are bound by a quantifier: the code does not keep them.
* Smells are added by finding the tests of a file again by path, in all of
  `inv.test_functions`. `InventoryNamesDiffer` makes these the tests of that file and no
  other, and `SmellsAreItsOwn` makes the smells those of the disk.

At the end the files are at places that go up and leave none out. `TheOnlyWayUp` says there is
one such way: paths are ordered strictly and totally (`BeforeTransitive`, `BeforeTotal`),
and whoever goes up through a finite ordered set visits at each step the element with as many
below it (`RankOfPlace`, `OneWayUp`). The same counting says what a stable sort returns: each
position once, none before one that belongs before it (`StablySortedSorts`). Neither proof looks
at an algorithm for sorting; the code leaves that to a library as well.

`Sent` follows the search for an interpreter: it stands at a prefix of
its origin, no longer prefix has an environment, and what a child was started with is
what `Argument` says of its program. That a scan of a directory is of one that is
there makes the origin a directory too. `PytestRunsWhatWasScanned` is then
a matter of how paths are read: the argument of pytest, read where pytest runs, leads
to the directory that was walked (`SentToWhatWasWalked`).

Proving this corrected the model twice. Of a link whose target lies behind another
link, only the first used to be followed; now all are, up to `MaxLinks`. And the tests
of a file used to be a set, in which two tests alike would have been one; now
they are a sequence, as the parser returns them.

SutCalls. `CreditedByItsOwnImports` compares each record at the end with the imports
of its file read as Python binds them. `ImportsInv` says that the map at hand is made
of the statements behind, the last binding of a name winning, and that the maps kept
are made of all statements of their files (`MadeOf`). `RecordsInv` has for every test of
a file that parses a record, with the credited names if its turn has come and the raw
chains if not. `SutCallsAgree` needs `Counted` (nothing changes after
counting) and that the ranking exists: `Precedes` orders the names totally, and so
each has a place of its own among finitely many (`RankIsOnto`).

Verification. `ShadowsInv` says that the class at hand replaces what its own
decorators and hooks do, with nothing left from the class before; `NamesInv` that all
that is replaced from the start is known, that a test that replaces nothing knows
of none, and that a local bound to a double is known once its binding was looked at;
`SitesInv` that calls are judged by the final names. `RecordsInv` carries the properties
over. The proof compares two orders, the code's (forms of binding, then rows) and
Python's (rows): for a test that keeps to the tracked forms, a binding whose value is
a double stands before all that depend on it in both (`DoublesAreSeen`).
In an earlier form `NoTrackedDoubleIsCredited` spoke of every return code that is
checked. The proof had a case that could not be closed, a receiver
below a patched name, and the code does count that: it is the finding of
`verification_patched`, and `ChecksLocals` leaves it out.

Workflow. `ReportsIffAuditable` says at the end what every step on the way must
have made sure of, so the invariant carries it: `Control` has one finished
inventory for each unit behind, none of those units bad, the command line not
refused, and no output before the payload; `Progress` says which fields of the
inventory at hand can be there by now, so that a flag set late counts what was
found early. `Children` adds, for `ChildrenInOrder`, that the last child launched
is the one that runs, and that nothing was launched for the unit at hand before
its static pass was over. `ReportIsKeptUntilTheNext` is then a fact about single
steps (`ChangesTheFile`), since in the state before such a step the invariant
makes the run auditable and its inventories complete. `GuideGoesByWholeReports` needs an invariant of
its own (`FileInv`): after a report the file holds the payload of that run. Both
invariants were checked by TLC on the instance of `workflow` before they were
proved.

What is model-checked only:

* liveness (`ReviewSettles`, `EndsUnlessAChildHangs`), which is out of the prover's
  reach;
* PytestOutput: `TypeOK`, and the two step properties `CountIsTheCollections` and
  `NumbersAreOfTheRun`. What a parser reads is a first or a last line of some kind, of a text
  with lines of someone else in any place, and each kind of line needs a theory of its own of the
  selections and folds that find it; one line in each place shows what such lines can do.

## Where code and docs disagree

* `static_pass_paths`: a relative `--tests-dir` is read against the directory
  pycoati was started in. `strip_prefix` with the canonical root then fails, and
  the path stays as it was typed: `pycoati p --tests-dir p/tests` enters
  `p/tests/...`, which leads nowhere from `project.path`, where analyze.md says
  that in directory mode all paths are relative to it. pytest gets the same
  relative argument and runs in the project, so it looks at `p/p/tests`;
  `PytestRunsWhatWasScanned` has to leave that case out.
* `sut_calls_cov`: the package for `--cov` is the first in string order of all
  declared names, and `[project].name` is one of them. A distribution `alpha` that
  packs `src/zeta` has its coverage measured for `alpha`. The doc comment of
  `single_project_cov_package` says that the name is used only when no package is
  declared; its test has names in the order that works.
* `verification_patched`: under `@patch("app.cli.process")`, the call
  `app.cli.process.check_returncode()` runs on a mock and is counted as
  verification. For a return code the code looks at the first segment of the receiver,
  and for patched names below `subprocess`, never whether the receiver is at or under
  a patched name. The doc comment of `external_verification_sites` and analyze.md say
  that a call against a name the test replaced is rejected.

Seen while modelling:

* A single-file scan matches the baseline of the whole project against the tests
  of one file. The entries of all others are reported as `unknown_test`; setup.md
  says that the nodeid is gone and to delete the entry. `UnknownMeansGone` holds
  after project scans that skipped no file (`whole`).
* Coverage runs whatever collection and durations returned, so
  `line_coverage_pct` can be there although `ran_pytest` is false, where
  analyze.md says that every `suite` field is null then. `FlagsTellWhatIsThere`
  does not claim it.
* Doubles are looked for in all assignments, then in all walruses, then in all
  `with` items, in one pass. After `with MagicMock() as m:`, `done = m.run()` is
  looked at while m is not known to be a double, and `done.check_returncode()`
  counts as verification of a child process that never ran. The comment in
  `shadowed_names` says that a local bound to anything already shadowed is itself
  a double.
* A `-q` in `--pytest-args`, the second one, takes the summary lines away. The count falls
  back to lines that hold `::`, and a test that prints "in 9s" sets the run time.
  `N tests` without "collected" is taken for a count wherever it stands, and
  `2/3 tests collected` is not, so with deselected tests the lines are counted.
* A captured line with "slowest durations" opens that section early, and the
  header pytest prints itself then closes it before its rows. The comment there
  says that dashes close it as well; the code asks for `=` only.
* `test_.py` is left out "to mirror pytest's rules" (src/walker.rs:62); pytest's
  pattern `test_*.py` matches it.
* With two records of one nodeid the pretty table shows the later one in both
  rows. "Held back from the shortlist" heads all findings, also those of a test
  that is still listed because another signal fires on it.
* `pycoati guide` goes by any `inventory.json` with a `schema_version`, so after a
  run that was refused or killed early it sends its reader to analyze the report
  of the run before it.
* Python lets a file define a test name twice, the parser keeps both records, and
  `apply` finds only the last. An entry whose signal fires on the other is
  reported as `signal_not_active`, while analyze.md calls `content_changed` the
  only status that can hide a firing finding.
  `OnlyContentChangedHidesAFiringFinding` is therefore stated of tests with
  distinct nodeids.
* A pyproject.toml that declares a workspace and has a wrong type anywhere reads
  as declaring none (`NoWorkspace`). The doc comment of `detect` says "iff", and
  the run goes on as a single project.
* `from other import other` is an alias that prefixes itself; the comment in
  `canonicalize_called_name` says that such forms never do.
* A plain alias (`done = m`), `with patch.object(...) as x` and a chain on a call
  (`MagicMock().run()`) bind doubles that the parser does not follow.
  `KeepsToTrackedForms` says which bindings it does follow;
  `NoTrackedDoubleIsCredited` is about tests that keep to them.
* Without assertions the setup ratio ends at the row where the last child of the
  body starts, where analyze.md speaks of the height of the whole body.

## Not modelled, and the plan

In this order, most important first:

1. Typed paths in Review: nodeids of a single-file scan keep the path as typed, so
   entries written from one apply only to scans that spell it the same way.
2. `CountIsTheCollections` and `NumbersAreOfTheRun` for any text.
3. A disk that changes while a unit is walked; between the two looks at a tests
   directory it does (Workflow).

Left out for good: titles, layout, rounding and the suite section of
src/pretty.rs, the breadcrumb line after a report, messages and logging, argument
parsing, TOML, the `ignore` crate, the texts of the guide, and FNV-1a.
