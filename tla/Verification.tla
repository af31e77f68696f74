----------------------------- MODULE Verification -----------------------------
(***************************************************************************)
(* From the syntax tree of a test file to its records (src/parser.rs):     *)
(* which functions are tests, which names each test replaced with a test   *)
(* double, which of its calls verify a child process, and what it asserts. *)
(* A body is its statements in source order, one to a row.                 *)
(***************************************************************************)
EXTENDS Naturals, Sequences, SequencesExt, FiniteSets, FiniteSetsExt, Names

CONSTANTS Sources      \* the files that may be parsed

Word == STRING \ {""}
Name == Seq(Word) \ {<<>>}

\* What a patch-shaped call names: patch("a.b"), or patch.object(a, "b").
Target == [receiver : Name, attr : Seq(Word)]

\* `check`: the literal check=True is passed.  A call of what has no name,
\* handlers[0](), has no chain; attributes of such things are left out.
Expression ==
  [kind : {"call"}, chain : Seq(Word), check : BOOLEAN, targets : SUBSET Target]
  \cup [kind : {"attribute"}, chain : Name]
  \cup [kind : {"other"}]

\* `guarded` is the body of a try with an except clause.
Block ==
  [kind : {"def", "lambda", "generator", "except", "guarded", "else", "finally", "if"}]
  \cup [kind : {"with"}, value : Expression]

\* `left` is the identifier bound, if any; `inside` the blocks around the
\* statement within the test, innermost first; `opens`, whether a child of the
\* body starts on its row, the statement or the outermost block around it.
Statement ==
  [form : {"=", ":=", "with"}, left : STRING,
   value : Expression, inside : Seq(Block), opens : BOOLEAN]
  \cup [form : {"expr", "assert"}, left : {""},
        value : Expression, inside : Seq(Block), opens : BOOLEAN]

\* `role` is what the name makes of a function: test_*, one of SETUP_METHODS.
Function ==
  [kind : {"def"}, role : {"test", "hook", "other"}, params : SUBSET Word,
   decorators : Seq(Expression), body : Seq(Statement)]

Child ==
  Function
  \cup [kind : {"class"}, named_test : BOOLEAN, decorators : Seq(Expression),
        members : Seq(Function)]

IsSource(s) ==
  /\ DOMAIN s.aliases \subseteq Word
  /\ \A w \in DOMAIN s.aliases : s.aliases[w] \in Name
  /\ s.children \in Seq(Child)

ASSUME SourcesAssumption == \A s \in Sources : IsSource(s)

VARIABLES
  source,    \* the file
  pc,
  child,     \* the child of the module at hand
  member,    \* the child of its class at hand, 0 outside a class
  shadows,   \* ClassContext.shadows
  names,     \* shadowed_names of the test at hand, so far
  todo,      \* the bindings, then the calls, still to look at
  sites,     \* verification sites of the test at hand, so far
  parsed     \* ParsedFile

vars == <<source, pc, child, member, shadows, names, todo, sites, parsed>>

-------------------------------------------------------------------------------
(* src/mock_api.rs and src/verification.rs *)

MockConstructors == {"Mock", "MagicMock", "AsyncMock", "create_autospec", "patch"}

MockApi ==
  {"called", "call_count", "call_args", "call_args_list", "assert_called",
   "assert_called_with", "assert_called_once", "assert_called_once_with",
   "assert_not_called", "assert_any_call", "assert_has_calls"}

StubHeads ==
  {<<"monkeypatch", w>> : w \in {"setattr", "setenv", "delattr", "delenv", "context",
                                 "syspath_prepend", "chdir"}}
  \cup {<<"mocker", w>> : w \in {"patch", "spy", "stub", "MagicMock"}}
  \cup {<<"mocker", "patch", w>> : w \in {"object", "dict", "multiple"}}

CheckedCalls == {<<"subprocess", "check_call">>, <<"subprocess", "check_output">>}
CheckableCalls == {<<"subprocess", "run">>}
Suppress == <<"contextlib", "suppress">>

IsReturncodeCheck(chain) == Len(chain) > 1 /\ Last(chain) = "check_returncode"

Canon(chain) == Canonical(chain, source.aliases)

-------------------------------------------------------------------------------
(* Calls of a body *)

IsCall(e) == e.kind = "call" /\ e.chain # <<>>

Calls(body) == {i \in DOMAIN body : IsCall(body[i].value)}

PatchesAName(chain) ==
  chain = <<"monkeypatch", "setattr">> \/ \E k \in DOMAIN chain : chain[k] = "patch"

\* The names that the calls among `es` replace.
PatchTargets(es) ==
  UNION {{Canon(t.receiver) \o t.attr : t \in e.targets} :
           e \in {e \in es : IsCall(e) /\ PatchesAName(e.chain)}}

ValuesOf(body) == {body[i].value : i \in DOMAIN body}

class_installed_doubles(class) ==
  PatchTargets(Range(class.decorators))
  \cup UNION {PatchTargets(ValuesOf(m.body)) :
                m \in {m \in Range(class.members) : m.role = "hook"}}

\* What is replaced whatever the locals are: by the class, the parameters, the
\* decorators, and the calls of the body.
Replaced(f) ==
  shadows \cup {<<p>> : p \in f.params \ {"self"}}
  \cup PatchTargets(Range(f.decorators)) \cup PatchTargets(ValuesOf(f.body))

Bindings(body) ==
  {i \in DOMAIN body : body[i].left # "" /\ body[i].value.kind = "call"}

\* double_bindings: the assignments, then the walruses, then the with items.
Pass(form) == IF form = "=" THEN 1 ELSE IF form = ":=" THEN 2 ELSE 3

Earlier(body, i, j) ==
  \/ Pass(body[i].form) < Pass(body[j].form)
  \/ Pass(body[i].form) = Pass(body[j].form) /\ i < j

IsShadowed(name) == \E n \in names : AtOrUnder(name, n)

HeadIsShadowed(chain) == <<Head(chain)>> \in names

\* A slip: what a double returns is taken for real.
BindsAConstructed(e) == IsCall(e) /\ Last(e.chain) \in MockConstructors

binds_a_double(e) ==
  /\ IsCall(e)
  /\ \/ Last(e.chain) \in MockConstructors
     \/ HeadIsShadowed(e.chain)
     \/ IsShadowed(Canon(e.chain))

-------------------------------------------------------------------------------
(* What counts as verification *)

Swallows(block) ==
  \/ block.kind \in {"def", "lambda", "generator", "except", "guarded"}
  \/ /\ block.kind = "with" /\ IsCall(block.value)
     /\ Canon(block.value.chain) = Suppress

\* A slip: only the innermost block is looked at.
UnreliableNearby(s) == s.inside # <<>> /\ Swallows(Head(s.inside))

verification_is_unreliable(s) == \E k \in DOMAIN s.inside : Swallows(s.inside[k])

Verifies(s) ==
  LET chain == s.value.chain
  IN  /\ ~verification_is_unreliable(s)
      /\ ~HeadIsShadowed(chain)
      /\ IF IsReturncodeCheck(chain)
         THEN \A n \in names : ~AtOrUnder(n, <<"subprocess">>)
         ELSE /\ ~IsShadowed(Canon(chain))
              /\ \/ Canon(chain) \in CheckedCalls
                 \/ Canon(chain) \in CheckableCalls /\ s.value.check

-------------------------------------------------------------------------------
(* What a record says of a body *)

Asserts(body) == {i \in DOMAIN body : body[i].form = "assert"}

OpensRaises(s) ==
  /\ s.form = "with" /\ s.value.kind = "call"
  /\ s.value.chain \in {<<"pytest", "raises">>, <<"raises">>}

RaisesBlocks(body) == {i \in DOMAIN body : OpensRaises(body[i])}

\* assertEqual stands for every self.assert, self.assertXxx.
UnittestAsserts(body) ==
  {i \in Calls(body) :
     member > 0 /\ body[i].value.chain = <<"self", "assertEqual">>}

TargetsMockApi(s) ==
  /\ IF s.value.kind = "call" THEN IsCall(s.value) ELSE s.value.kind = "attribute"
  /\ Len(s.value.chain) > 1 /\ Last(s.value.chain) \in MockApi

\* compute_setup_to_assertion_ratio, in rows below the `def`.  It ends at the
\* row where the last child of the body starts.
SetupRatio(body, verified) ==
  LET effective == Asserts(body) \cup RaisesBlocks(body)
      top == {i \in DOMAIN body : body[i].opens}
  IN  IF effective # {} THEN [rows |-> Min(effective), per |-> Cardinality(effective)]
      ELSE IF verified # {} THEN [rows |-> Min(verified), per |-> Cardinality(verified)]
      ELSE [rows |-> Max(top \cup {0}), per |-> 1]

IsPatchDecorator(e) ==
  /\ e.kind # "other" /\ e.chain # <<>>
  /\ Head(e.chain) = "patch" \/ Last(e.chain) = "patch"

decorator_is_fixture(e) ==
  e.kind # "other" /\ e.chain \in {<<"fixture">>, <<"pytest", "fixture">>}

\* mock.patch() is not counted here, and neither is mock.Mock().
ConstructsAMock(e) ==
  Head(e.chain) \in MockConstructors /\ (Len(e.chain) > 1 => Head(e.chain) # "patch")

StubCalls(body) == {i \in Calls(body) : body[i].value.chain \in StubHeads}
MockCalls(body) == {i \in Calls(body) : ConstructsAMock(body[i].value)}

\* build_record, once names and sites are known; `of` is what line and nodeid
\* tell apart.
Record(f) ==
  LET body == f.body
      asserts == Asserts(body)
      others == RaisesBlocks(body) \cup UnittestAsserts(body)
  IN  [of |-> <<child, member>>,
       assertion_count |-> Cardinality(asserts) + Cardinality(RaisesBlocks(body))
                           + Cardinality(UnittestAsserts(body)),
       only_asserts_on_mock |->
         asserts # {} /\ others = {} /\ \A i \in asserts : TargetsMockApi(body[i]),
       patch_decorator_count |->
         Cardinality({k \in DOMAIN f.decorators : IsPatchDecorator(f.decorators[k])}),
       stubs_count |-> Cardinality(StubCalls(body)),
       setup_to_assertion_ratio |-> SetupRatio(body, sites),
       verification_sites |-> sites,
       called_names |-> {body[i].value.chain : i \in
           {i \in Calls(body) : Head(body[i].value.chain) # "self"}}]

-------------------------------------------------------------------------------
(* The walk over the file *)

Children == source.children

\* The function of the walk, in a class or not.
Function_at(c, m) == IF m = 0 THEN Children[c] ELSE Children[c].members[m]
Here == Function_at(child, member)

\* On any definition, a test or not; nested functions are left out.
count_fixture_decorators ==
  LET On(d) == Quantify(DOMAIN d.decorators,
                        LAMBDA k : decorator_is_fixture(d.decorators[k]))
      InClass(c) == IF c.kind # "class" THEN 0
                    ELSE MapThenSumSet(LAMBDA m : On(c.members[m]), DOMAIN c.members)
  IN  MapThenSumSet(LAMBDA k : On(Children[k]) + InClass(Children[k]), DOMAIN Children)

HasNext == IF member = 0 THEN child =< Len(Children)
           ELSE member =< Len(Children[child].members)

Advance ==
  IF member = 0 THEN child' = child + 1 /\ UNCHANGED member
  ELSE member' = member + 1 /\ UNCHANGED child

Init ==
  /\ source \in Sources
  /\ pc = "walk"
  /\ child = 1 /\ member = 0
  /\ shadows = {} /\ names = {}
  /\ todo = {} /\ sites = {}
  /\ parsed = [test_functions |-> <<>>, mock_construction_count |-> 0,
               patch_decorator_count |-> 0, stubs_count |-> 0, fixture_count |-> 0]

\* Not a test, and not a class that pytest collects from.
Skip ==
  /\ pc = "walk" /\ HasNext
  /\ IF Here.kind = "def" THEN Here.role # "test" ELSE ~Here.named_test
  /\ Advance
  /\ UNCHANGED <<source, pc, shadows, names, todo, sites, parsed>>

EnterClass ==
  /\ pc = "walk" /\ HasNext
  /\ Here.kind = "class" /\ Here.named_test
  /\ shadows' = class_installed_doubles(Here)
  /\ member' = 1
  /\ UNCHANGED <<source, pc, child, names, todo, sites, parsed>>

LeaveClass ==
  /\ pc = "walk" /\ member > 0 /\ ~HasNext
  /\ member' = 0 /\ child' = child + 1
  /\ shadows' = {}
  /\ UNCHANGED <<source, pc, names, todo, sites, parsed>>

StartTest ==
  /\ pc = "walk" /\ HasNext
  /\ Here.kind = "def" /\ Here.role = "test"
  /\ names' = Replaced(Here)
  /\ todo' = Bindings(Here.body)
  /\ sites' = {}
  /\ pc' = "bind"
  /\ UNCHANGED <<source, child, member, shadows, parsed>>

\* i is the binding at hand.
NextBinding(i) ==
  /\ pc = "bind"
  /\ i \in todo /\ \A j \in todo \ {i} : Earlier(Here.body, i, j)
  /\ todo' = todo \ {i}

BindDouble ==
  /\ \E i \in todo :
       /\ NextBinding(i)
       /\ binds_a_double(Here.body[i].value)
       /\ names' = names \cup {<<Here.body[i].left>>}
  /\ UNCHANGED <<source, pc, child, member, shadows, sites, parsed>>

PassBinding ==
  /\ \E i \in todo :
       /\ NextBinding(i)
       /\ ~binds_a_double(Here.body[i].value)
  /\ UNCHANGED <<source, pc, child, member, shadows, names, sites, parsed>>

AllBound ==
  /\ pc = "bind" /\ todo = {}
  /\ pc' = "judge" /\ todo' = Calls(Here.body)
  /\ UNCHANGED <<source, child, member, shadows, names, sites, parsed>>

NextCall(i) ==
  /\ pc = "judge"
  /\ i \in todo /\ \A j \in todo : i =< j
  /\ todo' = todo \ {i}

CountSite ==
  /\ \E i \in todo :
       /\ NextCall(i)
       /\ Verifies(Here.body[i])
       /\ sites' = sites \cup {i}
  /\ UNCHANGED <<source, pc, child, member, shadows, names, parsed>>

PassCall ==
  /\ \E i \in todo : NextCall(i) /\ ~Verifies(Here.body[i])
  /\ UNCHANGED <<source, pc, child, member, shadows, names, sites, parsed>>

\* try_collect_test_function
PushRecord ==
  /\ pc = "judge" /\ todo = {}
  /\ LET record == Record(Here)
     IN  parsed' = [parsed EXCEPT
           !.test_functions = Append(@, record),
           !.mock_construction_count = @ + Cardinality(MockCalls(Here.body)),
           !.patch_decorator_count = @ + record.patch_decorator_count,
           !.stubs_count = @ + record.stubs_count]
  /\ Advance
  /\ pc' = "walk"
  /\ UNCHANGED <<source, shadows, names, todo, sites>>

Parsed ==
  /\ pc = "walk" /\ member = 0 /\ ~HasNext
  /\ pc' = "done"
  /\ parsed' = [parsed EXCEPT !.fixture_count = count_fixture_decorators]
  /\ UNCHANGED <<source, child, member, shadows, names, todo, sites>>

Done == pc = "done" /\ UNCHANGED vars

Next ==
  \/ Skip \/ EnterClass \/ LeaveClass
  \/ StartTest \/ BindDouble \/ PassBinding \/ AllBound
  \/ CountSite \/ PassCall \/ PushRecord
  \/ Parsed \/ Done

Spec == Init /\ [][Next]_vars

-------------------------------------------------------------------------------
(* What the test does when it runs *)

FunctionOf(r) == Function_at(r.of[1], r.of[2])

ClassOf(r) == IF r.of[2] = 0 THEN {} ELSE {Children[r.of[1]]}

\* The names that stand for doubles when the body starts.
ReplacedBefore(r) ==
  {<<p>> : p \in FunctionOf(r).params \ {"self"}}
  \cup PatchTargets(Range(FunctionOf(r).decorators))
  \cup UNION {class_installed_doubles(c) : c \in ClassOf(r)}

\* What is called or read goes by one of the names `replaced`: a local name as
\* it is written, a name that was patched as it is meant.
IsReplaced(e, replaced) ==
  \/ <<Head(e.chain)>> \in replaced
  \/ \E n \in replaced : AtOrUnder(Canon(e.chain), n)

YieldsADouble(e, replaced) ==
  /\ e.kind \in {"call", "attribute"} /\ e.chain # <<>>
  /\ \/ IsReplaced(e, replaced)
     \/ e.kind = "call" /\ (Last(e.chain) \in MockConstructors \/ PatchesAName(e.chain))

\* What the names are after statement s.
ReplacedBy(s, replaced) ==
  LET patched == replaced \cup PatchTargets({s.value})
  IN  IF s.left = "" THEN patched
      ELSE IF YieldsADouble(s.value, replaced) THEN patched \cup {<<s.left>>}
      ELSE patched \ {<<s.left>>}

\* The names that stand for doubles after the first i statements, executed one
\* after the other.
ReplacedAfter(r) ==
  LET body == FunctionOf(r).body
      after[i \in 0..Len(body)] ==
        IF i = 0 THEN ReplacedBefore(r) ELSE ReplacedBy(body[i], after[i - 1])
  IN  after

RunsOnADouble(r, i) ==
  IsReplaced(FunctionOf(r).body[i].value, ReplacedAfter(r)[i - 1])

\* An exception raised by statement i is the outcome of the test.
FailsTheTest(r, i) ==
  \A k \in DOMAIN FunctionOf(r).body[i].inside :
    LET block == FunctionOf(r).body[i].inside[k]
    IN  \/ block.kind \in {"else", "finally", "if"}
        \/ block.kind = "with" /\ (IsCall(block.value) => Canon(block.value.chain) # Suppress)

ChecksAChild(e) ==
  \/ IsReturncodeCheck(e.chain)
  \/ Canon(e.chain) \in CheckedCalls
  \/ Canon(e.chain) \in CheckableCalls /\ e.check

ReplacesNothing(r) ==
  LET values == ValuesOf(FunctionOf(r).body)
  IN  /\ ReplacedBefore(r) = {} /\ PatchTargets(values) = {}
      /\ \A e \in values : IsCall(e) => Last(e.chain) \notin MockConstructors

\* The statements that bind a local name to a double.
BindsDoubles(r) ==
  LET body == FunctionOf(r).body
  IN  {i \in DOMAIN body :
         body[i].left # "" /\ YieldsADouble(body[i].value, ReplacedAfter(r)[i - 1])}

\* Doubles are bound by calls of constructors, of what is patched, and of
\* doubles that an earlier or the same pass over the body comes to.
KeepsToTrackedForms(r) ==
  LET body == FunctionOf(r).body
  IN  \A i \in BindsDoubles(r) :
        /\ IsCall(body[i].value)
        /\ PatchesAName(body[i].value.chain) => Last(body[i].value.chain) \in MockConstructors
        /\ \A j \in BindsDoubles(r) :
             j < i /\ IsReplaced(body[i].value, {<<body[j].left>>}) =>
               Pass(body[j].form) =< Pass(body[i].form)

\* A return code is asked of a local name, not of a part of what is patched.
ChecksLocals(r) ==
  \A i \in Calls(FunctionOf(r).body) :
    LET chain == FunctionOf(r).body[i].value.chain
    IN  IsReturncodeCheck(chain) =>
          \A n \in ReplacedAfter(r)[i - 1] : AtOrUnder(Canon(chain), n) => n = <<Head(chain)>>

-------------------------------------------------------------------------------
(* Properties *)

Records == Range(parsed.test_functions)

\* A call that is credited as verification does not run on a test double, where
\* doubles are bound by calls and before they are used, in one form of binding:
\* external_verification_sites "never credits evidence the test manufactured".
\* Hooks come anywhere in a class, and patches anywhere in a body.
NoTrackedDoubleIsCredited ==
  \A r \in Records : KeepsToTrackedForms(r) /\ ChecksLocals(r) =>
    \A i \in r.verification_sites : ~RunsOnADouble(r, i)

\* A test that replaces nothing, in a class or a file of tests that do, is
\* credited with exactly the calls that check a child process and whose failure
\* reaches pytest (docs/guide/analyze.md on external_verification_count).
ExactWithoutDoubles ==
  \A r \in Records : ReplacesNothing(r) =>
    r.verification_sites =
      {i \in Calls(FunctionOf(r).body) :
         ChecksAChild(FunctionOf(r).body[i].value) /\ FailsTheTest(r, i)}
\* "Three things are rejected, all so the count never credits evidence the test
\* manufactured or never runs: a call whose name the test replaced with a double
\* (`@patch`, ..)" (external_verification_sites).
PatchedCallsAreRejected ==
  \A r \in Records : \A i \in r.verification_sites :
    ~IsReplaced(FunctionOf(r).body[i].value, ReplacedBefore(r))
===============================================================================
