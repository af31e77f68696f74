------------------------------ MODULE StaticPass ------------------------------
(***************************************************************************)
(* The paths of a scan: what run_static_file_with_options and              *)
(* run_static_dir_with_options of src/lib.rs read, under which names it    *)
(* enters the inventory, and where pytest is sent afterwards               *)
(* (src/walker.rs, src/python_detect.rs).  The disk does not change.       *)
(* A path keeps the form it was typed in until the program canonicalizes   *)
(* it, and every process resolves a relative one against its own           *)
(* directory.  What is read out of a file is the matter of Verification    *)
(* and SutCalls; baselines and scores are that of Baseline and Accept.     *)
(***************************************************************************)
EXTENDS Smells, SequencesExt

CONSTANTS
  Names,     \* components of paths
  Order,     \* their string order
  Spelling,  \* what is_test_file looks at: the stem in pieces, and is it .py
  Dot,       \* the component `.`, which only a typed path has
  Tests,     \* the component `tests`
  MaxLinks,  \* links the system follows on one way
  Disks,
  Calls,     \* what is scanned, and from where
  NoPath     \* an option that is not given

Location == Seq(Names \ {Dot})

Path == [abs : BOOLEAN, parts : Seq(Names)]

\* shown: neither hidden nor ignored.  to: where a link leads.
Node ==
  [kind : {"dir"}, shown : BOOLEAN, readable : BOOLEAN]
  \cup [kind : {"link"}, shown : BOOLEAN, to : Location]
  \cup [kind : {"file"}, shown : BOOLEAN, readable : BOOLEAN, mocks : Nat,
        tests : Seq([line : Nat, assertion_count : Nat,
                     only_asserts_on_mock : BOOLEAN])]

IsDisk(d) ==
  /\ DOMAIN d.node \subseteq Location
  /\ \A l \in DOMAIN d.node :
       /\ d.node[l] \in Node
       /\ \A k \in 0..Len(l) - 1 : /\ SubSeq(l, 1, k) \in DOMAIN d.node
                                  /\ d.node[SubSeq(l, 1, k)].kind = "dir"
  /\ d.venvs \subseteq Location /\ d.uv \in BOOLEAN

\* unit: a FILE, the project DIR, or a member of the workspace at root.
Call ==
  [unit : {"file", "project", "member"}, cwd : Location, path : Path,
   tests_dir : Path \cup {NoPath}, root : Location,
   member_cwd : {"root", "member"}]

ASSUME ComponentsAssumption ==
  /\ {Dot, Tests} \subseteq Names /\ Dot # Tests /\ Names \subseteq STRING
  /\ Order \in [Names -> Nat]
  /\ \A m \in Names, n \in Names : Order[m] = Order[n] => m = n
  /\ \A n \in Names :
       /\ Spelling[n].stem \in Seq({"test_", "_test", "other"})
       /\ Spelling[n].py \in BOOLEAN
  /\ MaxLinks \in Nat

ASSUME DisksAssumption == \A d \in Disks : IsDisk(d)

\* Overrides are refused for files and workspaces before a scan starts.
ASSUME CallsAssumption ==
  /\ \A c \in Calls : c \in Call
  /\ \A c \in Calls : c.unit # "project" => c.tests_dir = NoPath

VARIABLES
  disk, call,  \* the inputs
  pc,          \* the step to run next, or how the scan ended
  project,     \* project.path, canonical
  pending,     \* the entries the walk has still to give
  found,       \* the test files so far, as the walk names them
  at,          \* the test file at hand
  files,       \* inv.files
  tests,       \* inv.test_functions
  dir,         \* where an interpreter is looked for
  child        \* what pytest is started with

inputs == <<disk, call>>
vars == <<inputs, pc, project, pending, found, at, files, tests, dir, child>>

NoChild == [program |-> <<>>]

\* Programs with their arguments.
VenvPython(l) == Append(l, ".venv/bin/python")

WithoutVenv ==
  IF disk.uv THEN <<"uv", "run", "--no-sync", "python">> ELSE <<"python">>

-------------------------------------------------------------------------------
(* The file system, as the standard library and the ignore crate see it *)

\* The first link on the way to a place is followed, if there is one.
FollowFirst(l) ==
  LET links == {k \in DOMAIN l :
                  /\ SubSeq(l, 1, k) \in DOMAIN disk.node
                  /\ disk.node[SubSeq(l, 1, k)].kind = "link"}
  IN  IF links = {} THEN l
      ELSE disk.node[SubSeq(l, 1, Min(links))].to
             \o SubSeq(l, Min(links) + 1, Len(l))

\* Then the next one, until the system gives up.
Follow(l) ==
  LET way[n \in 0..MaxLinks] == IF n = 0 THEN l ELSE FollowFirst(way[n - 1])
  IN  way[MaxLinks]

\* `.` is no step on the way.
Steps(parts) ==
  LET way[k \in 0..Len(parts)] ==
        IF k = 0 THEN <<>>
        ELSE IF parts[k] = Dot THEN way[k - 1] ELSE Append(way[k - 1], parts[k])
  IN  way[Len(parts)]

Locate(cwd, p) == Follow(IF p.abs THEN p.parts ELSE cwd \o Steps(p.parts))

IsDir(l) == l \in DOMAIN disk.node /\ disk.node[l].kind = "dir"

\* A link that is left leads nowhere.
Exists(l) == l \in DOMAIN disk.node /\ disk.node[l].kind # "link"

\* WalkBuilder: what is shown, on a way of directories that are shown and
\* can be read.  It does not follow links.
Listed(root) ==
  {l \in DOMAIN disk.node :
     /\ IsStrictPrefix(root, l)
     /\ \A k \in Len(root) + 1..Len(l) : disk.node[SubSeq(l, 1, k)].shown
     /\ \A k \in Len(root)..Len(l) - 1 :
          LET d == disk.node[SubSeq(l, 1, k)] IN d.kind = "dir" /\ d.readable}

\* Paths are compared component by component.
Before(p, q) ==
  \/ IsStrictPrefix(p, q)
  \/ \E k \in DOMAIN p \cap DOMAIN q :
       SubSeq(p, 1, k - 1) = SubSeq(q, 1, k - 1) /\ Order[p[k]] < Order[q[k]]

-------------------------------------------------------------------------------
(* Names *)

is_test_file(name) ==
  LET stem == Spelling[name].stem
  IN  /\ Spelling[name].py
      /\ Len(stem) > 1
      /\ Head(stem) = "test_" \/ Last(stem) = "_test"

relativize(p, base) ==
  IF p.abs /\ IsPrefix(base, p.parts)
  THEN [abs |-> FALSE, parts |-> SubSeq(p.parts, Len(base) + 1, Len(p.parts))]
  ELSE p

Absolute(l) == [abs |-> TRUE, parts |-> l]

\* A slip: the default is looked for next to what was typed.
TestsDirTyped ==
  IF call.tests_dir # NoPath THEN call.tests_dir
  ELSE [call.path EXCEPT !.parts = Append(@, Tests)]

tests_dir ==
  IF call.tests_dir # NoPath THEN call.tests_dir
  ELSE Absolute(Append(project, Tests))

Walked == Locate(call.cwd, tests_dir)

-------------------------------------------------------------------------------
(* The static pass *)

Init ==
  /\ disk \in Disks
  /\ call \in Calls
  /\ LET place == Locate(call.cwd, call.path)
     IN  /\ Exists(place)
         /\ IsDir(place) <=> call.unit # "file"
         /\ project = IF call.unit = "file" THEN Front(place) ELSE place
  /\ pc = IF call.unit = "file" THEN "single" ELSE "discover"
  /\ pending = {}
  /\ found = <<>>
  /\ at = 1
  /\ files = <<>>
  /\ tests = <<>>
  /\ dir = <<>>
  /\ child = NoChild

Goto(step) ==
  /\ pc' = step
  /\ UNCHANGED <<inputs, project, pending, found, at, files, tests, dir, child>>

ByLine(ts) ==
  StablySorted(ts, {p \in (DOMAIN ts) \X (DOMAIN ts) : ts[p[1]].line < ts[p[2]].line})

FileRecord(p, n) ==
  [path |-> p, test_function_count |-> Len(n.tests),
   assertion_count |->
     Total([i \in DOMAIN n.tests |-> n.tests[i].assertion_count], DOMAIN n.tests),
   mocks |-> n.mocks, smell_hits |-> {}]

TestRecords(p, n) ==
  LET order == ByLine(n.tests)
  IN  [i \in DOMAIN order |->
         [file |-> p, line |-> order[i].line,
          assertion_count |-> order[i].assertion_count,
          only_asserts_on_mock |-> order[i].only_asserts_on_mock]]

\* The path stays as typed.  A file without tests has no record.
ReadSingle ==
  /\ pc = "single"
  /\ LET node == disk.node[Locate(call.cwd, call.path)]
     IN  /\ node.readable
         /\ files' = IF node.tests = <<>> THEN <<>>
                     ELSE <<FileRecord(call.path, node)>>
         /\ tests' = TestRecords(call.path, node)
  /\ pc' = "smells"
  /\ UNCHANGED <<inputs, project, pending, found, at, dir, child>>

SingleUnreadable ==
  /\ pc = "single"
  /\ ~disk.node[Locate(call.cwd, call.path)].readable
  /\ Goto("failed")

\* A member may have no tests, a project may not.
NoTestsDir ==
  /\ pc = "discover"
  /\ ~Exists(Walked)
  /\ Goto(IF call.unit = "member" THEN "static_done" ELSE "failed")

NotADirectory ==
  /\ pc = "discover"
  /\ Exists(Walked) /\ ~IsDir(Walked)
  /\ Goto("failed")

StartWalk ==
  /\ pc = "discover"
  /\ IsDir(Walked) /\ disk.node[Walked].readable
  /\ pending' = Listed(Walked)
  /\ pc' = "walk"
  /\ UNCHANGED <<inputs, project, found, at, files, tests, dir, child>>

\* One entry that cannot be read ends the walk, and the scan.
WalkFails ==
  \/ /\ pc = "discover"
     /\ IsDir(Walked) /\ ~disk.node[Walked].readable
     /\ Goto("failed")
  \/ /\ pc = "walk"
     /\ \E l \in pending : IsDir(l) /\ ~disk.node[l].readable
     /\ Goto("failed")

WalkEntry ==
  /\ pc = "walk"
  /\ \E l \in pending :
       /\ IsDir(l) => disk.node[l].readable
       /\ pending' = pending \ {l}
       /\ found' =
            IF disk.node[l].kind = "file" /\ is_test_file(Last(l))
            THEN Append(found, [tests_dir EXCEPT
                   !.parts = @ \o SubSeq(l, Len(Walked) + 1, Len(l))])
            ELSE found
  /\ UNCHANGED <<inputs, pc, project, at, files, tests, dir, child>>

EndWalk ==
  /\ pc = "walk"
  /\ pending = {}
  /\ found' = StablySorted(found, {p \in (DOMAIN found) \X (DOMAIN found) :
                                    Before(found[p[1]].parts, found[p[2]].parts)})
  /\ pc' = "parse"
  /\ UNCHANGED <<inputs, project, pending, at, files, tests, dir, child>>

Parse ==
  /\ pc = "parse"
  /\ at =< Len(found)
  /\ LET node == disk.node[Locate(call.cwd, found[at])]
         rel == relativize(found[at], project)
     IN  /\ node.readable
         /\ files' = Append(files, FileRecord(rel, node))
         /\ tests' = tests \o TestRecords(rel, node)
  /\ at' = at + 1
  /\ UNCHANGED <<inputs, pc, project, pending, found, dir, child>>

\* A slip: the file after one that cannot be read is passed over as well.
SkipTwoFiles ==
  /\ pc = "parse"
  /\ at =< Len(found)
  /\ ~disk.node[Locate(call.cwd, found[at])].readable
  /\ at' = at + 2
  /\ UNCHANGED <<inputs, pc, project, pending, found, files, tests, dir, child>>

\* A warning, and on to the next file.
SkipFile ==
  /\ pc = "parse"
  /\ at =< Len(found)
  /\ ~disk.node[Locate(call.cwd, found[at])].readable
  /\ at' = at + 1
  /\ UNCHANGED <<inputs, pc, project, pending, found, files, tests, dir, child>>

AllParsed ==
  /\ pc = "parse"
  /\ at > Len(found)
  /\ Goto("smells")

\* A file's tests are found again by its path.
DeriveSmells ==
  /\ pc = "smells"
  /\ files' =
       [f \in DOMAIN files |->
          [files[f] EXCEPT !.smell_hits =
             derive_file_smells(files[f].mocks, files[f].assertion_count,
               {tests[t] : t \in {i \in DOMAIN tests :
                                    tests[i].file = files[f].path}})]]
  /\ pc' = "static_done"
  /\ UNCHANGED <<inputs, project, pending, found, at, tests, dir, child>>

-------------------------------------------------------------------------------
(* On to pytest *)

\* A single file, or a member without a tests directory.
WithoutPytest ==
  /\ pc = "static_done"
  /\ call.unit = "file" \/ (call.unit = "member" /\ ~IsDir(Walked))
  /\ Goto("done")

\* At the canonical project, or at the root that all members share.
StartDetection ==
  /\ pc = "static_done"
  /\ call.unit = "project" \/ (call.unit = "member" /\ IsDir(Walked))
  /\ dir' = IF call.unit = "member" THEN call.root ELSE project
  /\ pc' = "detect"
  /\ UNCHANGED <<inputs, project, pending, found, at, files, tests, child>>

\* A slip: the path that is right in the member's directory, sent to the root.
ArgumentForRoot(program) ==
  [program |-> program,
   cwd |-> IF call.unit = "member" /\ call.member_cwd = "root"
           THEN call.root ELSE project,
   tests_dir |-> IF call.unit = "member"
                 THEN [abs |-> FALSE, parts |-> <<Tests>>] ELSE tests_dir]

\* What run_collection, run_durations and run_coverage are given.
Argument(program) ==
  [program |-> program,
   cwd |-> IF call.unit = "member" /\ call.member_cwd = "root"
           THEN call.root ELSE project,
   tests_dir |-> IF call.unit = "member" /\ call.member_cwd = "member"
                 THEN [abs |-> FALSE, parts |-> <<Tests>>] ELSE tests_dir]

Start(program) ==
  /\ child' = Argument(program)
  /\ pc' = "done"
  /\ UNCHANGED <<inputs, project, pending, found, at, files, tests, dir>>

VenvHere ==
  pc = "detect" /\ dir \in disk.venvs /\ Start(VenvPython(dir))

\* A slip: uv is asked as soon as the project has no environment of its own.
LookAtTopOnly ==
  /\ pc = "detect"
  /\ dir \notin disk.venvs /\ dir # <<>>
  /\ dir' = <<>>
  /\ UNCHANGED <<inputs, pc, project, pending, found, at, files, tests, child>>

LookAbove ==
  /\ pc = "detect"
  /\ dir \notin disk.venvs /\ dir # <<>>
  /\ dir' = Front(dir)
  /\ UNCHANGED <<inputs, pc, project, pending, found, at, files, tests, child>>

NoVenv ==
  /\ pc = "detect"
  /\ dir \notin disk.venvs /\ dir = <<>>
  /\ Start(WithoutVenv)

Ended == {"done", "failed"}

Exit == pc \in Ended /\ UNCHANGED vars

Next ==
  \/ ReadSingle \/ SingleUnreadable
  \/ NoTestsDir \/ NotADirectory \/ StartWalk \/ WalkFails \/ WalkEntry
  \/ EndWalk \/ Parse \/ SkipFile \/ AllParsed \/ DeriveSmells
  \/ WithoutPytest \/ StartDetection \/ VenvHere \/ LookAbove \/ NoVenv
  \/ Exit

Spec == Init /\ [][Next]_vars

-------------------------------------------------------------------------------
(* Properties *)

TypeOK ==
  /\ disk \in Disks /\ call \in Calls
  /\ pc \in {"single", "discover", "walk", "parse", "smells", "static_done",
             "detect"} \cup Ended
  /\ project \in Location
  /\ pending \subseteq DOMAIN disk.node
  /\ \A i \in DOMAIN found : found[i] \in Path
  /\ at \in 1..Len(found) + 1
  /\ \A f \in DOMAIN files :
       files[f] \in [path : Path, test_function_count : Nat,
                     assertion_count : Nat, mocks : Nat,
                     smell_hits : SUBSET SmellCategories]
  /\ \A t \in DOMAIN tests :
       tests[t] \in [file : Path, line : Nat, assertion_count : Nat,
                     only_asserts_on_mock : BOOLEAN]
  /\ dir \in Location
  /\ child # NoChild => child.cwd \in Location /\ child.tests_dir \in Path

Finished == pc \in {"static_done", "detect", "done"}

TestsRoot == Locate(<<>>, Absolute(Append(project, Tests)))

\* The test files of the project, in the order of their paths, whoever asks.
TestFiles ==
  LET there == {l \in Listed(TestsRoot) :
                  /\ disk.node[l].kind = "file" /\ disk.node[l].readable
                  /\ is_test_file(Last(l))}
      size == Cardinality(there)
  IN  CHOOSE s \in [1..size -> there] :
        \A i, j \in 1..size : i < j => Before(s[i], s[j])

\* The name of one of them.
InventoryName(l) ==
  [abs |-> FALSE, parts |-> <<Tests>> \o SubSeq(l, Len(TestsRoot) + 1, Len(l))]

\* A project scan enters the same records under the same names, in the same
\* order, whatever directory it is started from, however the project is spelled
\* and in whatever order the disk lists it, so that a baseline keeps applying;
\* the records of one file stand together, by line, and its smells are those of
\* its own tests.
ProjectRecordsAreTheDisks ==
  Finished /\ call.unit # "file" /\ call.tests_dir = NoPath =>
    /\ DOMAIN files = DOMAIN TestFiles
    /\ \A i \in DOMAIN files :
         LET node == disk.node[TestFiles[i]]
             name == InventoryName(TestFiles[i])
             block == TestRecords(name, node)
             record == FileRecord(name, node)
         IN  /\ files[i] = [record EXCEPT !.smell_hits =
                  derive_file_smells(node.mocks, record.assertion_count,
                                     ToSet(node.tests))]
             /\ \E before \in 0..Len(tests) :
                  /\ {t \in DOMAIN tests : tests[t].file = name}
                       = before + 1..before + Len(block)
                  /\ \A k \in DOMAIN block : tests[before + k] = block[k]

\* pytest collects and measures the directory the static pass has walked,
\* although it runs in another directory than pycoati: always when the tests
\* directory is the default one or absolute, and when both directories are one.
PytestRunsWhatWasScanned ==
  child # NoChild =>
    \/ Locate(child.cwd, child.tests_dir) = Walked
    \/ call.tests_dir # NoPath /\ ~call.tests_dir.abs /\ child.cwd # call.cwd

\* The interpreter is that of the nearest environment at or above the real
\* project (or the root of its workspace), not of the place it was typed at.
NearestEnvironment ==
  child # NoChild =>
    LET start == IF call.unit = "member" THEN call.root ELSE project
        above == {k \in 0..Len(start) : SubSeq(start, 1, k) \in disk.venvs}
    IN  child.program =
          IF above # {} THEN VenvPython(SubSeq(start, 1, Max(above)))
          ELSE WithoutVenv

\* docs/guide/analyze.md: in directory mode the paths of the inventory "are
\* relative to `project.path`", against which a reader is told to resolve them
\* before opening a file.
PathsResolveAgainstTheProject ==
  Finished /\ call.unit # "file" =>
    \A i \in DOMAIN files :
      LET l == Locate(project, files[i].path)
      IN  Exists(l) /\ disk.node[l].kind = "file"
===============================================================================
