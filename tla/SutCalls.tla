------------------------------- MODULE SutCalls -------------------------------
(***************************************************************************)
(* Which calls of a test count as calls of the project: the import maps of *)
(* src/parser.rs, the packages of src/pyproject.rs, resolution and counts  *)
(* of src/sut_calls.rs, in the order run_static_dir_with_options has them. *)
(* A dotted name is the sequence of its segments.                          *)
(***************************************************************************)
EXTENDS Naturals, Sequences, SequencesExt, FiniteSets, Names

CONSTANTS
  Segments,    \* identifiers and names with hyphens, in string order
  Underscored, \* replace('-', "_")
  Itself,      \* the segment "self"
  Nodeids,
  Suites,      \* what discovered files hold, in the order of the walk
  Projects,    \* what pyproject.toml declares, see Project
  Overrides,   \* --project-package, or Absent
  Absent,
  Unknown,     \* the project name "unknown"
  Cap          \* the bound on top_called

Name == Seq(Segments) \ {<<>>}

Optional(S) == S \cup {Absent}

\* `from .. import ..` takes a name as itself unless it says otherwise.
Statement ==
  [kind : {"import"}, name : Name]
  \cup [kind : {"import as"}, name : Name, alias : Segments]
  \cup [kind : {"from"}, module : Name, name : Segments, alias : Segments]
  \cup [kind : {"from star"}, module : Name]
  \cup [kind : {"relative"}]

\* calls: the chains called_names_for_test finds in the body.
File ==
  [parses : BOOLEAN, statements : Seq(Statement),
   tests : Seq([nodeid : Nodeids, calls : SUBSET Name])]

\* hatch: paths without their trailing slashes.  setuptools: `packages`, or the
\* `include` of its `find`.  dir: the root's own name.
Project ==
  [reads : BOOLEAN, name : Optional(Name), hatch : Seq(Seq(Segments)),
   setuptools : Seq(Name), dir : Optional(Name)]

ASSUME SegmentsAssumption ==
  /\ Segments \subseteq Nat
  /\ Underscored \in [Segments -> Segments]
  /\ Itself \in Segments
  /\ Unknown \in Name
  /\ Absent \notin Name

ASSUME InputsAssumption ==
  /\ Suites \subseteq Seq(File)
  /\ Projects \subseteq Project
  /\ Overrides \subseteq Optional(Name)
  /\ Cap \in Nat

ASSUME CallsAreFinite ==
  \A s \in Suites : \A f \in DOMAIN s : \A k \in DOMAIN s[f].tests :
    IsFiniteSet(s[f].tests[k].calls)

VARIABLES
  suite,      \* the files
  project,    \* pyproject.toml and the directory
  override,   \* --project-package
  pc,
  file,       \* the file being parsed
  at,         \* its statement at hand
  imports,    \* its ImportMap so far
  importsOf,  \* imports_per_file
  records,    \* test_functions
  packages,   \* project_packages
  test,       \* the record to resolve next
  sutCalls    \* by_name and top_called

inputs == <<suite, project, override>>
vars == <<inputs, pc, file, at, imports, importsOf, records, packages, test, sutCalls>>

\* HashMap::insert
Insert(map, key, value) ==
  [k \in DOMAIN map \cup {key} |-> IF k = key THEN value ELSE map[k]]

NoImports == [aliases |-> <<>>, stars |-> {}]
NoCalls == [by_name |-> <<>>, top_called |-> <<>>]

-------------------------------------------------------------------------------
(* Names *)

\* The order of strings: `.` comes before all that an identifier is made of.
Precedes(m, n) ==
  \E k \in 1..Len(n) :
    /\ \A j \in 1..(k - 1) : j =< Len(m) /\ m[j] = n[j]
    /\ k > Len(m) \/ m[k] < n[k]

First(names) == CHOOSE n \in names : \A m \in names \ {n} : Precedes(n, m)

UnderProject(name) == <<Head(name)>> \in packages

\* A slip: a star import claims names that an import binds.
StarsFirst(raw, map) ==
  LET own == {s \in map.stars : UnderProject(s)}
  IN  IF Head(raw) = Itself THEN {}
      ELSE IF UnderProject(raw) THEN {raw}
      ELSE IF own # {} THEN {First(own) \o raw}
      ELSE IF Head(raw) \in DOMAIN map.aliases
      THEN {n \in {Canonical(raw, map.aliases)} : UnderProject(map.aliases[Head(raw)])}
      ELSE {}

\* resolve_called_name: the name a call counts under, if it counts.
Resolve(raw, map) ==
  LET own == {s \in map.stars : UnderProject(s)}
  IN  IF Head(raw) = Itself THEN {}
      ELSE IF UnderProject(raw) THEN {raw}
      ELSE IF Head(raw) \in DOMAIN map.aliases
      THEN {n \in {Canonical(raw, map.aliases)} : UnderProject(map.aliases[Head(raw)])}
      ELSE IF own # {} THEN {First(own) \o raw} ELSE {}

\* The names pyproject.toml states, else the directory's.
Collected(p) ==
  LET stated == {p.name} \cup {<<Last(path)>> : path \in Range(p.hatch) \ {<<>>}}
                \cup Range(p.setuptools)
      read == IF p.reads THEN stated \ {Absent} ELSE {}
  IN  IF read # {} THEN read ELSE {p.dir} \ {Absent}

Importable(name) == [k \in DOMAIN name |-> Underscored[name[k]]]

\* read_project_packages
Declared(p) == {Importable(n) : n \in Collected(p)}

\* single_project_cov_package: the package that --cov is given.
cov_package(p) ==
  IF Declared(p) # {} THEN First(Declared(p))
  ELSE LET name == IF p.reads /\ p.name # Absent THEN p.name
                   ELSE IF p.dir # Absent THEN p.dir ELSE Unknown
       IN  Importable(name)

-------------------------------------------------------------------------------
(* Parsing, file by file *)

Init ==
  /\ suite \in Suites
  /\ project \in Projects
  /\ override \in Overrides
  /\ pc = "parse"
  /\ file = 1
  /\ at = 1
  /\ imports = NoImports
  /\ importsOf = <<>>
  /\ records = <<>>
  /\ packages = {}
  /\ test = 1
  /\ sutCalls = NoCalls

Parsing == pc = "parse" /\ file =< Len(suite)

NextFile == file' = file + 1 /\ at' = 1 /\ imports' = NoImports

SkipFile ==
  /\ Parsing
  /\ ~suite[file].parses
  /\ NextFile
  /\ UNCHANGED <<inputs, pc, importsOf, records, packages, test, sutCalls>>

AtStatement(kinds) ==
  /\ Parsing
  /\ suite[file].parses
  /\ at =< Len(suite[file].statements)
  /\ suite[file].statements[at].kind \in kinds

\* What a statement binds, and to what.  `import a.b` binds a, to a.b.
Local(s) == IF s.kind = "import" THEN Head(s.name) ELSE s.alias
Target(s) == IF s.kind = "from" THEN Append(s.module, s.name) ELSE s.name

RecordAlias ==
  /\ AtStatement({"import", "import as", "from"})
  /\ LET s == suite[file].statements[at]
     IN  imports' = [imports EXCEPT !.aliases = Insert(@, Local(s), Target(s))]
  /\ at' = at + 1
  /\ UNCHANGED <<inputs, pc, file, importsOf, records, packages, test, sutCalls>>

RecordStar ==
  /\ AtStatement({"from star"})
  /\ imports' = [imports EXCEPT !.stars = @ \cup {suite[file].statements[at].module}]
  /\ at' = at + 1
  /\ UNCHANGED <<inputs, pc, file, importsOf, records, packages, test, sutCalls>>

\* `from . import x` has no dotted module name, and records nothing.
PassRelative ==
  /\ AtStatement({"relative"})
  /\ at' = at + 1
  /\ UNCHANGED <<inputs, pc, file, imports, importsOf, records, packages, test, sutCalls>>

\* called_names_for_test leaves self out.
RecordsOf(f) ==
  [k \in DOMAIN suite[f].tests |->
     [file |-> f, nodeid |-> suite[f].tests[k].nodeid,
      called |-> {c \in suite[f].tests[k].calls : Head(c) # Itself}]]

\* A slip: the import map does not outlive its file.
FileForgotten ==
  /\ Parsing
  /\ suite[file].parses
  /\ at > Len(suite[file].statements)
  /\ records' = records \o RecordsOf(file)
  /\ NextFile
  /\ UNCHANGED <<inputs, pc, importsOf, packages, test, sutCalls>>

FileParsed ==
  /\ Parsing
  /\ suite[file].parses
  /\ at > Len(suite[file].statements)
  /\ importsOf' = Insert(importsOf, file, imports)
  /\ records' = records \o RecordsOf(file)
  /\ NextFile
  /\ UNCHANGED <<inputs, pc, packages, test, sutCalls>>

-------------------------------------------------------------------------------
(* Resolution *)

\* resolve_project_packages: the flag is taken verbatim.
ReadPackages ==
  /\ pc = "parse"
  /\ file > Len(suite)
  /\ packages' = IF override # Absent THEN {override} ELSE Declared(project)
  /\ pc' = "resolve"
  /\ UNCHANGED <<inputs, file, at, imports, importsOf, records, test, sutCalls>>

ImportsFor(r) == IF r.file \in DOMAIN importsOf THEN importsOf[r.file] ELSE NoImports

\* called_names is overwritten in place.
ResolveTest ==
  /\ pc = "resolve"
  /\ test =< Len(records)
  /\ records' = [records EXCEPT ![test].called =
                   UNION {Resolve(raw, ImportsFor(records[test])) : raw \in @}]
  /\ test' = test + 1
  /\ UNCHANGED <<inputs, pc, file, at, imports, importsOf, packages, sutCalls>>

\* A name is ahead of another with more tests that call it, then by its name.
Ahead(by_name, m, n) ==
  LET count(x) == Cardinality(by_name[x])
  IN  count(m) > count(n) \/ (count(m) = count(n) /\ Precedes(m, n))

\* A slip: cut to the bound by name, sorted by count after that.
TopOfFirst(by_name) ==
  LET names == {n \in DOMAIN by_name :
                  Cardinality({m \in DOMAIN by_name : Precedes(m, n)}) < Cap}
  IN  [k \in 1..Cardinality(names) |->
         CHOOSE n \in names : Cardinality({m \in names : Ahead(by_name, m, n)}) = k - 1]

TopCalled(by_name) ==
  LET names == DOMAIN by_name
      size == IF Cardinality(names) < Cap THEN Cardinality(names) ELSE Cap
  IN  [k \in 1..size |->
         CHOOSE n \in names : Cardinality({m \in names : Ahead(by_name, m, n)}) = k - 1]

\* The tests that call a name, for every name that counts.
ByName ==
  [n \in UNION {r.called : r \in Range(records)} |->
     {r.nodeid : r \in {r \in Range(records) : n \in r.called}}]

Aggregate ==
  /\ pc = "resolve"
  /\ test > Len(records)
  /\ sutCalls' = [by_name |-> ByName, top_called |-> TopCalled(ByName)]
  /\ pc' = "done"
  /\ UNCHANGED <<inputs, file, at, imports, importsOf, records, packages, test>>

\* The table of `--format pretty`: names, with their counts looked up again.
render_sut_calls ==
  [k \in DOMAIN sutCalls.top_called |->
     LET n == sutCalls.top_called[k]
     IN  [name |-> n, count |-> IF n \in DOMAIN sutCalls.by_name
                                THEN Cardinality(sutCalls.by_name[n]) ELSE 0]]

Done == pc = "done" /\ UNCHANGED vars

Next ==
  \/ SkipFile \/ RecordAlias \/ RecordStar \/ PassRelative \/ FileParsed
  \/ ReadPackages \/ ResolveTest \/ Aggregate
  \/ Done

Spec == Init /\ [][Next]_vars

-------------------------------------------------------------------------------
(* Properties *)

IsImportMap(m) ==
  /\ DOMAIN m = {"aliases", "stars"}
  /\ DOMAIN m.aliases \subseteq Segments
  /\ \A s \in DOMAIN m.aliases : m.aliases[s] \in Name
  /\ m.stars \subseteq Name

TypeOK ==
  /\ suite \in Seq(File) /\ project \in Project /\ override \in Optional(Name)
  /\ pc \in {"parse", "resolve", "done"}
  /\ file \in 1..Len(suite) + 1
  /\ at \in Nat \ {0}
  /\ IsImportMap(imports)
  /\ DOMAIN importsOf \subseteq DOMAIN suite
  /\ \A f \in DOMAIN importsOf : IsImportMap(importsOf[f])
  /\ records \in Seq([file : DOMAIN importsOf, nodeid : Nodeids, called : SUBSET Name])
  /\ packages \subseteq Name
  /\ test \in 1..Len(records) + 1

\* What Python takes the first segment of a chain for once the imports of file f
\* have run: the last statement that binds it decides, and `import a.b` binds a
\* to the package a.  A set, empty when nothing binds it.
PythonBinds(f, head) ==
  LET s == suite[f].statements
      binders == {k \in DOMAIN s : s[k].kind \notin {"from star", "relative"}
                                   /\ Local(s[k]) = head}
  IN  {IF s[k].kind = "import" THEN <<head>> ELSE Target(s[k]) :
         k \in {k \in binders : \A j \in binders : j =< k}}

\* The names a test of file f should be credited with for one call: as written
\* if it names a package; by what Python binds if an import binds it; by the
\* star imports only if none does.
Credited(f, raw) ==
  LET bound == PythonBinds(f, Head(raw))
      stars == {s.module : s \in {s \in Range(suite[f].statements) : s.kind = "from star"}}
      claim == {s \in stars : UnderProject(s)}
  IN  IF Head(raw) = Itself THEN {}
      ELSE IF UnderProject(raw) THEN {raw}
      ELSE IF bound # {} THEN {b \o Tail(raw) : b \in {b \in bound : UnderProject(b)}}
      ELSE {c \o raw : c \in {c \in claim : c = First(claim)}}

\* Every test of every file that parses is credited with what its own file's
\* imports make of its calls, in whatever order they rebind a name, and no other
\* file's imports matter.
CreditedByItsOwnImports ==
  pc = "done" =>
    \A f \in {f \in DOMAIN suite : suite[f].parses} : \A k \in DOMAIN suite[f].tests :
      \E r \in Range(records) :
        /\ r.file = f /\ r.nodeid = suite[f].tests[k].nodeid
        /\ r.called = UNION {Credited(f, raw) : raw \in suite[f].tests[k].calls}

\* The counts and the tests agree both ways, "Joins to test_functions[].nodeid"
\* (analyze.md), and top_called is the head of one ranking of all the names; the
\* printed table goes down by its counts.
SutCallsAgree ==
  pc = "done" =>
    LET by == sutCalls.by_name
        top == sutCalls.top_called
    IN  /\ \A r \in Range(records) : \A n \in r.called : r.nodeid \in by[n]
        /\ \A n \in DOMAIN by : by[n] # {} /\ \A id \in by[n] :
             \E r \in Range(records) : r.nodeid = id /\ n \in r.called
        /\ \A n \in DOMAIN by \ Range(top), m \in Range(top) :
             Len(top) = Cap /\ Ahead(by, m, n)
        /\ \A j \in DOMAIN top, k \in DOMAIN top : j < k =>
             /\ Ahead(by, top[j], top[k])
             /\ render_sut_calls[j].count >= render_sut_calls[k].count

\* What a project may be imported as: its own name and what its wheel packs, in
\* the spelling of an import.
ImportableAs(p) ==
  {Underscored[n[1]] : n \in {n \in {p.name} \ {Absent} : Len(n) = 1}}
  \cup {Underscored[Last(path)] : path \in Range(p.hatch) \ {<<>>}}

\* A call through a name the project declares is never lost, whatever else the
\* file imports: "a hyphenated [project].name would otherwise silently miss
\* every my_pkg.* call" (read_project_packages).
OwnCallsAreKept ==
  pc = "done" /\ override = Absent /\ project.reads =>
    \A f \in {f \in DOMAIN suite : suite[f].parses} :
      \A k \in DOMAIN suite[f].tests : \A raw \in suite[f].tests[k].calls :
        Head(raw) \in ImportableAs(project) \ {Itself} =>
          \E r \in Range(records) :
            r.file = f /\ r.nodeid = suite[f].tests[k].nodeid /\ raw \in r.called

\* The doc comment of single_project_cov_package: "Prefers an importable package
\* declared in the project's `pyproject.toml`, [..] falling back to the
\* normalized `[project].name` only when none is declared."
CovPrefersDeclaredPackage ==
  LET packed == {<<Underscored[Last(path)]>> : path \in Range(project.hatch) \ {<<>>}}
  IN  pc = "resolve" /\ project.reads /\ packed # {} => cov_package(project) \in packed
===============================================================================
