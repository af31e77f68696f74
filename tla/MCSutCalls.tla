------------------------------ MODULE MCSutCalls ------------------------------
(***************************************************************************)
(* A small instance of SutCalls for TLC.  Segments are numbers, in the     *)
(* order of the names they stand for.                                      *)
(***************************************************************************)
EXTENDS SutCalls

CONSTANTS t1, t2

dist == 1    \* a distribution name
hyphened == 2 \* my-proj
mine == 3    \* my_proj
other == 4   \* another package
run == 5     \* a function, or a module
self == 6
sub == 7     \* a submodule

MCSegments == 1..7
MCUnderscored == [s \in MCSegments |-> IF s = hyphened THEN mine ELSE s]
MCUnknown == <<sub>>

import(name) == [kind |-> "import", name |-> name]
importAs(name, alias) == [kind |-> "import as", name |-> name, alias |-> alias]
from(module, name) ==
  [kind |-> "from", module |-> module, name |-> name, alias |-> name]
fromStar(module) == [kind |-> "from star", module |-> module]

MCStatements ==
  { import(<<mine, sub>>), import(<<other, sub>>),
    importAs(<<mine, sub>>, sub), importAs(<<other, sub>>, other),
    importAs(<<other>>, mine),
    from(<<mine>>, run), from(<<other>>, run), from(<<mine>>, other),
    from(<<other>>, other),
    fromStar(<<mine>>), fromStar(<<mine, sub>>), fromStar(<<other>>),
    [kind |-> "relative"] }

MCCalls ==
  { <<mine, run>>, <<mine>>, <<run>>, <<other, run>>, <<other, sub, run>>,
    <<sub, run>>, <<self, run>>, <<other>> }

Test(nodeid, calls) == [nodeid |-> nodeid, calls |-> calls]

\* Every two imports before a test that calls all there is; then a file that has
\* no imports, or does not parse.  Nodeids may be the same.
MCSuites ==
  { << [parses |-> TRUE, statements |-> s, tests |-> <<Test(t1, MCCalls)>>],
       [parses |-> p, statements |-> <<>>,
        tests |-> <<Test(t, {<<run>>, <<mine, run>>}), Test(t1, {<<mine, sub>>})>>] >> :
    s \in UNION {[1..n -> MCStatements] : n \in 0..2}, p \in BOOLEAN, t \in {t1, t2} }

Declares(reads, name, hatch, setuptools) ==
  [reads |-> reads, name |-> name, hatch |-> hatch, setuptools |-> setuptools,
   dir |-> <<mine>>]

MCProjects ==
  { Declares(FALSE, Absent, <<>>, <<>>),
    Declares(TRUE, Absent, <<>>, <<>>),
    Declares(TRUE, <<hyphened>>, <<>>, <<>>),
    Declares(TRUE, <<dist>>, <<<<sub, hyphened>>, <<>>>>, <<>>),
    Declares(TRUE, <<dist>>, <<>>, <<<<mine, sub>>, <<other>>>>) }

MCOverrides == {Absent, <<other>>}
===============================================================================
