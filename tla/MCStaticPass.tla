---------------------------- MODULE MCStaticPass ----------------------------
(***************************************************************************)
(* A small instance of StaticPass for TLC.                                 *)
(***************************************************************************)
EXTENDS StaticPass, TLC

\* In string order.
Sorted ==
  <<".", "b_test.py", "helper.py", "l", "p", "sub", "test_.py", "test_a.py",
    "tests", "w">>

MCNames == ToSet(Sorted)
MCOrder == [n \in MCNames |-> CHOOSE i \in DOMAIN Sorted : Sorted[i] = n]

MCSpelling ==
  [n \in MCNames |->
     CASE n = "b_test.py" -> [stem |-> <<"other", "_test">>, py |-> TRUE]
       [] n = "test_a.py" -> [stem |-> <<"test_", "other">>, py |-> TRUE]
       [] n = "test_.py" -> [stem |-> <<"test_">>, py |-> TRUE]
       [] n = "helper.py" -> [stem |-> <<"other">>, py |-> TRUE]
       [] OTHER -> [stem |-> <<"other">>, py |-> FALSE]]

Dir(shown, readable) == [kind |-> "dir", shown |-> shown, readable |-> readable]
LinkTo(l) == [kind |-> "link", shown |-> TRUE, to |-> l]
File(readable, mocks, ts) ==
  [kind |-> "file", shown |-> TRUE, readable |-> readable, mocks |-> mocks,
   tests |-> ts]
Test(line, n, on_mock) ==
  [line |-> line, assertion_count |-> n, only_asserts_on_mock |-> on_mock]

InTests == <<"w", "p", "tests">>

Always ==
  (<<>> :> Dir(TRUE, TRUE)) @@ (<<"w">> :> Dir(TRUE, TRUE))
  @@ (<<"w", "p">> :> Dir(TRUE, TRUE)) @@ (<<"w", "l">> :> LinkTo(<<"w", "p">>))

\* A file in a directory that may be hidden or unreadable; names that qualify
\* and names that do not; a link to a test file.
Entries(sub, readable) ==
  (InTests \o <<"sub">> :> sub)
  @@ (IF sub.kind = "link" THEN <<>>
      ELSE InTests \o <<"sub", "b_test.py">> :>
             File(TRUE, 0, <<Test(1, 1, TRUE), Test(5, 0, FALSE)>>))
  @@ (InTests \o <<"test_a.py">> :>
        File(readable, 3, <<Test(7, 1, FALSE), Test(2, 0, TRUE)>>))
  @@ (InTests \o <<"b_test.py">> :> File(TRUE, 4, <<Test(3, 2, TRUE)>>))
  @@ (InTests \o <<"test_.py">> :> File(TRUE, 0, <<Test(1, 1, FALSE)>>))
  @@ (InTests \o <<"helper.py">> :> File(TRUE, 0, <<>>))

\* The tests directory is a directory, a link to one, a file, or missing.
MCDisks ==
  LET nodes ==
        {Always @@ (InTests :> Dir(TRUE, r)) @@ Entries(sub, s) :
           r \in BOOLEAN, s \in BOOLEAN,
           sub \in {Dir(TRUE, TRUE), Dir(FALSE, TRUE), Dir(TRUE, FALSE),
                    LinkTo(<<"w">>)}}
        \cup
        {Always @@ (InTests :> LinkTo(<<"w", "sub">>))
           @@ (<<"w", "sub">> :> Dir(TRUE, TRUE))
           @@ (<<"w", "sub", "test_a.py">> :> File(TRUE, 0, <<Test(1, 0, FALSE)>>)),
         Always @@ (InTests :> File(TRUE, 0, <<>>)),
         Always}
  IN  {[node |-> n, venvs |-> v, uv |-> u] :
         n \in nodes, u \in BOOLEAN,
         v \in {{}, {<<"w">>}, {<<"w", "p">>, <<"w">>, <<"w", "l">>}}}

Abs(l) == [abs |-> TRUE, parts |-> l]
Rel(l) == [abs |-> FALSE, parts |-> l]

\* The project from itself, from above, through a link and absolutely, with and
\* without --tests-dir; one of its files; the project as a member.
MCCalls ==
  LET of(unit, cwd, path, override, where) ==
        [unit |-> unit, cwd |-> cwd, path |-> path, tests_dir |-> override,
         root |-> <<"w">>, member_cwd |-> where]
  IN  {of("project", c[1], c[2], d, "root") :
         c \in {<<<<"w", "p">>, Rel(<<".">>)>>, <<<<"w">>, Rel(<<"p">>)>>,
                <<<<"w">>, Rel(<<"l">>)>>, <<<<>>, Abs(<<"w", "l">>)>>},
         d \in {NoPath, Rel(<<"tests">>), Rel(<<".", "tests">>),
                Rel(<<"p", "tests">>), Abs(<<"w", "l", "tests">>)}}
      \cup
      {of("file", c[1], c[2], NoPath, "root") :
         c \in {<<<<"w", "p">>, Rel(<<"tests", "test_a.py">>)>>,
                <<<<"w">>, Abs(<<"w", "l", "tests", "helper.py">>)>>}}
      \cup
      {of("member", <<"w">>, Abs(<<"w", "p">>), NoPath, where) :
         where \in {"root", "member"}}
===============================================================================
