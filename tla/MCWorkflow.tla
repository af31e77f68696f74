------------------------------ MODULE MCWorkflow ------------------------------
(***************************************************************************)
(* Two runs over a project, a file, or a workspace of up to two members.     *)
(***************************************************************************)
EXTENDS Workflow

\* One unit for each way the static pass may go, one without a package, and
\* two whose tests directory goes or comes between the two looks.
MCUnitSpace ==
  { [baseline |-> "none", tests |-> "ok", there |-> TRUE, package |-> TRUE],
    [baseline |-> "good", tests |-> "ok", there |-> TRUE, package |-> FALSE],
    [baseline |-> "good", tests |-> "missing", there |-> FALSE, package |-> TRUE],
    [baseline |-> "bad", tests |-> "ok", there |-> TRUE, package |-> TRUE],
    [baseline |-> "none", tests |-> "fails", there |-> TRUE, package |-> TRUE],
    [baseline |-> "none", tests |-> "ok", there |-> FALSE, package |-> TRUE],
    [baseline |-> "none", tests |-> "missing", there |-> TRUE, package |-> FALSE] }

Usual ==
  [static_only |-> FALSE, no_coverage |-> FALSE, tests_dir |-> FALSE,
   project_package |-> FALSE, accept_file |-> FALSE, python |-> FALSE,
   json |-> TRUE, encodable |-> TRUE, output |-> TRUE]

\* The run of the guide, static or not, with one thing changed or none.
MCOptionSpace ==
  LET more == {Usual, [Usual EXCEPT !.no_coverage = TRUE, !.python = TRUE],
               [Usual EXCEPT !.tests_dir = TRUE],
               [Usual EXCEPT !.project_package = TRUE],
               [Usual EXCEPT !.accept_file = TRUE],
               [Usual EXCEPT !.json = FALSE, !.encodable = FALSE],
               [Usual EXCEPT !.encodable = FALSE],
               [Usual EXCEPT !.output = FALSE]}
  IN  {[o EXCEPT !.static_only = s] : o \in more, s \in BOOLEAN}

\* Nothing, or a file of another tool, which may say what schema it has.
MCFiles ==
  { [of |-> "none", whole |-> TRUE, names_schema |-> FALSE],
    [of |-> "text", whole |-> TRUE, names_schema |-> TRUE],
    [of |-> "json", whole |-> TRUE, names_schema |-> FALSE],
    [of |-> "json", whole |-> TRUE, names_schema |-> TRUE] }
===============================================================================
