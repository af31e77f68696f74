---------------------------- MODULE MCPytestOutput ----------------------------
(***************************************************************************)
(* Three tests; a failing test or a conftest file prints one line that reads  *)
(* as a row of the durations, as a run time, as the header of the durations, *)
(* as a count, as a node id, or as a rule of equals signs.                   *)
(***************************************************************************)
EXTENDS PytestOutput

MCItems == 1..3
MCDurations == {0, 2}
MCRuntimes == {1}
MCMaxRows == 3
MCCap == 2
MCMaxChatter == 1

MCChatter == {
  Plain(<<Seconds(9), W("call"), NodeId(1)>>),
  Plain(<<W("slept"), W("in"), Seconds(9)>>),
  Plain(<<W("the"), W("slowest"), W("durations")>>),
  Plain(<<Number(9), W("tests")>>),
  [indented |-> TRUE, words |-> <<W("see"), NodeId(1)>>],
  Plain(<<W("see"), NodeId(2)>>),
  Plain(<<W("=")>>)}
===============================================================================
