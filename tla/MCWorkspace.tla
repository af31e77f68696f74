---------------------------- MODULE MCWorkspace ----------------------------
(***************************************************************************)
(* A small instance of Workspace for TLC.                                  *)
(***************************************************************************)
EXTENDS Workspace

CONSTANTS pkgs, one, two, note, recursive

\* 1: the root; 2: pkgs; 3 and 4: directories in it; 5: a file in it; 6: a
\* directory and 7: a file outside.
MCPlaces == 1..7
MCInside == 1..5
MCDirs == {1, 2, 3, 4, 6}
MCNames == {pkgs, one, two, note}
MCGlobs == {recursive}

\* <<>> is the pattern ".", the root itself.
MCPatterns ==
  { <<>>, <<pkgs, Star>>, <<pkgs, one>>, <<pkgs, two>>, <<pkgs, note>>,
    <<note>>, <<Star>>, <<note, Star>>, <<Star, pkgs>>, <<pkgs, recursive>> }

\* The three entries of pkgs, and an entry of the root, may lead anywhere.
MCTrees ==
  LET canon == {(<<>> :> 1) @@ (<<pkgs>> :> 2) @@ (<<pkgs, one>> :> a)
                  @@ (<<pkgs, two>> :> b) @@ (<<pkgs, note>> :> c) @@ extra :
                  a \in {3, 4, 6, 7}, b \in {3, 4}, c \in {3, 5},
                  extra \in {<<>>, <<note>> :> 5, <<note>> :> 7}}
  IN  {[canon |-> c, torn |-> t,
        listing |-> (<<>> :> {<<pkgs>>, <<note>>})
                    @@ (<<pkgs>> :> {<<pkgs, one>>, <<pkgs, two>>,
                                     <<pkgs, note>>})] :
        c \in canon, t \in {{}, {<<pkgs>>}}}
===============================================================================
