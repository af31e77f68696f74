-------------------------------- MODULE Lists --------------------------------
(***************************************************************************)
(* What several components do with lists: add up numbers, and sort.         *)
(***************************************************************************)
EXTENDS Naturals, Sequences, FiniteSets, FiniteSetsExt

\* The sum of the numbers f has for the members of S.
Total(f, S) == MapThenSumSet(LAMBDA i : f[i], S)

\* R holds the pairs of positions whose elements belong in that order.  A stable
\* sort leaves the others as they stand.
Sooner(R, i, j) == <<i, j>> \in R \/ (<<j, i>> \notin R /\ i < j)

StablySorted(s, R) ==
  [k \in DOMAIN s |->
     s[CHOOSE i \in DOMAIN s :
         Cardinality({j \in DOMAIN s : Sooner(R, j, i)}) = k - 1]]
===============================================================================
