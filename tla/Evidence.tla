------------------------------- MODULE Evidence -------------------------------
(***************************************************************************)
(* What the scanner knows about one test function and about one file, and  *)
(* the pure rules that turn those counts into smells (src/smells.rs),      *)
(* signals (src/accept.rs) and suspicion scores (src/suspicion.rs).        *)
(*                                                                         *)
(* Scores are fixed point: one unit is 1/30000, so that every weight,      *)
(* every patch step (w_patch_count / 5) and every smell step               *)
(* (w_smell_density / 3) is a whole number.  The setup ratio is its floor, *)
(* which decides ">= 8" exactly; the logistic curve is the CONSTANT        *)
(* SetupTerm, of which only the shape is assumed.                          *)
(***************************************************************************)
EXTENDS Smells

CONSTANTS
  NodeIds,        \* nodeids in string order: the order breaks score ties
  Files,          \* paths of the files that parsed, in string order
  Fingerprints,   \* content fingerprints, equal iff the normalised text is
  NoFingerprint,  \* the absent fingerprint (JSON null, TOML key omitted)
  MaxRatio,       \* bound on setup_to_assertion_ratio
  SetupTerm       \* w_setup_ratio * sigmoid((r - 8) / 4), in score units

ASSUME NamesAreOrdered ==
  NodeIds \subseteq Nat /\ Files \subseteq Nat /\ IsFiniteSet(Files)

ASSUME NoFingerprintIsNotOne == NoFingerprint \notin Fingerprints

SetupWeight == 4500      \* w_setup_ratio, 0.15

\* The logistic term grows with the ratio and stays below its weight.
ASSUME SetupTermShape ==
  /\ MaxRatio \in Nat
  /\ SetupTerm \in [0..MaxRatio -> 0..SetupWeight]
  /\ \A r \in 0..MaxRatio, q \in 0..MaxRatio :
        r < q => SetupTerm[r] =< SetupTerm[q]

HighSetupRatio == 8      \* SETUP_RATIO_INFLECTION, and HIGH_SETUP_RATIO

Signals == SmellCategories \cup {"zero_asserts", "high_setup_ratio"}

\* The fields of a TestRecord that scoring and acceptance read, before either.
TestRecord ==
  [nodeid : NodeIds, file : Files,
   assertion_count : Nat, external_verification_count : Nat,
   only_asserts_on_mock : BOOLEAN,
   patch_decorator_count : Nat, stubs_count : Nat,
   setup_to_assertion_ratio : 0..MaxRatio,
   fingerprint : Fingerprints \cup {NoFingerprint}]

-------------------------------------------------------------------------------
(* Smells *)

derive_test_smells(t) ==
  {c \in SmellCategories :
     \/ /\ c = "mock_only_assertions"
        /\ t.only_asserts_on_mock
        /\ t.assertion_count > 0
     \/ /\ c = "mock_overuse"
        /\ mock_overuse_fires(t.patch_decorator_count + t.stubs_count,
                              t.assertion_count)}

-------------------------------------------------------------------------------
(* Signals: what an acceptance can name *)

verifies_nothing(t) ==
  t.assertion_count = 0 /\ t.external_verification_count = 0

active_signals(t) ==
  {s \in Signals :
     \/ s \in derive_test_smells(t)
     \/ s = "zero_asserts" /\ verifies_nothing(t)
     \/ s = "high_setup_ratio" /\ t.setup_to_assertion_ratio >= HighSetupRatio}

-------------------------------------------------------------------------------
(* Suspicion *)

Weight(flag, w) == IF flag THEN w ELSE 0

score_test(t) ==
  Weight(t.only_asserts_on_mock, 10500)
  + 1200 * Min({t.patch_decorator_count, 5})
  + SetupTerm[t.setup_to_assertion_ratio]
  + Weight(verifies_nothing(t), 6000)
  + 1000 * Min({Cardinality(derive_test_smells(t)), 3})

\* The mean of the scores of `members`, plus 0.05 per mock construction per
\* assertion beyond the first, capped at 0.1.
score_file(members, score, mocks, asserts) ==
  IF members = {} THEN 0
  ELSE LET denom == Max({asserts, 1})
           excess == Max({mocks, denom}) - denom
       IN  Total(score, members) \div Cardinality(members)
           + Min({(1500 * excess) \div denom, 3000})

-------------------------------------------------------------------------------
(* Ranking: score descending, name ascending, the first n *)

Outranks(i, j, score, name) ==
  score[i] > score[j] \/ (score[i] = score[j] /\ name[i] < name[j])

\* `ranked` is what the sort followed by take(n) returns for the items of C.
\* Two items that tie on both keys may come in either order; their names, all
\* that is reported, are then the same.
IsTopN(ranked, C, n, score, name) ==
  /\ Len(ranked) = Min({n, Cardinality(C)})
  /\ \A a \in DOMAIN ranked, b \in DOMAIN ranked :
       a < b => /\ ranked[a] # ranked[b]
                /\ ~Outranks(ranked[b], ranked[a], score, name)
  /\ \A c \in C : (\A a \in DOMAIN ranked : ranked[a] # c)
       => \A a \in DOMAIN ranked : ~Outranks(c, ranked[a], score, name)
===============================================================================
