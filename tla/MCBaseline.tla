------------------------------ MODULE MCBaseline ------------------------------
(***************************************************************************)
(* A small instance of Baseline for TLC.                                   *)
(***************************************************************************)
EXTENDS Baseline, TLC

CONSTANTS empty, spaces, a, aPadded, b, zero, zeroPadded, ratio, typo, why,
          one, two

MCText == {empty, spaces, a, aPadded, b, zero, zeroPadded, ratio, typo, why,
           one, two}

MCTrim ==
  [t \in MCText |->
     CASE t = spaces -> empty [] t = aPadded -> a [] t = zeroPadded -> zero
       [] OTHER -> t]

Block(test, reason, signal, signals) ==
  [test |-> test, reason |-> reason, fingerprint |-> Absent,
   signal |-> signal, signals |-> signals]

\* Blocks that stand on their own, and one for each way to be rejected.
MCBlocks ==
  { Block(a, why, zero, Absent),
    Block(aPadded, why, Absent, <<zeroPadded>>),
    Block(a, why, Absent, <<ratio, zero>>),
    Block(b, why, Absent, <<zero, zero>>),
    Block(b, why, ratio, Absent),
    Block(b, why, Absent, <<ratio, typo>>),
    Block(spaces, why, zero, Absent),
    Block(a, Absent, zero, Absent),
    Block(a, empty, zero, Absent),
    Block(b, why, zero, <<ratio>>),
    Block(b, why, Absent, <<>>),
    Block(b, why, Absent, Absent) }

MCSignals == {zero, ratio}

\* Every order of up to two blocks under the current version; the others once.
MCDocuments ==
  [version : {one}, accept : UNION {[1..n -> MCBlocks] : n \in 0..2}]
  \cup [version : {two, Absent}, accept : {<<>>}]

\* Every document alone at one of the places, the others empty or broken.
MCDisks ==
  LET few == {NoFile, [kind |-> "garbled"],
              [kind |-> "document", doc |-> [version |-> one, accept |-> <<>>]]}
      any == {NoFile, [kind |-> "unreadable"], [kind |-> "garbled"]}
             \cup [kind : {"document"}, doc : MCDocuments]
  IN  {[d EXCEPT ![p] = f] : d \in [0..2 -> few], p \in 0..2, f \in any}
===============================================================================
