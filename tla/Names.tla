--------------------------------- MODULE Names ---------------------------------
(***************************************************************************)
(* Dotted names of Python as sequences of their segments, and what a file  *)
(* means by one (src/sut_calls.rs).                                        *)
(***************************************************************************)
EXTENDS Sequences, SequencesExt

AtOrUnder(name, prefix) == IsPrefix(prefix, name)

\* canonicalize_called_name.  `import a.b` binds a to a.b, and what starts with a
\* is then as it should be.
Canonical(raw, aliases) ==
  IF Head(raw) \notin DOMAIN aliases THEN raw
  ELSE LET target == aliases[Head(raw)]
       IN  IF Len(raw) > 1 /\ AtOrUnder(target, <<Head(raw)>>) THEN raw
           ELSE target \o Tail(raw)
===============================================================================
