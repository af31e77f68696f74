------------------------------- MODULE Baseline -------------------------------
(***************************************************************************)
(* How a scan comes by its baseline: AcceptOptions::resolve and            *)
(* resolve_from_file, discover, load and parse of src/accept.rs.  One      *)
(* action per look at a directory, per block and per signal name, and one  *)
(* for every early return.  The result feeds Accept, which relies on       *)
(* NoRepeat.                                                               *)
(***************************************************************************)
EXTENDS Naturals, Sequences, SequencesExt

CONSTANTS
  Text,       \* the strings a baseline file may hold
  Trim,       \* str::trim
  Empty,      \* the empty string
  Absent,     \* a TOML key that is not there
  Current,    \* ACCEPT_SCHEMA_VERSION
  Signals,    \* the names Signal::parse knows
  Documents,  \* files that deserialize: [version, accept], accept the blocks
  Depth,      \* directories from the scanned one up to the root
  Disks       \* what the places a scan looks at may hold

Optional(S) == S \cup {Absent}

\* One [[accept]] block before validation.  `reviewed` is only passed on.
RawEntry ==
  [test : Optional(Text), reason : Optional(Text), fingerprint : Optional(Text),
   signal : Optional(Text), signals : Optional(Seq(Text))]

ASSUME TextAssumption ==
  /\ Trim \in [Text -> Text]
  /\ \A t \in Text : Trim[Trim[t]] = Trim[t]
  /\ Empty \in Text /\ Trim[Empty] = Empty
  /\ Absent \notin Text /\ Absent \notin Seq(Text)
  /\ Signals \subseteq Text \ {Empty}

ASSUME DocumentsAssumption ==
  \A d \in Documents : d \in [version : Optional(Text), accept : Seq(RawEntry)]

ASSUME DepthAssumption == Depth \in Nat \ {0}

\* Place 0 is the path given by --accept-file; 1..Depth are the default file
\* name in the scanned directory, in its parent, and so on.
Given == 0
Places == 0..Depth

\* "none": no regular file.  "unreadable": read_to_string fails, also because
\* the file went away after is_file().  "garbled": not TOML, or not of the
\* shape of RawBaseline, which denies unknown keys.
NoFile == [kind |-> "none"]
File == [kind : {"none", "unreadable", "garbled"}]
        \cup [kind : {"document"}, doc : Documents]

ASSUME DisksAssumption == Disks \subseteq [Places -> File]

VARIABLES
  disk,       \* what is at each place
  disabled,   \* --no-accept
  explicit,   \* --accept-file was given
  upwards,    \* single-file scan: look in every ancestor too
  pc,         \* the step to run next, or how the resolution ended
  place,      \* the path looked at, then loaded
  block,      \* the [[accept]] block at hand, 1-indexed as in the messages
  names,      \* its signal names still to be taken
  entries     \* the entries validated so far

inputs == <<disk, disabled, explicit, upwards>>
vars == <<inputs, pc, place, block, names, entries>>

Outcomes == {"nothing", "baseline", "error"}

Blocks == disk[place].doc.accept

\* required(): the key is there and not blank.
required(field) == field # Absent /\ Trim[field] # Empty

\* A slip: `signal` is taken and `signals` beside it ignored.
OneFormIgnoresSignals(b) ==
  \/ b.signal # Absent
  \/ b.signals # Absent /\ b.signals # <<>>

\* Exactly one of `signal` and a non-empty `signals`.
OneForm(b) ==
  \/ b.signal # Absent /\ b.signals = Absent
  \/ b.signal = Absent /\ b.signals # Absent /\ b.signals # <<>>

signal_names(b) ==
  IF b.signal # Absent THEN <<Trim[b.signal]>>
  ELSE [k \in DOMAIN b.signals |-> Trim[b.signals[k]]]

Entry(b, name) ==
  [test |-> Trim[b.test], signal |-> name, fingerprint |-> b.fingerprint]

-------------------------------------------------------------------------------

\* clap rejects --accept-file together with --no-accept.
Init ==
  /\ disk \in Disks
  /\ disabled \in BOOLEAN
  /\ explicit \in BOOLEAN
  /\ ~(disabled /\ explicit)
  /\ upwards \in BOOLEAN
  /\ pc = "resolve"
  /\ place = 1
  /\ block = 1
  /\ names = <<>>
  /\ entries = <<>>

Goto(step) ==
  /\ pc' = step
  /\ UNCHANGED <<inputs, place, block, names, entries>>

Disabled == pc = "resolve" /\ disabled /\ Goto("nothing")

ExplicitMissing ==
  /\ pc = "resolve" /\ ~disabled /\ explicit
  /\ disk[Given] = NoFile
  /\ Goto("error")

Explicit ==
  /\ pc = "resolve" /\ ~disabled /\ explicit
  /\ disk[Given] # NoFile
  /\ place' = Given
  /\ pc' = "load"
  /\ UNCHANGED <<inputs, block, names, entries>>

Searching == pc = "resolve" /\ ~disabled /\ ~explicit

Discovered == Searching /\ disk[place] # NoFile /\ Goto("load")

\* A slip: an ancestor's file that does not load is passed over.
LookAboveBroken ==
  /\ Searching /\ upwards
  /\ disk[place].kind # "document"
  /\ place < Depth
  /\ place' = place + 1
  /\ UNCHANGED <<inputs, pc, block, names, entries>>

\* find_map goes on to the next ancestor; a project scan looks in one place.
LookAbove ==
  /\ Searching /\ upwards
  /\ disk[place] = NoFile
  /\ place < Depth
  /\ place' = place + 1
  /\ UNCHANGED <<inputs, pc, block, names, entries>>

NotFound ==
  /\ Searching
  /\ disk[place] = NoFile
  /\ upwards => place = Depth
  /\ Goto("nothing")

-------------------------------------------------------------------------------

LoadFails ==
  /\ pc = "load"
  /\ \/ disk[place].kind \in {"unreadable", "garbled"}
     \/ disk[place].kind = "document" /\ disk[place].doc.version # Current
  /\ Goto("error")

Load ==
  /\ pc = "load"
  /\ disk[place].kind = "document"
  /\ disk[place].doc.version = Current
  /\ Goto("block")

Incomplete(b) == ~required(b.test) \/ ~required(b.reason) \/ ~OneForm(b)

TakeBlock ==
  /\ pc = "block"
  /\ block =< Len(Blocks)
  /\ ~Incomplete(Blocks[block])
  /\ names' = signal_names(Blocks[block])
  /\ pc' = "name"
  /\ UNCHANGED <<inputs, place, block, entries>>

\* A slip: the required keys of all blocks are checked before any name.
RejectAhead ==
  /\ pc = "block"
  /\ \E b \in block..Len(Blocks) : Incomplete(Blocks[b]) /\ block' = b
  /\ pc' = "error"
  /\ UNCHANGED <<inputs, place, names, entries>>

BlockRejected ==
  /\ pc = "block"
  /\ block =< Len(Blocks)
  /\ Incomplete(Blocks[block])
  /\ Goto("error")

\* A slip: only neighbours are compared, as dedup() on an unsorted list would.
SeenJustNow(e) ==
  /\ entries # <<>>
  /\ Last(entries).test = e.test /\ Last(entries).signal = e.signal

\* `seen` holds the pair of every entry made so far.
Seen(e) ==
  \E k \in DOMAIN entries :
     entries[k].test = e.test /\ entries[k].signal = e.signal

\* A slip: the name is not checked against the known signals.
TakeAnyName ==
  /\ pc = "name"
  /\ names # <<>>
  /\ ~Seen(Entry(Blocks[block], Head(names)))
  /\ entries' = Append(entries, Entry(Blocks[block], Head(names)))
  /\ names' = Tail(names)
  /\ UNCHANGED <<inputs, pc, place, block>>

TakeName ==
  /\ pc = "name"
  /\ names # <<>>
  /\ Head(names) \in Signals
  /\ ~Seen(Entry(Blocks[block], Head(names)))
  /\ entries' = Append(entries, Entry(Blocks[block], Head(names)))
  /\ names' = Tail(names)
  /\ UNCHANGED <<inputs, pc, place, block>>

NameRejected ==
  /\ pc = "name"
  /\ names # <<>>
  /\ \/ Head(names) \notin Signals
     \/ Seen(Entry(Blocks[block], Head(names)))
  /\ Goto("error")

NextBlock ==
  /\ pc = "name"
  /\ names = <<>>
  /\ block' = block + 1
  /\ pc' = "block"
  /\ UNCHANGED <<inputs, place, names, entries>>

Parsed ==
  /\ pc = "block"
  /\ block > Len(Blocks)
  /\ Goto("baseline")

Done == pc \in Outcomes /\ UNCHANGED vars

Next ==
  \/ Disabled \/ ExplicitMissing \/ Explicit
  \/ Discovered \/ LookAbove \/ NotFound
  \/ LoadFails \/ Load
  \/ TakeBlock \/ BlockRejected
  \/ TakeName \/ NameRejected
  \/ NextBlock \/ Parsed
  \/ Done

Spec == Init /\ [][Next]_vars

-------------------------------------------------------------------------------
(* Properties *)

TypeOK ==
  /\ disk \in [Places -> File]
  /\ disabled \in BOOLEAN /\ explicit \in BOOLEAN /\ upwards \in BOOLEAN
  /\ pc \in {"resolve", "load", "block", "name"} \cup Outcomes
  /\ place \in Places
  /\ pc \in {"block", "name", "baseline"} =>
       disk[place].kind = "document" /\ block \in 1..Len(Blocks) + 1
  /\ names \in Seq(Text)
  /\ entries \in Seq([test : Text, signal : Signals, fingerprint : Optional(Text)])

\* No test and signal are accepted twice, in one block or in two, however the
\* names are padded: what Accept and accepted_signals rely on (parse's `seen`).
NoRepeat ==
  \A j \in DOMAIN entries, k \in DOMAIN entries :
     j # k => \/ entries[j].test # entries[k].test
              \/ entries[j].signal # entries[k].signal

\* The entries a document stands for, block by block, in file order.
Stated(d) ==
  FlattenSeq([b \in DOMAIN d.accept |->
    LET raw == d.accept[b]
        listed == IF raw.signals = Absent THEN <<raw.signal>>
                  ELSE raw.signals
    IN  [k \in DOMAIN listed |->
           [test |-> Trim[raw.test], signal |-> Trim[listed[k]],
            fingerprint |-> raw.fingerprint]]])

\* What docs/guide/setup.md asks of one [[accept]] block.
BlockComplete(b) ==
  /\ \A v \in {b.test, b.reason} : v # Absent /\ Trim[v] # Empty
  /\ {b.signal, b.signals} \cap {Absent} # {}
  /\ {b.signal, b.signals} # {Absent}
  /\ b.signals # <<>>

\* And of the whole file, without any order of checking: known signals, one
\* entry per test and signal.
WellFormed(d) ==
  /\ d.version = Current
  /\ \A b \in DOMAIN d.accept : BlockComplete(d.accept[b])
  /\ \A j \in DOMAIN Stated(d), k \in DOMAIN Stated(d) :
       /\ Stated(d)[j].signal \in Signals
       /\ j # k => \/ Stated(d)[j].test # Stated(d)[k].test
                   \/ Stated(d)[j].signal # Stated(d)[k].signal

Chosen == IF explicit THEN disk[Given] ELSE disk[place]

\* A baseline is used iff its file is well formed, and then every block has
\* become its entries, in order, with none lost to a neighbour's fault: a file
\* is taken whole or not at all ("Every failure is hard", load).
TakenWholeOrNotAtAll ==
  /\ pc = "baseline" => /\ WellFormed(Chosen.doc)
                        /\ entries = Stated(Chosen.doc)
  /\ pc = "error" /\ Chosen.kind = "document" => ~WellFormed(Chosen.doc)

\* The file that decides is the explicit one, else the nearest: a broken
\* baseline is never passed over for one further up, and a scan goes without a
\* baseline only if told to, or if no file is within its reach.
NearestDecides ==
  LET reach == IF explicit THEN {Given} ELSE IF upwards THEN 1..Depth ELSE {1}
      there == {p \in reach : disk[p] # NoFile}
  IN  /\ pc = "nothing" => disabled \/ (there = {} /\ ~explicit)
      /\ pc \in {"baseline", "error"} =>
           /\ ~disabled
           /\ \/ place \in there /\ \A p \in there : place =< p
              \/ pc = "error" /\ explicit /\ there = {}

\* The block an error message numbers is the first one at fault: without it
\* and what follows the file is well formed, with it the file is not.
BlameIsTheFirstFault ==
  pc = "error" /\ Chosen.kind = "document" /\ Chosen.doc.version = Current =>
    LET upTo(n) == [Chosen.doc EXCEPT !.accept = SubSeq(@, 1, n)]
    IN  WellFormed(upTo(block - 1)) /\ ~WellFormed(upTo(block))
===============================================================================
