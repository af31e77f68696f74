------------------------------ MODULE Workspace ------------------------------
(***************************************************************************)
(* Which members a uv workspace has: detect, expand_pattern,               *)
(* expand_star_pattern and validate_member_under_root of src/workspace.rs. *)
(* A pattern is the sequence of its `/`-separated segments.  The listing   *)
(* of a directory arrives one entry at a time, in any order the file       *)
(* system likes.                                                           *)
(***************************************************************************)
EXTENDS Naturals, Sequences, SequencesExt, FiniteSets

CONSTANTS
  Places,     \* canonical paths, in path order
  Inside,     \* those under the workspace root, the root among them
  Dirs,       \* those that are directories
  Names,      \* path segments without a glob character
  Globs,      \* segments with **, ? or [, or with a * beside other characters
  Star,       \* the segment "*"
  Patterns,   \* what `members` may list
  MaxPatterns, \* bound on the patterns of one workspace
  Trees       \* file trees: where each path leads, see Tree

Path == Seq(Names)

\* canon: where canonicalize() leads, for the paths it does not fail on.
\* listing: the paths read_dir() gives for a prefix it does not fail on.
\* torn: the prefixes where reading the listing fails halfway.
IsTree(t) ==
  /\ DOMAIN t.canon \subseteq Path
  /\ \A p \in DOMAIN t.canon : t.canon[p] \in Places
  /\ DOMAIN t.listing \subseteq Path
  /\ \A p \in DOMAIN t.listing : t.listing[p] \subseteq Path
                                  /\ IsFiniteSet(t.listing[p])
  /\ t.torn \subseteq DOMAIN t.listing

ASSUME PlacesAssumption ==
  Places \subseteq Nat /\ Inside \subseteq Places /\ Dirs \subseteq Places

ASSUME SegmentsAssumption ==
  /\ Star \notin Names /\ Star \notin Globs
  /\ Names \cap Globs = {}
  /\ Patterns \subseteq Seq(Names \cup Globs \cup {Star})

ASSUME TreesAssumption == \A t \in Trees : IsTree(t)

ASSUME BoundAssumption == MaxPatterns \in Nat

VARIABLES
  tree,       \* the file tree
  pyproject,  \* does pyproject.toml declare a workspace, does it deserialize
  patterns,   \* [tool.uv.workspace].members, empty when the key is missing
  pc,         \* the step to run next, or how detection ended
  at,         \* the pattern at hand
  left,       \* the entries read_dir() has still to give
  found,      \* the places the pattern has expanded to
  members     \* the members so far

inputs == <<tree, pyproject, patterns>>
vars == <<inputs, pc, at, left, found, members>>

Pattern == patterns[at]

\* reject_unsupported_glob: the only glob is a last segment that is a star.
Unsupported(p) ==
  \E k \in DOMAIN p : p[k] \in Globs \/ (p[k] = Star /\ k < Len(p))

EndsInStar(p) == p # <<>> /\ p[Len(p)] = Star

-------------------------------------------------------------------------------

Init ==
  /\ tree \in Trees
  /\ pyproject \in [declares : BOOLEAN, parses : BOOLEAN]
  /\ patterns \in UNION {[1..n -> Patterns] :
                          n \in 0..(IF pyproject.declares THEN MaxPatterns ELSE 0)}
  /\ pc = "read"
  /\ at = 1
  /\ left = {}
  /\ found = <<>>
  /\ members = <<>>

\* read_pyproject_silent folds every failure into "nothing declared".
NoWorkspace ==
  /\ pc = "read"
  /\ ~(pyproject.declares /\ pyproject.parses)
  /\ pc' = "none"
  /\ UNCHANGED <<inputs, at, left, found, members>>

ReadMembers ==
  /\ pc = "read"
  /\ pyproject.declares /\ pyproject.parses
  /\ pc' = "pattern"
  /\ UNCHANGED <<inputs, at, left, found, members>>

Fail ==
  /\ pc' = "error"
  /\ UNCHANGED <<inputs, at, left, found, members>>

AtPattern == pc = "pattern" /\ at =< Len(patterns)

Reject == AtPattern /\ Unsupported(Pattern) /\ Fail

Expanded(places) ==
  /\ found' = places
  /\ pc' = "merge"
  /\ UNCHANGED <<inputs, at, left, members>>

AtExact == AtPattern /\ ~Unsupported(Pattern) /\ ~EndsInStar(Pattern)

\* A path that leads nowhere is skipped.  Where it leads is checked against the
\* root first, and for being a directory after that.
ExactMissing == AtExact /\ Pattern \notin DOMAIN tree.canon /\ Expanded(<<>>)

ExactEscapes ==
  /\ AtExact
  /\ Pattern \in DOMAIN tree.canon
  /\ tree.canon[Pattern] \notin Inside
  /\ Fail

\* A slip: the directory test comes first, and passes over a file outside.
ExactDirFirst ==
  /\ AtExact
  /\ Pattern \in DOMAIN tree.canon
  /\ LET place == tree.canon[Pattern]
     IN  /\ place \in Inside \/ place \notin Dirs
         /\ Expanded(IF place \in Dirs THEN <<place>> ELSE <<>>)

Exact ==
  /\ AtExact
  /\ Pattern \in DOMAIN tree.canon
  /\ LET place == tree.canon[Pattern]
     IN  /\ place \in Inside
         /\ Expanded(IF place \in Dirs THEN <<place>> ELSE <<>>)

AtStar == AtPattern /\ ~Unsupported(Pattern) /\ EndsInStar(Pattern)

Unlisted == AtStar /\ Front(Pattern) \notin DOMAIN tree.listing /\ Expanded(<<>>)

List ==
  /\ AtStar
  /\ Front(Pattern) \in DOMAIN tree.listing
  /\ left' = tree.listing[Front(Pattern)]
  /\ found' = <<>>
  /\ pc' = "entry"
  /\ UNCHANGED <<inputs, at, members>>

-------------------------------------------------------------------------------
(* One entry of the listing *)

TakeEntry(p) ==
  /\ pc = "entry"
  /\ p \in left
  /\ left' = left \ {p}

LeadsToDir(p) == p \in DOMAIN tree.canon /\ tree.canon[p] \in Dirs

SkipEntry ==
  \E p \in left : /\ TakeEntry(p)
                  /\ ~LeadsToDir(p)
                  /\ UNCHANGED <<inputs, pc, at, found, members>>

\* A slip: entries of a listing are taken to be under the root.
KeepAnyEntry ==
  \E p \in left : /\ TakeEntry(p)
                  /\ LeadsToDir(p)
                  /\ found' = Append(found, tree.canon[p])
                  /\ UNCHANGED <<inputs, pc, at, members>>

KeepEntry ==
  \E p \in left : /\ TakeEntry(p)
                  /\ LeadsToDir(p)
                  /\ tree.canon[p] \in Inside
                  /\ found' = Append(found, tree.canon[p])
                  /\ UNCHANGED <<inputs, pc, at, members>>

\* A directory outside the root, by a symbolic link.
EntryEscapes ==
  \E p \in left : /\ pc = "entry"
                  /\ LeadsToDir(p)
                  /\ tree.canon[p] \notin Inside
                  /\ Fail

Torn == Front(Pattern) \in tree.torn

EntryUnreadable == pc = "entry" /\ Torn /\ Fail

\* t is s in path order.
InPathOrder(s, t) ==
  /\ \E p \in [DOMAIN s -> DOMAIN s] :
       /\ \A a \in DOMAIN s, b \in DOMAIN s : p[a] = p[b] => a = b
       /\ \A a \in DOMAIN s : t[a] = s[p[a]]
  /\ \A a \in DOMAIN s, b \in DOMAIN s : a < b => t[a] =< t[b]

\* A slip: the order of the file system is left as it is.
ListedUnsorted ==
  /\ pc = "entry"
  /\ left = {} /\ ~Torn
  /\ pc' = "merge"
  /\ UNCHANGED <<inputs, at, left, found, members>>

\* out.sort()
Listed ==
  /\ pc = "entry"
  /\ left = {} /\ ~Torn
  /\ \E t \in [DOMAIN found -> Places] : InPathOrder(found, t) /\ found' = t
  /\ pc' = "merge"
  /\ UNCHANGED <<inputs, at, left, members>>

-------------------------------------------------------------------------------

\* A slip: neighbours only are compared, which leaves repetitions between
\* patterns.
MergeUnlessLast ==
  /\ pc = "merge"
  /\ found # <<>>
  /\ members' = IF members # <<>> /\ Last(members) = Head(found)
                THEN members ELSE Append(members, Head(found))
  /\ found' = Tail(found)
  /\ UNCHANGED <<inputs, pc, at, left>>

\* The places of a pattern join the members, the first occurrence wins.
MergeNext ==
  /\ pc = "merge"
  /\ found # <<>>
  /\ members' = IF \E k \in DOMAIN members : members[k] = Head(found)
                THEN members ELSE Append(members, Head(found))
  /\ found' = Tail(found)
  /\ UNCHANGED <<inputs, pc, at, left>>

NextPattern ==
  /\ pc = "merge"
  /\ found = <<>>
  /\ at' = at + 1
  /\ pc' = "pattern"
  /\ UNCHANGED <<inputs, left, found, members>>

Detected ==
  /\ pc = "pattern"
  /\ at > Len(patterns)
  /\ pc' = "workspace"
  /\ UNCHANGED <<inputs, at, left, found, members>>

Outcomes == {"none", "workspace", "error"}

Done == pc \in Outcomes /\ UNCHANGED vars

Next ==
  \/ NoWorkspace \/ ReadMembers \/ Reject
  \/ ExactMissing \/ ExactEscapes \/ Exact
  \/ Unlisted \/ List \/ SkipEntry \/ KeepEntry \/ EntryEscapes
  \/ EntryUnreadable \/ Listed
  \/ MergeNext \/ NextPattern \/ Detected
  \/ Done

Spec == Init /\ [][Next]_vars

-------------------------------------------------------------------------------
(* Properties *)

\* Nothing outside the workspace root, and nothing that is not a directory, is
\* ever taken for a member, whatever the links lead to: everything that follows
\* relies on it.  And the types of the rest.
TypeOK ==
  /\ IsTree(tree)
  /\ patterns \in Seq(Patterns)
  /\ pc \in {"read", "pattern", "entry", "merge"} \cup Outcomes
  /\ at \in 1..Len(patterns) + 1
  /\ left \subseteq Path
  /\ found \in Seq(Inside \cap Dirs)
  /\ members \in Seq(Inside \cap Dirs)

\* No member is audited twice, however many patterns and links lead to it.
NoMemberTwice ==
  \A a \in DOMAIN members, b \in DOMAIN members :
    members[a] = members[b] => a = b

\* The directories a pattern leads to.
Leads(p) ==
  LET paths == IF EndsInStar(p)
               THEN IF Front(p) \in DOMAIN tree.listing
                    THEN tree.listing[Front(p)] ELSE {}
               ELSE {p}
  IN  {tree.canon[q] : q \in paths \cap DOMAIN tree.canon} \cap Dirs

\* Pattern k is the first that leads to place m.
LeadsFirst(k, m) ==
  /\ m \in Leads(patterns[k])
  /\ \A j \in 1..(k - 1) : m \notin Leads(patterns[j])

\* The members are the directories the patterns lead to, those of an earlier
\* pattern first and those of one pattern in path order: the report does not
\* depend on the order in which the file system lists a directory.
MembersAreDetermined ==
  pc = "workspace" =>
    /\ Range(members) = UNION {Leads(patterns[k]) : k \in DOMAIN patterns}
    /\ \A a \in DOMAIN members, b \in DOMAIN members : a < b =>
         \E j \in DOMAIN patterns, k \in DOMAIN patterns :
           /\ LeadsFirst(j, members[a]) /\ LeadsFirst(k, members[b])
           /\ j < k \/ (j = k /\ members[a] < members[b])

\* A pattern that detection has to refuse.  A file outside the root counts when
\* it is named, not when a star lists it.
Bad(p) ==
  \/ Unsupported(p)
  \/ Leads(p) \ Inside # {}
  \/ ~EndsInStar(p) /\ p \in DOMAIN tree.canon /\ tree.canon[p] \notin Inside
  \/ EndsInStar(p) /\ Front(p) \in tree.torn

\* "Patterns that escape the workspace root, however, are a hard error"
\* (expand_pattern), as are unsupported globs and a listing that cannot be read
\* to its end; nothing else is one.
FailsIffAPatternIsBad ==
  /\ pc = "error" => \E k \in DOMAIN patterns : Bad(patterns[k])
  /\ pc = "workspace" => \A k \in DOMAIN patterns : ~Bad(patterns[k])
===============================================================================
